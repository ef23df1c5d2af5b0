--------------------------- MODULE ProcessExecProofs ---------------------------
(***************************************************************************)
(* Proofs about ProcessExec, for any number of commands and directories.   *)
(***************************************************************************)
EXTENDS ProcessExec, TLAPS

InCall == pc \in {"capture", "chdir", "start", "read", "restore"}

\* The one command whose call has not returned.
OneCall ==
    /\ InCall => cur \in Commands /\ status[cur] = "called"
    /\ \A c \in Commands : status[c] = "called" => pc = "gone" \/ (InCall /\ c = cur)

\* Where the process is, and where it will go back to.
KnowsItsWayHome ==
    /\ pc \in {"idle", "capture"} /\ Home \in exists => cwd = Home
    /\ pc \in {"chdir", "start", "read", "restore"} /\ Home \in exists => original = Home

\* The directory chosen for the current call, and that it is entered before
\* the command starts.
EntersTarget ==
    /\ InCall => \/ target = wanted[cur]
                 \/ target = Root /\ wanted[cur] \notin exists
    /\ pc = "start" => cwd = target

\* Nothing of a command has happened before its call reaches the start, and
\* what the call is about to report is what happened.
Untouched(c) == ranIn[c] = NoDir /\ thread[c] = "none"
TellsWhatHappened ==
    /\ \A c \in Commands : status[c] = "new" => Untouched(c)
    /\ pc \in {"capture", "chdir", "start"} => Untouched(cur)
    /\ pc \in {"idle", "capture", "chdir", "start"} => ~verdict
    /\ pc = "read" => ranIn[cur] # NoDir
    /\ pc = "restore" => IF verdict THEN ranIn[cur] # NoDir \/ thread[cur] = "started"
                                    ELSE Untouched(cur)
    /\ \A c \in Commands : thread[c] = "forked" => ranIn[c] # NoDir
    /\ \A c \in Commands : thread[c] # "none" => detached[c]

\* The inductive invariant.
Inv == /\ TypeOK
       /\ OneCall
       /\ KnowsItsWayHome
       /\ EntersTarget
       /\ TellsWhatHappened
       /\ CommandsRunWhereAsked
       /\ VerdictsAreTrue

\* The invariant holds when the host starts.
LEMMA InitInv == Init => Inv
<1> SUFFICES ASSUME Init PROVE Inv
  OBVIOUS
<1>1. TypeOK
  BY ExecAssumption DEF Init, TypeOK, Pcs
<1>2. OneCall /\ KnowsItsWayHome /\ EntersTarget
  BY DEF Init, OneCall, KnowsItsWayHome, EntersTarget, InCall
<1>3. TellsWhatHappened /\ CommandsRunWhereAsked /\ VerdictsAreTrue
  BY DEF Init, TellsWhatHappened, Untouched, CommandsRunWhereAsked, VerdictsAreTrue
<1> QED BY <1>1, <1>2, <1>3 DEF Inv

\* Every step preserves it; one step of the proof per action.
LEMMA StepInv == Inv /\ [Next]_vars => Inv'
<1> SUFFICES ASSUME Inv, [Next]_vars PROVE Inv'
  OBVIOUS
<1> USE ExecAssumption DEF Inv, TypeOK, Pcs, InCall, entry
<1>1. CASE \E c \in Commands : Call(c)
  <2> PICK c \in Commands : Call(c)
    BY <1>1
  <2> USE DEF Call, ResolveActionCwd
  <2>1. TypeOK' /\ OneCall' /\ KnowsItsWayHome' /\ EntersTarget'
    BY DEF OneCall, KnowsItsWayHome, EntersTarget, TellsWhatHappened
  <2>2. TellsWhatHappened' /\ CommandsRunWhereAsked' /\ VerdictsAreTrue'
    BY DEF OneCall, TellsWhatHappened, Untouched, CommandsRunWhereAsked, VerdictsAreTrue
  <2> QED BY <2>1, <2>2
<1>2. CASE CaptureCwd
  <2> USE <1>2 DEF CaptureCwd, Return
  <2>1. TypeOK' /\ OneCall' /\ KnowsItsWayHome' /\ EntersTarget'
    BY DEF OneCall, KnowsItsWayHome, EntersTarget
  <2>2. TellsWhatHappened' /\ CommandsRunWhereAsked' /\ VerdictsAreTrue'
    BY DEF OneCall, TellsWhatHappened, Untouched, CommandsRunWhereAsked, VerdictsAreTrue
  <2> QED BY <2>1, <2>2
<1>3. CASE EnterDirectory
  <2> USE <1>3 DEF EnterDirectory
  <2>1. TypeOK' /\ OneCall' /\ KnowsItsWayHome' /\ EntersTarget'
    BY DEF OneCall, KnowsItsWayHome, EntersTarget
  <2>2. TellsWhatHappened' /\ CommandsRunWhereAsked' /\ VerdictsAreTrue'
    BY DEF OneCall, TellsWhatHappened, Untouched, CommandsRunWhereAsked, VerdictsAreTrue
  <2> QED BY <2>1, <2>2
<1>4. CASE StartThread
  <2> USE <1>4 DEF StartThread
  <2>1. TypeOK' /\ OneCall' /\ KnowsItsWayHome' /\ EntersTarget'
    BY DEF OneCall, KnowsItsWayHome, EntersTarget
  <2>2. TellsWhatHappened' /\ CommandsRunWhereAsked' /\ VerdictsAreTrue'
    BY DEF OneCall, TellsWhatHappened, Untouched, CommandsRunWhereAsked, VerdictsAreTrue
  <2> QED BY <2>1, <2>2
<1>5. CASE OpenPipe
  <2> USE <1>5 DEF OpenPipe
  <2>1. TypeOK' /\ OneCall' /\ KnowsItsWayHome' /\ EntersTarget'
    BY DEF OneCall, KnowsItsWayHome, EntersTarget
  <2>2. TellsWhatHappened' /\ CommandsRunWhereAsked' /\ VerdictsAreTrue'
    BY DEF OneCall, EntersTarget, TellsWhatHappened, Untouched, CommandsRunWhereAsked, VerdictsAreTrue
  <2> QED BY <2>1, <2>2
<1>6. CASE ReadOutput
  <2> USE <1>6 DEF ReadOutput
  <2>1. TypeOK' /\ OneCall' /\ KnowsItsWayHome' /\ EntersTarget'
    BY DEF OneCall, KnowsItsWayHome, EntersTarget
  <2>2. TellsWhatHappened' /\ CommandsRunWhereAsked' /\ VerdictsAreTrue'
    BY DEF OneCall, TellsWhatHappened, Untouched, CommandsRunWhereAsked, VerdictsAreTrue
  <2> QED BY <2>1, <2>2
<1>7. CASE RestoreCwd
  <2> USE <1>7 DEF RestoreCwd, Return
  <2>1. TypeOK' /\ OneCall' /\ KnowsItsWayHome' /\ EntersTarget'
    BY DEF OneCall, KnowsItsWayHome, EntersTarget
  <2>2. TellsWhatHappened' /\ CommandsRunWhereAsked' /\ VerdictsAreTrue'
    BY DEF OneCall, TellsWhatHappened, Untouched, CommandsRunWhereAsked, VerdictsAreTrue
  <2> QED BY <2>1, <2>2
<1>8. CASE \E c \in Commands : ThreadForks(c)
  <2> PICK c \in Commands : ThreadForks(c)
    BY <1>8
  <2> USE DEF ThreadForks, call
  <2>1. TypeOK' /\ OneCall' /\ KnowsItsWayHome' /\ EntersTarget'
    BY DEF OneCall, KnowsItsWayHome, EntersTarget
  <2>2. TellsWhatHappened' /\ CommandsRunWhereAsked' /\ VerdictsAreTrue'
    BY DEF OneCall, TellsWhatHappened, Untouched, CommandsRunWhereAsked, VerdictsAreTrue
  <2> QED BY <2>1, <2>2
<1>9. CASE \E d \in Dirs : RemoveDirectory(d)
  BY <1>9 DEF RemoveDirectory, call, OneCall, KnowsItsWayHome, EntersTarget,
              TellsWhatHappened, Untouched, CommandsRunWhereAsked, VerdictsAreTrue
<1>10. CASE HostExits
  BY <1>10 DEF HostExits, OneCall, KnowsItsWayHome, EntersTarget,
               TellsWhatHappened, Untouched, CommandsRunWhereAsked, VerdictsAreTrue
<1>11. CASE UNCHANGED vars
  BY <1>11 DEF vars, call, OneCall, KnowsItsWayHome, EntersTarget,
               TellsWhatHappened, Untouched, CommandsRunWhereAsked, VerdictsAreTrue
<1> QED
  BY <1>1, <1>2, <1>3, <1>4, <1>5, <1>6, <1>7, <1>8, <1>9, <1>10, <1>11
     DEF Next, HostStep

\* The inductive invariant holds in every reachable state.
THEOREM Invariance == Spec => []Inv
BY InitInv, StepInv, PTL DEF Spec

\* Every variable keeps its type.
THEOREM TypeCorrect == Spec => []TypeOK
<1>1. Inv => TypeOK
  BY DEF Inv
<1> QED BY <1>1, Invariance, PTL

\* A command that is waited for starts where its catalog entry says, or in the
\* repository when that directory is gone (RunShellProcess, ResolveActionCwd).
THEOREM CommandsAlwaysRunWhereAsked == Spec => []CommandsRunWhereAsked
<1>1. Inv => CommandsRunWhereAsked
  BY DEF Inv
<1> QED BY <1>1, Invariance, PTL

\* ~ScopedCwdRestore takes the host home after every call, failed ones included.
THEOREM HostAlwaysReturnsHome == Spec => []HostReturnsHome
<1>1. Inv => HostReturnsHome
  BY DEF Inv, KnowsItsWayHome, HostReturnsHome
<1> QED BY <1>1, Invariance, PTL

\* What RunShellProcess returns tells whether the command was run.
THEOREM VerdictsAlwaysTrue == Spec => []VerdictsAreTrue
<1>1. Inv => VerdictsAreTrue
  BY DEF Inv
<1> QED BY <1>1, Invariance, PTL
================================================================================
