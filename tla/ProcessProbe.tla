----------------------------- MODULE ProcessProbe ------------------------------
(***************************************************************************)
(* QueryProcessByName (src/src/platform/process_probe.cpp), POSIX branch:  *)
(* a host runs pgrep through the shell with its output in a file of the    *)
(* temp directory, reads that file and removes it.  The file is named by   *)
(* std::rand(), which nobody seeds: every host process draws the same      *)
(* numbers in the same order, so a name is its place in that order.        *)
(*                                                                         *)
(* A member of Hosts is one process gpi_host, from its start to its end.   *)
(* The shell it starts is a process of its own and survives it.            *)
(*                                                                         *)
(* A name goes to sh between double quotes, so that sh still expands what  *)
(* it expands there, and comes to pgrep -i -x as a regular expression that *)
(* the kernel's name of a process has to match as a whole, in any case.    *)
(* That name is the program's, cut to 15 characters.  What a name selects  *)
(* is therefore a relation of its own: no program, if it is longer than    *)
(* that or cannot be read, or several.  It is fixed: names with a command  *)
(* in them, which sh would run each time, are not covered.                 *)
(*                                                                         *)
(* Pids are written with equally many digits, so one list written over     *)
(* another leaves the longer one's tail.                                   *)
(***************************************************************************)
EXTENDS Integers, Sequences, FiniteSets, SequencesExt

CONSTANTS Hosts,        \* host processes
          Pids,         \* process ids
          Programs,     \* names of programs, as the kernel keeps them
          ProgramOf,    \* the program of each pid
          Names,        \* process names that status specs ask for
          Selects,      \* per name: the programs that pgrep matches with it
          Concurrent,   \* whether hosts run at the same time
          MaxDraws,     \* bound: queries of one host
          NoFile        \* no file

ASSUME PgrepAssumption ==
    /\ Pids \subseteq Nat /\ IsFiniteSet(Pids)
    /\ ProgramOf \in [Pids -> Programs]
    /\ Names # {} /\ Selects \in [Names -> SUBSET Programs]
    /\ Concurrent \in BOOLEAN
    /\ MaxDraws \in Nat \ {0}

Stamps == 1..MaxDraws
Files == Hosts \X Stamps        \* a shell creates at most one file

ASSUME FilesAssumption == NoFile \notin Files

VARIABLES
    pc,         \* where the host is
    asked,      \* the name it asks for
    draws,      \* numbers it has drawn
    output,     \* output_text
    report,     \* pids of the result
    rc,         \* exit code of the shell: "unset", "ok", "nothing", "failed"
    sh,         \* where the host's shell is
    saw,        \* pids pgrep saw
    opened,     \* file the shell writes to
    dir,        \* temp directory: the file of each name
    text,       \* pids in each file
    alive,      \* processes that run
    always,     \* pids that ran during the whole query
    ever        \* pids that ran at some time of the query

hostVars == <<pc, asked, draws, output, report>>
shellVars == <<rc, sh, saw, opened>>
vars == <<hostVars, shellVars, dir, text, alive, always, ever>>

Calling == {"name", "launch", "wait", "read", "remove"}
Running(h) == pc[h] \notin {"new", "dead", "killed"}
ShellDone(h) == sh[h] \in {"none", "exited"}

\* Which of the running processes `pgrep -i -x "<n>"` lists.
Matching(n, running) == {pid \in running : ProgramOf[pid] \in Selects[n]}

Init ==
    /\ pc = [h \in Hosts |-> "new"]
    /\ asked = [h \in Hosts |-> CHOOSE n \in Names : TRUE]
    /\ draws = [h \in Hosts |-> 0]
    /\ output = [h \in Hosts |-> <<>>]
    /\ report = [h \in Hosts |-> {}]
    /\ rc = [h \in Hosts |-> "unset"]
    /\ sh = [h \in Hosts |-> "none"]
    /\ saw = [h \in Hosts |-> {}]
    /\ opened = [h \in Hosts |-> NoFile]
    /\ dir = [n \in Stamps |-> NoFile]
    /\ text = [f \in Files |-> <<>>]
    /\ alive \in SUBSET Pids
    /\ always = [h \in Hosts |-> {}]
    /\ ever = [h \in Hosts |-> {}]

\* A host is started; one after the other unless hosts are concurrent.
StartHost(h) ==
    /\ pc[h] = "new"
    /\ Concurrent \/ \A g \in Hosts \ {h} : ~Running(g) /\ ShellDone(g)
    /\ pc' = [pc EXCEPT ![h] = "idle"]
    /\ UNCHANGED <<asked, draws, output, report, shellVars, dir, text, alive, always, ever>>

Query(h, n) ==
    /\ pc[h] = "idle" /\ draws[h] < MaxDraws
    /\ pc' = [pc EXCEPT ![h] = "name"]
    /\ asked' = [asked EXCEPT ![h] = n]
    /\ report' = [report EXCEPT ![h] = {}]
    /\ rc' = [rc EXCEPT ![h] = "unset"]
    /\ always' = [always EXCEPT ![h] = Matching(n, alive)]
    /\ ever' = [ever EXCEPT ![h] = Matching(n, alive)]
    /\ UNCHANGED <<draws, output, sh, saw, opened, dir, text, alive>>

\* There is no temp directory, or a name is drawn.
MakeName(h) ==
    /\ pc[h] = "name"
    /\ \/ pc' = [pc EXCEPT ![h] = "idle"] /\ UNCHANGED draws
       \/ /\ pc' = [pc EXCEPT ![h] = "launch"]
          /\ draws' = [draws EXCEPT ![h] = @ + 1]
    /\ UNCHANGED <<asked, output, report, shellVars, dir, text, alive, always, ever>>

\* std::system starts a shell, or returns -1.
Launch(h) ==
    /\ pc[h] = "launch"
    /\ \/ /\ pc' = [pc EXCEPT ![h] = "wait"]
          /\ sh' = [sh EXCEPT ![h] = "open"]
          /\ UNCHANGED rc
       \/ /\ pc' = [pc EXCEPT ![h] = "read"]
          /\ rc' = [rc EXCEPT ![h] = "failed"]
          /\ UNCHANGED sh
    /\ UNCHANGED <<asked, draws, output, report, saw, opened, dir, text, alive, always, ever>>

ShellExits(h, code) ==
    /\ sh' = [sh EXCEPT ![h] = "exited"]
    /\ rc' = [rc EXCEPT ![h] = code]
    /\ opened' = [opened EXCEPT ![h] = NoFile]
    /\ saw' = [saw EXCEPT ![h] = {}]

\* Every query uses one file name.
BugFixedName(h) ==
    /\ sh[h] = "open"
    /\ \/ LET f == IF dir[1] = NoFile THEN <<h, draws[h]>> ELSE dir[1]
          IN  /\ dir' = [dir EXCEPT ![1] = f]
              /\ text' = [text EXCEPT ![f] = <<>>]
              /\ opened' = [opened EXCEPT ![h] = f]
              /\ sh' = [sh EXCEPT ![h] = "look"]
              /\ UNCHANGED <<rc, saw>>
       \/ ShellExits(h, "failed") /\ UNCHANGED <<dir, text>>
    /\ UNCHANGED <<hostVars, alive, always, ever>>

\* "> file": the file is created, or emptied if it is there; or that fails,
\* and the command is not run.
ShellOpens(h) ==
    /\ sh[h] = "open"
    /\ \/ LET n == draws[h]
              f == IF dir[n] = NoFile THEN <<h, n>> ELSE dir[n]
          IN  /\ dir' = [dir EXCEPT ![n] = f]
              /\ text' = [text EXCEPT ![f] = <<>>]
              /\ opened' = [opened EXCEPT ![h] = f]
              /\ sh' = [sh EXCEPT ![h] = "look"]
              /\ UNCHANGED <<rc, saw>>
       \/ ShellExits(h, "failed") /\ UNCHANGED <<dir, text>>
    /\ UNCHANGED <<hostVars, alive, always, ever>>

\* pgrep looks at the processes, or fails.
PgrepLooks(h) ==
    /\ sh[h] = "look"
    /\ \/ /\ saw' = [saw EXCEPT ![h] = Matching(asked[h], alive)]
          /\ sh' = [sh EXCEPT ![h] = "print"]
          /\ UNCHANGED <<rc, opened>>
       \/ ShellExits(h, "failed")
    /\ UNCHANGED <<hostVars, dir, text, alive, always, ever>>

\* The lines that name these pids, each once, in the order pgrep finds them in.
Listings(pids) == {s \in [1..Cardinality(pids) -> pids] : ToSet(s) = pids}

\* The list goes to the start of the file, over what is there by now.
Overwritten(old, new) == new \o SubSeq(old, Len(new) + 1, Len(old))
PgrepPrints(h) ==
    /\ sh[h] = "print"
    /\ \E new \in Listings(saw[h]) :
         text' = [text EXCEPT ![opened[h]] = Overwritten(@, new)]
    /\ ShellExits(h, IF saw[h] = {} THEN "nothing" ELSE "ok")
    /\ UNCHANGED <<hostVars, dir, alive, always, ever>>

\* std::system returns when the shell has exited.
SystemReturns(h) ==
    /\ pc[h] = "wait" /\ sh[h] = "exited"
    /\ pc' = [pc EXCEPT ![h] = "read"]
    /\ UNCHANGED <<asked, draws, output, report, shellVars, dir, text, alive, always, ever>>

\* A file that is not there yet is waited for.
BugReadWaitsForFile(h) ==
    /\ pc[h] = "read" /\ dir[draws[h]] # NoFile
    /\ output' = [output EXCEPT ![h] = text[dir[draws[h]]]]
    /\ pc' = [pc EXCEPT ![h] = "remove"]
    /\ UNCHANGED <<asked, draws, report, shellVars, dir, text, alive, always, ever>>

\* ReadTextFile; a file that is not there leaves output_text empty.
ReadOutput(h) ==
    /\ pc[h] = "read"
    /\ output' = [output EXCEPT ![h] =
                    IF dir[draws[h]] = NoFile THEN <<>> ELSE text[dir[draws[h]]]]
    /\ pc' = [pc EXCEPT ![h] = "remove"]
    /\ UNCHANGED <<asked, draws, report, shellVars, dir, text, alive, always, ever>>

\* The exit code is not looked at.
BugExitCodeIgnored(h) == ToSet(output[h])

\* ProbeFromPgrep: the lines of the output, unless the exit code is not 0.
PidsFound(h) == IF rc[h] = "ok" THEN ToSet(output[h]) ELSE {}

\* The file is removed only when there is something to report.
BugRemoveOnSuccessOnly(h) ==
    /\ pc[h] = "remove"
    /\ dir' = [dir EXCEPT ![draws[h]] = IF rc[h] = "ok" THEN NoFile ELSE @]
    /\ report' = [report EXCEPT ![h] = PidsFound(h)]
    /\ output' = [output EXCEPT ![h] = <<>>]
    /\ pc' = [pc EXCEPT ![h] = "idle"]
    /\ UNCHANGED <<asked, draws, shellVars, text, alive, always, ever>>

\* The file is removed, and the query returns the pids.
RemoveOutput(h) ==
    /\ pc[h] = "remove"
    /\ dir' = [dir EXCEPT ![draws[h]] = NoFile]
    /\ report' = [report EXCEPT ![h] = PidsFound(h)]
    /\ output' = [output EXCEPT ![h] = <<>>]
    /\ pc' = [pc EXCEPT ![h] = "idle"]
    /\ UNCHANGED <<asked, draws, shellVars, text, alive, always, ever>>

\* The host ends or is killed; its shell goes on.
HostDies(h) ==
    /\ Running(h)
    /\ pc' = [pc EXCEPT ![h] = IF @ = "idle" THEN "dead" ELSE "killed"]
    /\ output' = [output EXCEPT ![h] = <<>>]
    /\ report' = [report EXCEPT ![h] = {}]
    /\ always' = [always EXCEPT ![h] = {}]
    /\ ever' = [ever EXCEPT ![h] = {}]
    /\ UNCHANGED <<asked, draws, shellVars, dir, text, alive>>

\* Processes start and end all the time.
ProcessesChange ==
    /\ \E pid \in Pids : alive' = IF pid \in alive THEN alive \ {pid} ELSE alive \cup {pid}
    /\ always' = [h \in Hosts |-> IF pc[h] \in Calling THEN always[h] \cap alive' ELSE always[h]]
    /\ ever' = [h \in Hosts |-> IF pc[h] \in Calling
                                THEN ever[h] \cup Matching(asked[h], alive') ELSE ever[h]]
    /\ UNCHANGED <<hostVars, shellVars, dir, text>>

HostStep(h) ==
    MakeName(h) \/ Launch(h) \/ SystemReturns(h) \/ ReadOutput(h) \/ RemoveOutput(h)

ShellStep(h) == ShellOpens(h) \/ PgrepLooks(h) \/ PgrepPrints(h)

Next ==
    \/ \E h \in Hosts : \/ StartHost(h) \/ HostStep(h) \/ ShellStep(h) \/ HostDies(h)
                        \/ \E n \in Names : Query(h, n)
    \/ ProcessesChange

Spec == Init /\ [][Next]_vars

\* The host's thread and its shell are scheduled, and pgrep ends.
FairSpec == Spec /\ \A h \in Hosts : WF_vars(HostStep(h)) /\ WF_vars(ShellStep(h))

-------------------------------------------------------------------------------
(* Properties.                                                             *)

\* Every variable has the type its comment says; a name holds files made under
\* that name only.
TypeOK ==
    /\ pc \in [Hosts -> {"new", "idle", "dead", "killed"} \cup Calling]
    /\ asked \in [Hosts -> Names]
    /\ draws \in [Hosts -> 0..MaxDraws]
    /\ output \in [Hosts -> Seq(Pids)]
    /\ report \in [Hosts -> SUBSET Pids]
    /\ rc \in [Hosts -> {"unset", "ok", "nothing", "failed"}]
    /\ sh \in [Hosts -> {"none", "open", "look", "print", "exited"}]
    /\ saw \in [Hosts -> SUBSET Pids]
    /\ opened \in [Hosts -> Files \cup {NoFile}]
    /\ dir \in [Stamps -> Files \cup {NoFile}]
    /\ \A n \in Stamps : dir[n] \in (Hosts \X {n}) \cup {NoFile}
    /\ text \in [Files -> Seq(Pids)]
    /\ \A f \in Files : Len(text[f]) <= Cardinality(Pids)
    /\ alive \in SUBSET Pids
    /\ always \in [Hosts -> SUBSET Pids]
    /\ ever \in [Hosts -> SUBSET Pids]

\* What a host reports is of its time: every pid it names is one that the name
\* selects and ran during the query, and unless the command failed every process
\* that the name selects and that ran through the query is named, whatever
\* earlier hosts left in the directory.  A process that the name of its program
\* does not select, for one that is too long, is no part of this.
ReportIsOfItsTime ==
    \A h \in Hosts : pc[h] = "idle" =>
        /\ report[h] \subseteq ever[h]
        /\ rc[h] \in {"ok", "nothing"} => always[h] \subseteq report[h]

\* No query leaves its output file behind, unless its host was killed.
OutputIsRemoved ==
    \A n \in Stamps : dir[n] # NoFile =>
        \E h \in Hosts : draws[h] = n /\ pc[h] \in Calling \cup {"killed"}

\* Every query of a host that stays up ends.
QueriesEnd == \A h \in Hosts : pc[h] \in Calling ~> pc[h] \notin Calling
================================================================================
