------------------------------ MODULE ProcessExec ------------------------------
(***************************************************************************)
(* How the host runs the commands of an action catalog: ResolveActionCwd   *)
(* (process_interface/common/action_executor.cpp) chooses a directory and  *)
(* Platform::RunShellProcess (platform/process_exec.cpp) runs the command  *)
(* there.  One thread of the host calls it, one command after the other;   *)
(* every detached command adds a thread.  The working directory belongs to *)
(* the process: all its threads share it, and a command starts in the      *)
(* directory the process is in at the moment of the fork.                  *)
(*                                                                         *)
(* The host is started in Home and given the repository Root with an       *)
(* absolute path.  Other programs may remove directories at any time.      *)
(***************************************************************************)
EXTENDS Naturals

CONSTANTS Commands,     \* catalog entries, each run once
          Dirs,         \* directories
          Home, Root,   \* where the host is started; repo_root
          NoDir, NoCommand

ASSUME ExecAssumption ==
    /\ {Home, Root} \subseteq Dirs
    /\ NoDir \notin Dirs
    /\ NoCommand \notin Commands

VARIABLES
    exists,     \* directories that exist
    cwd,        \* the working directory of the process
    pc,         \* where the host's thread is, "gone" when the host has exited
    cur,        \* the command it is to run
    target,     \* options.cwd
    original,   \* original_cwd of ScopedCwdRestore
    verdict,    \* what RunShellProcess is about to return
    status,     \* per command: "new", "called", "ok" or "refused"
    wanted,     \* per command: the directory its catalog entry names
    detached,   \* per command: whether its catalog entry says detached
    thread,     \* per command: its own thread, "none", "started" or "forked"
    ranIn       \* per command: the directory it was started in, NoDir if it was not

call  == <<pc, cur, target, original, verdict, status>>
entry == <<wanted, detached>>
vars  == <<exists, cwd, call, entry, thread, ranIn>>

Pcs == {"idle", "capture", "chdir", "start", "read", "restore", "gone"}

Init ==
    /\ exists = Dirs
    /\ cwd = Home
    /\ pc = "idle"
    /\ cur = NoCommand
    /\ target = NoDir
    /\ original = NoDir
    /\ verdict = FALSE
    /\ status = [c \in Commands |-> "new"]
    /\ wanted \in [Commands -> Dirs]
    /\ detached \in [Commands -> BOOLEAN]
    /\ thread = [c \in Commands |-> "none"]
    /\ ranIn = [c \in Commands |-> NoDir]

-------------------------------------------------------------------------------
(* The host's thread.  An operator named Bug... is a mistake a later edit   *)
(* could make in the operator after it.                                     *)

\* A directory that does not exist is replaced by the repository.  Catalog
\* entries have a command, so RunShellProcess never sees an empty one.
ResolveActionCwd(c) == IF wanted[c] \in exists THEN wanted[c] ELSE Root

Call(c) ==
    /\ pc = "idle"
    /\ status[c] = "new"
    /\ cur' = c
    /\ target' = ResolveActionCwd(c)
    /\ status' = [status EXCEPT ![c] = "called"]
    /\ pc' = "capture"
    /\ UNCHANGED <<exists, cwd, original, verdict, entry, thread, ranIn>>

Return(ok) ==
    /\ pc' = "idle"
    /\ cur' = NoCommand
    /\ target' = NoDir
    /\ original' = NoDir
    /\ verdict' = FALSE
    /\ status' = [status EXCEPT ![cur] = IF ok THEN "ok" ELSE "refused"]

\* fs::current_path() fails when the working directory was removed; there is
\* nothing to restore yet.
CaptureCwd ==
    /\ pc = "capture"
    /\ IF cwd \in exists
       THEN /\ original' = cwd
            /\ pc' = "chdir"
            /\ UNCHANGED <<cur, target, verdict, status>>
       ELSE Return(FALSE)
    /\ UNCHANGED <<exists, cwd, entry, thread, ranIn>>

\* A directory that cannot be entered does not stop the command.
BugEnterIgnoresErrors ==
    /\ pc = "chdir"
    /\ cwd' = IF target \in exists THEN target ELSE cwd
    /\ pc' = "start"
    /\ UNCHANGED <<exists, cur, target, original, verdict, status, entry, thread, ranIn>>

\* fs::current_path(options.cwd): the directory may be gone by now.
EnterDirectory ==
    /\ pc = "chdir"
    /\ IF target \in exists
       THEN cwd' = target /\ pc' = "start"
       ELSE UNCHANGED cwd /\ pc' = "restore"
    /\ UNCHANGED <<exists, cur, target, original, verdict, status, entry, thread, ranIn>>

\* std::thread(...).detach(): the thread has yet to call std::system.
StartThread ==
    /\ pc = "start" /\ detached[cur]
    /\ \/ /\ thread' = [thread EXCEPT ![cur] = "started"]
          /\ verdict' = TRUE
       \/ UNCHANGED <<thread, verdict>>             \* no thread could be made
    /\ pc' = "restore"
    /\ UNCHANGED <<exists, cwd, cur, target, original, status, entry, ranIn>>

\* popen forks the shell, or fails.
OpenPipe ==
    /\ pc = "start" /\ ~detached[cur]
    /\ \/ /\ ranIn' = [ranIn EXCEPT ![cur] = cwd]
          /\ pc' = "read"
       \/ /\ UNCHANGED ranIn
          /\ pc' = "restore"
    /\ UNCHANGED <<exists, cwd, cur, target, original, verdict, status, entry, thread>>

\* The result of the command is not reported.
BugReadLosesResult ==
    /\ pc = "read"
    /\ pc' = "restore"
    /\ UNCHANGED <<exists, cwd, cur, target, original, verdict, status, entry, thread, ranIn>>

\* fgets to the end of the output, then pclose.
ReadOutput ==
    /\ pc = "read"
    /\ verdict' = TRUE
    /\ pc' = "restore"
    /\ UNCHANGED <<exists, cwd, cur, target, original, status, entry, thread, ranIn>>

\* The way out of an error does not restore the directory.
BugRestoreOnSuccessOnly ==
    /\ pc = "restore"
    /\ cwd' = IF verdict /\ original \in exists THEN original ELSE cwd
    /\ Return(verdict)
    /\ UNCHANGED <<exists, entry, thread, ranIn>>

\* A directory that cannot be restored now is waited for.
BugRestoreWaits ==
    /\ pc = "restore"
    /\ original \in exists
    /\ cwd' = original
    /\ Return(verdict)
    /\ UNCHANGED <<exists, entry, thread, ranIn>>

\* ~ScopedCwdRestore; it cannot tell anybody that the directory is gone.
RestoreCwd ==
    /\ pc = "restore"
    /\ cwd' = IF original \in exists THEN original ELSE cwd
    /\ Return(verdict)
    /\ UNCHANGED <<exists, entry, thread, ranIn>>

-------------------------------------------------------------------------------
(* The detached threads, and the environment.                               *)

\* The thread runs its command only while a call is being made.
BugThreadNeedsCaller(c) ==
    /\ pc \in Pcs \ {"idle", "gone"}
    /\ thread[c] = "started"
    /\ thread' = [thread EXCEPT ![c] = "forked"]
    /\ ranIn' = [ranIn EXCEPT ![c] = cwd]
    /\ UNCHANGED <<exists, cwd, call, entry>>

\* std::system in the thread of a detached command.
ThreadForks(c) ==
    /\ pc # "gone"
    /\ thread[c] = "started"
    /\ thread' = [thread EXCEPT ![c] = "forked"]
    /\ ranIn' = [ranIn EXCEPT ![c] = cwd]
    /\ UNCHANGED <<exists, cwd, call, entry>>

RemoveDirectory(d) ==
    /\ d \in exists
    /\ exists' = exists \ {d}
    /\ UNCHANGED <<cwd, call, entry, thread, ranIn>>

\* The threads end with the process; the shells it forked go on.
HostExits ==
    /\ pc # "gone"
    /\ pc' = "gone"
    /\ UNCHANGED <<exists, cwd, cur, target, original, verdict, status, entry, thread, ranIn>>

HostStep == \/ CaptureCwd \/ EnterDirectory \/ StartThread
            \/ OpenPipe   \/ ReadOutput     \/ RestoreCwd

Next ==
    \/ \E c \in Commands : Call(c) \/ ThreadForks(c)
    \/ HostStep
    \/ \E d \in Dirs : RemoveDirectory(d)
    \/ HostExits

Spec == Init /\ [][Next]_vars

\* Every thread of a running process is scheduled; commands end.
Fairness == WF_vars(HostStep) /\ \A c \in Commands : WF_vars(ThreadForks(c))

FairSpec == Spec /\ Fairness

-------------------------------------------------------------------------------
(* Properties.                                                              *)

\* Every variable has the type its comment says.
TypeOK ==
    /\ exists \in SUBSET Dirs
    /\ cwd \in Dirs
    /\ pc \in Pcs
    /\ cur \in Commands \cup {NoCommand}
    /\ target \in Dirs \cup {NoDir}
    /\ original \in Dirs \cup {NoDir}
    /\ verdict \in BOOLEAN
    /\ status \in [Commands -> {"new", "called", "ok", "refused"}]
    /\ wanted \in [Commands -> Dirs]
    /\ detached \in [Commands -> BOOLEAN]
    /\ thread \in [Commands -> {"none", "started", "forked"}]
    /\ ranIn \in [Commands -> Dirs \cup {NoDir}]

\* A command that is waited for starts in the directory its entry names, or in
\* the repository once that directory is gone, never in a directory an earlier
\* command left behind or in the host's own.
CommandsRunWhereAsked ==
    \A c \in Commands :
        ~detached[c] /\ ranIn[c] # NoDir =>
            \/ ranIn[c] = wanted[c]
            \/ ranIn[c] = Root /\ wanted[c] \notin exists

\* Between calls the host is back in the directory it was started in, whatever
\* failed, as long as nobody removed that directory.
HostReturnsHome == pc = "idle" /\ Home \in exists => cwd = Home

\* The answer tells whether the command was run: a refused one was not, and an
\* accepted one was, or its thread is there to do it.
VerdictsAreTrue ==
    \A c \in Commands :
        /\ status[c] = "refused" => ranIn[c] = NoDir /\ thread[c] = "none"
        /\ status[c] = "ok" => ranIn[c] # NoDir \/ thread[c] = "started"

\* A call that was made returns, and a command reported as launched is started,
\* unless the host exits first.
CallsReturn ==
    \A c \in Commands : status[c] = "called" ~> (status[c] # "called" \/ pc = "gone")
LaunchedCommandsStart ==
    \A c \in Commands : status[c] = "ok" ~> (ranIn[c] # NoDir \/ pc = "gone")

\* A detached command, too, starts in the directory that was entered for it.
DetachedRunWhereAsked ==
    \A c \in Commands :
        detached[c] /\ ranIn[c] # NoDir => ranIn[c] \in {wanted[c], Root}
================================================================================
