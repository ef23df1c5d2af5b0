---------------------------------- MODULE Host ----------------------------------
(***************************************************************************)
(* gpi_host and the gpi_client processes that talk to it.                  *)
(*                                                                         *)
(* The host is one thread: ZmqIpcServer::Run receives a request, calls the *)
(* handler of RunHost, sends the reply.  The handler parses and validates  *)
(* the request and runs one method; action.invoke executes the command to  *)
(* its end, then makes a job id, then stores the job record, then answers. *)
(* A client is one gpi_client process: it sends one request and waits for  *)
(* the reply without a time limit; whoever started it may kill it.         *)
(* The host may die at any step and be started again; the machine may lose *)
(* power.  Files are written with AtomicReplaceFile: its promise (module   *)
(* AtomicFile) is what Install, WriteSucceeds and WriteFails do here, on   *)
(* a file system that can sync directories.  The directories of records    *)
(* and snapshots are there to stay: one that a write has to make first can *)
(* go with the next power loss, and what was written to it too (module     *)
(* FileReplace).                                                           *)
(***************************************************************************)
EXTENDS Naturals

CONSTANTS
    Clients,        \* gpi_client processes, each sends one request
    AllowedApps,    \* allowedApps of the host profile
    Apps,           \* every app id a request may name
    Actions,        \* every action name a request may name
    Catalog,        \* per allowed app: the action names its catalog defines
    Detached,       \* actions whose catalog entry says detached
    Requests,       \* the requests clients send
    MaxClock,       \* bound on the wall clock, in milliseconds
    MaxCounter,     \* bound on the job counter of one host process
    Absent,         \* a parameter the request does not carry
    SnapshotName,   \* the last part of a snapshot path, a job id for a record
    JobTexts,       \* texts a request may give as job id that are none
    LeadsTo,        \* per allowed app and such text: the path it renders to
    Elsewhere,      \* a path of none of the files the host writes
    Foreign,        \* what a file there holds
    NoFile,         \* what a path without a file holds
    NoClient, NoRequest, NoReply, NoDraft

\* kMethodSpecs: the parameters a method requires, and so the methods.
RequiredParams ==
    [method \in {"ping", "status.get", "config.get", "config.set",
                 "action.list", "action.invoke", "action.job.get"} |->
        CASE method = "ping"           -> {}
          [] method = "config.set"     -> {"app", "key"}
          [] method = "action.invoke"  -> {"app", "action"}
          [] method = "action.job.get" -> {"app", "job"}
          [] OTHER                     -> {"app"}]

\* Methods that run a command of the app's catalog, and which one.
CommandMethods == {"config.get", "config.set", "action.invoke"}
Command(r) == CASE r.method = "config.get" -> "config_show"
                [] r.method = "config.set" -> "config_set_key"
                [] OTHER                   -> r.action

\* <<epoch milliseconds, counter>> stands for "job-<ms>-<counter>".
JobIds == (1..MaxClock) \X (1..MaxCounter)

\* The files the host writes: job records and status snapshots.
Paths    == AllowedApps \X (JobIds \cup {SnapshotName})
JobPaths == AllowedApps \X JobIds

\* How running a command ends: the state and error code of its job record.
Results == {[state |-> "succeeded", code |-> "none"]}
           \cup [state : {"failed"},
                 code : {"unknown_action", "missing_action_arg",
                         "action_launch_failed", "action_failed"}]
Succeeded    == [state |-> "succeeded", code |-> "none"]
Failed(code) == [state |-> "failed", code |-> code]
Snapshot     == [state |-> "status", code |-> "none"]

\* What a file holds, and the request it was written for.
File == [by : Clients, body : Results \cup {Snapshot}]

\* A reply: its code, the job id it names, the file it reports.
Codes == {"ok", "E_BAD_ARG", "E_UNSUPPORTED_METHOD", "E_UNSUPPORTED_APP",
          "E_NOT_FOUND", "E_NATIVE_UNAVAILABLE", "E_INTERNAL"}
Reply == [code : Codes, job : JobIds \cup {Absent}, file : File \cup {NoFile, Foreign}]

\* What ParseRequestLine reads; wellFormed is whether it accepts the line.
RequestType == [wellFormed : BOOLEAN,
                method     : STRING,
                app        : Apps \cup {Absent},
                key        : {"key", Absent},
                action     : Actions \cup {Absent},
                complete   : BOOLEAN,   \* args has all the command asks for
                job        : JobIds \cup JobTexts \cup {Absent}]

ASSUME HostAssumption ==
    /\ AllowedApps \subseteq Apps
    /\ Absent \notin Apps \cup Actions \cup JobIds
    /\ Catalog \in [AllowedApps -> SUBSET (Actions \cup {"config_show", "config_set_key"})]
    /\ MaxClock \in Nat \ {0} /\ MaxCounter \in Nat
    /\ Requests \subseteq RequestType
    /\ SnapshotName \notin JobIds
    /\ JobTexts \cap (JobIds \cup {Absent}) = {}
    /\ LeadsTo \in [AllowedApps \X JobTexts -> Paths \cup {Elsewhere}]
    /\ Elsewhere \notin Paths
    /\ {NoFile, Foreign} \cap File = {}
    /\ NoFile # Foreign
    /\ NoClient \notin Clients
    /\ NoRequest \notin Requests
    /\ NoReply \notin Reply
    /\ NoDraft \notin [path : Paths, file : File]

VARIABLES
    clock,      \* CurrentEpochMs
    pc,         \* where the host's thread is, "down" when there is no host
    counter,    \* g_job_counter
    cur,        \* the client whose request the host is handling
    draft,      \* path and contents of the file being written
    reply,      \* the reply of the current request
    inbox,      \* clients whose request waits in the host's socket
    client,     \* per client: where it is
    req,        \* per client: the request it sent
    got,        \* per client: the reply it received
    now,        \* per path: what the file holds
    back,       \* per path: what it may hold after a power loss
    exec,       \* per client: what became of the command run for its request
    known       \* clients that asked for a job they could know of

server  == <<counter, cur, draft, reply, inbox>>
clients == <<client, req, got, known>>
disk    == <<now, back>>
vars    == <<clock, pc, server, clients, disk, exec>>

Init ==
    /\ clock = 1
    /\ pc = "down"
    /\ counter = 0
    /\ cur = NoClient
    /\ draft = NoDraft
    /\ reply = NoReply
    /\ inbox = {}
    /\ client = [c \in Clients |-> "idle"]
    /\ req = [c \in Clients |-> NoRequest]
    /\ got = [c \in Clients |-> NoReply]
    /\ now = [p \in Paths |-> NoFile]
    /\ back = [p \in Paths |-> {NoFile}]
    /\ exec = [c \in Clients |-> "none"]
    /\ known = {}

Waiting(c) == client[c] \in {"sending", "sent"}

\* A path named by the reply to an action.invoke that reached its client.
ToldBy(c, p) ==
    /\ client[c] = "answered"
    /\ req[c].method = "action.invoke"
    /\ got[c].code = "ok"
    /\ p = <<req[c].app, got[c].job>>
Told(p) == \E c \in Clients : ToldBy(c, p)

-------------------------------------------------------------------------------
(* Clients.                                                                *)

\* gpi_client connects and sends; both succeed with no host on the other end,
\* the request then waits in the client's own socket.
SendRequest(c, r) ==
    /\ client[c] = "idle"
    /\ client' = [client EXCEPT ![c] = "sending"]
    /\ req' = [req EXCEPT ![c] = r]
    /\ known' = IF /\ r.wellFormed
                   /\ r.method = "action.job.get"
                   /\ Told(<<r.app, r.job>>)
                THEN known \cup {c} ELSE known
    /\ UNCHANGED <<clock, pc, server, got, disk, exec>>

\* ZeroMQ hands the request over to a host that is bound.
Deliver(c) ==
    /\ client[c] = "sending"
    /\ pc # "down"
    /\ client' = [client EXCEPT ![c] = "sent"]
    /\ inbox' = inbox \cup {c}
    /\ UNCHANGED <<clock, pc, counter, cur, draft, reply, req, got, known, disk, exec>>

\* The caller of gpi_client gives up.  Linger 0 drops a request still in the
\* client's socket; one that the host's socket holds is handled all the same.
KillClient(c) ==
    /\ Waiting(c)
    /\ client' = [client EXCEPT ![c] = "killed"]
    /\ UNCHANGED <<clock, pc, server, req, got, known, disk, exec>>

-------------------------------------------------------------------------------
(* The host.  An operator named Bug... is a mistake a later edit could make *)
(* in the definition after it; in its place it breaks a property.          *)

\* A host process starts: it takes time, and the job counter starts at 0.
StartHost ==
    /\ pc = "down"
    /\ clock < MaxClock
    /\ clock' = clock + 1
    /\ pc' = "recv"
    /\ counter' = 0
    /\ UNCHANGED <<cur, draft, reply, inbox, clients, disk, exec>>

\* ZeroMQ takes requests of its peers in turn, not in order of arrival.
Receive(c) ==
    /\ pc = "recv"
    /\ c \in inbox
    /\ inbox' = inbox \ {c}
    /\ cur' = c
    /\ pc' = "handle"
    /\ UNCHANGED <<clock, counter, draft, reply, clients, disk, exec>>

Respond(code, job, file) ==
    /\ pc' = "reply"
    /\ reply' = [code |-> code, job |-> job, file |-> file]

\* The request the host is handling; the error its validation ends in.
Current == req[cur]
Validation(r) ==
    IF ~r.wellFormed THEN "E_BAD_ARG"
    ELSE IF r.method \notin DOMAIN RequiredParams THEN "E_UNSUPPORTED_METHOD"
    ELSE IF \E param \in RequiredParams[r.method] : r[param] = Absent THEN "E_BAD_ARG"
    ELSE IF r.method # "ping" /\ r.app \notin AllowedApps THEN "E_UNSUPPORTED_APP"
    ELSE "ok"

Handling(methods) ==
    /\ pc = "handle"
    /\ Validation(Current) = "ok"
    /\ Current.method \in methods

Reject ==
    /\ pc = "handle"
    /\ Validation(Current) # "ok"
    /\ Respond(Validation(Current), Absent, NoFile)
    /\ UNCHANGED <<clock, counter, cur, draft, inbox, clients, disk, exec>>

Ping ==
    /\ Handling({"ping"})
    /\ Respond("ok", Absent, NoFile)
    /\ UNCHANGED <<clock, counter, cur, draft, inbox, clients, disk, exec>>

ActionList ==
    /\ Handling({"action.list"})
    /\ \E code \in {"ok", "E_INTERNAL"} : Respond(code, Absent, NoFile)
    /\ UNCHANGED <<clock, counter, cur, draft, inbox, clients, disk, exec>>

\* CollectAndPublishStatus: load and evaluate, then publish, then answer.
StatusGet ==
    /\ Handling({"status.get"})
    /\ \/ /\ draft' = [path |-> <<Current.app, SnapshotName>>,
                       file |-> [by |-> cur, body |-> Snapshot]]
          /\ pc' = "write"
          /\ UNCHANGED reply
       \/ /\ \E code \in {"E_NATIVE_UNAVAILABLE", "E_INTERNAL"} :
               Respond(code, Absent, NoFile)
          /\ UNCHANGED draft
    /\ UNCHANGED <<clock, counter, cur, inbox, clients, disk, exec>>

\* The path template leaves the app id out.
BugPathWithoutApp(r) ==
    IF r.job \notin JobIds THEN LeadsTo[r.app, r.job]
    ELSE IF \E a \in AllowedApps : now[<<a, r.job>>] # NoFile
    THEN CHOOSE p \in JobPaths : p[2] = r.job /\ now[p] # NoFile
    ELSE <<r.app, r.job>>

\* ResolveActionJobPath puts whatever text the request gives as job id into the
\* path template.  One that is no job id may lead to the record of another app,
\* to a snapshot or to no file of the host's.
RecordPath(r) ==
    IF r.job \in JobIds THEN <<r.app, r.job>> ELSE LeadsTo[r.app, r.job]

\* What ReadTextFile may find at that path.  Only that of a job id is sure to
\* name no directory that is not there.
FilesFound(r) ==
    (IF RecordPath(r) \in Paths THEN {now[RecordPath(r)]} ELSE {Foreign})
    \cup (IF r.job \in JobIds THEN {} ELSE {NoFile})

\* ReadActionJobRecord takes an object with a job id and a state for a record:
\* every record of the host's, no snapshot, and what else looks like one (or
\* throws, if a field of it is no text: HostDies).  The reply names the job id in
\* the record, and nothing in a record names its app.
JobGet ==
    /\ Handling({"action.job.get"})
    /\ \E file \in FilesFound(Current) :
         LET path == RecordPath(Current)
         IN  \/ /\ file = NoFile
                /\ Respond("E_NOT_FOUND", Absent, NoFile)
             \/ /\ file # NoFile /\ path \in JobPaths
                /\ Respond("ok", path[2], file)
             \/ /\ file = Foreign
                /\ Respond("ok", Absent, Foreign)
             \/ /\ file # NoFile /\ path \notin JobPaths    \* no JSON, no object,
                /\ Respond("E_INTERNAL", Absent, NoFile)     \* a field is missing
    /\ UNCHANGED <<clock, counter, cur, draft, inbox, clients, disk, exec>>

LoadCatalog ==
    /\ Handling(CommandMethods)
    /\ \/ pc' = "launch" /\ UNCHANGED reply
       \/ Respond("E_INTERNAL", Absent, NoFile)
    /\ UNCHANGED <<clock, counter, cur, draft, inbox, clients, disk, exec>>

\* The counter is read but not incremented.
BugCounterStandsStill(result) ==
    IF Current.method = "action.invoke"
    THEN /\ draft' = [path |-> <<Current.app, <<clock, 1>>>>,
                      file |-> [by |-> cur, body |-> result]]
         /\ pc' = "write"
         /\ UNCHANGED <<counter, reply>>
    ELSE /\ Respond("ok", Absent, NoFile)
         /\ UNCHANGED <<counter, draft>>

\* What RunConfigGet, RunConfigSet and RunActionInvoke do with the result of
\* ExecuteCatalogAction.  The first two always succeed; the third makes a job
\* id, fills the record and goes on to store it.
Conclude(result) ==
    IF Current.method = "action.invoke"
    THEN /\ counter < MaxCounter
         /\ counter' = counter + 1
         /\ draft' = [path |-> <<Current.app, <<clock, counter + 1>>>>,
                      file |-> [by |-> cur, body |-> result]]
         /\ pc' = "write"
         /\ UNCHANGED reply
    ELSE /\ Respond("ok", Absent, NoFile)
         /\ UNCHANGED <<counter, draft>>

\* ExecuteCatalogAction when no process is started.
DoNotLaunch ==
    /\ pc = "launch"
    /\ Conclude(Failed(IF Command(Current) \notin Catalog[Current.app]
                        THEN "unknown_action"
                       ELSE IF ~Current.complete THEN "missing_action_arg"
                       ELSE "action_launch_failed"))
    /\ UNCHANGED <<clock, cur, inbox, clients, disk, exec>>

\* A detached command counts as done once its thread is started.
Launch ==
    /\ pc = "launch"
    /\ Command(Current) \in Catalog[Current.app]
    /\ Current.complete
    /\ exec' = [exec EXCEPT ![cur] = "running"]
    /\ IF Command(Current) \in Detached
       THEN Conclude(Succeeded)
       ELSE pc' = "wait" /\ UNCHANGED <<counter, draft, reply>>
    /\ UNCHANGED <<clock, cur, inbox, clients, disk>>

\* pclose: the exit code decides; no timeout is enforced.
CommandEnds ==
    /\ pc = "wait"
    /\ \/ /\ exec' = [exec EXCEPT ![cur] = "zero"]
          /\ Conclude(Succeeded)
       \/ /\ exec' = [exec EXCEPT ![cur] = "nonzero"]
          /\ Conclude(Failed("action_failed"))
    /\ UNCHANGED <<clock, cur, inbox, clients, disk>>

\* AtomicReplaceFile replaces the target: readers see the file at once, a
\* power loss may still undo it.
Install ==
    /\ pc = "write"
    /\ now' = [now EXCEPT ![draft.path] = draft.file]
    /\ back' = [back EXCEPT ![draft.path] = @ \cup {draft.file}]
    /\ pc' = "installed"
    /\ UNCHANGED <<clock, server, clients, exec>>

\* Success is reported before the directory is synced.
BugSuccessNotDurable ==
    /\ pc = "installed"
    /\ IF Current.method = "action.invoke"
       THEN Respond("ok", draft.path[2], NoFile)
       ELSE Respond("ok", Absent, draft.file)
    /\ UNCHANGED <<clock, counter, cur, draft, inbox, clients, disk, exec>>

\* The name of the file written is taken for a job id.
BugEveryFileIsAJob ==
    /\ pc = "installed"
    /\ back' = [back EXCEPT ![draft.path] = {draft.file}]
    /\ Respond("ok", draft.path[2], draft.file)
    /\ UNCHANGED <<clock, counter, cur, draft, inbox, clients, now, exec>>

\* It returned true: the file is there to stay.
WriteSucceeds ==
    /\ pc = "installed"
    /\ back' = [back EXCEPT ![draft.path] = {draft.file}]
    /\ IF Current.method = "action.invoke"
       THEN Respond("ok", draft.path[2], NoFile)
       ELSE Respond("ok", Absent, draft.file)
    /\ UNCHANGED <<clock, counter, cur, draft, inbox, clients, now, exec>>

\* The result of the write is not looked at.
BugWriteFailureIgnored ==
    /\ pc \in {"write", "installed"}
    /\ IF Current.method = "action.invoke"
       THEN Respond("ok", draft.path[2], NoFile)
       ELSE Respond("ok", Absent, draft.file)
    /\ UNCHANGED <<clock, counter, cur, draft, inbox, clients, disk, exec>>

\* A failed write is tried again under a new job id.
BugRetryUnderNewId ==
    /\ pc \in {"write", "installed"}
    /\ IF Current.method = "action.invoke" /\ counter < MaxCounter
       THEN /\ counter' = counter + 1
            /\ draft' = [draft EXCEPT !.path = <<Current.app, <<clock, counter + 1>>>>]
            /\ pc' = "write"
            /\ UNCHANGED reply
       ELSE Respond("E_INTERNAL", Absent, NoFile) /\ UNCHANGED <<counter, draft>>
    /\ UNCHANGED <<clock, cur, inbox, clients, disk, exec>>

\* Every failure of RunActionInvoke is blamed on its arguments.
BugFailureIsBadArg ==
    /\ pc \in {"write", "installed"}
    /\ Respond("E_BAD_ARG", Absent, NoFile)
    /\ UNCHANGED <<clock, counter, cur, draft, inbox, clients, disk, exec>>

\* It returned false, before or after the replacement.
WriteFails ==
    /\ pc \in {"write", "installed"}
    /\ IF Current.method = "action.invoke"
       THEN Respond("E_INTERNAL", Absent, NoFile)
       ELSE Respond("E_NATIVE_UNAVAILABLE", Absent, NoFile)
    /\ UNCHANGED <<clock, counter, cur, draft, inbox, clients, disk, exec>>

\* The send waits for a client that is gone.
BugSendBlocks ==
    /\ pc = "reply"
    /\ client[cur] = "sent"
    /\ client' = [client EXCEPT ![cur] = "answered"]
    /\ got' = [got EXCEPT ![cur] = reply]
    /\ pc' = "recv"
    /\ cur' = NoClient
    /\ draft' = NoDraft
    /\ reply' = NoReply
    /\ UNCHANGED <<clock, counter, inbox, req, known, disk, exec>>

\* zmq_send: the reply of a client that is gone is dropped.
SendReply ==
    /\ pc = "reply"
    /\ IF client[cur] = "sent"
       THEN /\ client' = [client EXCEPT ![cur] = "answered"]
            /\ got' = [got EXCEPT ![cur] = reply]
       ELSE UNCHANGED <<client, got>>
    /\ pc' = "recv"
    /\ cur' = NoClient
    /\ draft' = NoDraft
    /\ reply' = NoReply
    /\ UNCHANGED <<clock, counter, inbox, req, known, disk, exec>>

-------------------------------------------------------------------------------
(* The environment.                                                        *)

Tick ==
    /\ clock < MaxClock
    /\ clock' = clock + 1
    /\ UNCHANGED <<pc, server, clients, disk, exec>>

LoseMemory ==
    /\ pc' = "down"
    /\ counter' = 0
    /\ cur' = NoClient
    /\ draft' = NoDraft
    /\ reply' = NoReply
    /\ inbox' = {}

\* The host process ends: it is killed, a socket call fails, or an exception
\* leaves the handler.  Requests its socket held are lost, and their clients
\* are not told; a command it runs goes on by itself.
HostDies ==
    /\ pc # "down"
    /\ LoseMemory
    /\ UNCHANGED <<clock, clients, disk, exec>>

Undo(p) == back[p] # {now[p]}
PowerLoss ==
    /\ LoseMemory
    /\ \E f \in [{p \in Paths : Undo(p)} -> UNION {back[p] : p \in Paths}] :
         /\ \A p \in DOMAIN f : f[p] \in back[p]
         /\ now' = [p \in Paths |-> IF Undo(p) THEN f[p] ELSE now[p]]
    /\ back' = [p \in Paths |-> {now'[p]}]
    /\ client' = [c \in Clients |-> IF Waiting(c) THEN "killed" ELSE client[c]]
    /\ UNCHANGED <<clock, req, got, known, exec>>

-------------------------------------------------------------------------------
HostStep ==
    \/ Reject      \/ Ping   \/ ActionList  \/ StatusGet \/ JobGet
    \/ LoadCatalog \/ DoNotLaunch \/ Launch
    \/ Install     \/ WriteSucceeds \/ WriteFails \/ SendReply

Next ==
    \/ \E c \in Clients, r \in Requests : SendRequest(c, r)
    \/ \E c \in Clients : Deliver(c) \/ KillClient(c) \/ Receive(c)
    \/ HostStep
    \/ CommandEnds
    \/ StartHost
    \/ HostDies
    \/ PowerLoss
    \/ Tick

Spec == Init /\ [][Next]_vars

\* The host's thread goes on while it can, commands end, ZeroMQ delivers, and
\* it takes each peer's request in turn.  Nothing makes a host start, and
\* nothing keeps it or a client alive.
Fairness ==
    /\ WF_vars(HostStep)
    /\ WF_vars(CommandEnds)
    /\ \A c \in Clients : WF_vars(Deliver(c)) /\ SF_vars(Receive(c))

FairSpec == Spec /\ Fairness

-------------------------------------------------------------------------------
(* Properties.                                                             *)

Pcs == {"down", "recv", "handle", "launch", "wait", "write", "installed", "reply"}

\* Every variable has the type its comment says.
TypeOK ==
    /\ clock \in 1..MaxClock
    /\ pc \in Pcs
    /\ counter \in 0..MaxCounter
    /\ cur \in Clients \cup {NoClient}
    /\ draft \in [path : Paths, file : File] \cup {NoDraft}
    /\ reply \in Reply \cup {NoReply}
    /\ inbox \in SUBSET Clients
    /\ client \in [Clients -> {"idle", "sending", "sent", "answered", "killed"}]
    /\ req \in [Clients -> Requests \cup {NoRequest}]
    /\ got \in [Clients -> Reply \cup {NoReply}]
    /\ now \in [Paths -> File \cup {NoFile}]
    /\ back \in [Paths -> SUBSET (File \cup {NoFile})]
    /\ exec \in [Clients -> {"none", "running", "zero", "nonzero"}]
    /\ known \in SUBSET Clients

\* The record says of the run of c's command what really became of it.
TrueOf(body, c) ==
    CASE body = Succeeded -> \/ exec[c] = "zero"
                             \/ exec[c] = "running" /\ req[c].action \in Detached
      [] body = Failed("action_failed") -> exec[c] = "nonzero"
      [] OTHER -> exec[c] = "none"

\* When a client holds the answer that its action was accepted, the record of
\* that job is on disk to stay, was written for this client's request and
\* tells how its own command ended, whatever died or lost power since.
AcceptedJobsAreStored ==
    \A c \in Clients : \A p \in JobPaths :
        ToldBy(c, p) =>
            /\ now[p] # NoFile
            /\ back[p] = {now[p]}
            /\ now[p].by = c
            /\ TrueOf(now[p].body, c)

\* A job record is never replaced by another, not even by a restarted host
\* whose counter starts over.
StoredRecordsAreFinal ==
    [][\A p \in JobPaths : now[p] # NoFile => now'[p] \in {now[p], NoFile}]_vars

\* No request leaves two job records, and only an action.invoke for that app
\* leaves one there.
OneRecordPerInvoke ==
    \A p \in JobPaths : now[p] # NoFile =>
        /\ req[now[p].by].method = "action.invoke"
        /\ req[now[p].by].app = p[1]
        /\ \A q \in JobPaths : now[q] # NoFile /\ now[q].by = now[p].by => q = p

\* A request answered with a complaint about the request itself had no effect:
\* no command was run and no file written for it.
ComplaintsHaveNoEffect ==
    \A c \in Clients :
        /\ client[c] = "answered"
        /\ got[c].code \notin {"ok", "E_INTERNAL", "E_NATIVE_UNAVAILABLE"}
        => /\ exec[c] = "none"
           /\ \A p \in Paths : now[p] # NoFile => now[p].by # c

\* An action.job.get sent by somebody who could know the job id is answered
\* with the record of that job, never with E_NOT_FOUND.
KnownJobsAreFound ==
    \A c \in known : client[c] = "answered" =>
        /\ got[c].code = "ok"
        /\ ToldBy(got[c].file.by, <<req[c].app, req[c].job>>)

\* What action.job.get reports from a record of the host's is true of the run
\* the record was written for, by whatever text it was asked for; and asked for
\* by a job id, it is such a record, of the app it was asked about.
JobReportsAreTrue ==
    \A c \in Clients :
        client[c] = "answered" /\ req[c].method = "action.job.get" /\ got[c].code = "ok"
        => LET file == got[c].file
           IN  /\ file # Foreign => TrueOf(file.body, file.by)
               /\ req[c].job \in JobIds =>
                    file # Foreign /\ req[file.by].app = req[c].app

\* A status the host is about to report has been published: the app's snapshot
\* is this very evaluation, and a power loss does not take it back.
ReportedStatusIsPublished ==
    pc = "reply" /\ Current.method = "status.get" /\ reply.code = "ok" =>
        /\ back[<<Current.app, SnapshotName>>] = {reply.file}
        /\ reply.file.by = cur

\* A client whose request a running host has, or can be handed, is answered,
\* or killed, unless that host goes down.
Pending(c) == \/ client[c] = "sending" /\ pc # "down"
              \/ Waiting(c) /\ c \in inbox \cup {cur}
PendingRequestsAreAnswered ==
    \A c \in Clients : Pending(c) ~> (~Waiting(c) \/ pc = "down")

\* The abstract specification: the promise about jobs, which mentions neither
\* the host's thread nor its sockets, files or clock.
Service == INSTANCE JobService WITH
    Replies <- Reply,
    Bodies  <- Results,
    phase   <- [c \in Clients |-> CASE Waiting(c) -> "asked"
                                    [] client[c] = "killed" -> "gone"
                                    [] OTHER -> client[c]],
    book    <- [p \in JobPaths |-> now[p]]

\* Every behaviour of host and clients is one the job service allows.
ImplementsJobService == Service!Spec
================================================================================
