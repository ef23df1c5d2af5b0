------------------------------- MODULE HostProofs -------------------------------
(***************************************************************************)
(* Proofs about Host: its safety properties, for any number of clients, of *)
(* apps and requests, and that it implements JobService.                   *)
(*                                                                         *)
(* The argument turns on two facts.  A job id is never given twice, since  *)
(* the ids on disk are behind the clock or the counter (IdIsUsed).  And a  *)
(* request is acted upon once: what is on disk or in a reply was written   *)
(* for a client the host is done running commands for (Settled), so what   *)
(* it says of that client's command stays true.                            *)
(***************************************************************************)
EXTENDS Host, TLAPS

\* The host has yet to act upon the request of c, or is running its command.
Ahead(c) ==
    \/ client[c] \in {"idle", "sending"}
    \/ c \in inbox
    \/ c = cur /\ pc \in {"handle", "launch", "wait"}
Settled(c) == ~Ahead(c)

\* A job id made before now, by this host or an earlier one.
IdIsUsed(id) ==
    /\ id[1] <= clock
    /\ pc # "down" => id[1] < clock \/ id[2] <= counter

\* What is or may come back at a path.
FilesAt(p) == (back[p] \cup {now[p]}) \ {NoFile}
NoFileBy(c) == \A p \in Paths : \A f \in FilesAt(p) : f.by # c

\* f is a true record of an action of this app.
RecordOf(app, f) ==
    /\ f.body \in Results
    /\ Settled(f.by)
    /\ req[f.by].method = "action.invoke"
    /\ req[f.by].app = app
    /\ TrueOf(f.body, f.by)

\* Where the request of a client is.
Places ==
    /\ \A c \in Clients : client[c] # "idle" => req[c] \in Requests
    /\ \A c \in inbox : client[c] \in {"sent", "killed"} /\ c # cur
    /\ pc \in {"down", "recv"} <=> cur = NoClient
    /\ cur # NoClient => client[cur] \in {"sent", "killed"}

\* What the host's thread knows of the request it is handling.
DraftFits ==
    /\ draft \in [path : Paths, file : File]
    /\ draft.file.by = cur
    /\ \/ /\ Current.method = "action.invoke"
          /\ draft.path \in JobPaths
          /\ draft.path[1] = Current.app
          /\ IdIsUsed(draft.path[2])
          /\ RecordOf(Current.app, draft.file)
       \/ /\ Current.method = "status.get"
          /\ draft.path = <<Current.app, SnapshotName>>
Thread ==
    /\ pc \in {"launch", "wait"} =>
          Validation(Current) = "ok" /\ Current.method \in CommandMethods
    /\ pc \in {"write", "installed"} => DraftFits
    /\ pc = "reply" => reply \in Reply

Shape == TypeOK /\ Places /\ Thread

\* Nothing was done yet for a request that is ahead.
ExecIsFresh == \A c \in Clients : Ahead(c) => exec[c] = "none" \/ (c = cur /\ pc = "wait")

\* The disk: whose files it holds, and the records among them.
Stored ==
    /\ \A p \in Paths : \A f \in FilesAt(p) : Settled(f.by)
    /\ \A p \in JobPaths :
          /\ back[p] \subseteq {NoFile, now[p]}
          /\ now[p] # NoFile => RecordOf(p[1], now[p]) /\ IdIsUsed(p[2])
    /\ \A p, q \in JobPaths :
          now[p] # NoFile /\ now[q] # NoFile /\ now[p].by = now[q].by => p = q

\* And how the draft relates to it: it is the first record of its client, for a
\* path without one.
Disk ==
    /\ Stored
    /\ pc = "write" =>
          /\ \A p \in JobPaths : now[p] # NoFile => now[p].by # cur
          /\ draft.path \in JobPaths => now[draft.path] = NoFile
    /\ pc = "installed" => now[draft.path] = draft.file

\* The reply rep to the request of c holds what it promises.
Accepted(c, rep) ==
    req[c].method = "action.invoke" /\ rep.code = "ok" =>
        LET p == <<req[c].app, rep.job>>
        IN  p \in JobPaths /\ now[p] # NoFile /\ back[p] = {now[p]} /\ now[p].by = c
Complaint(rep) == rep.code \notin {"ok", "E_INTERNAL", "E_NATIVE_UNAVAILABLE"}
Refused(c, rep) == Complaint(rep) => exec[c] = "none" /\ NoFileBy(c)
Reported(c, rep) ==
    req[c].method = "action.job.get" /\ rep.code = "ok" =>
        /\ rep.file # NoFile
        /\ rep.file # Foreign => \E app \in AllowedApps : RecordOf(app, rep.file)
        /\ req[c].job \in JobIds => rep.file # Foreign /\ RecordOf(req[c].app, rep.file)
Found(c, rep) ==
    c \in known =>
        rep.code = "ok" /\ rep.file \in File /\ ToldBy(rep.file.by, <<req[c].app, req[c].job>>)
Right(c, rep) ==
    rep \in Reply /\ Accepted(c, rep) /\ Refused(c, rep) /\ Reported(c, rep) /\ Found(c, rep)

Answers ==
    /\ \A c \in Clients : client[c] = "answered" => Right(c, got[c])
    /\ pc = "reply" => Right(cur, reply)

\* Who is known to ask for a job was told of it by whoever started it.
Knowing ==
    \A c \in known :
        /\ client[c] # "idle"
        /\ req[c].wellFormed
        /\ req[c].method = "action.job.get"
        /\ Told(<<req[c].app, req[c].job>>)

\* The reply rep to a request r for a job tells what is on disk now.
Fresh(r, rep) ==
    rep.code \in {"ok", "E_NOT_FOUND"} =>
        /\ r.app \in AllowedApps
        /\ \/ /\ rep.code = "E_NOT_FOUND" /\ rep.file = NoFile
              /\ r.job \in JobIds => now[<<r.app, r.job>>] = NoFile
           \/ rep.code = "ok" /\ rep.file = Foreign /\ r.job \notin JobIds
           \/ /\ rep.code = "ok" /\ RecordPath(r) \in JobPaths
              /\ rep.file = now[RecordPath(r)] /\ rep.file # NoFile
ReplyIsFresh == pc = "reply" /\ Current.method = "action.job.get" => Fresh(Current, reply)

Inv == Shape /\ ExecIsFresh /\ Disk /\ Answers /\ Knowing /\ ReplyIsFresh /\ ReportedStatusIsPublished

-------------------------------------------------------------------------------

USE HostAssumption

(* The model's data.                                                       *)

\* A path is a pair of an app and a file name; records are named by job ids.
LEMMA PathFacts ==
    /\ \A p \in Paths : p = <<p[1], p[2]>> /\ p[1] \in AllowedApps
    /\ \A p \in JobPaths : p \in Paths /\ p = <<p[1], p[2]>> /\ p[1] \in AllowedApps /\ p[2] \in JobIds
    /\ \A a \in AllowedApps : <<a, SnapshotName>> \in Paths \ JobPaths
    /\ \A a \in AllowedApps, j \in JobIds : <<a, j>> \in JobPaths
    /\ \A a, j : <<a, j>>[1] = a /\ <<a, j>>[2] = j
  BY DEF Paths, JobPaths

\* A job id is a pair of a time and a count.
LEMMA IdFacts ==
    /\ \A t \in 1..MaxClock, n \in 1..MaxCounter :
          <<t, n>> \in JobIds /\ <<t, n>>[1] = t /\ <<t, n>>[2] = n
    /\ \A j \in JobIds : j[1] \in 1..MaxClock /\ j[2] \in 1..MaxCounter
  BY DEF JobIds

\* The files a client's request may leave: results of jobs, and snapshots.
LEMMA FileFacts ==
    /\ \A c \in Clients, b \in Results \cup {Snapshot} :
          [by |-> c, body |-> b] \in File \ {NoFile}
    /\ \A f \in File : f.by \in Clients /\ f # NoFile
    /\ Succeeded \in Results
    /\ \A code \in {"unknown_action", "missing_action_arg",
                     "action_launch_failed", "action_failed"} : Failed(code) \in Results
    /\ Snapshot \notin Results
  BY DEF File, Results, Succeeded, Failed, Snapshot

\* What a request that passes validation carries.
LEMMA ValidRequest ==
    ASSUME NEW r \in Requests
    PROVE  /\ Validation(r) \in Codes \ {"E_NOT_FOUND", "E_INTERNAL", "E_NATIVE_UNAVAILABLE"}
           /\ Validation(r) = "ok" => r.wellFormed
           /\ Validation(r) = "ok" /\ r.method # "ping" => r.app \in AllowedApps
           /\ r.job \in JobIds \cup JobTexts \cup {Absent}
           /\ Validation(r) = "ok" /\ r.method = "action.job.get" => r.job \in JobIds \cup JobTexts
<1>1. r \in RequestType
  OBVIOUS
<1>2. "action.job.get" \in DOMAIN RequiredParams /\ RequiredParams["action.job.get"] = {"app", "job"}
  BY DEF RequiredParams
<1>3. Validation(r) = "ok" /\ r.method = "action.job.get" => r["job"] # Absent
  BY <1>2 DEF Validation
<1> QED
  BY <1>1, <1>3 DEF Validation, Codes, RequestType

\* An action.job.get for a job one was told of is not refused.
LEMMA KnownRequestIsValid ==
    ASSUME NEW r \in Requests, r.wellFormed, r.method = "action.job.get",
           r.app \in AllowedApps, r.job \in JobIds
    PROVE  Validation(r) = "ok"
<1>1. "action.job.get" \in DOMAIN RequiredParams /\ RequiredParams["action.job.get"] = {"app", "job"}
  BY DEF RequiredParams
<1>2. r["app"] = r.app /\ r["job"] = r.job /\ r.app # Absent /\ r.job # Absent
  OBVIOUS
<1> QED
  BY <1>1, <1>2 DEF Validation

-------------------------------------------------------------------------------
(* What no step changes.                                                   *)

\* The actions of Next.
HostAction ==
    \/ Reject \/ Ping \/ ActionList \/ StatusGet \/ JobGet \/ LoadCatalog
    \/ DoNotLaunch \/ Launch \/ CommandEnds
    \/ Install \/ WriteSucceeds \/ WriteFails

\* The host's thread, from receiving a request to having its reply, leaves its
\* clients and the clock alone and runs commands for the current one only.
LEMMA HostActionFrame ==
    ASSUME TypeOK, Places, HostAction
    PROVE  /\ cur \in Clients /\ client[cur] \in {"sent", "killed"} /\ req[cur] \in Requests
           /\ UNCHANGED <<clients, clock, cur, inbox>>
           /\ pc \notin {"down", "recv"} /\ pc' \notin {"down", "recv", "handle"}
           /\ pc' \in {"launch", "wait"} => pc \in {"handle", "launch"}
           /\ pc \in {"handle", "launch", "wait"} \/ exec' = exec
           /\ exec' \in [Clients -> {"none", "running", "zero", "nonzero"}]
           /\ \A c \in Clients : c # cur => exec'[c] = exec[c]
<1>1. pc \notin {"down", "recv"}
  BY DEF HostAction, Reject, Ping, ActionList, StatusGet, JobGet, LoadCatalog, DoNotLaunch,
         Launch, CommandEnds, Install, WriteSucceeds, WriteFails, Handling
<1>2. cur \in Clients /\ client[cur] \in {"sent", "killed"} /\ req[cur] \in Requests
  BY <1>1 DEF TypeOK, Places
<1>3. UNCHANGED <<clients, clock, cur, inbox>>
  BY DEF HostAction, Reject, Ping, ActionList, StatusGet, JobGet, LoadCatalog, DoNotLaunch,
         Launch, CommandEnds, Install, WriteSucceeds, WriteFails, clients, server
<1>4. /\ pc' \notin {"down", "recv", "handle"}
      /\ pc' \in {"launch", "wait"} => pc \in {"handle", "launch"}
      /\ pc \in {"handle", "launch", "wait"} \/ exec' = exec
  BY DEF HostAction, Reject, Ping, ActionList, StatusGet, JobGet, LoadCatalog, DoNotLaunch,
         Launch, CommandEnds, Install, WriteSucceeds, WriteFails, Handling, Respond, Conclude
<1>5. \/ exec' = exec
      \/ \E e \in {"running", "zero", "nonzero"} : exec' = [exec EXCEPT ![cur] = e]
  BY DEF HostAction, Reject, Ping, ActionList, StatusGet, JobGet, LoadCatalog, DoNotLaunch,
         Launch, CommandEnds, Install, WriteSucceeds, WriteFails
<1>6. /\ exec' \in [Clients -> {"none", "running", "zero", "nonzero"}]
      /\ \A c \in Clients : c # cur => exec'[c] = exec[c]
  BY <1>2, <1>5 DEF TypeOK
<1> QED
  BY <1>1, <1>2, <1>3, <1>4, <1>6

\* A step is the host's on a request, or one of these.
LEMMA NextCases ==
    ASSUME Next
    PROVE  \/ \E c \in Clients, r \in Requests : SendRequest(c, r)
           \/ \E c \in Clients : Deliver(c)
           \/ \E c \in Clients : KillClient(c)
           \/ \E c \in Clients : Receive(c)
           \/ HostAction
           \/ SendReply
           \/ StartHost
           \/ HostDies
           \/ PowerLoss
           \/ Tick
  BY DEF Next, HostStep, HostAction

\* No step changes the request a client waits on, an answer it has, or the
\* command of a request the host is done with.
LEMMA Stable ==
    ASSUME TypeOK, Places, Next, NEW c \in Clients
    PROVE  /\ client[c] # "idle" => req'[c] = req[c] /\ client'[c] # "idle"
           /\ client[c] = "answered" => client'[c] = "answered" /\ got'[c] = got[c]
           /\ Settled(c) => Settled(c)' /\ exec'[c] = exec[c]
<1> DEFINE Goal ==
        /\ client[c] # "idle" => req'[c] = req[c] /\ client'[c] # "idle"
        /\ client[c] = "answered" => client'[c] = "answered" /\ got'[c] = got[c]
        /\ Settled(c) => Settled(c)' /\ exec'[c] = exec[c]
<1>1. ASSUME NEW d \in Clients, NEW r \in Requests, SendRequest(d, r) PROVE Goal
  BY <1>1 DEF SendRequest, Settled, Ahead, server, TypeOK
<1>2. ASSUME NEW d \in Clients, Deliver(d) PROVE Goal
  BY <1>2 DEF Deliver, Settled, Ahead, TypeOK
<1>3. ASSUME NEW d \in Clients, KillClient(d) PROVE Goal
  BY <1>3 DEF KillClient, Settled, Ahead, server, TypeOK, Waiting
<1>4. ASSUME NEW d \in Clients, Receive(d) PROVE Goal
  BY <1>4 DEF Receive, Settled, Ahead, clients, TypeOK
<1>5. CASE HostAction
  <2>1. UNCHANGED <<clients, cur, inbox>>
    BY <1>5, HostActionFrame
  <2>2. Settled(c) => exec'[c] = exec[c]
    BY <1>5, HostActionFrame DEF Settled, Ahead
  <2>3. Settled(c) => Settled(c)'
    BY <1>5, <2>1, HostActionFrame DEF Settled, Ahead, clients
  <2> QED
    BY <2>1, <2>2, <2>3 DEF clients
<1>6. CASE SendReply
  BY <1>6 DEF SendReply, Settled, Ahead, TypeOK, Places
<1>7. CASE StartHost
  BY <1>7 DEF StartHost, Settled, Ahead, clients
<1>8. CASE HostDies
  BY <1>8 DEF HostDies, LoseMemory, Settled, Ahead, clients
<1>9. CASE PowerLoss
  BY <1>9 DEF PowerLoss, LoseMemory, Settled, Ahead, TypeOK, Waiting
<1>10. CASE Tick
  BY <1>10 DEF Tick, Settled, Ahead, clients, server
<1> QED
  BY <1>1, <1>2, <1>3, <1>4, <1>5, <1>6, <1>7, <1>8, <1>9, <1>10, NextCases

\* What was true of a command stays true once the host is done with it.
LEMMA RecordsStayTrue ==
    ASSUME TypeOK, Places, Next, NEW app, NEW f \in File, RecordOf(app, f)
    PROVE  RecordOf(app, f)'
<1>1. f.by \in Clients /\ Settled(f.by)
  BY FileFacts DEF RecordOf
<1>2. /\ req'[f.by] = req[f.by]
      /\ Settled(f.by)'
      /\ exec'[f.by] = exec[f.by]
  BY <1>1, Stable DEF Settled, Ahead
<1> QED
  BY <1>2 DEF RecordOf, TrueOf

\* Who was told of a job stays told.
LEMMA ToldStays ==
    ASSUME TypeOK, Places, Next, NEW c \in Clients, NEW p, ToldBy(c, p)
    PROVE  ToldBy(c, p)'
  BY Stable DEF ToldBy

-------------------------------------------------------------------------------
(* The shape of the states.                                                *)

\* The machine starts with an empty directory and no host.
LEMMA InitShape == Init => Shape
<1> SUFFICES ASSUME Init PROVE Shape
  OBVIOUS
<1>1. TypeOK
  BY DEF Init, TypeOK, Pcs
<1>2. Places /\ Thread
  BY DEF Init, Places, Thread
<1> QED
  BY <1>1, <1>2 DEF Shape

\* Respond gives a reply and leaves a thread that has nothing else to know.
LEMMA RespondShape ==
    ASSUME NEW code \in Codes, NEW job \in JobIds \cup {Absent},
           NEW file \in File \cup {NoFile, Foreign}, Respond(code, job, file)
    PROVE  pc' = "reply" /\ reply' \in Reply
  BY DEF Respond, Reply

\* Conclude answers, or drafts the record of a new job.
LEMMA ConcludeShape ==
    ASSUME Shape, cur \in Clients, req[cur] \in Requests, Validation(Current) = "ok",
           Current.method \in CommandMethods, pc # "down",
           NEW result \in Results, Conclude(result)
    PROVE  /\ counter' \in 0..MaxCounter
           /\ \/ /\ Current.method = "action.invoke"
                 /\ pc' = "write" /\ UNCHANGED reply
                 /\ counter' = counter + 1
                 /\ draft' \in [path : Paths, file : File]
                 /\ draft'.file.by = cur
                 /\ draft'.file.body = result
                 /\ draft'.path = <<Current.app, <<clock, counter'>>>>
                 /\ draft'.path \in JobPaths
              \/ /\ Current.method # "action.invoke"
                 /\ pc' = "reply" /\ UNCHANGED <<counter, draft>>
                 /\ reply' = [code |-> "ok", job |-> Absent, file |-> NoFile]
                 /\ reply' \in Reply
<1>1. CASE Current.method = "action.invoke"
  <2> DEFINE path == <<Current.app, <<clock, counter + 1>>>>
             file == [by |-> cur, body |-> result]
  <2>1. counter' = counter + 1 /\ counter + 1 \in 1..MaxCounter /\ clock \in 1..MaxClock
    BY <1>1 DEF Conclude, Shape, TypeOK
  <2>2. Current.app \in AllowedApps
    BY <1>1, ValidRequest DEF Current
  <2>3. path \in JobPaths /\ path \in Paths
    BY <2>1, <2>2, PathFacts, IdFacts
  <2>4. file \in File
    BY FileFacts
  <2>5. draft' = [path |-> path, file |-> file] /\ pc' = "write" /\ UNCHANGED reply
    BY <1>1 DEF Conclude
  <2> QED
    BY <1>1, <2>1, <2>3, <2>4, <2>5
<1>2. CASE Current.method # "action.invoke"
  BY <1>2, RespondShape DEF Conclude, Shape, TypeOK, Codes, Respond
<1> QED
  BY <1>1, <1>2

\* It is enough to look at what a host action does to the rest of the state.
LEMMA HostActionShape ==
    ASSUME Shape, HostAction,
           pc' \in Pcs,
           counter' \in 0..MaxCounter,
           draft' \in [path : Paths, file : File] \cup {NoDraft},
           reply' \in Reply \cup {NoReply},
           now' \in [Paths -> File \cup {NoFile}],
           back' \in [Paths -> SUBSET (File \cup {NoFile})],
           Thread'
    PROVE  Shape'
<1>1. TypeOK /\ Places
  BY DEF Shape
<1>2. TypeOK'
  BY <1>1, HostActionFrame DEF TypeOK, clients
<1>3. Places'
  BY <1>1, HostActionFrame DEF Places, clients, TypeOK
<1> QED
  BY <1>2, <1>3 DEF Shape

\* The draft of a record of the current request, made when its command is done.
LEMMA ConcludedThread ==
    ASSUME Shape, HostAction, Validation(Current) = "ok",
           Current.method \in CommandMethods,
           NEW result \in Results, Conclude(result),
           Current.method = "action.invoke" => TrueOf(result, cur)'
    PROVE  Thread' /\ counter' \in 0..MaxCounter
           /\ draft' \in [path : Paths, file : File] \cup {NoDraft}
           /\ reply' \in Reply \cup {NoReply}
           /\ pc' \in {"write", "reply"}
<1>1. /\ cur \in Clients /\ req[cur] \in Requests /\ pc # "down"
      /\ client[cur] \in {"sent", "killed"}
      /\ UNCHANGED <<clients, clock, cur, inbox>>
  BY HostActionFrame DEF Shape
<1>2. Current' = Current
  BY <1>1 DEF Current, clients
<1>3. CASE Current.method = "action.invoke"
  <2>1. /\ counter' \in 0..MaxCounter
        /\ pc' = "write" /\ UNCHANGED reply
        /\ counter' = counter + 1
        /\ draft' \in [path : Paths, file : File]
        /\ draft'.file.by = cur
        /\ draft'.file.body = result
        /\ draft'.path = <<Current.app, <<clock, counter'>>>>
        /\ draft'.path \in JobPaths
    BY <1>1, <1>3, ConcludeShape
  <2>2. Settled(cur)'
    BY <1>1, <2>1 DEF Settled, Ahead, clients, Shape, Places
  <2>3. RecordOf(Current.app, draft.file)'
    BY <1>1, <1>2, <1>3, <2>1, <2>2 DEF RecordOf, Current
  <2>4. IdIsUsed(draft.path[2])'
    <3>1. draft'.path[2] = <<clock, counter'>>
      BY <2>1
    <3> QED
      BY <1>1, <2>1, <3>1 DEF IdIsUsed, Shape, TypeOK
  <2>5. DraftFits'
    BY <1>1, <1>2, <1>3, <2>1, <2>3, <2>4 DEF DraftFits
  <2> QED
    BY <2>1, <2>5 DEF Thread, Shape, TypeOK
<1>4. CASE Current.method # "action.invoke"
  BY <1>1, <1>4, ConcludeShape DEF Thread, Shape, TypeOK
<1> QED
  BY <1>3, <1>4

\* What the actions that only answer have in common.
LEMMA AnswerShape ==
    ASSUME Shape, HostAction, NEW code \in Codes, NEW job \in JobIds \cup {Absent},
           NEW file \in File \cup {NoFile, Foreign}, Respond(code, job, file),
           UNCHANGED <<counter, draft, disk>>
    PROVE  Shape'
<1>1. pc' = "reply" /\ reply' \in Reply
  BY RespondShape
<1>2. Thread'
  BY <1>1 DEF Thread
<1> QED
  BY <1>1, <1>2, HostActionShape DEF Shape, TypeOK, Pcs, disk

\* Dispatch refuses a request.
LEMMA RejectShape == Shape /\ Reject => Shape'
<1> SUFFICES ASSUME Shape, Reject PROVE Shape'
  OBVIOUS
<1>1. HostAction
  BY DEF HostAction
<1>2. Validation(Current) \in Codes
  BY <1>1, HostActionFrame, ValidRequest DEF Current, Shape
<1> QED
  BY <1>1, <1>2, AnswerShape DEF Reject

\* HandlePing answers.
LEMMA PingShape == Shape /\ Ping => Shape'
  BY AnswerShape DEF Ping, HostAction, Codes

\* HandleActionList answers, or finds no catalog.
LEMMA ActionListShape == Shape /\ ActionList => Shape'
<1> SUFFICES ASSUME Shape, ActionList PROVE Shape'
  OBVIOUS
<1>1. PICK code \in {"ok", "E_INTERNAL"} : Respond(code, Absent, NoFile)
  BY DEF ActionList
<1>2. code \in Codes
  BY DEF Codes
<1> QED
  BY <1>1, <1>2, AnswerShape DEF ActionList, HostAction

\* HandleStatusGet fails, or has a snapshot to write.
LEMMA StatusGetShape == Shape /\ StatusGet => Shape'
<1> SUFFICES ASSUME Shape, StatusGet PROVE Shape'
  OBVIOUS
<1>1. HostAction
  BY DEF HostAction
<1>2. /\ cur \in Clients /\ req[cur] \in Requests /\ cur' = cur /\ Current' = Current
      /\ Validation(Current) = "ok" /\ Current.method = "status.get"
  BY <1>1, HostActionFrame DEF Shape, StatusGet, Handling, Current, clients
<1>3. CASE pc' = "write"
  <2> DEFINE path == <<Current.app, SnapshotName>>
             file == [by |-> cur, body |-> Snapshot]
  <2>1. draft' = [path |-> path, file |-> file] /\ UNCHANGED <<counter, reply, disk>>
    BY <1>3 DEF StatusGet, Respond
  <2>2. path \in Paths /\ file \in File
    BY <1>2, PathFacts, FileFacts, ValidRequest DEF Current
  <2>3. DraftFits'
    BY <1>2, <2>1, <2>2 DEF DraftFits
  <2>4. Thread'
    BY <1>3, <2>3 DEF Thread
  <2> QED
    BY <1>1, <1>3, <2>1, <2>2, <2>4, HostActionShape DEF Shape, TypeOK, Pcs, disk
<1>4. CASE pc' # "write"
  <2>1. PICK code \in {"E_NATIVE_UNAVAILABLE", "E_INTERNAL"} : Respond(code, Absent, NoFile)
    BY <1>4 DEF StatusGet
  <2>2. UNCHANGED <<counter, draft, disk>>
    BY <1>4 DEF StatusGet
  <2>3. code \in Codes
    BY DEF Codes
  <2> QED
    BY <1>1, <2>1, <2>2, <2>3, AnswerShape
<1> QED
  BY <1>3, <1>4

\* HandleActionJobGet answers from what it reads, and complains of nothing that a
\* job id leads to.
LEMMA JobGetReply ==
    ASSUME TypeOK, cur \in Clients, req[cur] \in Requests, JobGet
    PROVE  /\ Current.app \in AllowedApps /\ Current.method = "action.job.get"
           /\ \E code \in {"ok", "E_NOT_FOUND", "E_INTERNAL"}, job \in JobIds \cup {Absent},
                 file \in File \cup {NoFile, Foreign} :
                /\ Respond(code, job, file)
                /\ Fresh(Current, [code |-> code, job |-> job, file |-> file])
                /\ Current.job \in JobIds => code # "E_INTERNAL"
<1> DEFINE path == RecordPath(Current)
<1>1. /\ Validation(Current) = "ok" /\ Current.method = "action.job.get" /\ Current \in Requests
  BY DEF JobGet, Handling, Current
<1>2. /\ Current.app \in AllowedApps /\ Current.job \in JobIds \cup JobTexts
  BY <1>1, ValidRequest
<1>3. path \in Paths \cup {Elsewhere} /\ (Current.job \in JobIds =>
          path \in JobPaths /\ path = <<Current.app, Current.job>>)
  <2>1. CASE Current.job \in JobIds
    BY <1>2, <2>1, PathFacts DEF RecordPath
  <2>2. CASE Current.job \notin JobIds
    <3>1. <<Current.app, Current.job>> \in AllowedApps \X JobTexts
      BY <1>2, <2>2
    <3> QED
      BY <2>2, <3>1 DEF RecordPath
  <2> QED
    BY <2>1, <2>2
<1>4. \A p \in Paths : now[p] \in File \cup {NoFile}
  BY DEF TypeOK
<1>5. PICK file \in FilesFound(Current) :
        \/ /\ file = NoFile
           /\ Respond("E_NOT_FOUND", Absent, NoFile)
        \/ /\ file # NoFile /\ path \in JobPaths
           /\ Respond("ok", path[2], file)
        \/ /\ file = Foreign
           /\ Respond("ok", Absent, Foreign)
        \/ /\ file # NoFile /\ path \notin JobPaths
           /\ Respond("E_INTERNAL", Absent, NoFile)
  BY DEF JobGet
<1>6. \/ path \in Paths /\ file = now[path]
      \/ path \notin Paths /\ file = Foreign
      \/ Current.job \notin JobIds /\ file = NoFile
  BY <1>5 DEF FilesFound
<1> HIDE DEF path
<1>7. JobPaths \subseteq Paths /\ \A p \in JobPaths : p[2] \in JobIds
  BY PathFacts
<1>8. CASE file = NoFile /\ Respond("E_NOT_FOUND", Absent, NoFile)
  <2>1. Current.job \in JobIds => now[<<Current.app, Current.job>>] = NoFile
    BY <1>3, <1>6, <1>7, <1>8
  <2>2. Fresh(Current, [code |-> "E_NOT_FOUND", job |-> Absent, file |-> NoFile])
    BY <1>2, <2>1 DEF Fresh
  <2> QED
    BY <1>1, <1>2, <1>8, <2>2
<1>9. CASE file # NoFile /\ path \in JobPaths /\ Respond("ok", path[2], file)
  <2>1. file = now[path] /\ file \in File /\ path[2] \in JobIds
    BY <1>4, <1>6, <1>7, <1>9
  <2>2. Fresh(Current, [code |-> "ok", job |-> path[2], file |-> file])
    BY <1>2, <1>9, <2>1 DEF Fresh, path
  <2> QED
    BY <1>1, <1>2, <1>9, <2>1, <2>2
<1>10. CASE file = Foreign /\ Respond("ok", Absent, Foreign)
  <2>1. Current.job \notin JobIds
    BY <1>3, <1>4, <1>6, <1>7, <1>10
  <2>2. Fresh(Current, [code |-> "ok", job |-> Absent, file |-> Foreign])
    BY <1>2, <2>1 DEF Fresh
  <2> QED
    BY <1>1, <1>2, <1>10, <2>2
<1>11. CASE path \notin JobPaths /\ Respond("E_INTERNAL", Absent, NoFile)
  <2>1. Fresh(Current, [code |-> "E_INTERNAL", job |-> Absent, file |-> NoFile])
    BY DEF Fresh
  <2> QED
    BY <1>1, <1>2, <1>3, <1>11, <2>1
<1> QED
  BY <1>5, <1>8, <1>9, <1>10, <1>11

\* HandleActionJobGet only answers.
LEMMA JobGetShape == Shape /\ JobGet => Shape'
<1> SUFFICES ASSUME Shape, JobGet PROVE Shape'
  OBVIOUS
<1>1. HostAction
  BY DEF HostAction
<1>2. PICK code \in {"ok", "E_NOT_FOUND", "E_INTERNAL"}, job \in JobIds \cup {Absent},
          file \in File \cup {NoFile, Foreign} : Respond(code, job, file)
  BY <1>1, HostActionFrame, JobGetReply DEF Shape
<1>3. code \in Codes /\ UNCHANGED <<counter, draft, disk>>
  BY DEF Codes, JobGet
<1> QED
  BY <1>1, <1>2, <1>3, AnswerShape

\* The handlers of commands load the catalog, or find none.
LEMMA LoadCatalogShape == Shape /\ LoadCatalog => Shape'
<1> SUFFICES ASSUME Shape, LoadCatalog PROVE Shape'
  OBVIOUS
<1>1. HostAction
  BY DEF HostAction
<1>2. CASE pc' = "launch"
  <2>1. Current' = Current /\ Validation(Current)' = Validation(Current)
    BY <1>1, HostActionFrame DEF Shape, Current, clients, Validation
  <2>2. Thread'
    BY <1>2, <2>1 DEF Thread, LoadCatalog, Handling
  <2> QED
    BY <1>1, <1>2, <2>2, HostActionShape DEF Shape, TypeOK, Pcs, disk, LoadCatalog, Respond
<1>3. CASE pc' # "launch"
  BY <1>1, <1>3, AnswerShape DEF LoadCatalog, Codes
<1> QED
  BY <1>2, <1>3

\* What comes of running a command, and that it is told truly, once the exec
\* of a request that is ahead is fresh.
LEMMA DoNotLaunchRun ==
    ASSUME Shape, ExecIsFresh, DoNotLaunch
    PROVE  /\ UNCHANGED <<exec, disk>>
           /\ \E result \in Results :
                /\ Conclude(result)
                /\ Current.method = "action.invoke" => TrueOf(result, cur)'
<1>1. HostAction /\ UNCHANGED <<exec, disk>>
  BY DEF HostAction, DoNotLaunch
<1>2. cur \in Clients /\ cur' = cur /\ exec[cur] = "none"
  BY <1>1, HostActionFrame DEF Shape, ExecIsFresh, Ahead, DoNotLaunch
<1>3. PICK code \in {"unknown_action", "missing_action_arg", "action_launch_failed"} :
          Conclude(Failed(code))
  BY DEF DoNotLaunch
<1>4. TrueOf(Failed(code), cur)'
  BY <1>1, <1>2 DEF TrueOf, Failed, Succeeded
<1> QED
  BY <1>1, <1>3, <1>4, FileFacts

\* A command that is detached or cannot be launched has its result at once;
\* the host waits for any other.
LEMMA LaunchRun ==
    ASSUME Shape, Launch
    PROVE  /\ UNCHANGED disk
           /\ \/ \E result \in Results :
                   /\ Conclude(result)
                   /\ Current.method = "action.invoke" => TrueOf(result, cur)'
              \/ pc' = "wait" /\ UNCHANGED <<counter, draft, reply>>
<1>1. HostAction /\ UNCHANGED disk
  BY DEF HostAction, Launch
<1>2. cur \in Clients /\ cur' = cur /\ req' = req
  BY <1>1, HostActionFrame DEF Shape, clients
<1>3. CASE Command(Current) \in Detached /\ Current.method = "action.invoke"
  <2>1. exec'[cur] = "running" /\ Conclude(Succeeded)
    BY <1>2, <1>3 DEF Launch, Shape, TypeOK
  <2>2. req[cur].action \in Detached
    BY <1>3 DEF Command, Current
  <2>3. TrueOf(Succeeded, cur)'
    BY <1>2, <2>1, <2>2 DEF TrueOf, Succeeded, Failed
  <2> QED
    BY <1>1, <2>1, <2>3, FileFacts
<1>4. CASE Command(Current) \in Detached /\ Current.method # "action.invoke"
  BY <1>1, <1>4, FileFacts DEF Launch
<1>5. CASE Command(Current) \notin Detached
  BY <1>1, <1>5 DEF Launch
<1> QED
  BY <1>3, <1>4, <1>5

\* How a command ended decides its result.
LEMMA CommandEndsRun ==
    ASSUME Shape, CommandEnds
    PROVE  /\ UNCHANGED disk
           /\ \E result \in Results :
                /\ Conclude(result)
                /\ Current.method = "action.invoke" => TrueOf(result, cur)'
<1>1. HostAction /\ UNCHANGED disk
  BY DEF HostAction, CommandEnds
<1>2. cur \in Clients /\ cur' = cur
  BY <1>1, HostActionFrame DEF Shape
<1>3. CASE exec' = [exec EXCEPT ![cur] = "zero"] /\ Conclude(Succeeded)
  <2>1. exec'[cur] = "zero"
    BY <1>2, <1>3 DEF Shape, TypeOK
  <2>2. TrueOf(Succeeded, cur)'
    BY <1>2, <2>1 DEF TrueOf, Succeeded, Failed
  <2> QED
    BY <1>1, <1>3, <2>2, FileFacts
<1>4. CASE exec' = [exec EXCEPT ![cur] = "nonzero"] /\ Conclude(Failed("action_failed"))
  <2>1. exec'[cur] = "nonzero"
    BY <1>2, <1>4 DEF Shape, TypeOK
  <2>2. TrueOf(Failed("action_failed"), cur)'
    BY <1>2, <2>1 DEF TrueOf, Succeeded, Failed
  <2> QED
    BY <1>1, <1>4, <2>2, FileFacts
<1> QED
  BY <1>3, <1>4 DEF CommandEnds

\* Running a command ends in an answer or a draft, or in waiting for its end.
LEMMA RunShape ==
    ASSUME Shape, ExecIsFresh, DoNotLaunch \/ Launch \/ CommandEnds
    PROVE  Shape' /\ UNCHANGED disk
<1>1. HostAction /\ Validation(Current) = "ok" /\ Current.method \in CommandMethods
  BY DEF HostAction, Shape, Thread, DoNotLaunch, Launch, CommandEnds
<1>2. /\ UNCHANGED disk
      /\ \/ \E result \in Results :
              /\ Conclude(result)
              /\ Current.method = "action.invoke" => TrueOf(result, cur)'
         \/ pc' = "wait" /\ UNCHANGED <<counter, draft, reply>>
  BY DoNotLaunchRun, LaunchRun, CommandEndsRun
<1>3. /\ now' \in [Paths -> File \cup {NoFile}]
      /\ back' \in [Paths -> SUBSET (File \cup {NoFile})]
  BY <1>2 DEF Shape, TypeOK, disk
<1>4. CASE \E result \in Results :
              /\ Conclude(result)
              /\ Current.method = "action.invoke" => TrueOf(result, cur)'
  BY <1>1, <1>2, <1>3, <1>4, ConcludedThread, HostActionShape DEF Pcs
<1>5. CASE pc' = "wait" /\ UNCHANGED <<counter, draft, reply>>
  <2>1. Current' = Current /\ Validation(Current)' = Validation(Current)
    BY <1>1, HostActionFrame DEF Shape, Current, clients, Validation
  <2>2. Thread'
    BY <1>1, <1>5, <2>1 DEF Thread
  <2> QED
    BY <1>1, <1>2, <1>3, <1>5, <2>2, HostActionShape DEF Shape, TypeOK, Pcs
<1> QED
  BY <1>2, <1>4, <1>5

\* AtomicReplaceFile puts the draft in its place.
LEMMA InstallShape == Shape /\ Install => Shape'
<1> SUFFICES ASSUME Shape, Install PROVE Shape'
  OBVIOUS
<1>1. HostAction
  BY DEF HostAction
<1>2. /\ DraftFits /\ draft.path \in Paths /\ draft.file \in File
      /\ UNCHANGED <<server, req, exec, clock>> /\ pc' = "installed" /\ pc = "write"
  BY DEF Shape, Thread, Install, DraftFits, clients
<1>3. /\ now' \in [Paths -> File \cup {NoFile}]
      /\ back' \in [Paths -> SUBSET (File \cup {NoFile})]
  BY <1>2 DEF Install, Shape, TypeOK
<1>4. cur \in Clients /\ UNCHANGED clients
  BY <1>1, HostActionFrame DEF Shape
<1>5. DraftFits'
  BY <1>2, <1>4 DEF DraftFits, RecordOf, Settled, Ahead, TrueOf, IdIsUsed, Current,
        server, clients
<1>6. Thread'
  BY <1>2, <1>5 DEF Thread
<1> QED
  BY <1>1, <1>2, <1>3, <1>6, HostActionShape DEF Shape, TypeOK, Pcs, server

\* The write of the draft has succeeded.
LEMMA WriteSucceedsShape == Shape /\ WriteSucceeds => Shape'
<1> SUFFICES ASSUME Shape, WriteSucceeds PROVE Shape'
  OBVIOUS
<1>1. HostAction
  BY DEF HostAction
<1>2. /\ DraftFits /\ draft.path \in Paths /\ draft.file \in File
      /\ UNCHANGED <<counter, draft, now>>
  BY DEF Shape, Thread, WriteSucceeds, DraftFits
<1>3. back' \in [Paths -> SUBSET (File \cup {NoFile})]
  BY <1>2 DEF WriteSucceeds, Shape, TypeOK
<1>4. \E job \in JobIds \cup {Absent}, file \in File \cup {NoFile} : Respond("ok", job, file)
  BY <1>2, PathFacts DEF DraftFits, WriteSucceeds
<1>5. pc' = "reply" /\ reply' \in Reply
  BY <1>4, RespondShape DEF Codes
<1>6. Thread'
  BY <1>5 DEF Thread
<1> QED
  BY <1>1, <1>2, <1>3, <1>5, <1>6, HostActionShape DEF Shape, TypeOK, Pcs

\* The write of the draft has failed.
LEMMA WriteFailsShape == Shape /\ WriteFails => Shape'
<1> SUFFICES ASSUME Shape, WriteFails PROVE Shape'
  OBVIOUS
<1>1. \E code \in Codes : Respond(code, Absent, NoFile)
  BY DEF WriteFails, Codes
<1> QED
  BY <1>1, AnswerShape DEF WriteFails, HostAction

\* The steps of others leave what the host's thread knows as it is.
LEMMA ThreadStays ==
    ASSUME Shape, Next, UNCHANGED <<pc, counter, cur, draft, reply>>,
           clock' \in {clock, clock + 1}
    PROVE  Thread'
<1>1. pc \notin {"down", "recv"} =>
          cur \in Clients /\ Current' = Current /\ Validation(Current)' = Validation(Current)
  BY Stable DEF Shape, Places, TypeOK, Current, Validation
<1>2. ASSUME pc \in {"write", "installed"} PROVE DraftFits'
  <2>1. /\ DraftFits /\ draft.file \in File /\ draft.path \in Paths
        /\ cur \in Clients /\ Current' = Current
    BY <1>1, <1>2 DEF Shape, Thread, DraftFits
  <2>2. CASE Current.method = "action.invoke"
    <3>1. draft.path \in JobPaths /\ draft.path[1] = Current.app
          /\ IdIsUsed(draft.path[2]) /\ RecordOf(Current.app, draft.file)
      BY <2>1, <2>2 DEF DraftFits
    <3>2. RecordOf(Current.app, draft.file)'
      BY <2>1, <3>1, RecordsStayTrue DEF Shape, RecordOf, TrueOf
    <3>3. IdIsUsed(draft.path[2])'
      BY <3>1, PathFacts, IdFacts DEF IdIsUsed, Shape, TypeOK
    <3> QED
      BY <2>1, <2>2, <3>1, <3>2, <3>3 DEF DraftFits
  <2>3. CASE Current.method # "action.invoke"
    BY <2>1, <2>3 DEF DraftFits
  <2> QED
    BY <2>2, <2>3
<1> QED
  BY <1>1, <1>2 DEF Thread, Shape

\* A client makes its request.
LEMMA SendRequestShape ==
    ASSUME Shape, NEW c \in Clients, NEW r \in Requests, SendRequest(c, r)
    PROVE  Shape'
<1>1. TypeOK'
  BY DEF SendRequest, Shape, TypeOK, server, disk
<1>2. Places'
  BY DEF SendRequest, Shape, TypeOK, Places, server
<1>3. Next /\ UNCHANGED <<pc, server, clock>>
  BY DEF Next, SendRequest
<1>4. Thread'
  BY <1>3, ThreadStays DEF server
<1> QED
  BY <1>1, <1>2, <1>4 DEF Shape

\* A client's reply arrives.
LEMMA DeliverShape == ASSUME Shape, NEW c \in Clients, Deliver(c) PROVE Shape'
<1>1. TypeOK'
  BY DEF Deliver, Shape, TypeOK, disk
<1>2. Places'
  BY DEF Deliver, Shape, TypeOK, Places
<1>3. Next /\ UNCHANGED <<pc, counter, cur, draft, reply, clock>>
  BY DEF Next, Deliver
<1>4. Thread'
  BY <1>3, ThreadStays
<1> QED
  BY <1>1, <1>2, <1>4 DEF Shape

\* A client is killed.
LEMMA KillClientShape == ASSUME Shape, NEW c \in Clients, KillClient(c) PROVE Shape'
<1>1. TypeOK'
  BY DEF KillClient, Shape, TypeOK, server, disk
<1>2. Places'
  BY DEF KillClient, Shape, TypeOK, Places, server, Waiting
<1>3. Next /\ UNCHANGED <<pc, server, clock>>
  BY DEF Next, KillClient
<1>4. Thread'
  BY <1>3, ThreadStays DEF server
<1> QED
  BY <1>1, <1>2, <1>4 DEF Shape

\* The host receives a request.
LEMMA ReceiveShape == ASSUME Shape, NEW c \in Clients, Receive(c) PROVE Shape'
  BY DEF Receive, Shape, TypeOK, Places, Thread, clients, disk, Pcs

\* The host sends its reply.
LEMMA SendReplyShape == Shape /\ SendReply => Shape'
<1> SUFFICES ASSUME Shape, SendReply PROVE Shape'
  OBVIOUS
<1>1. TypeOK'
  BY DEF SendReply, Shape, TypeOK, Thread, disk, Pcs
<1>2. Places'
  BY DEF SendReply, Shape, TypeOK, Places
<1>3. Thread'
  BY DEF SendReply, Thread
<1> QED
  BY <1>1, <1>2, <1>3 DEF Shape

\* A host starts, its counter at 0.
LEMMA StartHostShape == Shape /\ StartHost => Shape'
  BY DEF StartHost, Shape, TypeOK, Places, Thread, clients, disk, Pcs

\* A host dies, with all it knew.
LEMMA HostDiesShape == Shape /\ HostDies => Shape'
  BY DEF HostDies, LoseMemory, Shape, TypeOK, Places, Thread, clients, disk, Pcs

\* A power loss leaves at each path what was there or what may come back.
LEMMA PowerLossDisk ==
    ASSUME TypeOK, PowerLoss, NEW p \in Paths
    PROVE  /\ now'[p] = now[p] \/ (back[p] # {now[p]} /\ now'[p] \in back[p])
           /\ back'[p] = {now'[p]}
           /\ now' \in [Paths -> File \cup {NoFile}]
           /\ back' \in [Paths -> SUBSET (File \cup {NoFile})]
<1>1. PICK f : /\ \A q \in {q \in Paths : Undo(q)} : f[q] \in back[q]
               /\ now' = [q \in Paths |-> IF Undo(q) THEN f[q] ELSE now[q]]
  <2>1. PICK f \in [{q \in Paths : Undo(q)} -> UNION {back[q] : q \in Paths}] :
          /\ \A q \in DOMAIN f : f[q] \in back[q]
          /\ now' = [q \in Paths |-> IF Undo(q) THEN f[q] ELSE now[q]]
    BY DEF PowerLoss
  <2> QED
    BY <2>1
<1>2. back' = [q \in Paths |-> {now'[q]}]
  BY DEF PowerLoss
<1>3. \A q \in Paths : back[q] \in SUBSET (File \cup {NoFile}) /\ now[q] \in File \cup {NoFile}
  BY DEF TypeOK
<1>4. \A q \in Paths : now'[q] \in File \cup {NoFile}
  BY <1>1, <1>3
<1>5. now' \in [Paths -> File \cup {NoFile}]
  BY <1>1, <1>4
<1>6. back' \in [Paths -> SUBSET (File \cup {NoFile})]
  BY <1>2, <1>4
<1> QED
  BY <1>1, <1>2, <1>5, <1>6 DEF Undo

\* The power fails: host, clients' messages and unsynced names are lost.
LEMMA PowerLossShape == Shape /\ PowerLoss => Shape'
<1> SUFFICES ASSUME Shape, PowerLoss PROVE Shape'
  OBVIOUS
<1>1. /\ now' \in [Paths -> File \cup {NoFile}]
      /\ back' \in [Paths -> SUBSET (File \cup {NoFile})]
  <2>1. CASE Paths = {}
    BY <2>1 DEF PowerLoss
  <2>2. CASE Paths # {}
    BY <2>2, PowerLossDisk DEF Shape
  <2> QED
    BY <2>1, <2>2
<1>2. TypeOK'
  BY <1>1 DEF PowerLoss, LoseMemory, Shape, TypeOK, Pcs
<1>3. Places' /\ Thread'
  BY DEF PowerLoss, LoseMemory, Shape, TypeOK, Places, Thread, Waiting
<1> QED
  BY <1>2, <1>3 DEF Shape

\* The clock goes on.
LEMMA TickShape == Shape /\ Tick => Shape'
<1> SUFFICES ASSUME Shape, Tick PROVE Shape'
  OBVIOUS
<1>1. TypeOK' /\ Places'
  BY DEF Tick, Shape, TypeOK, Places, server, clients, disk
<1>2. Next /\ UNCHANGED <<pc, server>> /\ clock' = clock + 1
  BY DEF Next, Tick
<1>3. Thread'
  BY <1>2, ThreadStays DEF server
<1> QED
  BY <1>1, <1>3 DEF Shape

\* Every step keeps the shape.
LEMMA NextShape == Shape /\ ExecIsFresh /\ Next => Shape'
<1> SUFFICES ASSUME Shape, ExecIsFresh, Next PROVE Shape'
  OBVIOUS
<1>1. CASE HostAction
  BY <1>1, RejectShape, PingShape, ActionListShape, StatusGetShape, JobGetShape,
     LoadCatalogShape, RunShape, InstallShape, WriteSucceedsShape, WriteFailsShape
     DEF HostAction
<1> QED
  BY <1>1, NextCases, SendRequestShape, DeliverShape, KillClientShape, ReceiveShape,
     SendReplyShape, StartHostShape, HostDiesShape, PowerLossShape, TickShape

-------------------------------------------------------------------------------
(* A request is acted upon once, and a job id is given once.               *)

\* No command is run for a request before the host handles it.
LEMMA NextExecIsFresh == Shape /\ ExecIsFresh /\ Next => ExecIsFresh'
<1> SUFFICES ASSUME Shape, ExecIsFresh, Next, NEW c \in Clients, Ahead(c)'
             PROVE  (exec[c] = "none" \/ (c = cur /\ pc = "wait"))'
  BY DEF ExecIsFresh
<1>1. Ahead(c) /\ (exec[c] = "none" \/ (c = cur /\ pc = "wait"))
  BY Stable DEF Shape, Settled, ExecIsFresh
<1>2. CASE HostAction
  <2>1. CASE c # cur
    BY <1>1, <1>2, <2>1, HostActionFrame DEF Shape
  <2>2. CASE c = cur /\ pc' = "wait"
    BY <1>2, <2>2, HostActionFrame DEF Shape
  <2>3. CASE c = cur /\ pc' = "launch"
    <3>1. LoadCatalog
      BY <1>2, <2>3 DEF HostAction, Reject, Ping, ActionList, StatusGet, JobGet, DoNotLaunch,
         Launch, CommandEnds, Install, WriteSucceeds, WriteFails, Respond, Conclude
    <3> QED
      BY <1>1, <3>1 DEF LoadCatalog, Handling
  <2>4. CASE c = cur /\ pc' \notin {"wait", "launch"}
    BY <1>2, <2>4, HostActionFrame DEF Shape, Ahead, clients, Places
  <2> QED
    BY <2>1, <2>2, <2>3, <2>4
<1>3. CASE ~HostAction
  <2>1. exec' = exec
    BY <1>3, NextCases DEF SendRequest, Deliver, KillClient, Receive, SendReply, StartHost,
       HostDies, PowerLoss, Tick
  <2>2. CASE exec[c] = "none"
    BY <2>1, <2>2
  <2>3. CASE c = cur /\ pc = "wait"
    <3>1. CASE HostDies \/ PowerLoss
      BY <2>3, <3>1 DEF HostDies, PowerLoss, LoseMemory, Ahead, clients, Shape, Places, TypeOK,
         Waiting
    <3>2. CASE ~(HostDies \/ PowerLoss)
      BY <1>3, <2>3, <3>2, NextCases DEF SendRequest, Deliver, KillClient, Receive, SendReply,
         StartHost, Tick, server, Shape, TypeOK, Places
    <3> QED
      BY <3>1, <3>2
  <2> QED
    BY <1>1, <2>2, <2>3
<1> QED
  BY <1>2, <1>3

\* The host only ever counts up, and starts anew only at a later time.
LEMMA IdsStayUsed ==
    ASSUME Shape, Next, NEW id \in JobIds, IdIsUsed(id)
    PROVE  IdIsUsed(id)'
<1>1. id[1] \in Nat /\ id[2] \in Nat /\ clock \in Nat /\ counter \in Nat
  BY IdFacts DEF Shape, TypeOK
<1>2. CASE HostAction
  <2>1. clock' = clock /\ pc # "down" /\ pc' # "down"
    BY <1>2, HostActionFrame DEF Shape
  <2>2. counter' \in {counter, counter + 1}
    BY <1>2 DEF HostAction, Reject, Ping, ActionList, StatusGet, JobGet, LoadCatalog,
       DoNotLaunch, Launch, CommandEnds, Install, WriteSucceeds, WriteFails, Conclude, server
  <2> QED
    BY <1>1, <2>1, <2>2 DEF IdIsUsed
<1>3. CASE StartHost
  BY <1>1, <1>3 DEF StartHost, IdIsUsed
<1>4. CASE HostDies \/ PowerLoss
  BY <1>1, <1>4 DEF HostDies, PowerLoss, LoseMemory, IdIsUsed
<1>5. CASE ~(HostAction \/ StartHost \/ HostDies \/ PowerLoss)
  <2>1. clock' \in {clock, clock + 1} /\ counter' = counter /\ (pc' # "down" => pc # "down")
    BY <1>5, NextCases DEF SendRequest, Deliver, KillClient, Receive, SendReply, Tick, server
  <2> QED
    BY <1>1, <2>1 DEF IdIsUsed
<1> QED
  BY <1>2, <1>3, <1>4, <1>5

-------------------------------------------------------------------------------
(* The disk.                                                               *)

\* A step that adds no file leaves the stored ones as good as they were.
LEMMA StoredStays ==
    ASSUME Shape, Stored, Next,
           \A p \in Paths : FilesAt(p)' \subseteq FilesAt(p),
           \A p \in JobPaths : /\ now'[p] \in {now[p], NoFile}
                               /\ back'[p] \subseteq {NoFile, now'[p]}
    PROVE  Stored'
<1>1. ASSUME NEW p \in Paths, NEW f \in FilesAt(p)' PROVE Settled(f.by)'
  <2>1. f \in FilesAt(p) /\ f \in File
    BY <1>1 DEF FilesAt, Shape, TypeOK
  <2>2. f.by \in Clients /\ Settled(f.by)
    BY <2>1, FileFacts DEF Stored
  <2> QED
    BY <2>2, Stable DEF Shape, Settled, Ahead
<1>2. ASSUME NEW p \in JobPaths, now'[p] # NoFile
      PROVE  /\ now'[p] = now[p] /\ now[p] # NoFile
             /\ RecordOf(p[1], now[p])' /\ IdIsUsed(p[2])'
  <2>1. /\ now'[p] = now[p] /\ now[p] # NoFile /\ now[p] \in File
        /\ RecordOf(p[1], now[p]) /\ IdIsUsed(p[2])
    BY <1>2, PathFacts DEF Stored, Shape, TypeOK
  <2>2. IdIsUsed(p[2])'
    BY <2>1, PathFacts, IdsStayUsed
  <2>3. RecordOf(p[1], now[p])'
    BY <2>1, RecordsStayTrue DEF Shape, RecordOf, TrueOf, Settled, Ahead
  <2> QED
    BY <2>1, <2>2, <2>3
<1>3. ASSUME NEW p \in JobPaths, NEW q \in JobPaths, now'[p] # NoFile, now'[q] # NoFile,
             now'[p].by = now'[q].by
      PROVE  p = q
  BY <1>2, <1>3 DEF Stored
<1> QED
  BY <1>1, <1>2, <1>3 DEF Stored

\* Only Install, WriteSucceeds and PowerLoss touch the disk.
LEMMA DiskUnchanged ==
    ASSUME Next, ~Install, ~WriteSucceeds, ~PowerLoss
    PROVE  UNCHANGED disk
  BY NextCases DEF HostAction, Reject, Ping, ActionList, StatusGet, JobGet, LoadCatalog,
     DoNotLaunch, Launch, CommandEnds, WriteFails, SendRequest, Deliver, KillClient, Receive,
     SendReply, StartHost, HostDies, Tick, disk

\* What is stored stays so when no directory entry changes.
LEMMA StoredStaysUntouched ==
    ASSUME Shape, Stored, Next, UNCHANGED disk
    PROVE  Stored'
<1>1. now' = now /\ back' = back
  BY DEF disk
<1>2. \A p \in Paths : FilesAt(p)' \subseteq FilesAt(p)
  BY <1>1 DEF FilesAt
<1>3. \A p \in JobPaths : now'[p] \in {now[p], NoFile} /\ back'[p] \subseteq {NoFile, now'[p]}
  BY <1>1 DEF Stored
<1> QED
  BY <1>2, <1>3, StoredStays

\* What a power loss brings back was there, or may have been.
LEMMA PowerLossStored ==
    ASSUME Shape, Stored, PowerLoss
    PROVE  /\ Stored'
           /\ \A p \in Paths : FilesAt(p)' \subseteq FilesAt(p)
           /\ \A p \in Paths : back[p] = {now[p]} => now'[p] = now[p] /\ back'[p] = {now'[p]}
           /\ \A p \in JobPaths : now'[p] \in {now[p], NoFile}
<1>1. ASSUME NEW p \in Paths
      PROVE  /\ FilesAt(p)' \subseteq FilesAt(p)
             /\ back[p] = {now[p]} => now'[p] = now[p] /\ back'[p] = {now'[p]}
  BY PowerLossDisk DEF Shape, FilesAt
<1>2. ASSUME NEW p \in JobPaths
      PROVE  now'[p] \in {now[p], NoFile} /\ back'[p] \subseteq {NoFile, now'[p]}
  BY PowerLossDisk, PathFacts DEF Shape, Stored
<1>3. Stored'
  BY <1>1, <1>2, StoredStays DEF Next
<1> QED
  BY <1>1, <1>2, <1>3

\* A new record goes to a path of its own, and is the first of its client.
LEMMA InstallStored ==
    ASSUME Shape, Disk, Install
    PROVE  /\ Stored' /\ now'[draft.path] = draft.file
           /\ \A p \in Paths : FilesAt(p)' \subseteq FilesAt(p) \cup {draft.file}
           /\ \A p \in Paths : p # draft.path => now'[p] = now[p] /\ back'[p] = back[p]
<1>1. /\ pc = "write" /\ DraftFits /\ Stored /\ cur \in Clients
      /\ draft.path \in Paths /\ draft.file \in File /\ draft.file.by = cur
      /\ UNCHANGED <<server, clients, exec, clock>> /\ pc' = "installed"
  BY FileFacts DEF Install, Shape, Thread, Disk, Stored, DraftFits
<1>2. /\ now' = [now EXCEPT ![draft.path] = draft.file]
      /\ back' = [back EXCEPT ![draft.path] = @ \cup {draft.file}]
  BY DEF Install
<1>3. /\ \A p \in Paths : p # draft.path => now'[p] = now[p] /\ back'[p] = back[p]
      /\ now'[draft.path] = draft.file
      /\ back'[draft.path] = back[draft.path] \cup {draft.file}
  BY <1>1, <1>2 DEF Shape, TypeOK
<1>4. \A p \in Paths : FilesAt(p)' \subseteq FilesAt(p) \cup {draft.file}
  BY <1>3 DEF FilesAt
<1>5. \A c \in Clients : Settled(c) => Settled(c)'
  BY Stable DEF Next, HostStep, Shape
<1>6. Settled(cur)'
  BY <1>1 DEF Settled, Ahead, Shape, Places, TypeOK, clients, server
<1>7. ASSUME NEW p \in Paths, NEW f \in FilesAt(p)' PROVE Settled(f.by)'
  <2>1. CASE f = draft.file
    BY <1>1, <1>6, <2>1 DEF server
  <2>2. CASE f \in FilesAt(p)
    <3>1. f \in File
      BY <2>2 DEF FilesAt, Shape, TypeOK
    <3> QED
      BY <1>1, <1>5, <2>2, <3>1, FileFacts DEF Stored
  <2> QED
    BY <1>4, <1>7, <2>1, <2>2
<1>8. ASSUME NEW p \in JobPaths, p # draft.path
      PROVE  /\ back'[p] \subseteq {NoFile, now'[p]}
             /\ now'[p] # NoFile => RecordOf(p[1], now[p])' /\ IdIsUsed(p[2])'
             /\ now'[p] # NoFile => now'[p].by # cur
  <2>1. now'[p] = now[p] /\ back'[p] = back[p] /\ back[p] \subseteq {NoFile, now[p]}
    BY <1>1, <1>3, <1>8, PathFacts DEF Stored
  <2>2. ASSUME now[p] # NoFile PROVE RecordOf(p[1], now[p])' /\ IdIsUsed(p[2])'
    <3>1. RecordOf(p[1], now[p]) /\ IdIsUsed(p[2]) /\ now[p] \in File
      BY <1>1, <2>2, PathFacts DEF Stored, Shape, TypeOK
    <3>2. RecordOf(p[1], now[p])'
      BY <2>1, <3>1, RecordsStayTrue DEF Shape, Next, HostStep, RecordOf, TrueOf, Settled, Ahead
    <3>3. IdIsUsed(p[2])'
      BY <3>1, PathFacts, IdsStayUsed DEF Next, HostStep
    <3> QED
      BY <3>2, <3>3
  <2>3. now[p] # NoFile => now[p].by # cur
    BY <1>1 DEF Disk
  <2> QED
    BY <2>1, <2>2, <2>3
<1>9. ASSUME draft.path \in JobPaths
      PROVE  /\ back'[draft.path] \subseteq {NoFile, draft.file}
             /\ RecordOf(draft.path[1], draft.file)'
             /\ IdIsUsed(draft.path[2])'
  <2>1. /\ draft.path[1] = Current.app /\ IdIsUsed(draft.path[2])
        /\ RecordOf(Current.app, draft.file)
    BY <1>1, <1>9, PathFacts DEF DraftFits, JobPaths
  <2>2. back[draft.path] \subseteq {NoFile}
    BY <1>1, <1>9 DEF Disk, Stored
  <2>3. RecordOf(Current.app, draft.file)'
    BY <1>1, <2>1, RecordsStayTrue DEF Shape, Next, HostStep, RecordOf, TrueOf, Settled, Ahead,
       Current, server, clients
  <2>4. IdIsUsed(draft.path[2])'
    BY <1>1, <2>1 DEF IdIsUsed, server
  <2>5. RecordOf(draft.path[1], draft.file)'
    BY <1>1, <2>1, <2>3 DEF RecordOf, TrueOf, Settled, Ahead, Current, server, clients
  <2> QED
    BY <1>3, <2>2, <2>4, <2>5
<1>10. \A p \in JobPaths :
          /\ back'[p] \subseteq {NoFile, now'[p]}
          /\ now'[p] # NoFile => RecordOf(p[1], now[p])' /\ IdIsUsed(p[2])'
  <2> SUFFICES ASSUME NEW p \in JobPaths
               PROVE  /\ back'[p] \subseteq {NoFile, now'[p]}
                      /\ now'[p] # NoFile => RecordOf(p[1], now[p])' /\ IdIsUsed(p[2])'
    OBVIOUS
  <2>1. CASE p = draft.path
    BY <1>1, <1>3, <1>9, <2>1 DEF server, RecordOf, TrueOf, Settled, Ahead
  <2>2. CASE p # draft.path
    BY <1>8, <2>2
  <2> QED
    BY <2>1, <2>2
<1>11. ASSUME NEW p \in JobPaths, NEW q \in JobPaths, now'[p] # NoFile, now'[q] # NoFile,
              now'[p].by = now'[q].by
       PROVE  p = q
  <2>1. CASE p # draft.path /\ q # draft.path
    BY <1>1, <1>3, <1>11, <2>1, PathFacts DEF Stored
  <2>2. CASE p = draft.path \/ q = draft.path
    BY <1>1, <1>3, <1>8, <1>11, <2>2
  <2> QED
    BY <2>1, <2>2
<1>12. Stored'
  BY <1>7, <1>10, <1>11 DEF Stored
<1> QED
  BY <1>3, <1>4, <1>12

\* Success leaves the file as it is, to stay.
LEMMA WriteSucceedsStored ==
    ASSUME Shape, Disk, WriteSucceeds
    PROVE  /\ Stored' /\ now' = now /\ back'[draft.path] = {draft.file}
           /\ \A p \in Paths : FilesAt(p)' \subseteq FilesAt(p)
           /\ \A p \in Paths : p # draft.path => back'[p] = back[p]
<1>1. /\ pc = "installed" /\ Stored /\ now[draft.path] = draft.file /\ draft.path \in Paths
      /\ back' = [back EXCEPT ![draft.path] = {draft.file}] /\ now' = now
  BY DEF WriteSucceeds, Shape, Thread, Disk, Stored, DraftFits
<1>2. /\ back'[draft.path] = {draft.file}
      /\ \A p \in Paths : p # draft.path => back'[p] = back[p]
  BY <1>1 DEF Shape, TypeOK
<1>3. \A p \in Paths : FilesAt(p)' \subseteq FilesAt(p)
  BY <1>1, <1>2 DEF FilesAt
<1>4. \A p \in JobPaths : now'[p] \in {now[p], NoFile} /\ back'[p] \subseteq {NoFile, now'[p]}
  BY <1>1, <1>2, PathFacts DEF Stored
<1> QED
  BY <1>1, <1>2, <1>3, <1>4, StoredStays DEF Next, HostStep

\* The files on disk keep being those of settled requests.
LEMMA NextStored == ASSUME Shape, Disk, Next PROVE Stored'
  BY DiskUnchanged, StoredStaysUntouched, InstallStored, WriteSucceedsStored,
     PowerLossStored DEF Disk

\* A draft is for a client without a record, under an id without one.
LEMMA ConcludeDisk ==
    ASSUME Shape, Stored, ExecIsFresh, DoNotLaunch \/ Launch \/ CommandEnds,
           pc' = "write"
    PROVE  /\ \A p \in JobPaths : now'[p] # NoFile => now'[p].by # cur'
           /\ draft'.path \in JobPaths => now'[draft'.path] = NoFile
<1>1. /\ HostAction /\ now' = now /\ cur' = cur /\ cur \in Clients /\ req[cur] \in Requests
      /\ pc # "down"
  BY HostActionFrame, RunShape DEF HostAction, Shape, disk
<1>2. PICK result \in Results : Conclude(result)
  BY DoNotLaunchRun, LaunchRun, CommandEndsRun
<1>3. /\ Validation(Current) = "ok" /\ Current.method \in CommandMethods
      /\ pc \in {"launch", "wait"}
  BY DEF Shape, Thread, DoNotLaunch, Launch, CommandEnds
<1>4. counter' = counter + 1 /\ draft'.path = <<Current.app, <<clock, counter'>>>>
  BY <1>1, <1>2, <1>3, ConcludeShape
<1>5. Ahead(cur)
  BY <1>3 DEF Ahead
<1>6. ASSUME NEW p \in JobPaths, now[p] # NoFile PROVE now[p].by # cur
  <2>1. now[p] \in FilesAt(p)
    BY <1>6 DEF FilesAt
  <2> QED
    BY <1>5, <2>1, PathFacts DEF Stored, Settled
<1>7. ASSUME draft'.path \in JobPaths, now[draft'.path] # NoFile PROVE FALSE
  <2>1. IdIsUsed(<<clock, counter'>>)
    BY <1>4, <1>7, PathFacts DEF Stored
  <2>2. clock \in Nat /\ counter \in Nat
    BY DEF Shape, TypeOK
  <2> QED
    BY <1>1, <1>4, <2>1, <2>2 DEF IdIsUsed
<1> QED
  BY <1>1, <1>6, <1>7

\* Every step keeps what is known of the disk.
LEMMA NextDisk == Shape /\ ExecIsFresh /\ Disk /\ Next => Disk'
<1> SUFFICES ASSUME Shape, ExecIsFresh, Disk, Next PROVE Disk'
  OBVIOUS
<1>1. Stored' /\ Stored
  BY NextStored DEF Disk, Stored
<1>2. ASSUME pc' = "write"
      PROVE  /\ \A p \in JobPaths : now'[p] # NoFile => now'[p].by # cur'
             /\ draft'.path \in JobPaths => now'[draft'.path] = NoFile
  <2>1. CASE DoNotLaunch \/ Launch \/ CommandEnds
    BY <1>1, <1>2, <2>1, ConcludeDisk
  <2>2. CASE StatusGet
    <3>1. /\ cur' = cur /\ now' = now /\ pc = "handle" /\ Current.app \in AllowedApps
          /\ draft' = [path |-> <<Current.app, SnapshotName>>,
                       file |-> [by |-> cur, body |-> Snapshot]]
      <4>1. HostAction
        BY <2>2 DEF HostAction
      <4>2. req[cur] \in Requests
        BY <4>1, HostActionFrame DEF Shape
      <4> QED
        BY <1>2, <2>2, <4>2, ValidRequest DEF StatusGet, Handling, Respond, disk, Current
    <3>2. Ahead(cur)
      BY <3>1 DEF Ahead
    <3>3. ASSUME NEW p \in JobPaths, now[p] # NoFile PROVE now[p].by # cur
      <4>1. now[p] \in FilesAt(p)
        BY <3>3 DEF FilesAt
      <4> QED
        BY <1>1, <3>2, <4>1, PathFacts DEF Stored, Settled
    <3> QED
      BY <3>1, <3>3, PathFacts
  <2>3. CASE pc = "write" /\ UNCHANGED <<cur, draft, disk>>
    BY <2>3 DEF Disk, disk
  <2>4. \/ DoNotLaunch \/ Launch \/ CommandEnds \/ StatusGet
        \/ pc = "write" /\ UNCHANGED <<cur, draft, disk>>
    BY <1>2, NextCases DEF HostAction, Reject, Ping, ActionList, JobGet, LoadCatalog, Install,
       WriteSucceeds, WriteFails, Respond, SendRequest, Deliver, KillClient, Receive, SendReply,
       StartHost, HostDies, PowerLoss, LoseMemory, Tick, server
  <2> QED
    BY <2>1, <2>2, <2>3, <2>4
<1>3. ASSUME pc' = "installed" PROVE now'[draft'.path] = draft'.file
  <2>1. CASE Install
    BY <2>1, InstallStored DEF Install, server
  <2>2. CASE pc = "installed" /\ UNCHANGED <<draft, disk>>
    BY <2>2 DEF Disk, disk
  <2>3. Install \/ (pc = "installed" /\ UNCHANGED <<draft, disk>>)
    BY <1>3, NextCases DEF HostAction, Reject, Ping, ActionList, StatusGet, JobGet, LoadCatalog,
       DoNotLaunch, Launch, CommandEnds, Conclude,
       WriteSucceeds, WriteFails, Respond, SendRequest, Deliver, KillClient, Receive, SendReply,
       StartHost, HostDies, PowerLoss, LoseMemory, Tick, server
  <2> QED
    BY <2>1, <2>2, <2>3
<1> QED
  BY <1>1, <1>2, <1>3 DEF Disk, Stored

-------------------------------------------------------------------------------
(* Replies.                                                                *)

\* The host is done with c, which holds its reply or is about to.
Done(c) == client[c] = "answered" \/ (pc = "reply" /\ c = cur)

\* Whoever has a reply is settled, and no draft is written for it.
LEMMA DoneIsSettled ==
    ASSUME Shape, NEW c \in Clients, Done(c)
    PROVE  Settled(c) /\ client[c] # "idle" /\ (pc \in {"write", "installed"} => c # cur)
  BY DEF Shape, Places, TypeOK, Done, Settled, Ahead

\* A record a client was told of stays, whatever is written or lost.
LEMMA AcceptedStays ==
    ASSUME Shape, Disk, Next, NEW c \in Clients, Done(c), NEW rep, Accepted(c, rep)
    PROVE  Accepted(c, rep)'
<1> DEFINE p == <<req[c].app, rep.job>>
<1>1. req'[c] = req[c]
  BY DoneIsSettled, Stable DEF Shape
<1> SUFFICES ASSUME req[c].method = "action.invoke", rep.code = "ok"
             PROVE  now'[p] # NoFile /\ back'[p] = {now'[p]} /\ now'[p].by = c /\ p \in JobPaths
  BY <1>1 DEF Accepted
<1> HIDE DEF p
<1>2. p \in JobPaths /\ p \in Paths /\ now[p] # NoFile /\ back[p] = {now[p]} /\ now[p].by = c
  BY PathFacts DEF Accepted, p
<1>3. now'[p] = now[p] /\ back'[p] = {now[p]}
  <2>1. CASE UNCHANGED disk
    BY <1>2, <2>1 DEF disk
  <2>2. CASE Install
    <3>1. p # draft.path
      BY <1>2, <2>2 DEF Disk, Install
    <3> QED
      BY <1>2, <2>2, <3>1, InstallStored
  <2>3. CASE WriteSucceeds
    BY <1>2, <2>3, WriteSucceedsStored DEF WriteSucceeds, Disk
  <2>4. CASE PowerLoss
    BY <1>2, <2>4, PowerLossStored DEF Disk, Stored
  <2> QED
    BY <2>1, <2>2, <2>3, <2>4, DiskUnchanged
<1> QED
  BY <1>2, <1>3

\* No step but those of its own request leaves a file for a client.
LEMMA NoFileStays ==
    ASSUME Shape, Disk, Next, NEW c \in Clients, Done(c), NoFileBy(c)
    PROVE  NoFileBy(c)'
<1>1. CASE Install
  <2>1. pc = "write" /\ draft.file.by = cur /\ c # cur
    BY <1>1, DoneIsSettled DEF Install, Shape, Thread, DraftFits
  <2>2. \A p \in Paths : FilesAt(p)' \subseteq FilesAt(p) \cup {draft.file}
    BY <1>1, InstallStored
  <2> QED
    BY <2>1, <2>2 DEF NoFileBy
<1>2. CASE ~Install
  <2>1. \A p \in Paths : FilesAt(p)' \subseteq FilesAt(p)
    <3>1. CASE UNCHANGED disk
      BY <3>1 DEF disk, FilesAt
    <3>2. CASE WriteSucceeds
      BY <3>2, WriteSucceedsStored
    <3>3. CASE PowerLoss
      BY <3>3, PowerLossStored DEF Disk, Stored
    <3> QED
      BY <1>2, <3>1, <3>2, <3>3, DiskUnchanged
  <2> QED
    BY <2>1 DEF NoFileBy
<1> QED
  BY <1>1, <1>2

\* Only a request made now makes its client one that knows.
LEMMA KnownGrows ==
    ASSUME Shape, Next, NEW c \in Clients, client[c] # "idle", c \in known'
    PROVE  c \in known
<1>1. CASE \E d \in Clients, r \in Requests : SendRequest(d, r)
  BY <1>1 DEF SendRequest
<1>2. CASE known' = known
  BY <1>2
<1>3. HostAction => known' = known
  BY HostActionFrame DEF Shape, clients
<1>4. known' = known \/ \E d \in Clients, r \in Requests : SendRequest(d, r)
  BY <1>3, NextCases DEF clients, Deliver, KillClient, Receive, SendReply, StartHost, HostDies,
     PowerLoss, Tick
<1> QED
  BY <1>1, <1>2, <1>4

\* Only the host's own reply makes an answer.
LEMMA NewAnswer ==
    ASSUME TypeOK, Places, Next, NEW c \in Clients, client[c] # "answered", client'[c] = "answered"
    PROVE  SendReply /\ c = cur
<1>1. ASSUME NEW d \in Clients, NEW r \in Requests, SendRequest(d, r) PROVE FALSE
  BY <1>1 DEF SendRequest, TypeOK
<1>2. ASSUME NEW d \in Clients, Deliver(d) \/ KillClient(d) PROVE FALSE
  BY <1>2 DEF Deliver, KillClient, TypeOK
<1>3. CASE client' = client
  BY <1>3
<1>4. CASE SendReply
  BY <1>4 DEF SendReply, TypeOK
<1>5. HostAction => client' = client
  BY HostActionFrame DEF clients
<1>6. StartHost \/ Tick \/ (\E d \in Clients : Receive(d)) => client' = client
  BY DEF clients, Receive, StartHost, Tick
<1>7. HostDies \/ PowerLoss => client' = client
  BY DEF clients, HostDies, PowerLoss
<1> QED
  BY <1>1, <1>2, <1>3, <1>4, <1>5, <1>6, <1>7, NextCases

\* A reply that is right stays right.
LEMMA RightStays ==
    ASSUME Shape, Disk, Knowing, Next, NEW c \in Clients, Done(c), NEW rep, Right(c, rep)
    PROVE  Right(c, rep)'
<1>1. rep \in Reply /\ Settled(c) /\ client[c] # "idle" /\ req'[c] = req[c] /\ exec'[c] = exec[c]
  BY DoneIsSettled, Stable DEF Right, Shape
<1>2. rep.file \notin {NoFile, Foreign} => rep.file \in File
  BY <1>1 DEF Reply
<1>3. Accepted(c, rep)'
  BY AcceptedStays DEF Right
<1>4. Refused(c, rep)'
  BY <1>1, NoFileStays DEF Right, Refused, Complaint
<1>5. Reported(c, rep)'
  <2> SUFFICES ASSUME req[c].method = "action.job.get", rep.code = "ok"
               PROVE  /\ rep.file # NoFile
                      /\ rep.file # Foreign => \E app \in AllowedApps : RecordOf(app, rep.file)'
                      /\ req[c].job \in JobIds =>
                           rep.file # Foreign /\ RecordOf(req[c].app, rep.file)'
    BY <1>1 DEF Reported, RecordOf, TrueOf, Settled, Ahead
  <2>1. /\ rep.file # NoFile
        /\ rep.file # Foreign => \E app \in AllowedApps : RecordOf(app, rep.file)
        /\ req[c].job \in JobIds => rep.file # Foreign /\ RecordOf(req[c].app, rep.file)
    BY DEF Right, Reported
  <2>2. ASSUME NEW app, rep.file # Foreign, RecordOf(app, rep.file)
        PROVE  RecordOf(app, rep.file)'
    <3>1. PICK f \in File : f = rep.file
      BY <1>2, <2>1, <2>2
    <3>2. RecordOf(app, f)'
      BY <2>2, <3>1, RecordsStayTrue DEF Shape, RecordOf, TrueOf, Settled, Ahead
    <3> QED
      BY <3>1, <3>2 DEF RecordOf, TrueOf, Settled, Ahead
  <2>3. ASSUME rep.file # Foreign
        PROVE  \E app \in AllowedApps : RecordOf(app, rep.file)'
    <3>1. PICK app \in AllowedApps : RecordOf(app, rep.file)
      BY <2>1, <2>3
    <3>2. RecordOf(app, rep.file)'
      BY <2>2, <2>3, <3>1
    <3> QED
      BY <3>2
  <2>4. ASSUME req[c].job \in JobIds
        PROVE  rep.file # Foreign /\ RecordOf(req[c].app, rep.file)'
    <3>1. PICK app : app = req[c].app
      OBVIOUS
    <3>2. rep.file # Foreign /\ RecordOf(app, rep.file)
      BY <2>1, <2>4, <3>1
    <3>3. RecordOf(app, rep.file)'
      BY <2>2, <3>2
    <3> QED
      BY <1>1, <3>1, <3>2, <3>3 DEF RecordOf
  <2> QED
    BY <2>1, <2>3, <2>4
<1>6. Found(c, rep)'
  <2> SUFFICES ASSUME c \in known'
               PROVE  /\ rep.code = "ok" /\ rep.file \in File
                      /\ ToldBy(rep.file.by, <<req[c].app, req[c].job>>)'
    BY <1>1 DEF Found
  <2>1. c \in known
    BY <1>1, KnownGrows
  <2>2. /\ rep.code = "ok" /\ rep.file \in File
        /\ ToldBy(rep.file.by, <<req[c].app, req[c].job>>)
    BY <2>1 DEF Right, Found
  <2>3. rep.file.by \in Clients
    BY <2>2, FileFacts
  <2>4. PICK d, p : d = rep.file.by /\ p = <<req[c].app, req[c].job>>
    OBVIOUS
  <2>5. ToldBy(d, p)'
    <3>1. ToldBy(d, p)
      BY <2>2, <2>4 DEF ToldBy
    <3> QED
      BY <2>3, <2>4, <3>1, ToldStays DEF Shape
  <2> QED
    BY <1>1, <2>2, <2>4, <2>5 DEF ToldBy
<1> QED
  BY <1>1, <1>3, <1>4, <1>5, <1>6 DEF Right

\* A client known to ask for a job asks for one that was stored and told of.
LEMMA KnownJobIsThere ==
    ASSUME Shape, Answers, Knowing, NEW c \in known
    PROVE  /\ req[c] \in Requests /\ req[c].method = "action.job.get"
           /\ Validation(req[c]) = "ok"
           /\ LET p == <<req[c].app, req[c].job>>
              IN  /\ p \in JobPaths /\ now[p] # NoFile
                  /\ ToldBy(now[p].by, p)
<1> DEFINE p == <<req[c].app, req[c].job>>
<1>1. PICK d \in Clients : ToldBy(d, p)
  BY DEF Knowing, Told
<1>2. Right(d, got[d]) /\ p = <<req[d].app, got[d].job>>
  BY <1>1 DEF ToldBy, Answers
<1>3. p \in JobPaths /\ now[p] # NoFile /\ now[p].by = d
  BY <1>1, <1>2 DEF Right, Accepted, ToldBy
<1>4. req[c].app \in AllowedApps /\ req[c].job \in JobIds
  BY <1>3, PathFacts
<1>5. c \in Clients /\ req[c] \in Requests /\ req[c].wellFormed /\ req[c].method = "action.job.get"
  BY DEF Shape, TypeOK, Places, Knowing
<1> QED
  BY <1>1, <1>3, <1>4, <1>5, KnownRequestIsValid

\* Nothing was done for a request before it is handled.
LEMMA HandledIsUntouched ==
    ASSUME Shape, ExecIsFresh, Disk, pc = "handle"
    PROVE  cur \in Clients /\ exec[cur] = "none" /\ NoFileBy(cur)
<1>1. cur \in Clients /\ Ahead(cur)
  BY DEF Shape, Places, TypeOK, Ahead
<1>2. exec[cur] = "none"
  BY <1>1 DEF ExecIsFresh
<1>3. NoFileBy(cur)
  BY <1>1 DEF NoFileBy, Disk, Stored, Settled
<1> QED
  BY <1>1, <1>2, <1>3

\* An answer to anything but an action.job.get that reports no new record.
LEMMA PlainAnswer ==
    ASSUME Shape, Knowing, HostAction, NEW code \in {"ok", "E_INTERNAL", "E_NATIVE_UNAVAILABLE"},
           NEW job, NEW file, Respond(code, job, file), Shape',
           Current.method # "action.job.get",
           Current.method = "action.invoke" => code # "ok"
    PROVE  Right(cur, reply)'
<1>1. cur \in Clients /\ cur' = cur /\ req' = req /\ known' = known /\ pc' = "reply"
      /\ reply' = [code |-> code, job |-> job, file |-> file]
  BY HostActionFrame DEF Shape, clients, Respond
<1>2. reply' \in Reply
  BY <1>1 DEF Shape, Thread
<1>3. cur \notin known
  BY DEF Knowing, Current
<1>4. Accepted(cur, reply)' /\ Refused(cur, reply)' /\ Reported(cur, reply)' /\ Found(cur, reply)'
  BY <1>1, <1>3 DEF Accepted, Refused, Reported, Found, Complaint, Current
<1> QED
  BY <1>2, <1>4 DEF Right

\* A refusal is right.
LEMMA RejectAnswer ==
    ASSUME Shape, ExecIsFresh, Disk, Answers, Knowing, Reject
    PROVE  Right(cur, reply)'
<1>1. /\ HostAction /\ pc = "handle" /\ UNCHANGED <<exec, disk, clients, cur>>
      /\ cur \in Clients /\ exec[cur] = "none" /\ NoFileBy(cur)
      /\ reply' = [code |-> Validation(Current), job |-> Absent, file |-> NoFile]
      /\ pc' = "reply"
  BY HandledIsUntouched DEF HostAction, Reject, Respond
<1>2. reply' \in Reply
  BY <1>1, RejectShape DEF Shape, Thread
<1>3. cur \notin known /\ Validation(Current) # "ok"
  BY KnownJobIsThere DEF Reject, Current
<1>4. NoFileBy(cur)'
  BY <1>1 DEF NoFileBy, FilesAt, disk
<1>5. Accepted(cur, reply)' /\ Refused(cur, reply)' /\ Reported(cur, reply)' /\ Found(cur, reply)'
  BY <1>1, <1>3, <1>4 DEF Accepted, Refused, Reported, Found, clients
<1> QED
  BY <1>2, <1>5 DEF Right

\* What HandleActionJobGet answers is right.
LEMMA JobGetAnswer ==
    ASSUME Shape, ExecIsFresh, Disk, Answers, Knowing, JobGet
    PROVE  Right(cur, reply)' /\ Fresh(Current, reply')
<1>1. /\ HostAction /\ pc = "handle" /\ UNCHANGED <<exec, disk, clients, cur>>
      /\ cur \in Clients /\ exec[cur] = "none" /\ NoFileBy(cur) /\ req[cur] \in Requests
      /\ Validation(Current) = "ok" /\ pc' = "reply"
  BY HandledIsUntouched, HostActionFrame DEF Shape, HostAction, JobGet, Respond, Handling
<1>2. reply' \in Reply
  BY <1>1, JobGetShape DEF Shape, Thread
<1>3. NoFileBy(cur)'
  BY <1>1 DEF NoFileBy, FilesAt, disk
<1>4. /\ Current.app \in AllowedApps /\ Current.method = "action.job.get"
      /\ Fresh(Current, reply') /\ (Current.job \in JobIds => reply'.code # "E_INTERNAL")
      /\ reply'.code \in {"ok", "E_NOT_FOUND", "E_INTERNAL"}
  <2>1. PICK code \in {"ok", "E_NOT_FOUND", "E_INTERNAL"}, job \in JobIds \cup {Absent},
             file \in File \cup {NoFile, Foreign} :
          /\ Respond(code, job, file)
          /\ Fresh(Current, [code |-> code, job |-> job, file |-> file])
          /\ Current.job \in JobIds => code # "E_INTERNAL"
    BY <1>1, JobGetReply DEF Shape
  <2>2. reply' = [code |-> code, job |-> job, file |-> file]
    BY <2>1 DEF Respond
  <2>3. Fresh(Current, reply')
    BY <2>1, <2>2
  <2>4. Current.app \in AllowedApps /\ Current.method = "action.job.get"
    BY <1>1, JobGetReply DEF Shape
  <2> QED
    BY <2>1, <2>2, <2>3, <2>4
<1>5. ASSUME cur \in known
      PROVE  /\ reply'.code = "ok" /\ reply'.file \in File
             /\ ToldBy(reply'.file.by, <<Current.app, Current.job>>)
  <2>1. LET p == <<Current.app, Current.job>>
        IN  p \in JobPaths /\ now[p] # NoFile /\ ToldBy(now[p].by, p)
    BY <1>5, KnownJobIsThere DEF Current
  <2>2. Current.job \in JobIds /\ now[<<Current.app, Current.job>>] \in File
    BY <2>1, PathFacts DEF Shape, TypeOK
  <2>3. reply'.code = "ok" /\ reply'.file = now[<<Current.app, Current.job>>]
    BY <1>4, <2>1, <2>2 DEF Fresh, RecordPath
  <2> QED
    BY <2>1, <2>2, <2>3
<1>6. ASSUME reply'.code = "ok", reply'.file # Foreign
      PROVE  \E app \in AllowedApps, f \in File :
                app = RecordPath(Current)[1] /\ f = reply'.file /\ RecordOf(app, f)'
  <2> DEFINE path == RecordPath(Current)
  <2>1. path \in JobPaths /\ reply'.file = now[path] /\ reply'.file # NoFile
    BY <1>4, <1>6 DEF Fresh
  <2>2. PICK a \in AllowedApps, f \in File : a = path[1] /\ f = now[path]
    BY <2>1, PathFacts DEF Shape, TypeOK
  <2>3. RecordOf(a, f)
    BY <2>1, <2>2 DEF Disk, Stored
  <2>4. RecordOf(a, f)'
    BY <1>1, <2>3, RecordsStayTrue DEF Next, HostStep, Shape, RecordOf
  <2> QED
    BY <2>1, <2>2, <2>4
<1>7. Accepted(cur, reply)' /\ Refused(cur, reply)'
  BY <1>1, <1>3, <1>4 DEF Accepted, Refused, clients, Current
<1>8. Reported(cur, reply)'
  <2>1. reply'.code = "ok" => reply'.file # NoFile
    BY <1>4 DEF Fresh
  <2>2. ASSUME reply'.code = "ok", Current.job \in JobIds
        PROVE  reply'.file # Foreign /\ RecordPath(Current)[1] = Current.app
    BY <1>4, <2>2, PathFacts DEF Fresh, RecordPath, Shape, TypeOK
  <2>3. cur' = cur /\ req' = req
    BY <1>1 DEF clients
  <2> SUFFICES ASSUME reply'.code = "ok"
               PROVE  /\ reply'.file # Foreign =>
                            \E app \in AllowedApps : RecordOf(app, reply.file)'
                      /\ Current.job \in JobIds =>
                            reply'.file # Foreign /\ RecordOf(req[cur].app, reply.file)'
    BY <2>1, <2>3 DEF Reported, Current
  <2>4. ASSUME reply'.file # Foreign
        PROVE  \E app \in AllowedApps :
                  app = RecordPath(Current)[1] /\ RecordOf(app, reply.file)'
    <3>1. PICK app \in AllowedApps, f \in File :
            app = RecordPath(Current)[1] /\ f = reply'.file /\ RecordOf(app, f)'
      BY <1>6, <2>4
    <3>2. RecordOf(app, reply.file)'
      BY <3>1 DEF RecordOf, TrueOf, Settled, Ahead
    <3> QED
      BY <3>1, <3>2
  <2>5. ASSUME Current.job \in JobIds
        PROVE  reply'.file # Foreign /\ RecordOf(req[cur].app, reply.file)'
    <3>1. PICK app \in AllowedApps : app = Current.app /\ RecordOf(app, reply.file)'
      BY <2>2, <2>4, <2>5
    <3>2. req'[cur'].app = app
      BY <2>3, <3>1 DEF Current
    <3> QED
      BY <2>2, <2>5, <3>1, <3>2 DEF RecordOf
  <2> QED
    BY <2>4, <2>5
<1>9. Found(cur, reply)'
  BY <1>1, <1>5 DEF Found, ToldBy, Current, clients
<1> QED
  BY <1>2, <1>4, <1>7, <1>8, <1>9 DEF Right

\* An answer given after its file was written is right.
LEMMA WriteSucceedsAnswer ==
    ASSUME Shape, Disk, Knowing, WriteSucceeds
    PROVE  /\ Right(cur, reply)'
           /\ Current.method = "status.get" =>
                 /\ back'[<<Current.app, SnapshotName>>] = {reply'.file}
                 /\ reply'.file.by = cur
           /\ Current.method # "action.job.get"
<1>1. /\ HostAction /\ pc = "installed" /\ UNCHANGED <<exec, clients, cur, now>>
      /\ cur \in Clients /\ DraftFits /\ now[draft.path] = draft.file /\ pc' = "reply"
      /\ back'[draft.path] = {draft.file}
  BY WriteSucceedsStored, HostActionFrame DEF HostAction, WriteSucceeds, Respond, Shape, Thread,
     Disk
<1>2. reply' \in Reply
  BY WriteSucceedsShape, <1>1 DEF Shape, Thread
<1>3. CASE Current.method = "action.invoke"
  <2>1. reply' = [code |-> "ok", job |-> draft.path[2], file |-> NoFile]
    BY <1>3 DEF WriteSucceeds, Respond
  <2>2. /\ draft.path \in JobPaths /\ draft.path = <<Current.app, draft.path[2]>>
        /\ draft.file.by = cur /\ draft.file # NoFile
    BY <1>1, <1>3, PathFacts, FileFacts DEF DraftFits
  <2>3. Accepted(cur, reply)'
    BY <1>1, <2>1, <2>2 DEF Accepted, Current, clients
  <2>4. Refused(cur, reply)' /\ Reported(cur, reply)'
    BY <1>1, <1>3, <2>1 DEF Refused, Reported, Complaint, Current, clients
  <2>5. Found(cur, reply)'
    BY <1>1, <1>3 DEF Found, Knowing, Current, clients
  <2> QED
    BY <1>2, <1>3, <2>3, <2>4, <2>5 DEF Right
<1>4. CASE Current.method # "action.invoke"
  <2>1. Respond("ok", Absent, draft.file)
    BY <1>4 DEF WriteSucceeds
  <2>2. /\ Current.method = "status.get" /\ draft.path = <<Current.app, SnapshotName>>
        /\ draft.file.by = cur
    BY <1>1, <1>4 DEF DraftFits
  <2>3. Right(cur, reply)'
    BY <1>1, <1>4, <2>1, <2>2, PlainAnswer, WriteSucceedsShape
  <2> QED
    BY <1>1, <2>1, <2>2, <2>3 DEF Respond
<1> QED
  BY <1>3, <1>4

\* Every new reply is right, whichever action gives it.
LEMMA NewAnswerIsRight ==
    ASSUME Shape, ExecIsFresh, Disk, Answers, Knowing, HostAction, pc' = "reply"
    PROVE  Right(cur, reply)'
<1>1. Shape'
  BY NextShape DEF Next, HostAction, HostStep
<1>2. pc # "reply"
  BY DEF HostAction, Reject, Ping, ActionList, StatusGet, JobGet, LoadCatalog, DoNotLaunch,
     Launch, CommandEnds, Install, WriteSucceeds, WriteFails, Handling
<1>3. CASE Ping
  BY <1>1, <1>3, PlainAnswer DEF Ping, Handling
<1>4. CASE ActionList
  <2>1. PICK code \in {"ok", "E_INTERNAL"} : Respond(code, Absent, NoFile)
    BY <1>4 DEF ActionList
  <2> QED
    BY <1>1, <1>4, <2>1, PlainAnswer DEF ActionList, Handling
<1>5. CASE StatusGet
  <2>1. PICK code \in {"E_NATIVE_UNAVAILABLE", "E_INTERNAL"} : Respond(code, Absent, NoFile)
    BY <1>5 DEF StatusGet
  <2> QED
    BY <1>1, <1>5, <2>1, PlainAnswer DEF StatusGet, Handling
<1>6. CASE LoadCatalog
  <2>1. Respond("E_INTERNAL", Absent, NoFile)
    BY <1>6 DEF LoadCatalog
  <2> QED
    BY <1>1, <1>6, <2>1, PlainAnswer DEF LoadCatalog, Handling, CommandMethods
<1>7. CASE DoNotLaunch \/ Launch \/ CommandEnds
  <2>1. PICK result \in Results : Conclude(result)
    BY <1>7, DoNotLaunchRun, LaunchRun, CommandEndsRun
  <2>2. Current.method \in CommandMethods
    BY <1>7 DEF Shape, Thread, DoNotLaunch, Launch, CommandEnds
  <2>3. Current.method # "action.invoke" /\ Respond("ok", Absent, NoFile)
    BY <2>1 DEF Conclude
  <2> QED
    BY <1>1, <2>2, <2>3, PlainAnswer DEF CommandMethods
<1>8. CASE WriteFails
  <2>1. Current.method \in {"action.invoke", "status.get"}
    BY <1>8 DEF WriteFails, Shape, Thread, DraftFits
  <2>2. \E code \in {"E_INTERNAL", "E_NATIVE_UNAVAILABLE"} : Respond(code, Absent, NoFile)
    BY <1>8 DEF WriteFails
  <2> QED
    BY <1>1, <2>1, <2>2, PlainAnswer
<1>9. CASE Install
  BY <1>9 DEF Install
<1> QED
  BY <1>3, <1>4, <1>5, <1>6, <1>7, <1>8, <1>9, RejectAnswer, JobGetAnswer, WriteSucceedsAnswer
     DEF HostAction

\* The reply at hand stays until it is sent or lost.
LEMMA ReplyStays ==
    ASSUME Shape, Next, ~HostAction, pc' = "reply"
    PROVE  pc = "reply" /\ UNCHANGED <<reply, cur, disk>> /\ cur \in Clients
<1>1. pc = "reply" /\ UNCHANGED <<reply, cur, disk>>
  BY NextCases DEF SendRequest, Deliver, KillClient, Receive, SendReply, StartHost, HostDies,
     PowerLoss, LoseMemory, Tick, server
<1> QED
  BY <1>1 DEF Shape, Places, TypeOK

\* Every answer held, or about to be sent, stays right.
LEMMA NextAnswers ==
    ASSUME Shape, ExecIsFresh, Disk, Answers, Knowing, Next
    PROVE  Answers'
<1>1. ASSUME NEW c \in Clients, client'[c] = "answered" PROVE Right(c, got[c])'
  <2>1. CASE client[c] = "answered"
    <3>1. Right(c, got[c]) /\ Done(c) /\ got'[c] = got[c]
      BY <2>1, Stable DEF Answers, Done, Shape
    <3>2. PICK rep : rep = got[c]
      OBVIOUS
    <3>3. Right(c, rep)'
      BY <3>1, <3>2, RightStays
    <3>4. got'[c] = rep
      BY <3>1, <3>2
    <3>5. Right(c, got[c])'
      BY <3>3, <3>4 DEF Right, Accepted, Refused, Complaint, Reported, Found, RecordOf,
         TrueOf, Settled, Ahead, ToldBy
    <3> QED
      BY <3>5
  <2>2. CASE client[c] # "answered"
    <3>1. SendReply /\ c = cur
      BY <1>1, <2>2, NewAnswer DEF Shape
    <3>2. Right(c, reply) /\ Done(c) /\ got'[c] = reply
      BY <1>1, <2>2, <3>1 DEF SendReply, Answers, Done, Shape, TypeOK
    <3>3. PICK rep : rep = reply
      OBVIOUS
    <3>4. Right(c, rep)'
      BY <3>2, <3>3, RightStays
    <3>5. Right(c, got[c])'
      BY <3>2, <3>3, <3>4 DEF Right, Accepted, Refused, Complaint, Reported, Found, RecordOf,
         TrueOf, Settled, Ahead, ToldBy
    <3> QED
      BY <3>5
  <2> QED
    BY <2>1, <2>2
<1>2. ASSUME pc' = "reply" PROVE Right(cur, reply)'
  <2>1. CASE HostAction
    BY <1>2, <2>1, NewAnswerIsRight
  <2>2. CASE ~HostAction
    <3>1. Right(cur, reply) /\ Done(cur) /\ cur \in Clients /\ UNCHANGED <<reply, cur>>
      BY <1>2, <2>2, ReplyStays DEF Answers, Done
    <3>2. PICK rep, c : rep = reply /\ c = cur
      OBVIOUS
    <3>3. Right(c, rep)'
      BY <3>1, <3>2, RightStays
    <3> QED
      BY <3>1, <3>2, <3>3 DEF Right, Accepted, Refused, Complaint, Reported, Found, RecordOf,
         TrueOf, Settled, Ahead, ToldBy
  <2> QED
    BY <2>1, <2>2
<1> QED
  BY <1>1, <1>2 DEF Answers

\* Who knows of a job was told of it.
LEMMA NextKnowing ==
    ASSUME Shape, Knowing, Next
    PROVE  Knowing'
<1> SUFFICES ASSUME NEW c \in known'
             PROVE  /\ client'[c] # "idle" /\ req'[c].wellFormed
                    /\ req'[c].method = "action.job.get"
                    /\ Told(<<req[c].app, req[c].job>>)'
  BY DEF Knowing
<1>1. CASE c \in known
  <2>1. c \in Clients /\ req'[c] = req[c] /\ client'[c] # "idle" /\ req[c].wellFormed
        /\ req[c].method = "action.job.get"
    BY <1>1, Stable DEF Knowing, Shape, TypeOK
  <2>2. PICK d \in Clients : ToldBy(d, <<req[c].app, req[c].job>>)
    BY <1>1 DEF Knowing, Told
  <2>3. ToldBy(d, <<req[c].app, req[c].job>>)'
    <3>1. PICK p : p = <<req[c].app, req[c].job>>
      OBVIOUS
    <3>2. ToldBy(d, p)'
      BY <2>2, <3>1, ToldStays DEF Shape, ToldBy
    <3> QED
      BY <2>1, <3>1, <3>2 DEF ToldBy
  <2> QED
    BY <2>1, <2>3 DEF Told
<1>2. CASE c \notin known
  <2>1. PICK r \in Requests : SendRequest(c, r) /\ c \in Clients
    <3>1. ASSUME ~\E d \in Clients, r \in Requests : SendRequest(d, r)
          PROVE  known' = known
      BY <3>1, NextCases, HostActionFrame DEF Shape, clients, Deliver, KillClient, Receive,
         SendReply, StartHost, HostDies, PowerLoss, Tick
    <3>2. PICK d \in Clients, r \in Requests : SendRequest(d, r)
      BY <1>2, <3>1
    <3>3. d = c
      BY <1>2, <3>2 DEF SendRequest
    <3> QED
      BY <3>2, <3>3
  <2>2. /\ r.wellFormed /\ r.method = "action.job.get" /\ Told(<<r.app, r.job>>)
        /\ req'[c] = r /\ client'[c] = "sending"
    BY <1>2, <2>1 DEF SendRequest, Shape, TypeOK
  <2>3. PICK d \in Clients : ToldBy(d, <<r.app, r.job>>)
    BY <2>2 DEF Told
  <2>4. ToldBy(d, <<req[c].app, req[c].job>>)'
    BY <2>1, <2>2, <2>3, ToldStays DEF Shape, ToldBy, Next
  <2> QED
    BY <2>2, <2>4 DEF Told
<1> QED
  BY <1>1, <1>2

\* A report on a job is made of what is on disk.
LEMMA NextReplyIsFresh ==
    ASSUME Shape, ExecIsFresh, Disk, Answers, Knowing, ReplyIsFresh, Next
    PROVE  ReplyIsFresh'
<1> SUFFICES ASSUME pc' = "reply", Current'.method = "action.job.get"
             PROVE  Fresh(Current, reply)'
  BY DEF ReplyIsFresh
<1>1. CASE HostAction
  <2>1. cur' = cur /\ req' = req /\ req[cur] \in Requests /\ Current' = Current
    BY <1>1, HostActionFrame DEF Shape, clients, Current
  <2>2. CASE JobGet
    <3>1. Fresh(Current, reply') /\ now' = now
      BY <2>2, JobGetAnswer DEF JobGet, disk
    <3> QED
      BY <2>1, <3>1 DEF Fresh, RecordPath
  <2>3. CASE Reject
    BY <2>1, <2>3, ValidRequest DEF Reject, Respond, Current, Fresh
  <2>4. CASE ~JobGet /\ ~Reject
    <3>1. Current.method = "action.job.get"
      BY <2>1
    <3> QED
      BY <1>1, <2>4, <3>1 DEF HostAction, Ping, ActionList, StatusGet, LoadCatalog, Handling,
         CommandMethods, Shape, Thread, DraftFits, DoNotLaunch, Launch, CommandEnds, Install,
         WriteSucceeds, WriteFails
  <2> QED
    BY <2>2, <2>3, <2>4
<1>2. CASE ~HostAction
  <2>1. pc = "reply" /\ UNCHANGED <<reply, cur, disk>> /\ cur \in Clients
    BY <1>2, ReplyStays
  <2>2. Current' = Current
    BY <2>1, Stable DEF Shape, Places, TypeOK, Current
  <2> QED
    BY <2>1, <2>2 DEF ReplyIsFresh, Fresh, RecordPath, disk
<1> QED
  BY <1>1, <1>2

\* A status reported is the one published.
LEMMA NextReportedStatus ==
    ASSUME Shape, ExecIsFresh, Disk, Knowing, ReportedStatusIsPublished, Next
    PROVE  ReportedStatusIsPublished'
<1> SUFFICES ASSUME pc' = "reply", Current'.method = "status.get", reply'.code = "ok"
             PROVE  (/\ back[<<Current.app, SnapshotName>>] = {reply.file}
                     /\ reply.file.by = cur)'
  BY DEF ReportedStatusIsPublished
<1>1. CASE HostAction
  <2>1. cur' = cur /\ req' = req /\ req[cur] \in Requests /\ Current' = Current
    BY <1>1, HostActionFrame DEF Shape, clients, Current
  <2>2. CASE WriteSucceeds
    BY <2>1, <2>2, WriteSucceedsAnswer
  <2>3. CASE ~WriteSucceeds
    <3>1. Current.method = "status.get"
      BY <2>1
    <3> QED
      BY <1>1, <2>3, <3>1 DEF HostAction, Reject, Ping, ActionList, JobGet, StatusGet, LoadCatalog,
         Handling, CommandMethods, Shape, Thread, DraftFits, DoNotLaunch, Launch, CommandEnds,
         Install, WriteFails, Respond
  <2> QED
    BY <2>2, <2>3
<1>2. CASE ~HostAction
  <2>1. pc = "reply" /\ UNCHANGED <<reply, cur, disk>> /\ cur \in Clients
    BY <1>2, ReplyStays
  <2>2. Current' = Current
    BY <2>1, Stable DEF Shape, Places, TypeOK, Current
  <2> QED
    BY <2>1, <2>2 DEF ReportedStatusIsPublished, disk
<1> QED
  BY <1>1, <1>2

-------------------------------------------------------------------------------
(* The theorems.                                                           *)

\* The invariant holds at the start.
LEMMA InitInv == Init => Inv
<1> SUFFICES ASSUME Init PROVE Inv
  OBVIOUS
<1>1. Shape
  BY InitShape
<1>2. ExecIsFresh
  BY DEF Init, ExecIsFresh
<1>3. Disk
  <2>1. \A p \in Paths : FilesAt(p) = {} /\ now[p] = NoFile /\ back[p] = {NoFile}
    BY DEF Init, FilesAt
  <2> QED
    BY <2>1, PathFacts DEF Init, Disk, Stored
<1>4. Answers /\ Knowing /\ ReplyIsFresh /\ ReportedStatusIsPublished
  BY DEF Init, Answers, Knowing, ReplyIsFresh, ReportedStatusIsPublished
<1> QED
  BY <1>1, <1>2, <1>3, <1>4 DEF Inv

\* A step that changes nothing keeps the invariant.
LEMMA StutterInv == Inv /\ UNCHANGED vars => Inv'
<1> SUFFICES ASSUME Inv, UNCHANGED vars PROVE Inv'
  OBVIOUS
<1> USE DEF vars, server, clients, disk
<1>1. Shape'
  BY DEF Inv, Shape, TypeOK, Places, Thread, DraftFits, RecordOf, Settled, Ahead, TrueOf,
     IdIsUsed, Current, Validation
<1>2. ExecIsFresh' /\ Disk'
  BY DEF Inv, ExecIsFresh, Disk, Stored, FilesAt, RecordOf, Settled, Ahead, TrueOf, IdIsUsed
<1>3. Knowing'
  BY DEF Inv, Knowing, Told, ToldBy
<1>4. ReplyIsFresh' /\ ReportedStatusIsPublished'
  BY DEF Inv, ReplyIsFresh, ReportedStatusIsPublished, Current, Fresh, RecordPath
<1>5. /\ \A app, f : RecordOf(app, f) => RecordOf(app, f)'
      /\ \A c : NoFileBy(c) => NoFileBy(c)'
      /\ \A d, p : ToldBy(d, p) => ToldBy(d, p)'
  BY DEF RecordOf, Settled, Ahead, TrueOf, NoFileBy, FilesAt, ToldBy
<1>6. \A c, rep : Right(c, rep) => Right(c, rep)'
  BY <1>5 DEF Right, Accepted, Refused, Complaint, Reported, Found
<1>7. Answers'
  <2>1. ASSUME NEW c \in Clients, client[c] = "answered" PROVE Right(c, got[c])'
    <3>1. PICK rep : rep = got[c] /\ Right(c, rep)
      BY <2>1 DEF Inv, Answers
    <3>2. Right(c, rep)' /\ got'[c] = rep
      BY <1>6, <3>1
    <3> QED
      BY <3>2 DEF Right, Accepted, Refused, Complaint, Reported, Found, RecordOf, TrueOf, Settled,
         Ahead, ToldBy
  <2>2. ASSUME pc = "reply" PROVE Right(cur, reply)'
    <3>1. PICK c, rep : c = cur /\ rep = reply /\ Right(c, rep)
      BY <2>2 DEF Inv, Answers
    <3>2. Right(c, rep)' /\ reply' = rep /\ cur' = c
      BY <1>6, <3>1
    <3> QED
      BY <3>2 DEF Right, Accepted, Refused, Complaint, Reported, Found, RecordOf, TrueOf, Settled,
         Ahead, ToldBy
  <2> QED
    BY <2>1, <2>2 DEF Answers
<1> QED
  BY <1>1, <1>2, <1>3, <1>4, <1>7 DEF Inv

\* Every step of host, clients and machine keeps the invariant.
LEMMA NextInv == Inv /\ Next => Inv'
  BY NextShape, NextExecIsFresh, NextDisk, NextAnswers, NextKnowing, NextReplyIsFresh,
     NextReportedStatus DEF Inv

\* The inductive invariant: whatever dies, is killed or loses power, the host
\* acts upon a request once and gives a job id once.
THEOREM Invariance == Spec => []Inv
<1>1. Init => Inv
  BY InitInv
<1>2. Inv /\ [Next]_vars => Inv'
  BY NextInv, StutterInv
<1> QED
  BY <1>1, <1>2, PTL DEF Spec

\* Every variable of host and clients keeps its type.
THEOREM TypeCorrect == Spec => []TypeOK
<1>1. Inv => TypeOK
  BY DEF Inv, Shape
<1> QED
  BY <1>1, Invariance, PTL

\* When a client holds the answer that its action was accepted, the record of
\* that job is on disk to stay, was written for its request and is true.
THEOREM AcceptedJobsStayStored == Spec => []AcceptedJobsAreStored
<1>1. ASSUME Inv, NEW c \in Clients, NEW p \in JobPaths, ToldBy(c, p)
      PROVE  now[p] # NoFile /\ back[p] = {now[p]} /\ now[p].by = c /\ TrueOf(now[p].body, c)
  <2>1. Right(c, got[c]) /\ req[c].method = "action.invoke" /\ got[c].code = "ok"
        /\ p = <<req[c].app, got[c].job>>
    BY <1>1 DEF Inv, Answers, ToldBy
  <2>2. now[p] # NoFile /\ back[p] = {now[p]} /\ now[p].by = c
    BY <2>1 DEF Right, Accepted
  <2>3. RecordOf(p[1], now[p])
    BY <1>1, <2>2 DEF Inv, Disk, Stored
  <2> QED
    BY <2>2, <2>3 DEF RecordOf
<1>2. Inv => AcceptedJobsAreStored
  BY <1>1 DEF AcceptedJobsAreStored
<1> QED
  BY <1>2, Invariance, PTL

\* No request leaves two job records, and none but an action.invoke for that
\* app leaves one there.
THEOREM OneRecordEach == Spec => []OneRecordPerInvoke
<1>1. Inv => OneRecordPerInvoke
  BY DEF Inv, Disk, Stored, OneRecordPerInvoke, RecordOf
<1> QED
  BY <1>1, Invariance, PTL

\* A request answered with a complaint about it had no effect.
THEOREM RefusedHasNoEffect == Spec => []ComplaintsHaveNoEffect
<1>1. ASSUME Inv, NEW c \in Clients, client[c] = "answered",
             got[c].code \notin {"ok", "E_INTERNAL", "E_NATIVE_UNAVAILABLE"}
      PROVE  exec[c] = "none" /\ \A p \in Paths : now[p] # NoFile => now[p].by # c
  BY <1>1 DEF Inv, Answers, Right, Refused, Complaint, NoFileBy, FilesAt
<1>2. Inv => ComplaintsHaveNoEffect
  BY <1>1 DEF ComplaintsHaveNoEffect
<1> QED
  BY <1>2, Invariance, PTL

\* Whoever could know a job id is answered with the record of that job.
THEOREM KnownJobsStayFound == Spec => []KnownJobsAreFound
<1>1. Inv => KnownJobsAreFound
  BY DEF Inv, Answers, Right, Found, KnownJobsAreFound, Shape, TypeOK
<1> QED
  BY <1>1, Invariance, PTL

\* What action.job.get reports from a record is the true outcome of an action,
\* and one of the app it was asked about when it was asked for a job id.
THEOREM ReportsAreTrue == Spec => []JobReportsAreTrue
<1>1. Inv => JobReportsAreTrue
  BY DEF Inv, Answers, Right, Reported, RecordOf, JobReportsAreTrue
<1> QED
  BY <1>1, Invariance, PTL

\* A status about to be reported is the app's snapshot, to stay.
THEOREM ReportedIsPublished == Spec => []ReportedStatusIsPublished
<1>1. Inv => ReportedStatusIsPublished
  BY DEF Inv
<1> QED
  BY <1>1, Invariance, PTL

\* A job record is never replaced by another, whatever a restarted host counts.
THEOREM RecordsAreFinal == Spec => StoredRecordsAreFinal
<1> DEFINE Final == \A p \in JobPaths : now[p] # NoFile => now'[p] \in {now[p], NoFile}
<1>1. Inv /\ [Next]_vars => [Final]_vars
  <2> SUFFICES ASSUME Inv, Next PROVE Final
    OBVIOUS
  <2> SUFFICES ASSUME NEW p \in JobPaths, now[p] # NoFile PROVE now'[p] \in {now[p], NoFile}
    OBVIOUS
  <2>1. CASE UNCHANGED disk
    BY <2>1 DEF disk
  <2>2. CASE Install
    <3>1. p # draft.path /\ p \in Paths
      BY <2>2, PathFacts DEF Inv, Disk, Install
    <3> QED
      BY <2>2, <3>1, InstallStored DEF Inv
  <2>3. CASE WriteSucceeds
    BY <2>3, WriteSucceedsStored DEF Inv
  <2>4. CASE PowerLoss
    BY <2>4, PowerLossStored DEF Inv, Disk, Stored
  <2> QED
    BY <2>1, <2>2, <2>3, <2>4, DiskUnchanged
<1> QED
  BY <1>1, Invariance, PTL DEF StoredRecordsAreFinal, Spec

-------------------------------------------------------------------------------
(* Host implements JobService: seen from its clients and its job records,   *)
(* every step of host, clients and machine is one the service allows, or     *)
(* changes nothing there.                                                    *)

\* The refinement mapping.
Phase == [c \in Clients |-> CASE Waiting(c) -> "asked"
                              [] client[c] = "killed" -> "gone"
                              [] OTHER -> client[c]]
Book  == [p \in JobPaths |-> now[p]]

\* In which phase a client is.
LEMMA PhaseFacts ==
    ASSUME TypeOK
    PROVE  \A c \in Clients :
             /\ client[c] \in {"sending", "sent"} => Phase[c] = "asked"
             /\ client[c] = "killed" => Phase[c] = "gone"
             /\ client[c] \in {"idle", "answered"} => Phase[c] = client[c]
  BY DEF Phase, Waiting, TypeOK

\* Host and service start alike.
LEMMA InitImplements == Init => Service!Init
<1> SUFFICES ASSUME Init PROVE Service!Init
  OBVIOUS
<1>1. Phase = [c \in Clients |-> "idle"]
  BY DEF Init, Phase, Waiting
<1>2. Book = [p \in JobPaths |-> NoFile]
  BY PathFacts DEF Init, Book
<1> QED
  BY <1>1, <1>2 DEF Init, Service!Init, Phase, Book

\* Neither the phases nor the records change: the service does nothing.
LEMMA StepStutters ==
    ASSUME UNCHANGED <<client, req, got, now>>
    PROVE  UNCHANGED Service!vars
  BY DEF Service!vars, Waiting

\* A client sends its request.
LEMMA SendRequestImplements ==
    ASSUME Shape, NEW c \in Clients, NEW r \in Requests, SendRequest(c, r)
    PROVE  Service!Ask(c, r)
<1>1. /\ client \in [Clients -> {"idle", "sending", "sent", "answered", "killed"}]
      /\ client[c] = "idle" /\ client' = [client EXCEPT ![c] = "sending"]
      /\ req' = [req EXCEPT ![c] = r] /\ got' = got /\ now' = now
  BY DEF SendRequest, disk, Shape, TypeOK
<1>2. Phase' = [Phase EXCEPT ![c] = "asked"] /\ Phase[c] = "idle"
  BY <1>1 DEF Phase, Waiting
<1>3. Book' = Book
  BY <1>1 DEF Book
<1> QED
  BY <1>1, <1>2, <1>3 DEF Service!Ask, Phase, Book

\* A request on its way is asked for, before as after it is handed over.
LEMMA DeliverImplements ==
    ASSUME Shape, NEW c \in Clients, Deliver(c)
    PROVE  UNCHANGED Service!vars
<1>1. /\ client \in [Clients -> {"idle", "sending", "sent", "answered", "killed"}]
      /\ client[c] = "sending" /\ client' = [client EXCEPT ![c] = "sent"]
      /\ req' = req /\ got' = got /\ now' = now
  BY DEF Deliver, disk, Shape, TypeOK
<1>2. Phase' = Phase
  BY <1>1 DEF Phase, Waiting
<1> QED
  BY <1>1, <1>2 DEF Service!vars, Phase

\* A client that is killed gives up.
LEMMA KillClientImplements ==
    ASSUME Shape, NEW c \in Clients, KillClient(c)
    PROVE  Service!GiveUp(c)
<1>1. /\ client \in [Clients -> {"idle", "sending", "sent", "answered", "killed"}]
      /\ client[c] \in {"sending", "sent"} /\ client' = [client EXCEPT ![c] = "killed"]
      /\ req' = req /\ got' = got /\ now' = now
  BY DEF KillClient, Waiting, disk, Shape, TypeOK
<1>2. Phase' = [Phase EXCEPT ![c] = "gone"] /\ Phase[c] = "asked"
  BY <1>1 DEF Phase, Waiting
<1> QED
  BY <1>1, <1>2 DEF Service!GiveUp, Phase

\* The record of a new job becomes readable: it is stored once, under a new id.
LEMMA InstallImplements ==
    ASSUME Inv, Install
    PROVE  (\E c \in Clients, p \in JobPaths : Service!Store(c, p)) \/ UNCHANGED Service!vars
<1>1. /\ Shape /\ Disk /\ DraftFits /\ pc = "write" /\ cur \in Clients
      /\ client[cur] \in {"sent", "killed"} /\ draft.file \in File /\ draft.path \in Paths
      /\ draft.file.by = cur /\ UNCHANGED <<client, req, got>>
      /\ now' = [now EXCEPT ![draft.path] = draft.file]
  BY DEF Inv, Shape, Places, TypeOK, Thread, DraftFits, Install, clients
<1>2. Phase' = Phase
  BY <1>1 DEF Phase, Waiting
<1>3. CASE draft.path \in JobPaths
  <2>0. PICK c \in Clients, p \in JobPaths : c = cur /\ p = draft.path
    BY <1>1, <1>3
  <2>1. /\ Current.method = "action.invoke" /\ p[1] = Current.app
        /\ draft.file.body \in Results
    BY <1>1, <1>3, <2>0, PathFacts DEF DraftFits, RecordOf, JobPaths
  <2>2. Phase[c] # "idle"
    BY <1>1, <2>0, PhaseFacts DEF Shape
  <2>3. draft.file \in [by : {c}, body : Results]
    BY <1>1, <2>0, <2>1 DEF File
  <2>4. Book[p] = NoFile /\ Book'[p] = draft.file
    BY <1>1, <1>3, <2>0 DEF Book, Disk, Shape, TypeOK
  <2>5. \A q \in JobPaths : Book[q] = NoFile \/ Book[q].by # c
    BY <1>1, <2>0 DEF Book, Disk
  <2>6. Book' = [Book EXCEPT ![p] = Book'[p]]
    <3>1. \A q \in JobPaths : Book'[q] = IF q = p THEN Book'[p] ELSE Book[q]
      BY <1>1, <1>3, <2>0, PathFacts DEF Book, Shape, TypeOK
    <3>2. DOMAIN Book = JobPaths /\ Book' = [q \in JobPaths |-> Book'[q]]
      BY DEF Book
    <3> QED
      BY <3>1, <3>2
  <2>7. Service!Store(c, p)
    BY <1>1, <1>2, <2>0, <2>1, <2>2, <2>3, <2>4, <2>5, <2>6 DEF Service!Store, Phase, Book, Current
  <2> QED
    BY <2>7
<1>4. CASE draft.path \notin JobPaths
  <2>1. Book' = Book
    BY <1>1, <1>4, PathFacts DEF Book, Shape, TypeOK
  <2> QED
    BY <1>1, <1>2, <2>1 DEF Service!vars, Phase, Book
<1> QED
  BY <1>3, <1>4

\* A reply that reaches its client is an honest answer; one whose client is
\* gone is nothing to the service.
LEMMA SendReplyImplements ==
    ASSUME Inv, SendReply
    PROVE  (\E c \in Clients : Service!Answer(c)) \/ UNCHANGED Service!vars
<1>1. /\ Shape /\ Disk /\ pc = "reply" /\ cur \in Clients /\ Right(cur, reply)
      /\ ReplyIsFresh /\ req' = req /\ now' = now
      /\ client \in [Clients -> {"idle", "sending", "sent", "answered", "killed"}]
      /\ got \in [Clients -> Reply \cup {NoReply}]
  BY DEF Inv, Shape, Places, TypeOK, SendReply, Answers, disk
<1>2. Book' = Book
  BY <1>1 DEF Book
<1>3. CASE client[cur] = "sent"
  <2>0. PICK c \in Clients : c = cur
    BY <1>1
  <2>1. /\ client' = [client EXCEPT ![c] = "answered"]
        /\ got' = [got EXCEPT ![c] = reply]
    BY <1>3, <2>0 DEF SendReply
  <2>2. Phase' = [Phase EXCEPT ![c] = "answered"] /\ Phase[c] = "asked"
    BY <1>1, <1>3, <2>0, <2>1 DEF Phase, Waiting
  <2>3. got'[c] = reply /\ got' = [got EXCEPT ![c] = got'[c]]
    BY <1>1, <2>1
  <2>4. ASSUME req[c].method = "action.invoke", reply.code = "ok"
        PROVE  LET p == <<req[c].app, reply.job>>
               IN  p \in JobPaths /\ Book[p] # NoFile /\ Book[p].by = c
    BY <1>1, <2>0, <2>4 DEF Right, Accepted, Book
  <2>5. ASSUME req[c].method = "action.job.get", reply.code \in {"ok", "E_NOT_FOUND"}
        PROVE  LET p == <<req[c].app, req[c].job>>
               IN  /\ reply.code = "ok" <=> reply.file # NoFile
                   /\ IF p \in JobPaths THEN reply.file = Book[p]
                      ELSE \/ reply.file \in {NoFile, Foreign}
                           \/ \E q \in JobPaths : reply.file = Book[q]
    <3>1. Fresh(req[c], reply)
      BY <1>1, <2>0, <2>5 DEF ReplyIsFresh, Current
    <3>2. CASE req[c].job \in JobIds
      BY <2>5, <3>1, <3>2, PathFacts DEF Fresh, RecordPath, Book
    <3>3. CASE req[c].job \notin JobIds
      <4>1. <<req[c].app, req[c].job>> \notin JobPaths
        BY <3>3, PathFacts
      <4>2. /\ reply.code = "ok" <=> reply.file # NoFile
            /\ \/ reply.file \in {NoFile, Foreign}
               \/ \E q \in JobPaths : reply.file = Book[q]
        BY <2>5, <3>1 DEF Fresh, Book
      <4> QED
        BY <4>1, <4>2
    <3> QED
      BY <3>2, <3>3
  <2>6. Service!Honest(c, reply)
    BY <2>4, <2>5 DEF Service!Honest, Book
  <2>7. Service!Answer(c)
    BY <1>1, <1>2, <2>0, <2>2, <2>3, <2>6 DEF Service!Answer, Phase, Book, Right
  <2> QED
    BY <2>7
<1>4. CASE client[cur] # "sent"
  BY <1>1, <1>4, StepStutters DEF SendReply
<1> QED
  BY <1>3, <1>4

\* A power loss takes back only records nobody was told of.
LEMMA PowerLossImplements ==
    ASSUME Inv, PowerLoss
    PROVE  Service!PowerLoss
<1>1. /\ Shape /\ Stored /\ Answers /\ TypeOK /\ req' = req /\ got' = got
      /\ client' = [c \in Clients |-> IF Waiting(c) THEN "killed" ELSE client[c]]
  BY DEF Inv, Disk, Shape, PowerLoss
<1>2. Phase' = [c \in Clients |-> IF Phase[c] = "asked" THEN "gone" ELSE Phase[c]]
  BY <1>1 DEF Phase, Waiting, TypeOK
<1>3. Book' = [p \in JobPaths |-> Book'[p]]
  BY DEF Book
<1>4. ASSUME NEW p \in JobPaths, Book'[p] # Book[p]
      PROVE  Book'[p] = NoFile /\ \A c \in Clients : ~Service!Accepted(c, p)
  <2>1. now'[p] # now[p] /\ now'[p] = NoFile /\ back[p] # {now[p]}
    BY <1>1, <1>4, PowerLossStored, PathFacts DEF Book
  <2>2. ASSUME NEW c \in Clients, Service!Accepted(c, p) PROVE FALSE
    <3>1. /\ client[c] = "answered" /\ req[c].method = "action.invoke" /\ got[c].code = "ok"
          /\ p = <<req[c].app, got[c].job>>
      BY <1>1, <2>2 DEF Service!Accepted, Waiting, TypeOK
    <3> QED
      BY <1>1, <2>1, <3>1 DEF Answers, Right, Accepted
  <2> QED
    BY <2>1, <2>2 DEF Book
<1> QED
  BY <1>1, <1>2, <1>3, <1>4 DEF Service!PowerLoss, Phase, Book

\* The host's other steps are none of the service's business.
LEMMA OthersStutter ==
    ASSUME Inv, Next, ~Install, ~SendReply, ~PowerLoss,
           \A c \in Clients : ~Deliver(c) /\ ~KillClient(c),
           \A c \in Clients, r \in Requests : ~SendRequest(c, r)
    PROVE  UNCHANGED Service!vars
<1>1. UNCHANGED now
  BY DiskUnchanged, WriteSucceedsStored DEF disk, Inv
<1>2. UNCHANGED <<client, req, got>>
  BY NextCases, HostActionFrame DEF Inv, Shape, clients, Receive, StartHost, HostDies, Tick
<1> QED
  BY <1>1, <1>2, StepStutters

\* Every step is one of the job service's, or none.
LEMMA StepImplements == Inv /\ [Next]_vars => [Service!Next]_(Service!vars)
<1> SUFFICES ASSUME Inv, [Next]_vars PROVE Service!Next \/ UNCHANGED Service!vars
  OBVIOUS
<1>1. CASE UNCHANGED vars
  BY <1>1, StepStutters DEF vars, clients, disk
<1>2. ASSUME NEW c \in Clients, NEW r \in Requests, SendRequest(c, r) PROVE Service!Next
  BY <1>2, SendRequestImplements DEF Inv, Service!Next
<1>3. ASSUME NEW c \in Clients, Deliver(c) PROVE UNCHANGED Service!vars
  BY <1>3, DeliverImplements DEF Inv
<1>4. ASSUME NEW c \in Clients, KillClient(c) PROVE Service!Next
  BY <1>4, KillClientImplements DEF Inv, Service!Next
<1>5. CASE Install
  BY <1>5, InstallImplements DEF Service!Next
<1>6. CASE SendReply
  BY <1>6, SendReplyImplements DEF Service!Next
<1>7. CASE PowerLoss
  BY <1>7, PowerLossImplements DEF Service!Next
<1> QED
  BY <1>1, <1>2, <1>3, <1>4, <1>5, <1>6, <1>7, OthersStutter

\* Every behaviour of host, clients and machine is one the job service allows:
\* at most one record per request, never replaced; no job id in an answer
\* before its record is stored to stay; answers about jobs that are honest.
THEOREM Implementation == Spec => ImplementsJobService
<1>1. Init => Service!Init
  BY InitImplements
<1>2. Inv /\ [Next]_vars => [Service!Next]_(Service!vars)
  BY StepImplements
<1> QED
  BY <1>1, <1>2, Invariance, PTL DEF Spec, ImplementsJobService, Service!Spec
================================================================================
