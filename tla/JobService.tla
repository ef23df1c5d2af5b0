------------------------------ MODULE JobService ------------------------------
(***************************************************************************)
(* What action.invoke and action.job.get promise to the clients of a host, *)
(* whatever happens to the host:                                           *)
(*                                                                         *)
(*   - a request leads to at most one job record, under the app it names;  *)
(*   - an action.invoke is answered with a job id only when the record of  *)
(*     that request is stored under it; from then on it stays as it is;    *)
(*   - asked for a job id, action.job.get answers with the record stored   *)
(*     under it, and says E_NOT_FOUND only when there is none; asked for   *)
(*     any other text, it may answer with any record there is, of any app, *)
(*     or with a file that only looks like one.                            *)
(***************************************************************************)
CONSTANTS Clients, Requests, Replies,
          JobPaths,     \* <<app, job id>> pairs
          Bodies,       \* what a record can say
          Foreign,      \* a file that only looks like a record
          NoFile, NoRequest, NoReply

VARIABLES phase,        \* per client: "idle", "asked", "answered" or "gone"
          req, got,     \* per client: its request and the reply to it
          book          \* per job path: the record stored there, or NoFile

vars == <<phase, req, got, book>>

Init ==
    /\ phase = [c \in Clients |-> "idle"]
    /\ req = [c \in Clients |-> NoRequest]
    /\ got = [c \in Clients |-> NoReply]
    /\ book = [p \in JobPaths |-> NoFile]

Accepted(c, p) ==
    /\ phase[c] = "answered"
    /\ req[c].method = "action.invoke"
    /\ got[c].code = "ok"
    /\ p = <<req[c].app, got[c].job>>

Ask(c, r) ==
    /\ phase[c] = "idle"
    /\ phase' = [phase EXCEPT ![c] = "asked"]
    /\ req' = [req EXCEPT ![c] = r]
    /\ UNCHANGED <<got, book>>

\* A record may be stored for a client that has given up, never twice for one.
Store(c, p) ==
    /\ phase[c] # "idle"
    /\ req[c].method = "action.invoke" /\ req[c].app = p[1]
    /\ book[p] = NoFile
    /\ book'[p] \in [by : {c}, body : Bodies]
    /\ \A q \in JobPaths : book[q] = NoFile \/ book[q].by # c
    /\ book' = [book EXCEPT ![p] = book'[p]]
    /\ UNCHANGED <<phase, req, got>>

Honest(c, reply) ==
    CASE req[c].method = "action.invoke" /\ reply.code = "ok" ->
           LET p == <<req[c].app, reply.job>>
           IN  p \in JobPaths /\ book[p] # NoFile /\ book[p].by = c
      [] req[c].method = "action.job.get" /\ reply.code \in {"ok", "E_NOT_FOUND"} ->
           LET p == <<req[c].app, req[c].job>>
           IN  /\ reply.code = "ok" <=> reply.file # NoFile
               /\ IF p \in JobPaths THEN reply.file = book[p]
                  ELSE \/ reply.file \in {NoFile, Foreign}
                       \/ \E q \in JobPaths : reply.file = book[q]
      [] OTHER -> TRUE

Answer(c) ==
    /\ phase[c] = "asked"
    /\ phase' = [phase EXCEPT ![c] = "answered"]
    /\ got' = [got EXCEPT ![c] = got'[c]]
    /\ got'[c] \in Replies
    /\ Honest(c, got'[c])
    /\ UNCHANGED <<req, book>>

GiveUp(c) ==
    /\ phase[c] = "asked"
    /\ phase' = [phase EXCEPT ![c] = "gone"]
    /\ UNCHANGED <<req, got, book>>

\* Records nobody was told of may be lost; clients on the machine are.
PowerLoss ==
    /\ phase' = [c \in Clients |-> IF phase[c] = "asked" THEN "gone" ELSE phase[c]]
    /\ book' = [p \in JobPaths |-> book'[p]]
    /\ \A p \in JobPaths :
         \/ book'[p] = book[p]
         \/ book'[p] = NoFile /\ \A c \in Clients : ~Accepted(c, p)
    /\ UNCHANGED <<req, got>>

Next ==
    \/ \E c \in Clients, r \in Requests : Ask(c, r)
    \/ \E c \in Clients, p \in JobPaths : Store(c, p)
    \/ \E c \in Clients : Answer(c) \/ GiveUp(c)
    \/ PowerLoss

Spec == Init /\ [][Next]_vars
================================================================================
