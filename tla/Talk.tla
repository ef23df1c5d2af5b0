--------------------------------- MODULE Talk ----------------------------------
(***************************************************************************)
(* The talk examples (src/src/examples): a server that answers             *)
(* MaxRequests requests on ZmqIpcServer and stops itself, and clients that *)
(* send Count requests each with ZmqIpcClient, one after the other.        *)
(*                                                                         *)
(* Both ends set ZMQ_LINGER to 0: a socket that is closed drops what it    *)
(* has not handed to the network yet.                                      *)
(***************************************************************************)
EXTENDS Naturals, Sequences

CONSTANTS Clients, MaxRequests, Count, Nobody

ASSUME TalkAssumption ==
    /\ MaxRequests \in Nat \ {0} /\ Count \in Nat \ {0}
    /\ Nobody \notin Clients

VARIABLES
    spc,            \* where the server is
    requestCount,   \* request_count
    stopRequested,  \* stop_requested_
    current,        \* the client whose request the server has
    response,       \* what it will be sent
    cpc,            \* where each client is
    sequence,       \* sequence
    outbox,         \* request in the client's socket, 0 for none
    inbox,          \* request of each client in the server's socket, 0 for none
    leaving,        \* replies in the server's socket
    arrived,        \* replies in each client's socket
    got             \* replies each client has printed

serverVars == <<spc, requestCount, stopRequested, current, response>>
clientVars == <<cpc, sequence, got>>
vars == <<serverVars, clientVars, outbox, inbox, leaving, arrived>>

Init ==
    /\ spc = "bind"
    /\ requestCount = 0
    /\ stopRequested = FALSE
    /\ current = Nobody
    /\ response = <<>>
    /\ cpc = [c \in Clients |-> "send"]
    /\ sequence = [c \in Clients |-> 1]
    /\ outbox = [c \in Clients |-> 0]
    /\ inbox = [c \in Clients |-> 0]
    /\ leaving = [c \in Clients |-> <<>>]
    /\ arrived = [c \in Clients |-> <<>>]
    /\ got = [c \in Clients |-> <<>>]

\* The endpoint may be in use.
Bind ==
    /\ spc = "bind"
    /\ spc' \in {"receive", "gone"}
    /\ UNCHANGED <<requestCount, stopRequested, current, response, clientVars,
                   outbox, inbox, leaving, arrived>>

SendRequest(c) ==
    /\ cpc[c] = "send"
    /\ outbox' = [outbox EXCEPT ![c] = sequence[c]]
    /\ cpc' = [cpc EXCEPT ![c] = "wait"]
    /\ UNCHANGED <<serverVars, sequence, got, inbox, leaving, arrived>>

\* The client's socket connects whenever the server's is there.
Deliver(c) ==
    /\ outbox[c] # 0 /\ spc \notin {"bind", "gone"}
    /\ inbox' = [inbox EXCEPT ![c] = outbox[c]]
    /\ outbox' = [outbox EXCEPT ![c] = 0]
    /\ UNCHANGED <<serverVars, clientVars, leaving, arrived>>

Receive(c) ==
    /\ spc = "receive" /\ inbox[c] # 0
    /\ current' = c
    /\ response' = <<inbox[c]>>
    /\ inbox' = [inbox EXCEPT ![c] = 0]
    /\ spc' = "handle"
    /\ UNCHANGED <<requestCount, stopRequested, clientVars, outbox, leaving, arrived>>

\* The reply carries the client's own number instead of the server's.
BugEchoesNumber ==
    /\ spc = "handle"
    /\ requestCount' = requestCount + 1
    /\ response' = Append(response, response[1])
    /\ stopRequested' = (requestCount' >= MaxRequests)
    /\ spc' = "reply"
    /\ UNCHANGED <<current, clientVars, outbox, inbox, leaving, arrived>>

\* The server stops after one request too many.
BugStopsLate ==
    /\ spc = "handle"
    /\ requestCount' = requestCount + 1
    /\ response' = Append(response, requestCount')
    /\ stopRequested' = (requestCount' > MaxRequests)
    /\ spc' = "reply"
    /\ UNCHANGED <<current, clientVars, outbox, inbox, leaving, arrived>>

\* A server that was told to stop does not send any more.
BugStopsAtOnce ==
    /\ spc = "handle"
    /\ requestCount' = requestCount + 1
    /\ response' = Append(response, requestCount')
    /\ stopRequested' = (requestCount' >= MaxRequests)
    /\ spc' = IF stopRequested' THEN "close" ELSE "reply"
    /\ UNCHANGED <<current, clientVars, outbox, inbox, leaving, arrived>>

\* The request handler: it counts, and after the last request it calls Stop
\* before its reply is sent.
Handle ==
    /\ spc = "handle"
    /\ requestCount' = requestCount + 1
    /\ response' = Append(response, requestCount')
    /\ stopRequested' = (requestCount' >= MaxRequests)
    /\ spc' = "reply"
    /\ UNCHANGED <<current, clientVars, outbox, inbox, leaving, arrived>>

\* zmq_send puts the reply into the socket; the loop looks at stop_requested_.
SendReply ==
    /\ spc = "reply"
    /\ leaving' = [leaving EXCEPT ![current] = response]
    /\ current' = Nobody
    /\ response' = <<>>
    /\ spc' = IF stopRequested THEN "close" ELSE "receive"
    /\ UNCHANGED <<requestCount, stopRequested, clientVars, outbox, inbox, arrived>>

Transmit(c) ==
    /\ leaving[c] # <<>>
    /\ arrived' = [arrived EXCEPT ![c] = leaving[c]]
    /\ leaving' = [leaving EXCEPT ![c] = <<>>]
    /\ UNCHANGED <<serverVars, clientVars, outbox, inbox>>

\* main returns: the socket is closed, without lingering.
Close ==
    /\ spc = "close"
    /\ leaving' = [c \in Clients |-> <<>>]
    /\ inbox' = [c \in Clients |-> 0]
    /\ spc' = "gone"
    /\ UNCHANGED <<requestCount, stopRequested, current, response, clientVars,
                   outbox, arrived>>

ReceiveReply(c) ==
    /\ cpc[c] = "wait" /\ arrived[c] # <<>>
    /\ got' = [got EXCEPT ![c] = Append(@, arrived[c])]
    /\ arrived' = [arrived EXCEPT ![c] = <<>>]
    /\ cpc' = [cpc EXCEPT ![c] = IF sequence[c] < Count THEN "sleep" ELSE "done"]
    /\ UNCHANGED <<serverVars, sequence, outbox, inbox, leaving>>

WakeUp(c) ==
    /\ cpc[c] = "sleep"
    /\ sequence' = [sequence EXCEPT ![c] = @ + 1]
    /\ cpc' = [cpc EXCEPT ![c] = "send"]
    /\ UNCHANGED <<serverVars, got, outbox, inbox, leaving, arrived>>

Serve == Handle \/ SendReply \/ Close \/ \E c \in Clients : Receive(c)
Ask(c) == SendRequest(c) \/ ReceiveReply(c) \/ WakeUp(c)
Carry(c) == Deliver(c) \/ Transmit(c)

Next == Bind \/ Serve \/ \E c \in Clients : Ask(c) \/ Carry(c)

Spec == Init /\ [][Next]_vars

\* Both programs are scheduled and ZeroMQ hands over what it can.  A server
\* that is not started, or cannot bind, owes nothing.
FairSpec == Spec /\ WF_vars(Serve) /\ \A c \in Clients : WF_vars(Ask(c)) /\ WF_vars(Carry(c))

-------------------------------------------------------------------------------
(* Properties.                                                             *)

\* A reply: the number of the request in its client, and the server's number.
Replies == (1..Count) \X (1..MaxRequests)

\* Every variable has the type its comment says.
TypeOK ==
    /\ spc \in {"bind", "receive", "handle", "reply", "close", "gone"}
    /\ requestCount \in 0..MaxRequests
    /\ stopRequested \in BOOLEAN
    /\ current \in Clients \cup {Nobody}
    /\ cpc \in [Clients -> {"send", "wait", "sleep", "done"}]
    /\ sequence \in [Clients -> 1..Count]
    /\ outbox \in [Clients -> 0..Count]
    /\ inbox \in [Clients -> 0..Count]
    /\ leaving \in [Clients -> Replies \cup {<<>>}]
    /\ arrived \in [Clients -> Replies \cup {<<>>}]
    /\ got \in [Clients -> Seq(Replies)]

\* The i-th reply a client prints answers its i-th request, and the server's
\* numbers tell all replies apart, in the order they were given to a client.
RepliesAreInOrder ==
    \A c, d \in Clients : \A i \in DOMAIN got[c], j \in DOMAIN got[d] :
        /\ got[c][i][1] = i
        /\ c # d => got[c][i][2] # got[d][j][2]
        /\ c = d /\ i < j => got[c][i][2] < got[d][j][2]

\* The replies a client has printed or will receive.
Pending(c) == {leaving[c], arrived[c]} \ {<<>>}
Printed(c) == {got[c][i] : i \in DOMAIN got[c]}
Held(c)    == Pending(c) \cup Printed(c)

\* Who has the reply with the server's number n: clients, or the server.
Holders(n) ==
    {c \in Clients : \E r \in Held(c) : r[2] = n}
        \cup (IF spc = "reply" /\ response[2] = n THEN {Nobody} ELSE {})

\* Until the server is gone every request it has counted has one reply, with
\* one client, on the way to it, or in the server's hands; and there are no
\* others.
CountedRequestsHaveReplies ==
    spc # "gone" =>
        \A n \in 1..MaxRequests :
            IF n <= requestCount
            THEN \E h \in Clients \cup {Nobody} : Holders(n) = {h}
            ELSE Holders(n) = {}

\* A server that is asked for its quota of requests stops by itself.
ServerStops == spc = "receive" ~> spc = "gone"

\* The example's README: the server "responds to messages", and its commands
\* give server and client the same number of them.  So a client of a server
\* that was bound gets all its replies.
ClientsFinish == spc = "receive" ~> \A c \in Clients : cpc[c] = "done"
================================================================================
