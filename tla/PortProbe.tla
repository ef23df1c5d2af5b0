------------------------------- MODULE PortProbe -------------------------------
(***************************************************************************)
(* Platform::CheckPortListening (src/src/platform/port_probe.cpp), POSIX   *)
(* branch: the name is resolved, and each address is tried in turn with a  *)
(* non-blocking connect that is waited for with select until a deadline of *)
(* its own.  The host's thread probes one port after the other.            *)
(*                                                                         *)
(* Time is the steady clock since getaddrinfo returned, which no timeout   *)
(* bounds; of the calls that follow only select takes any.  An address is  *)
(* its place in the list.                                                  *)
(***************************************************************************)
EXTENDS Integers, FiniteSets

CONSTANTS MaxAddresses,     \* how many addresses a name can have
          DefaultTimeout,   \* 250 in ClampTimeoutMs
          MaxTimeout,       \* 30000 in ClampTimeoutMs
          Timeouts,         \* values of timeout_ms callers pass
          Ports, MaxPort,   \* values of port callers pass; 65535
          Fds, NoFd         \* file descriptors the process may open; none

ASSUME ProbeAssumption ==
    /\ MaxAddresses \in Nat
    /\ MaxTimeout \in Nat /\ DefaultTimeout \in 1..MaxTimeout
    /\ Timeouts \subseteq Int /\ Ports \subseteq Int /\ MaxPort \in Nat
    /\ NoFd \notin Fds

VARIABLES
    pc,         \* where the call is, "idle" between calls
    timeout,    \* timeout_ms of ConnectWithTimeout
    count,      \* length of the list getaddrinfo returned
    listed,     \* whether that list is allocated
    ai,         \* the address that is tried, from 1
    fd,         \* its socket
    open,       \* open sockets of the process
    now,        \* steady clock since getaddrinfo returned
    deadline,   \* of the current address
    soError,    \* whether SO_ERROR of the socket is set
    connected,  \* the result
    answered    \* addresses that connect or select showed to accept in time

vars == <<pc, timeout, count, listed, ai, fd, open, now, deadline, soError,
          connected, answered>>

ClampTimeoutMs(t) == IF t <= 0 THEN DefaultTimeout
                     ELSE IF t > MaxTimeout THEN MaxTimeout ELSE t
IsValidPort(port) == port \in 1..MaxPort

Init ==
    /\ pc = "idle"
    /\ timeout = DefaultTimeout
    /\ count = 0
    /\ listed = FALSE
    /\ ai = 0
    /\ fd = NoFd
    /\ open = {}
    /\ now = 0
    /\ deadline = 0
    /\ soError = FALSE
    /\ connected = FALSE
    /\ answered = {}

\* The checks of CheckPortListening; no socket is made for an invalid port.
Call(port, t) ==
    /\ pc = "idle"
    /\ pc' = IF IsValidPort(port) THEN "resolve" ELSE "idle"
    /\ timeout' = IF IsValidPort(port) THEN ClampTimeoutMs(t) ELSE timeout
    /\ ai' = 0
    /\ now' = 0
    /\ deadline' = 0
    /\ connected' = FALSE
    /\ answered' = {}
    /\ UNCHANGED <<count, listed, fd, open, soError>>

Resolve ==
    /\ pc = "resolve"
    /\ \/ /\ count' \in 1..MaxAddresses
          /\ listed' = TRUE
          /\ ai' = 1
          /\ pc' = "socket"
       \/ /\ pc' = "idle"                                  \* gai_rc # 0
          /\ UNCHANGED <<count, listed, ai>>
    /\ UNCHANGED <<timeout, fd, open, now, deadline, soError, connected, answered>>

\* The end of the list is not looked for.
BugRunsOffTheList ==
    /\ ai' = ai + 1
    /\ pc' = "socket"

\* "continue": the next address, or the end of the list.
NextAddress ==
    /\ ai' = ai + 1
    /\ pc' = IF ai < count THEN "socket" ELSE "free"

Close ==
    /\ open' = open \ {fd}
    /\ fd' = NoFd
    /\ soError' = FALSE

\* A failure starts the probe over.
BugStartOver ==
    /\ pc = "socket"
    /\ \/ /\ \E s \in Fds \ open :
               /\ fd' = s
               /\ open' = open \cup {s}
          /\ pc' = "nonblock"
          /\ UNCHANGED ai
       \/ pc' = "resolve" /\ ai' = 0 /\ UNCHANGED <<fd, open>>
    /\ UNCHANGED <<timeout, count, listed, now, deadline, soError, connected, answered>>

OpenSocket ==
    /\ pc = "socket"
    /\ \/ /\ \E s \in Fds \ open :
               /\ fd' = s
               /\ open' = open \cup {s}
          /\ pc' = "nonblock"
          /\ UNCHANGED ai
       \/ NextAddress /\ UNCHANGED <<fd, open>>
    /\ UNCHANGED <<timeout, count, listed, now, deadline, soError, connected, answered>>

\* The socket is forgotten on the way to the next address.
BugNonBlockingLeaks ==
    /\ pc = "nonblock"
    /\ \/ pc' = "connect" /\ UNCHANGED <<ai, fd, open, soError>>
       \/ NextAddress /\ fd' = NoFd /\ UNCHANGED <<open, soError>>
    /\ UNCHANGED <<timeout, count, listed, now, deadline, connected, answered>>

SetNonBlocking ==
    /\ pc = "nonblock"
    /\ \/ pc' = "connect" /\ UNCHANGED <<ai, fd, open, soError>>
       \/ NextAddress /\ Close
    /\ UNCHANGED <<timeout, count, listed, now, deadline, connected, answered>>

Succeed ==
    /\ connected' = TRUE
    /\ Close
    /\ pc' = "free"
    /\ UNCHANGED ai

\* connect answers at once, fails at once, or is in progress.
Connect ==
    /\ pc = "connect"
    /\ \/ /\ Succeed
          /\ answered' = answered \cup {ai}
          /\ UNCHANGED deadline
       \/ /\ NextAddress /\ Close
          /\ UNCHANGED <<deadline, connected, answered>>
       \/ /\ deadline' = now + timeout
          /\ pc' = "wait"
          /\ UNCHANGED <<ai, fd, open, soError, connected, answered>>
    /\ UNCHANGED <<timeout, count, listed, now>>

\* After an interruption the whole timeout is waited again.
BugWaitStartsAgain ==
    /\ pc = "wait" /\ now < deadline
    /\ now' \in (now + 1)..deadline
    /\ deadline' = now' + timeout
    /\ UNCHANGED <<pc, timeout, count, listed, ai, fd, open, soError, connected, answered>>

\* select is interrupted by a signal after some time: the loop goes on, with
\* the time that remains.
SelectInterrupted ==
    /\ pc = "wait" /\ now < deadline
    /\ now' \in (now + 1)..deadline
    /\ UNCHANGED <<pc, timeout, count, listed, ai, fd, open, deadline, soError, connected, answered>>

\* The socket becomes writable: the connection is made, or refused.
SelectReady ==
    /\ pc = "wait" /\ now < deadline
    /\ now' \in now..deadline
    /\ soError' \in BOOLEAN
    /\ answered' = IF soError' THEN answered ELSE answered \cup {ai}
    /\ pc' = "check"
    /\ UNCHANGED <<timeout, count, listed, ai, fd, open, deadline, connected>>

\* The deadline is reached in select or in the loop, or select fails.
SelectGivesUp ==
    /\ pc = "wait"
    /\ \/ now' = IF now < deadline THEN deadline ELSE now
       \/ UNCHANGED now
    /\ NextAddress /\ Close
    /\ UNCHANGED <<timeout, count, listed, deadline, connected, answered>>

\* A writable socket is taken for a connected one.
BugWritableIsConnected ==
    /\ pc = "check"
    /\ Succeed
    /\ UNCHANGED <<timeout, count, listed, now, deadline, answered>>

\* getsockopt(SO_ERROR); getsockopt itself does not fail on an open socket.
CheckError ==
    /\ pc = "check"
    /\ IF soError THEN NextAddress /\ Close /\ UNCHANGED connected
       ELSE Succeed
    /\ UNCHANGED <<timeout, count, listed, now, deadline, answered>>

\* freeaddrinfo and return.
FreeList ==
    /\ pc = "free"
    /\ listed' = FALSE
    /\ count' = 0
    /\ pc' = "idle"
    /\ UNCHANGED <<timeout, ai, fd, open, now, deadline, soError, connected, answered>>

Step ==
    \/ Resolve \/ OpenSocket \/ SetNonBlocking \/ Connect
    \/ SelectInterrupted \/ SelectReady \/ SelectGivesUp
    \/ CheckError \/ FreeList

Next == (\E port \in Ports, t \in Timeouts : Call(port, t)) \/ Step

Spec == Init /\ [][Next]_vars

\* The thread goes on; getaddrinfo returns, and so does every select.
FairSpec == Spec /\ WF_vars(Step)

-------------------------------------------------------------------------------
(* Properties.                                                             *)

Pcs == {"idle", "resolve", "socket", "nonblock", "connect", "wait", "check", "free"}

\* Every variable has the type its comment says.
TypeOK ==
    /\ pc \in Pcs
    /\ timeout \in 1..MaxTimeout
    /\ count \in 0..MaxAddresses
    /\ listed \in BOOLEAN
    /\ ai \in 0..(MaxAddresses + 1)
    /\ fd \in Fds \cup {NoFd}
    /\ open \in SUBSET Fds
    /\ now \in Nat
    /\ deadline \in Nat
    /\ soError \in BOOLEAN
    /\ connected \in BOOLEAN
    /\ answered \in SUBSET (1..MaxAddresses)

\* A probe leaves nothing behind, whichever way it ends: a host that probes
\* for months does not run out of sockets.
NothingIsLeft == pc = "idle" => open = {} /\ ~listed

\* A port is reported as listening exactly when connect or select showed one of
\* its addresses to accept in time, whatever the others did before.
ReportIsTrue == pc \in {"free", "idle"} => (connected <=> answered # {})

\* Signals do not prolong the wait: trying k addresses takes at most k
\* timeouts.
WaitIsBounded == now <= timeout * (IF ai <= MaxAddresses THEN ai ELSE MaxAddresses)

\* Every probe ends.
ProbesEnd == pc # "idle" ~> pc = "idle"
================================================================================
