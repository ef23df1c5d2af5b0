---------------------------- MODULE PortProbeProofs ----------------------------
(***************************************************************************)
(* Proofs about PortProbe, for any timeouts, ports and address lists.      *)
(***************************************************************************)
EXTENDS PortProbe, TLAPS

\* A call has exactly the socket of the address it tries.
OneSocket ==
    IF pc \in {"nonblock", "connect", "wait", "check"}
    THEN fd \in Fds /\ open = {fd}
    ELSE open = {}

\* The list is there while it is walked, and the walk stays inside it.
InsideList ==
    /\ listed <=> pc \notin {"idle", "resolve"}
    /\ pc \notin {"idle", "resolve", "free"} => ai \in 1..count
    /\ pc = "resolve" => ai = 0 /\ now = 0

\* Each address before the current one has used up at most one timeout.
InTime ==
    /\ pc \in {"socket", "nonblock", "connect"} => now <= timeout * (ai - 1)
    /\ pc \in {"wait", "check"} => now <= deadline /\ deadline <= timeout * ai

\* The result follows the first address that accepted.
FollowsAnswer ==
    /\ pc \notin {"check", "free", "idle"} => ~connected /\ answered = {}
    /\ pc = "check" => ~connected /\ (soError <=> answered = {})

\* What holds of the control, the sockets, the list and the result.
Shape == TypeOK /\ OneSocket /\ InsideList /\ FollowsAnswer /\ ReportIsTrue

\* The inductive invariant.
Inv == Shape /\ InTime /\ WaitIsBounded

\* Products of naturals, one fact at a time.
LEMMA ProductNat ==
    ASSUME NEW t \in Nat, NEW k \in Nat
    PROVE  t * k \in Nat
OBVIOUS

\* One more address is worth one more timeout.
LEMMA OneMoreTimeout ==
    ASSUME NEW t \in Nat, NEW k \in Nat
    PROVE  t * (k + 1) = t * k + t
OBVIOUS

\* No value of timeout_ms makes ClampTimeoutMs leave its range.
LEMMA ClampType ==
    ASSUME NEW t \in Timeouts
    PROVE  ClampTimeoutMs(t) \in 1..MaxTimeout
<1>1. t \in Int /\ MaxTimeout \in Nat /\ DefaultTimeout \in 1..MaxTimeout
  BY ProbeAssumption
<1> QED BY <1>1 DEF ClampTimeoutMs

\* The invariant holds initially.
LEMMA InitInv == Init => Inv
<1> SUFFICES ASSUME Init PROVE Inv
  OBVIOUS
<1>1. Shape
  <2>1. timeout \in 1..MaxTimeout /\ count \in 0..MaxAddresses /\ ai \in 0..(MaxAddresses + 1)
    BY ProbeAssumption DEF Init
  <2>2. TypeOK
    BY <2>1 DEF Init, TypeOK, Pcs
  <2>3. OneSocket /\ InsideList /\ FollowsAnswer /\ ReportIsTrue
    BY DEF Init, OneSocket, InsideList, FollowsAnswer, ReportIsTrue
  <2> QED BY <2>2, <2>3 DEF Shape
<1>2. InTime
  BY DEF Init, InTime
<1>3. timeout \in Nat /\ now = 0 /\ ai = 0 /\ 0 <= MaxAddresses
  BY ProbeAssumption DEF Init
<1>4. WaitIsBounded
  BY <1>3 DEF WaitIsBounded
<1> QED BY <1>1, <1>2, <1>4 DEF Inv

\* The control, the sockets, the list and the result do not depend on time.
LEMMA StepShape == Shape /\ [Next]_vars => Shape'
<1> SUFFICES ASSUME Shape, [Next]_vars PROVE Shape'
  OBVIOUS
<1> USE DEF Next, Step, vars, Call, Resolve, OpenSocket, SetNonBlocking, Connect,
         SelectInterrupted, SelectReady, SelectGivesUp, CheckError, FreeList,
         NextAddress, Succeed, Close
<1>1. (pc \in Pcs)'
  BY DEF Shape, TypeOK, Pcs
<1>2. (timeout \in 1..MaxTimeout)'
  BY ClampType DEF Shape, TypeOK
<1>3. (count \in 0..MaxAddresses)'
  <2>1. count \in 0..MaxAddresses
    BY DEF Shape, TypeOK
  <2> QED BY <2>1, ProbeAssumption
<1>4. (ai \in 0..(MaxAddresses + 1))'
  <2>1. ai \in 0..(MaxAddresses + 1) /\ count \in 0..MaxAddresses /\ InsideList
    BY DEF Shape, TypeOK
  <2> QED BY <2>1, ProbeAssumption DEF InsideList
<1>5. (fd \in Fds \cup {NoFd})'
  BY DEF Shape, TypeOK
<1>6. (open \in SUBSET Fds)'
  BY DEF Shape, TypeOK
<1>7. (now \in Nat)'
  <2>1. now \in Nat /\ deadline \in Nat
    BY DEF Shape, TypeOK
  <2> QED BY <2>1
<1>8. (deadline \in Nat)'
  <2>1. now + timeout \in Nat /\ deadline \in Nat
    BY ProbeAssumption DEF Shape, TypeOK
  <2> QED BY <2>1
<1>9. (listed \in BOOLEAN /\ soError \in BOOLEAN /\ connected \in BOOLEAN)'
  BY DEF Shape, TypeOK
<1>10. (answered \in SUBSET (1..MaxAddresses))'
  <2>1. answered \in SUBSET (1..MaxAddresses) /\ count \in 0..MaxAddresses
    BY DEF Shape, TypeOK
  <2>2. pc \in {"connect", "wait"} => ai \in 1..MaxAddresses
    BY <2>1, ProbeAssumption DEF Shape, InsideList
  <2>3. \/ answered' = {} \/ answered' = answered
        \/ answered' = answered \cup {ai} /\ pc \in {"connect", "wait"}
    OBVIOUS
  <2> QED BY ONLY <2>1, <2>2, <2>3
<1>11. OneSocket'
  BY ProbeAssumption DEF Shape, TypeOK, OneSocket
<1>12. InsideList'
  BY ProbeAssumption DEF Shape, TypeOK, InsideList
<1>13. FollowsAnswer'
  <2>1. FollowsAnswer
    BY DEF Shape
  <2> QED BY <2>1 DEF FollowsAnswer
<1>14. ReportIsTrue'
  <2>1. ReportIsTrue /\ FollowsAnswer
    BY DEF Shape
  <2> QED BY <2>1 DEF FollowsAnswer, ReportIsTrue
<1> HIDE DEF Next, Step, vars, Call, Resolve, OpenSocket, SetNonBlocking, Connect,
         SelectInterrupted, SelectReady, SelectGivesUp, CheckError, FreeList,
         NextAddress, Succeed, Close
<1> QED
  BY <1>1, <1>2, <1>3, <1>4, <1>5, <1>6, <1>7, <1>8, <1>9, <1>10, <1>11, <1>12,
     <1>13, <1>14 DEF Shape, TypeOK

\* Every step keeps to the time: one timeout for each address tried so far.
LEMMA StepTime == Inv /\ [Next]_vars => InTime' /\ WaitIsBounded'
<1> SUFFICES ASSUME Inv, [Next]_vars PROVE InTime' /\ WaitIsBounded'
  OBVIOUS
<1>1. /\ timeout \in Nat /\ ai \in Nat /\ count \in 0..MaxAddresses
      /\ now \in Nat /\ deadline \in Nat /\ MaxAddresses \in Nat
      /\ timeout \in 1..MaxTimeout
  BY ProbeAssumption DEF Inv, Shape, TypeOK
<1>2. pc \in {"socket", "nonblock", "connect", "wait", "check"} => ai \in 1..MaxAddresses
  BY <1>1 DEF Inv, Shape, InsideList
<1>3. ASSUME ai \in 1..MaxAddresses, ai' = ai + 1, timeout' = timeout,
             now' \in Nat, now' <= timeout * ai, pc' \in {"socket", "free"}
      PROVE  InTime' /\ WaitIsBounded'
  <2>1. timeout * ai \in Nat /\ timeout * (ai + 1) = timeout * ai + timeout
    BY <1>1, OneMoreTimeout, ProductNat
  <2>2. now' <= timeout * (ai + 1)
    BY <1>1, <1>3, <2>1
  <2>3. (ai + 1) - 1 = ai
    BY <1>1
  <2>4. InTime'
    BY <1>3, <2>3 DEF InTime
  <2>5. ai + 1 <= MaxAddresses \/ (ai = MaxAddresses /\ ~(ai + 1 <= MaxAddresses))
    <3>1. ai \in 1..MaxAddresses
      BY <1>3
    <3> QED BY <1>1, <3>1
  <2>6. WaitIsBounded'
    BY <1>3, <2>2, <2>5 DEF WaitIsBounded
  <2> QED BY <2>4, <2>6
<1>4. ASSUME ai \in 1..MaxAddresses, ai' = ai, timeout' = timeout, now' <= timeout * ai
      PROVE  WaitIsBounded'
  <2>1. ai <= MaxAddresses
    BY <1>4
  <2> QED BY <1>4, <2>1 DEF WaitIsBounded
<1>5. ASSUME pc \in {"socket", "nonblock", "connect"}
      PROVE  now <= timeout * (ai - 1) /\ now <= timeout * ai /\ now + timeout <= timeout * ai
  <2>1. ai - 1 \in Nat /\ (ai - 1) + 1 = ai
    BY <1>2, <1>5
  <2>2. timeout * (ai - 1) \in Nat /\ timeout * ai = timeout * (ai - 1) + timeout
    <3>1. timeout * ((ai - 1) + 1) = timeout * (ai - 1) + timeout
      BY <1>1, <2>1, OneMoreTimeout
    <3> QED BY <1>1, <2>1, <3>1, ProductNat
  <2>3. now <= timeout * (ai - 1)
    BY <1>5 DEF Inv, InTime
  <2> QED BY <1>1, <2>2, <2>3
<1>6. ASSUME pc \in {"wait", "check"}
      PROVE  now <= deadline /\ deadline <= timeout * ai /\ now <= timeout * ai
  <2>1. now <= deadline /\ deadline <= timeout * ai
    BY <1>6 DEF Inv, InTime
  <2>2. timeout * ai \in Nat
    BY <1>1, ProductNat
  <2> QED BY <1>1, <2>1, <2>2
<1>7. ASSUME NEW port \in Ports, NEW t \in Timeouts, Call(port, t)
      PROVE  InTime' /\ WaitIsBounded'
  <2>1. timeout' \in Nat /\ now' = 0 /\ ai' = 0 /\ pc' \in {"resolve", "idle"}
    BY <1>1, <1>7, ClampType, ProbeAssumption DEF Call
  <2>2. InTime'
    BY <2>1 DEF InTime
  <2>3. 0 <= MaxAddresses
    BY <1>1
  <2>4. 0 <= timeout' * 0
    <3>1. timeout' \in Nat
      BY <2>1
    <3>2. timeout' * 0 \in Nat
      BY <3>1, ProductNat
    <3> QED BY <3>2
  <2>5. now' <= timeout' * (IF ai' <= MaxAddresses THEN ai' ELSE MaxAddresses)
    <3>1. (IF ai' <= MaxAddresses THEN ai' ELSE MaxAddresses) = 0
      BY <2>1, <2>3
    <3> QED BY ONLY <3>1, <2>1, <2>4, Zenon
  <2>6. WaitIsBounded'
    BY <2>5 DEF WaitIsBounded
  <2> QED BY <2>2, <2>6
<1>8. CASE Resolve
  <2>1. now' = 0 /\ timeout' = timeout
    BY <1>8 DEF Resolve, Inv, Shape, InsideList
  <2>2. CASE pc' = "idle" /\ ai' = ai
    <3>1. ai = 0 /\ timeout * ai = 0
      BY <1>1, <1>8 DEF Resolve, Inv, Shape, InsideList
    <3> QED BY <1>1, <2>1, <2>2, <3>1 DEF InTime, WaitIsBounded
  <2>3. CASE pc' = "socket" /\ ai' = 1
    <3>1. timeout * (1 - 1) = 0 /\ timeout * 1 = timeout /\ 1 <= MaxAddresses
      BY <1>1, <1>8, <2>3 DEF Resolve
    <3>2. InTime'
      BY <2>1, <2>3, <3>1 DEF InTime
    <3>3. WaitIsBounded'
      BY <1>1, <2>1, <2>3, <3>1 DEF WaitIsBounded
    <3> QED BY <3>2, <3>3
  <2> QED BY <1>8, <2>2, <2>3 DEF Resolve
<1>9. CASE OpenSocket
  <2>1. CASE NextAddress
    BY <1>1, <1>2, <1>3, <1>5, <1>9, <2>1 DEF OpenSocket, NextAddress
  <2>2. CASE pc' = "nonblock" /\ ai' = ai
    <3>1. InTime'
      BY <1>5, <1>9, <2>2 DEF OpenSocket, InTime
    <3> QED BY <1>2, <1>4, <1>5, <1>9, <2>2, <3>1 DEF OpenSocket
  <2> QED BY <1>9, <2>1, <2>2 DEF OpenSocket
<1>10. CASE SetNonBlocking
  <2>1. CASE NextAddress
    BY <1>1, <1>2, <1>3, <1>5, <1>10, <2>1 DEF SetNonBlocking, NextAddress
  <2>2. CASE pc' = "connect" /\ ai' = ai
    <3>1. InTime'
      BY <1>5, <1>10, <2>2 DEF SetNonBlocking, InTime
    <3> QED BY <1>2, <1>4, <1>5, <1>10, <2>2, <3>1 DEF SetNonBlocking
  <2> QED BY <1>10, <2>1, <2>2 DEF SetNonBlocking
<1>11. CASE Connect
  <2>1. CASE NextAddress
    BY <1>1, <1>2, <1>3, <1>5, <1>11, <2>1 DEF Connect, NextAddress
  <2>2. CASE Succeed
    <3>1. InTime'
      BY <2>2 DEF Succeed, InTime
    <3> QED BY <1>2, <1>4, <1>5, <1>11, <2>2, <3>1 DEF Connect, Succeed
  <2>3. CASE deadline' = now + timeout /\ pc' = "wait" /\ ai' = ai
    <3>1. now' = now /\ timeout' = timeout /\ now + timeout <= timeout * ai /\ now <= now + timeout
      BY <1>1, <1>5, <1>11 DEF Connect
    <3>2. InTime'
      BY <2>3, <3>1 DEF InTime
    <3> QED BY <1>2, <1>4, <1>5, <1>11, <2>3, <3>1, <3>2 DEF Connect
  <2> QED BY <1>11, <2>1, <2>2, <2>3 DEF Connect
<1>12. ASSUME pc = "wait", now' \in now..deadline, pc' \in {"wait", "check"},
              ai' = ai, timeout' = timeout, deadline' = deadline
       PROVE  InTime' /\ WaitIsBounded'
  <2>1. now' <= deadline /\ deadline <= timeout * ai
    BY <1>1, <1>6, <1>12
  <2>2. now' <= timeout * ai
    BY <1>1, <1>12, <2>1, ProductNat
  <2>3. InTime'
    BY <1>12, <2>1 DEF InTime
  <2> QED BY <1>2, <1>4, <1>12, <2>2, <2>3
<1>13. CASE SelectInterrupted
  BY <1>1, <1>12, <1>13 DEF SelectInterrupted
<1>14. CASE SelectReady
  BY <1>12, <1>14 DEF SelectReady
<1>15. CASE SelectGivesUp
  <2>1. now' \in Nat /\ now' <= timeout * ai
    BY <1>1, <1>6, <1>15 DEF SelectGivesUp
  <2> QED BY <1>1, <1>2, <1>3, <1>15, <2>1 DEF SelectGivesUp, NextAddress
<1>16. CASE CheckError
  <2>1. now' = now /\ timeout' = timeout /\ pc = "check"
    BY <1>16 DEF CheckError
  <2>2. CASE NextAddress
    BY <1>1, <1>2, <1>3, <1>6, <2>1, <2>2 DEF NextAddress
  <2>3. CASE Succeed
    <3>1. InTime'
      BY <2>3 DEF Succeed, InTime
    <3> QED BY <1>2, <1>4, <1>6, <2>1, <2>3, <3>1 DEF Succeed
  <2> QED BY <1>16, <2>2, <2>3 DEF CheckError
<1>17. CASE FreeList
  <2>1. pc' = "idle" /\ now' = now /\ timeout' = timeout /\ ai' = ai
    BY <1>17 DEF FreeList
  <2> QED BY <2>1 DEF Inv, InTime, WaitIsBounded
<1>18. CASE UNCHANGED vars
  BY <1>18 DEF vars, Inv, InTime, WaitIsBounded
<1> QED
  BY <1>7, <1>8, <1>9, <1>10, <1>11, <1>13, <1>14, <1>15, <1>16, <1>17, <1>18
     DEF Next, Step

\* The inductive invariant holds in every reachable state.
THEOREM Invariance == Spec => []Inv
<1>1. Inv /\ [Next]_vars => Inv'
  BY StepShape, StepTime DEF Inv
<1> QED BY InitInv, <1>1, PTL DEF Spec

\* Every variable keeps its type.
THEOREM TypeCorrect == Spec => []TypeOK
<1>1. Inv => TypeOK
  BY DEF Inv, Shape
<1> QED BY <1>1, Invariance, PTL

\* ConnectWithTimeout closes every socket and frees the address list, whichever
\* way it ends.
THEOREM NothingIsEverLeft == Spec => []NothingIsLeft
<1>1. Inv => NothingIsLeft
  BY DEF Inv, Shape, TypeOK, Pcs, OneSocket, InsideList, NothingIsLeft
<1> QED BY <1>1, Invariance, PTL

\* CheckPortListening returns true exactly when an address accepted in time.
THEOREM ReportAlwaysTrue == Spec => []ReportIsTrue
<1>1. Inv => ReportIsTrue
  BY DEF Inv, Shape
<1> QED BY <1>1, Invariance, PTL

\* Interrupted or not, the wait takes at most one timeout per address tried.
THEOREM WaitAlwaysBounded == Spec => []WaitIsBounded
<1>1. Inv => WaitIsBounded
  BY DEF Inv, Shape
<1> QED BY <1>1, Invariance, PTL
================================================================================
