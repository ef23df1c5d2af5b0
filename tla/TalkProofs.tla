------------------------------- MODULE TalkProofs -------------------------------
(***************************************************************************)
(* Proofs about Talk: type correctness, that the replies a client prints   *)
(* answer its requests in order and carry numbers no other reply has, and  *)
(* that every request the server counted has a reply, for any number of    *)
(* clients, requests and any quota.                                        *)
(***************************************************************************)
EXTENDS Talk, SequenceTheorems, TLAPS

\* The numbers given to replies that have left the server's hands.
Handed == IF spc = "reply" THEN requestCount - 1 ELSE requestCount

\* What the server has in its hands is a request of a client that waits.
ServerHolds ==
    /\ spc \in {"bind", "receive"} =>
          requestCount < MaxRequests /\ ~stopRequested
    /\ spc = "handle" =>
          /\ requestCount < MaxRequests
          /\ current \in Clients
          /\ response = <<sequence[current]>>
    /\ spc = "reply" =>
          /\ requestCount > 0
          /\ requestCount >= MaxRequests => stopRequested
          /\ current \in Clients
          /\ response = <<sequence[current], requestCount>>
    /\ spc \notin {"handle", "reply"} => current = Nobody

\* A client that waits has one message under way, of its current request; one
\* that does not wait has none.
OneMessage(c) ==
    /\ cpc[c] # "wait" =>
          outbox[c] = 0 /\ inbox[c] = 0 /\ Pending(c) = {} /\ current # c
    /\ outbox[c] # 0 =>
          outbox[c] = sequence[c] /\ inbox[c] = 0 /\ Pending(c) = {} /\ current # c
    /\ inbox[c] # 0 =>
          inbox[c] = sequence[c] /\ Pending(c) = {} /\ current # c
    /\ leaving[c] # <<>> => arrived[c] = <<>>
    /\ Pending(c) # {} => current # c
    /\ \A r \in Pending(c) : r[1] = sequence[c]

\* A client has printed one reply per request it is done with.
PrintedOnePerRequest(c) ==
    /\ Len(got[c]) = IF cpc[c] \in {"send", "wait"} THEN sequence[c] - 1 ELSE sequence[c]
    /\ cpc[c] = "sleep" => sequence[c] < Count
    /\ \A i \in DOMAIN got[c] : got[c][i][1] = i

\* The part of the invariant that does not speak of the server's numbers.
Shape ==
    /\ TypeOK
    /\ ServerHolds
    /\ \A c \in Clients : OneMessage(c) /\ PrintedOnePerRequest(c)

\* The server's numbers: used up to Handed, each once, growing for a client.
UsedUpToHanded == \A c \in Clients : \A r \in Held(c) : r[2] <= Handed
UsedOnce == \A c, d \in Clients : c # d => \A r \in Held(c), s \in Held(d) : r[2] # s[2]
PendingIsNewer ==
    \A c \in Clients : \A r \in Pending(c), s \in Printed(c) : s[2] < r[2]
PrintedGrows ==
    \A c \in Clients : \A i, j \in DOMAIN got[c] : i < j => got[c][i][2] < got[c][j][2]

\* No number is lost as long as the server's socket is open.
NoneIsLost ==
    spc # "gone" => \A n \in 1..Handed : \E c \in Clients : \E r \in Held(c) : r[2] = n

Numbering == UsedUpToHanded /\ UsedOnce /\ PendingIsNewer /\ PrintedGrows

Inv == Shape /\ Numbering /\ NoneIsLost

-------------------------------------------------------------------------------

USE TalkAssumption

\* A reply is not the empty sequence, which stands for none.
LEMMA ReplyIsSome == \A r \in Replies : r # <<>> /\ r[1] \in 1..Count /\ r[2] \in 1..MaxRequests
  BY DEF Replies

LEMMA AppendToOne == \A a, b : Append(<<a>>, b) = <<a, b>>
<1> TAKE a, b
<1>1. <<a>> \in Seq({a, b}) /\ <<a, b>> \in Seq({a, b})
  OBVIOUS
<1>2. /\ Append(<<a>>, b) \in Seq({a, b})
      /\ Len(Append(<<a>>, b)) = 2
      /\ Append(<<a>>, b)[1] = a
      /\ Append(<<a>>, b)[2] = b
  BY <1>1, AppendProperties
<1>3. Len(<<a, b>>) = 2 /\ <<a, b>>[1] = a /\ <<a, b>>[2] = b
  OBVIOUS
<1> DEFINE s == Append(<<a>>, b)
           t == <<a, b>>
<1> HIDE DEF s, t
<1>4. /\ s \in Seq({a, b}) /\ t \in Seq({a, b})
      /\ Len(s) = 2 /\ Len(t) = 2
      /\ \A i \in 1..2 : s[i] = t[i]
  BY <1>1, <1>2, <1>3 DEF s, t
<1>5. s = t
  BY <1>4, SeqEqual
<1> QED
  BY <1>5 DEF s, t

LEMMA InitShape == Init => Shape
<1> SUFFICES ASSUME Init PROVE Shape
  OBVIOUS
<1> USE DEF Init
<1>1. TypeOK
  <2>1. got \in [Clients -> Seq(Replies)]
    OBVIOUS
  <2>2. /\ leaving \in [Clients -> Replies \cup {<<>>}]
        /\ arrived \in [Clients -> Replies \cup {<<>>}]
    OBVIOUS
  <2>3. /\ sequence \in [Clients -> 1..Count]
        /\ outbox \in [Clients -> 0..Count]
        /\ inbox \in [Clients -> 0..Count]
        /\ requestCount \in 0..MaxRequests
    OBVIOUS
  <2> QED
    BY <2>1, <2>2, <2>3 DEF TypeOK
<1>2. ServerHolds
  BY DEF ServerHolds
<1>3. ASSUME NEW c \in Clients PROVE OneMessage(c) /\ PrintedOnePerRequest(c)
  BY DEF OneMessage, PrintedOnePerRequest, Pending
<1> QED
  BY <1>1, <1>2, <1>3 DEF Shape

LEMMA BindShape == Shape /\ Bind => Shape'
<1> SUFFICES ASSUME Shape, Bind PROVE Shape'
  OBVIOUS
<1> USE DEF Shape, Bind, clientVars
<1>1. TypeOK'
  BY DEF TypeOK
<1>2. ServerHolds'
  BY DEF ServerHolds, OneMessage, TypeOK
<1>3. ASSUME NEW d \in Clients PROVE OneMessage(d)' /\ PrintedOnePerRequest(d)'
  <2>1. OneMessage(d) /\ PrintedOnePerRequest(d)
    OBVIOUS
  <2>2. OneMessage(d)'
    BY <2>1 DEF OneMessage, Pending, TypeOK
  <2>3. PrintedOnePerRequest(d)'
    BY <2>1 DEF PrintedOnePerRequest
  <2> QED
    BY <2>2, <2>3
<1> QED
  BY <1>1, <1>2, <1>3 DEF Shape

LEMMA HandleShape == Shape /\ Handle => Shape'
<1> SUFFICES ASSUME Shape, Handle PROVE Shape'
  OBVIOUS
<1> USE DEF Shape, Handle, clientVars
<1>1. TypeOK'
  <2>1. requestCount' \in 0..MaxRequests
    BY DEF TypeOK, ServerHolds
  <2>2. stopRequested' \in BOOLEAN
    BY <2>1
  <2> QED
    BY <2>1, <2>2 DEF TypeOK
<1>2. ServerHolds'
  <2>1. response' = <<sequence[current], requestCount'>>
    <3>1. response = <<sequence[current]>>
      BY DEF ServerHolds
    <3>2. response' = Append(response, requestCount')
      OBVIOUS
    <3> QED
      BY <3>1, <3>2, AppendToOne
  <2>2. requestCount' > 0 /\ current \in Clients
    BY DEF ServerHolds, TypeOK
  <2> QED
    BY <2>1, <2>2 DEF ServerHolds
<1>3. ASSUME NEW d \in Clients PROVE OneMessage(d)' /\ PrintedOnePerRequest(d)'
  <2>1. OneMessage(d) /\ PrintedOnePerRequest(d)
    OBVIOUS
  <2>2. OneMessage(d)'
    BY <2>1 DEF OneMessage, Pending, TypeOK
  <2>3. PrintedOnePerRequest(d)'
    BY <2>1 DEF PrintedOnePerRequest
  <2> QED
    BY <2>2, <2>3
<1> QED
  BY <1>1, <1>2, <1>3 DEF Shape

LEMMA CloseShape == Shape /\ Close => Shape'
<1> SUFFICES ASSUME Shape, Close PROVE Shape'
  OBVIOUS
<1> USE DEF Shape, Close, clientVars
<1>1. TypeOK'
  BY DEF TypeOK
<1>2. ServerHolds'
  BY DEF ServerHolds, OneMessage, TypeOK
<1>3. ASSUME NEW d \in Clients PROVE OneMessage(d)' /\ PrintedOnePerRequest(d)'
  <2>1. OneMessage(d) /\ PrintedOnePerRequest(d)
    OBVIOUS
  <2>2. OneMessage(d)'
    BY <2>1 DEF OneMessage, Pending, TypeOK
  <2>3. PrintedOnePerRequest(d)'
    BY <2>1 DEF PrintedOnePerRequest
  <2> QED
    BY <2>2, <2>3
<1> QED
  BY <1>1, <1>2, <1>3 DEF Shape

LEMMA SendReplyShape == Shape /\ SendReply => Shape'
<1> SUFFICES ASSUME Shape, SendReply PROVE Shape'
  OBVIOUS
<1> USE DEF Shape, SendReply, clientVars
<1>0. /\ current \in Clients
      /\ response \in Replies
      /\ response[1] = sequence[current]
  BY DEF ServerHolds, TypeOK, Replies
<1>1. TypeOK'
  BY <1>0 DEF TypeOK
<1>2. ServerHolds'
  <2>1. requestCount \in 0..MaxRequests /\ (requestCount >= MaxRequests => stopRequested)
    BY DEF ServerHolds, TypeOK
  <2>2. spc' \in {"close", "receive"} /\ current' = Nobody
    OBVIOUS
  <2>3. spc' = "receive" => requestCount' < MaxRequests /\ ~stopRequested'
    <3>1. spc' = "receive" => ~stopRequested
      OBVIOUS
    <3>2. ~stopRequested => requestCount < MaxRequests
      BY <2>1
    <3> QED
      BY <3>1, <3>2
  <2> QED
    BY <2>2, <2>3 DEF ServerHolds
<1>3. ASSUME NEW d \in Clients PROVE OneMessage(d)' /\ PrintedOnePerRequest(d)'
  <2>1. OneMessage(d) /\ PrintedOnePerRequest(d)
    OBVIOUS
  <2>2. OneMessage(d)'
    <3>1. CASE d = current
      <4>1. cpc[d] = "wait" /\ outbox[d] = 0 /\ inbox[d] = 0 /\ Pending(d) = {}
        BY <1>0, <2>1, <3>1 DEF OneMessage
      <4>2. leaving'[d] = response /\ arrived'[d] = <<>>
        BY <1>0, <3>1, <4>1 DEF Pending, TypeOK
      <4>3. Pending(d)' = {response}
        BY <1>0, <4>2, ReplyIsSome DEF Pending
      <4>4. current' # d
        OBVIOUS
      <4> QED
        BY <1>0, <3>1, <4>1, <4>2, <4>3, <4>4 DEF OneMessage
    <3>2. CASE d # current
      BY <2>1, <3>2 DEF OneMessage, Pending, TypeOK
    <3> QED
      BY <3>1, <3>2
  <2>3. PrintedOnePerRequest(d)'
    BY <2>1 DEF PrintedOnePerRequest
  <2> QED
    BY <2>2, <2>3
<1> QED
  BY <1>1, <1>2, <1>3 DEF Shape

LEMMA SendRequestShape == \A c \in Clients : Shape /\ SendRequest(c) => Shape'
<1> SUFFICES ASSUME NEW c \in Clients, Shape, SendRequest(c) PROVE Shape'
  OBVIOUS
<1> USE DEF Shape, SendRequest, serverVars
<1>1. TypeOK'
  BY DEF TypeOK
<1>2. ServerHolds'
  BY DEF ServerHolds, OneMessage, TypeOK
<1>3. ASSUME NEW d \in Clients PROVE OneMessage(d)' /\ PrintedOnePerRequest(d)'
  <2>1. OneMessage(d) /\ PrintedOnePerRequest(d)
    OBVIOUS
  <2>2. OneMessage(d)'
    BY <2>1 DEF OneMessage, Pending, TypeOK
  <2>3. PrintedOnePerRequest(d)'
    BY <2>1 DEF PrintedOnePerRequest, TypeOK
  <2> QED
    BY <2>2, <2>3
<1> QED
  BY <1>1, <1>2, <1>3 DEF Shape

LEMMA DeliverShape == \A c \in Clients : Shape /\ Deliver(c) => Shape'
<1> SUFFICES ASSUME NEW c \in Clients, Shape, Deliver(c) PROVE Shape'
  OBVIOUS
<1> USE DEF Shape, Deliver, serverVars, clientVars
<1>1. TypeOK'
  BY DEF TypeOK
<1>2. ServerHolds'
  BY DEF ServerHolds, OneMessage, TypeOK
<1>3. ASSUME NEW d \in Clients PROVE OneMessage(d)' /\ PrintedOnePerRequest(d)'
  <2>1. OneMessage(d) /\ PrintedOnePerRequest(d)
    OBVIOUS
  <2>2. OneMessage(d)'
    BY <2>1 DEF OneMessage, Pending, TypeOK
  <2>3. PrintedOnePerRequest(d)'
    BY <2>1 DEF PrintedOnePerRequest
  <2> QED
    BY <2>2, <2>3
<1> QED
  BY <1>1, <1>2, <1>3 DEF Shape

LEMMA ReceiveShape == \A c \in Clients : Shape /\ Receive(c) => Shape'
<1> SUFFICES ASSUME NEW c \in Clients, Shape, Receive(c) PROVE Shape'
  OBVIOUS
<1> USE DEF Shape, Receive, clientVars
<1>1. TypeOK'
  BY DEF TypeOK
<1>2. ServerHolds'
  BY DEF ServerHolds, OneMessage, TypeOK
<1>3. ASSUME NEW d \in Clients PROVE OneMessage(d)' /\ PrintedOnePerRequest(d)'
  <2>1. OneMessage(d) /\ PrintedOnePerRequest(d)
    OBVIOUS
  <2>2. OneMessage(d)'
    BY <2>1 DEF OneMessage, Pending, TypeOK
  <2>3. PrintedOnePerRequest(d)'
    BY <2>1 DEF PrintedOnePerRequest
  <2> QED
    BY <2>2, <2>3
<1> QED
  BY <1>1, <1>2, <1>3 DEF Shape

LEMMA TransmitShape == \A c \in Clients : Shape /\ Transmit(c) => Shape'
<1> SUFFICES ASSUME NEW c \in Clients, Shape, Transmit(c) PROVE Shape'
  OBVIOUS
<1> USE DEF Shape, Transmit, serverVars, clientVars
<1>1. TypeOK'
  BY DEF TypeOK
<1>2. ServerHolds'
  BY DEF ServerHolds, OneMessage, TypeOK
<1>3. ASSUME NEW d \in Clients PROVE OneMessage(d)' /\ PrintedOnePerRequest(d)'
  <2>1. OneMessage(d) /\ PrintedOnePerRequest(d)
    OBVIOUS
  <2>2. OneMessage(d)'
    BY <2>1 DEF OneMessage, Pending, TypeOK
  <2>3. PrintedOnePerRequest(d)'
    BY <2>1 DEF PrintedOnePerRequest
  <2> QED
    BY <2>2, <2>3
<1> QED
  BY <1>1, <1>2, <1>3 DEF Shape

LEMMA ReceiveReplyShape == \A c \in Clients : Shape /\ ReceiveReply(c) => Shape'
<1> SUFFICES ASSUME NEW c \in Clients, Shape, ReceiveReply(c) PROVE Shape'
  OBVIOUS
<1> USE DEF Shape, ReceiveReply, serverVars
<1>1. TypeOK'
  BY DEF TypeOK
<1>2. ServerHolds'
  BY DEF ServerHolds, OneMessage, TypeOK
<1>3. ASSUME NEW d \in Clients PROVE OneMessage(d)' /\ PrintedOnePerRequest(d)'
  <2>1. OneMessage(d) /\ PrintedOnePerRequest(d)
    OBVIOUS
  <2>2. OneMessage(d)'
    BY <2>1 DEF OneMessage, Pending, TypeOK
  <2>3. PrintedOnePerRequest(d)'
    <3>1. CASE d = c
      <4>1. arrived[d] \in Replies /\ arrived[d][1] = sequence[d]
        BY <2>1, <3>1 DEF TypeOK, OneMessage, Pending
      <4>2. got[d] \in Seq(Replies) /\ Len(got[d]) = sequence[d] - 1
        BY <2>1, <3>1 DEF TypeOK, PrintedOnePerRequest
      <4>3. got'[d] = Append(got[d], arrived[d])
        BY <3>1 DEF TypeOK
      <4>4. /\ Len(got'[d]) = sequence[d]
            /\ DOMAIN got'[d] = 1..sequence[d]
            /\ \A i \in DOMAIN got'[d] : got'[d][i] = IF i = sequence[d] THEN arrived[d] ELSE got[d][i]
        BY <4>1, <4>2, <4>3 DEF TypeOK
      <4>5. \A i \in DOMAIN got'[d] : got'[d][i][1] = i
        BY <2>1, <4>1, <4>2, <4>4 DEF PrintedOnePerRequest
      <4>6. cpc'[d] = IF sequence[d] < Count THEN "sleep" ELSE "done"
        BY <3>1 DEF TypeOK
      <4> QED
        BY <4>4, <4>5, <4>6 DEF PrintedOnePerRequest
    <3>2. CASE d # c
      BY <2>1, <3>2 DEF PrintedOnePerRequest, TypeOK
    <3> QED
      BY <3>1, <3>2
  <2> QED
    BY <2>2, <2>3
<1> QED
  BY <1>1, <1>2, <1>3 DEF Shape

LEMMA WakeUpShape == \A c \in Clients : Shape /\ WakeUp(c) => Shape'
<1> SUFFICES ASSUME NEW c \in Clients, Shape, WakeUp(c) PROVE Shape'
  OBVIOUS
<1> USE DEF Shape, WakeUp, serverVars
<1>1. TypeOK'
  <2>1. sequence[c] < Count
    BY DEF PrintedOnePerRequest
  <2>2. sequence' \in [Clients -> 1..Count]
    BY <2>1 DEF TypeOK
  <2> QED
    BY <2>2 DEF TypeOK
<1>2. ServerHolds'
  BY DEF ServerHolds, OneMessage, TypeOK
<1>3. ASSUME NEW d \in Clients PROVE OneMessage(d)' /\ PrintedOnePerRequest(d)'
  <2>1. OneMessage(d) /\ PrintedOnePerRequest(d)
    OBVIOUS
  <2>2. OneMessage(d)'
    BY <2>1 DEF OneMessage, Pending, TypeOK
  <2>3. PrintedOnePerRequest(d)'
    <3>1. CASE d = c
      <4>1. cpc[d] = "sleep" /\ cpc'[d] = "send" /\ sequence'[d] = sequence[d] + 1
        BY <3>1 DEF TypeOK
      <4>2. got' = got /\ sequence[d] \in Nat
        BY DEF TypeOK
      <4> QED
        BY <2>1, <4>1, <4>2 DEF PrintedOnePerRequest
    <3>2. CASE d # c
      <4>1. got' = got /\ cpc'[d] = cpc[d] /\ sequence'[d] = sequence[d]
        BY <3>2 DEF TypeOK
      <4> QED
        BY <2>1, <4>1 DEF PrintedOnePerRequest
    <3> QED
      BY <3>1, <3>2
  <2> QED
    BY <2>2, <2>3
<1> QED
  BY <1>1, <1>2, <1>3 DEF Shape

-------------------------------------------------------------------------------

\* A step that prints nothing and hands out no reply keeps the numbering.
LEMMA NothingNew ==
  ASSUME Numbering, got' = got, Handed' = Handed,
         \A c \in Clients : Pending(c)' \subseteq Pending(c)
  PROVE  Numbering'
<1>1. \A c \in Clients : Printed(c)' = Printed(c) /\ Held(c)' \subseteq Held(c)
  BY DEF Printed, Held
<1>2. UsedUpToHanded' /\ UsedOnce'
  BY <1>1 DEF Numbering, UsedUpToHanded, UsedOnce
<1>3. PendingIsNewer' /\ PrintedGrows'
  BY <1>1 DEF Numbering, PendingIsNewer, PrintedGrows
<1> QED
  BY <1>2, <1>3 DEF Numbering

LEMMA QuietNumbering ==
  ASSUME Shape, Numbering,
         Bind \/ Handle \/ \E c \in Clients : SendRequest(c) \/ Deliver(c) \/ Receive(c) \/ WakeUp(c)
  PROVE  Numbering'
<1>1. got' = got /\ leaving' = leaving /\ arrived' = arrived
  BY DEF Bind, Handle, SendRequest, Deliver, Receive, WakeUp, serverVars, clientVars
<1>2. Handed' = Handed
  BY DEF Bind, Handle, SendRequest, Deliver, Receive, WakeUp, serverVars, Handed, Shape, TypeOK
<1> QED
  BY <1>1, <1>2, NothingNew DEF Pending

LEMMA CloseNumbering ==
  ASSUME Shape, Numbering, Close
  PROVE  Numbering'
<1>1. got' = got /\ Handed' = Handed
  BY DEF Close, clientVars, Handed
<1>2. \A c \in Clients : Pending(c)' \subseteq Pending(c)
  BY DEF Close, Pending
<1> QED
  BY <1>1, <1>2, NothingNew

LEMMA TransmitNumbering ==
  ASSUME Shape, Numbering, NEW c \in Clients, Transmit(c)
  PROVE  Numbering'
<1>1. got' = got /\ Handed' = Handed
  BY DEF Transmit, serverVars, clientVars, Handed
<1>2. \A d \in Clients : Pending(d)' \subseteq Pending(d)
  BY DEF Transmit, Pending, Shape, TypeOK
<1> QED
  BY <1>1, <1>2, NothingNew

\* The reply that leaves the server's hands has the number after all others.
LEMMA SendReplyNumbering ==
  ASSUME Shape, Numbering, SendReply
  PROVE  Numbering'
<1>0. PICK c \in Clients : c = current
  BY DEF SendReply, Shape, ServerHolds
<1>1. /\ response # <<>>
      /\ response[2] = requestCount
      /\ requestCount \in Nat
      /\ Handed = requestCount - 1 /\ Handed' = requestCount
  <2>1. spc = "reply" /\ requestCount' = requestCount /\ spc' # "reply"
    BY DEF SendReply
  <2>2. current \in Clients /\ response = <<sequence[current], requestCount>>
    BY <2>1 DEF Shape, ServerHolds
  <2>3. response # <<>> /\ response[2] = requestCount
    BY <2>2
  <2> QED
    BY <2>1, <2>3 DEF Handed, Shape, TypeOK
<1>2. got' = got
  BY DEF SendReply, clientVars
<1>3. /\ Pending(c) = {}
      /\ Pending(c)' = {response}
      /\ \A d \in Clients \ {c} : Pending(d)' = Pending(d)
  <2>1. Pending(c) = {}
    BY <1>0 DEF Shape, OneMessage
  <2> QED
    BY <1>0, <1>1, <2>1 DEF SendReply, Pending, Shape, TypeOK
<1>4. /\ \A d \in Clients : Printed(d)' = Printed(d)
      /\ Held(c)' = Held(c) \cup {response}
      /\ \A d \in Clients \ {c} : Held(d)' = Held(d)
  BY <1>1, <1>2, <1>3 DEF Held, Printed
<1>5. \A d \in Clients : \A r \in Held(d) : r[2] \in Nat
  <2>1. \A d \in Clients : Pending(d) \subseteq Replies
    BY DEF Pending, Shape, TypeOK
  <2>2. \A d \in Clients : Printed(d) \subseteq Replies
    BY DEF Printed, Shape, TypeOK
  <2> QED
    BY <2>1, <2>2, ReplyIsSome DEF Held
<1>6. \A d \in Clients : \A r \in Held(d) : r[2] < requestCount
  BY <1>1, <1>5 DEF Numbering, UsedUpToHanded
<1>7. UsedUpToHanded'
  BY <1>1, <1>4, <1>5, <1>6 DEF UsedUpToHanded
<1>8. UsedOnce'
  BY <1>1, <1>4, <1>5, <1>6 DEF UsedOnce, Numbering
<1>9. PendingIsNewer'
  <2>1. ASSUME NEW d \in Clients, NEW r \in Pending(d)', NEW s \in Printed(d)'
        PROVE  s[2] < r[2]
    <3>1. s \in Printed(d) /\ s \in Held(d)
      BY <1>4 DEF Held
    <3>2. CASE d = c
      BY <1>1, <1>3, <1>6, <3>1, <3>2
    <3>3. CASE d # c
      BY <1>3, <3>1, <3>3 DEF Numbering, PendingIsNewer
    <3> QED
      BY <3>2, <3>3
  <2> QED
    BY <2>1 DEF PendingIsNewer
<1>10. PrintedGrows'
  BY <1>2 DEF Numbering, PrintedGrows
<1> QED
  BY <1>7, <1>8, <1>9, <1>10 DEF Numbering

\* A reply that is printed was pending, and newer than those printed before.
LEMMA ReceiveReplyNumbering ==
  ASSUME Shape, Numbering, NEW c \in Clients, ReceiveReply(c)
  PROVE  Numbering'
<1>1. Handed' = Handed /\ leaving' = leaving
  BY DEF ReceiveReply, serverVars, Handed
<1>2. /\ arrived[c] \in Pending(c) /\ arrived[c] \in Replies
      /\ arrived[c][2] \in Nat
      /\ got[c] \in Seq(Replies)
  BY ReplyIsSome DEF ReceiveReply, Pending, Shape, TypeOK
<1>3. /\ got'[c] = Append(got[c], arrived[c])
      /\ \A d \in Clients \ {c} : got'[d] = got[d]
      /\ \A d \in Clients : Pending(d)' \subseteq Pending(d)
  BY DEF ReceiveReply, Pending, Shape, TypeOK
<1>4. Pending(c)' = {}
  BY DEF ReceiveReply, Pending, Shape, TypeOK, OneMessage
<1>5. /\ Len(got'[c]) = Len(got[c]) + 1
      /\ DOMAIN got[c] = 1..Len(got[c]) /\ DOMAIN got'[c] = 1..(Len(got[c]) + 1)
      /\ \A i \in DOMAIN got[c] : got'[c][i] = got[c][i]
      /\ got'[c][Len(got[c]) + 1] = arrived[c]
      /\ Len(got[c]) \in Nat
  BY <1>2, <1>3
<1>6. /\ Printed(c)' = Printed(c) \cup {arrived[c]}
      /\ \A d \in Clients \ {c} : Printed(d)' = Printed(d)
  BY <1>3, <1>5 DEF Printed
<1>7. \A d \in Clients : Held(d)' \subseteq Held(d)
  BY <1>2, <1>3, <1>6 DEF Held
<1>8. UsedUpToHanded' /\ UsedOnce'
  BY <1>1, <1>7 DEF Numbering, UsedUpToHanded, UsedOnce
<1>9. PendingIsNewer'
  BY <1>3, <1>4, <1>6 DEF Numbering, PendingIsNewer
<1>10. PrintedGrows'
  <2>1. ASSUME NEW d \in Clients, NEW i \in DOMAIN got'[d], NEW j \in DOMAIN got'[d], i < j
        PROVE  got'[d][i][2] < got'[d][j][2]
    <3>1. CASE d # c
      BY <1>3, <2>1, <3>1 DEF Numbering, PrintedGrows
    <3>2. CASE d = c /\ j \in DOMAIN got[c]
      <4>1. i \in DOMAIN got[c] /\ got'[d][j] = got[c][j] /\ got'[d][i] = got[c][i]
        BY <1>5, <2>1, <3>2
      <4> QED
        BY <2>1, <3>2, <4>1 DEF Numbering, PrintedGrows
    <3>3. CASE d = c /\ j \notin DOMAIN got[c]
      <4>1. i \in DOMAIN got[c] /\ got'[d][j] = arrived[c] /\ got'[d][i] = got[c][i]
        BY <1>5, <2>1, <3>3
      <4> QED
        BY <1>2, <4>1 DEF Numbering, PendingIsNewer, Printed
    <3> QED
      BY <3>1, <3>2, <3>3
  <2> QED
    BY <2>1 DEF PrintedGrows
<1> QED
  BY <1>8, <1>9, <1>10 DEF Numbering

-------------------------------------------------------------------------------

\* A step after which everybody holds what they held loses no reply.
LEMMA NothingLost ==
  ASSUME NoneIsLost, Handed' = Handed, spc' # "gone" => spc # "gone",
         \A c \in Clients : Held(c) \subseteq Held(c)'
  PROVE  NoneIsLost'
<1> SUFFICES ASSUME spc' # "gone", NEW n \in 1..Handed
             PROVE  \E c \in Clients : \E r \in Held(c)' : r[2] = n
  BY DEF NoneIsLost
<1>1. PICK c \in Clients : \E r \in Held(c) : r[2] = n
  BY DEF NoneIsLost
<1> QED
  BY <1>1

\* Only the server's reply and the closing of its socket change what is held.
LEMMA QuietNoneIsLost ==
  ASSUME Shape, NoneIsLost,
         Bind \/ Handle \/ \E c \in Clients : SendRequest(c) \/ Deliver(c) \/ Receive(c) \/ WakeUp(c)
  PROVE  NoneIsLost'
<1>1. got' = got /\ leaving' = leaving /\ arrived' = arrived
  BY DEF Bind, Handle, SendRequest, Deliver, Receive, WakeUp, serverVars, clientVars
<1>2. Handed' = Handed
  BY DEF Bind, Handle, SendRequest, Deliver, Receive, WakeUp, serverVars, Handed, Shape, TypeOK
<1>3. spc' # "gone" => spc # "gone"
  BY DEF Bind, Handle, SendRequest, Deliver, Receive, WakeUp, serverVars
<1>4. \A c \in Clients : Held(c)' = Held(c)
  BY <1>1 DEF Held, Pending, Printed
<1> QED
  BY <1>2, <1>3, <1>4, NothingLost

\* The number the server hands out is held by the client it goes to.
LEMMA SendReplyNoneIsLost ==
  ASSUME Shape, NoneIsLost, SendReply
  PROVE  NoneIsLost'
<1>0. PICK c \in Clients : c = current
  BY DEF SendReply, Shape, ServerHolds
<1>1. /\ response # <<>> /\ response[2] = requestCount
      /\ requestCount \in Nat /\ Handed = requestCount - 1 /\ Handed' = requestCount
      /\ spc # "gone"
  <2>1. spc = "reply" /\ requestCount' = requestCount /\ spc' # "reply"
    BY DEF SendReply
  <2>2. current \in Clients /\ response = <<sequence[current], requestCount>>
    BY <2>1 DEF Shape, ServerHolds
  <2>3. response # <<>> /\ response[2] = requestCount
    BY <2>2
  <2> QED
    BY <2>1, <2>3 DEF Handed, Shape, TypeOK
<1>2. /\ response \in Held(c)'
      /\ \A d \in Clients : Held(d) \subseteq Held(d)'
  <2>1. Pending(c) = {}
    BY <1>0 DEF Shape, OneMessage, SendReply, ServerHolds
  <2>2. /\ response \in Pending(c)'
        /\ \A d \in Clients : Pending(d) \subseteq Pending(d)'
    BY <1>0, <1>1, <2>1 DEF SendReply, Pending, Shape, TypeOK
  <2>3. \A d \in Clients : Printed(d)' = Printed(d)
    BY DEF SendReply, clientVars, Printed
  <2> QED
    BY <2>2, <2>3 DEF Held
<1>3. ASSUME NEW n \in 1..requestCount
      PROVE  \E d \in Clients : \E r \in Held(d)' : r[2] = n
  <2>1. CASE n = requestCount
    BY <1>1, <1>2, <2>1
  <2>2. CASE n # requestCount
    <3>1. n \in 1..Handed
      BY <1>1, <2>2
    <3>2. PICK d \in Clients : \E r \in Held(d) : r[2] = n
      BY <1>1, <3>1 DEF NoneIsLost
    <3> QED
      BY <1>2, <3>2
  <2> QED
    BY <2>1, <2>2
<1> QED
  BY <1>1, <1>3 DEF NoneIsLost

\* A reply that moves on is still held by its client.
LEMMA TransmitNoneIsLost ==
  ASSUME Shape, NoneIsLost, NEW c \in Clients, Transmit(c)
  PROVE  NoneIsLost'
<1>1. Handed' = Handed /\ spc' = spc /\ got' = got
  BY DEF Transmit, serverVars, clientVars, Handed
<1>2. \A d \in Clients : Pending(d) \subseteq Pending(d)'
  BY DEF Transmit, Pending, Shape, TypeOK, OneMessage
<1>3. \A d \in Clients : Held(d) \subseteq Held(d)'
  BY <1>1, <1>2 DEF Held, Printed
<1> QED
  BY <1>1, <1>3, NothingLost

LEMMA ReceiveReplyNoneIsLost ==
  ASSUME Shape, NoneIsLost, NEW c \in Clients, ReceiveReply(c)
  PROVE  NoneIsLost'
<1>1. Handed' = Handed /\ spc' = spc
  BY DEF ReceiveReply, serverVars, Handed
<1>2. /\ arrived[c] \in Replies /\ got[c] \in Seq(Replies)
      /\ got'[c] = Append(got[c], arrived[c])
      /\ \A d \in Clients \ {c} : got'[d] = got[d] /\ Pending(d)' = Pending(d)
      /\ Pending(c) = {arrived[c]}
  BY DEF ReceiveReply, Pending, Shape, TypeOK, OneMessage
<1>3. /\ DOMAIN got[c] = 1..Len(got[c]) /\ DOMAIN got'[c] = 1..(Len(got[c]) + 1)
      /\ \A i \in DOMAIN got[c] : got'[c][i] = got[c][i]
      /\ got'[c][Len(got[c]) + 1] = arrived[c]
      /\ Len(got[c]) \in Nat
  BY <1>2
<1>4. Printed(c)' = Printed(c) \cup {arrived[c]}
  BY <1>3 DEF Printed
<1>5. \A d \in Clients \ {c} : Held(d)' = Held(d)
  BY <1>2 DEF Held, Printed
<1>6. Held(c) \subseteq Held(c)'
  BY <1>2, <1>4 DEF Held
<1> QED
  BY <1>1, <1>5, <1>6, NothingLost

\* The server's socket drops what it still has only when the server is gone.
LEMMA CloseNoneIsLost == Close => NoneIsLost'
  BY DEF Close, NoneIsLost

-------------------------------------------------------------------------------

LEMMA InitInv == Init => Inv
<1> SUFFICES ASSUME Init PROVE Inv
  OBVIOUS
<1>1. ASSUME NEW c \in Clients PROVE Pending(c) = {} /\ Printed(c) = {} /\ got[c] = <<>>
  <2>1. got[c] = <<>> /\ DOMAIN got[c] = {}
    BY DEF Init
  <2>2. Pending(c) = {}
    BY DEF Init, Pending
  <2> QED
    BY <2>1, <2>2 DEF Printed
<1>2. Numbering
  BY <1>1 DEF Numbering, UsedUpToHanded, UsedOnce, PendingIsNewer, PrintedGrows, Held
<1>3. NoneIsLost
  BY DEF Init, NoneIsLost, Handed
<1> QED
  BY <1>2, <1>3, InitShape DEF Inv

LEMMA StepInv == Inv /\ [Next]_vars => Inv'
<1> SUFFICES ASSUME Inv, [Next]_vars PROVE Inv'
  OBVIOUS
<1> USE DEF Inv
<1>1. CASE UNCHANGED vars
  <2>1. Shape'
    BY <1>1 DEF vars, serverVars, clientVars, Shape, TypeOK, ServerHolds, OneMessage,
                PrintedOnePerRequest, Pending
  <2>2. Numbering'
    BY <1>1, NothingNew DEF vars, serverVars, clientVars, Handed, Pending
  <2>3. NoneIsLost'
    BY <1>1, NothingLost DEF vars, serverVars, clientVars, Handed, Held, Pending, Printed
  <2> QED
    BY <2>1, <2>2, <2>3
<1>2. CASE Bind
  BY <1>2, BindShape, QuietNumbering, QuietNoneIsLost
<1>3. CASE Handle
  BY <1>3, HandleShape, QuietNumbering, QuietNoneIsLost
<1>4. CASE SendReply
  BY <1>4, SendReplyShape, SendReplyNumbering, SendReplyNoneIsLost
<1>5. CASE Close
  BY <1>5, CloseShape, CloseNumbering, CloseNoneIsLost
<1>6. ASSUME NEW c \in Clients, Receive(c) PROVE Inv'
  BY <1>6, ReceiveShape, QuietNumbering, QuietNoneIsLost
<1>7. ASSUME NEW c \in Clients, SendRequest(c) PROVE Inv'
  BY <1>7, SendRequestShape, QuietNumbering, QuietNoneIsLost
<1>8. ASSUME NEW c \in Clients, ReceiveReply(c) PROVE Inv'
  BY <1>8, ReceiveReplyShape, ReceiveReplyNumbering, ReceiveReplyNoneIsLost
<1>9. ASSUME NEW c \in Clients, WakeUp(c) PROVE Inv'
  BY <1>9, WakeUpShape, QuietNumbering, QuietNoneIsLost
<1>10. ASSUME NEW c \in Clients, Deliver(c) PROVE Inv'
  BY <1>10, DeliverShape, QuietNumbering, QuietNoneIsLost
<1>11. ASSUME NEW c \in Clients, Transmit(c) PROVE Inv'
  BY <1>11, TransmitShape, TransmitNumbering, TransmitNoneIsLost
<1> QED
  BY <1>1, <1>2, <1>3, <1>4, <1>5, <1>6, <1>7, <1>8, <1>9, <1>10, <1>11
     DEF Next, Serve, Ask, Carry

LEMMA InvariantHolds == Spec => []Inv
<1>1. Init => Inv
  BY InitInv
<1>2. Inv /\ [Next]_vars => Inv'
  BY StepInv
<1> QED
  BY <1>1, <1>2, PTL DEF Spec

\* Every variable of the talk examples keeps its type: the quota is never
\* exceeded, and what is printed are replies to requests that were made.
THEOREM TypeCorrect == Spec => []TypeOK
<1>1. Inv => TypeOK
  BY DEF Inv, Shape
<1> QED
  BY <1>1, InvariantHolds, PTL

\* The i-th reply a client prints answers its i-th request, and no two replies
\* that are printed anywhere have one number of the server.
THEOREM RepliesAlwaysInOrder == Spec => []RepliesAreInOrder
<1>1. Inv => RepliesAreInOrder
  <2> SUFFICES ASSUME Inv, NEW c \in Clients, NEW d \in Clients,
                      NEW i \in DOMAIN got[c], NEW j \in DOMAIN got[d]
               PROVE  /\ got[c][i][1] = i
                      /\ c # d => got[c][i][2] # got[d][j][2]
                      /\ c = d /\ i < j => got[c][i][2] < got[d][j][2]
    BY DEF RepliesAreInOrder
  <2>1. got[c][i][1] = i
    BY DEF Inv, Shape, PrintedOnePerRequest
  <2>2. c # d => got[c][i][2] # got[d][j][2]
    BY DEF Inv, Numbering, UsedOnce, Held, Printed
  <2>3. c = d /\ i < j => got[c][i][2] < got[d][j][2]
    BY DEF Inv, Numbering, PrintedGrows
  <2> QED
    BY <2>1, <2>2, <2>3
<1> QED
  BY <1>1, InvariantHolds, PTL

\* While the server is there every request it has counted has exactly one
\* reply, with one client, on the way to it or in the server's hands.
THEOREM CountedRequestsAlwaysHaveReplies == Spec => []CountedRequestsHaveReplies
<1>1. Inv => CountedRequestsHaveReplies
  <2> SUFFICES ASSUME Inv, spc # "gone", NEW n \in 1..MaxRequests
               PROVE  IF n <= requestCount
                      THEN \E h \in Clients \cup {Nobody} : Holders(n) = {h}
                      ELSE Holders(n) = {}
    BY DEF CountedRequestsHaveReplies
  <2> DEFINE HoldsIt(c) == \E r \in Held(c) : r[2] = n
  <2>1. requestCount \in Nat /\ n \in Nat /\ n >= 1
    BY DEF Inv, Shape, TypeOK
  <2>2. \A c \in Clients : HoldsIt(c) => n <= Handed
    BY DEF Inv, Numbering, UsedUpToHanded
  <2>3. \A c, d \in Clients : HoldsIt(c) /\ HoldsIt(d) => c = d
    BY DEF Inv, Numbering, UsedOnce
  <2>4. n <= Handed => \E c \in Clients : HoldsIt(c)
    BY <2>1 DEF Inv, NoneIsLost, Handed
  <2>5. spc = "reply" => response[2] = requestCount
    BY DEF Inv, Shape, ServerHolds
  <2>6. CASE n <= Handed
    <3>1. PICK c \in Clients : HoldsIt(c)
      BY <2>4, <2>6
    <3>2. ~(spc = "reply" /\ response[2] = n) /\ n <= requestCount
      BY <2>1, <2>5, <2>6 DEF Handed
    <3>3. Holders(n) = {c}
      BY <2>3, <3>1, <3>2 DEF Holders
    <3> QED
      BY <3>2, <3>3
  <2>7. CASE ~(n <= Handed)
    <3>1. {c \in Clients : HoldsIt(c)} = {}
      BY <2>2, <2>7
    <3>2. n <= requestCount <=> spc = "reply" /\ response[2] = n
      BY <2>1, <2>5, <2>7 DEF Handed
    <3> QED
      BY <3>1, <3>2 DEF Holders
  <2> QED
    BY <2>6, <2>7
<1> QED
  BY <1>1, InvariantHolds, PTL
================================================================================
