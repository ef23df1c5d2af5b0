------------------------------- MODULE TextProofs --------------------------------
(***************************************************************************)
(* Proofs about what a command line and an output are made of, for any     *)
(* texts; no state is involved.                                            *)
(*                                                                         *)
(* First induction, in the form these proofs use it: a set of numbers that *)
(* has 0, and with n the next number, has them all.  Then the shell: what  *)
(* BuildShellCommand makes of any arguments, a POSIX shell reads as these  *)
(* arguments.  Then the output: the object that is printed, as lexemes, is *)
(* the one that TryExtractFirstJsonObject cuts out.  Last the command:     *)
(* RenderToken puts each argument where its name was and leaves the text   *)
(* around it as it was; of its arguments only the name of a script may     *)
(* become its path.  And paths: from a path the names in it can be told.   *)
(*                                                                         *)
(* A text is a sequence of any symbols (IsText), texts are put one after   *)
(* the other with Then, an operator that is only opened where sequences    *)
(* are meant: an SMT solver gets lost in equations of many \o.             *)
(***************************************************************************)
EXTENDS CatalogAction, WellFoundedInduction, FiniteSetTheorems, SequenceTheorems, TLAPS

-------------------------------------------------------------------------------
(* Induction.                                                              *)

\* Induction, of a set: what holds of 0 and passes from n to n + 1 holds of
\* every number.
LEMMA Induction ==
    ASSUME NEW S, 0 \in S, \A n \in Nat : n \in S => n + 1 \in S
    PROVE  Nat \subseteq S
<1> DEFINE R == OpToRel(<, Nat)
           T == Nat \ S
<1>1. IsWellFoundedOn(R, Nat)
  BY NatLessThanWellFounded, Zenon
<1>2. SUFFICES ASSUME T # {} PROVE FALSE
  OBVIOUS
<1>3. \A m, n \in Nat : m < n => <<m, n>> \in R
  BY DEF OpToRel
<1> HIDE DEF R
<1>4. PICK n \in T : \A m \in T : <<m, n>> \notin R
  BY <1>1, <1>2, WFMin
<1>5. n \in Nat /\ n # 0
  BY <1>4
<1>6. n - 1 \in Nat /\ n - 1 \notin S
  BY <1>4, <1>5
<1>7. <<n - 1, n>> \in R
  BY <1>3, <1>5, <1>6
<1> QED BY <1>4, <1>6, <1>7

\* The same up to a number.
LEMMA InductionTo ==
    ASSUME NEW n \in Nat, NEW T, 0 \in T, \A i \in 1..n : i - 1 \in T => i \in T
    PROVE  n \in T
<1> DEFINE S == {i \in Nat : i <= n => i \in T}
<1>1. 0 \in S
  OBVIOUS
<1>2. ASSUME NEW i \in Nat, i \in S PROVE i + 1 \in S
  <2>1. i + 1 <= n => i + 1 \in 1..n /\ (i + 1) - 1 = i /\ i <= n
    OBVIOUS
  <2>2. i + 1 <= n => i + 1 \in T
    BY <1>2, <2>1
  <2> QED BY <2>2
<1> HIDE DEF S
<1>3. n \in S
  BY <1>1, <1>2, Induction
<1> QED BY <1>3 DEF S

\* Induction downwards.
LEMMA InductionFrom ==
    ASSUME NEW n \in Nat, NEW T, n + 1 \in T,
           \A i \in 1..n : (\A j \in (i + 1)..(n + 1) : j \in T) => i \in T
    PROVE  \A i \in 1..(n + 1) : i \in T
<1> DEFINE K == {k \in Nat : \A i \in 1..(n + 1) : i >= (n + 1) - k => i \in T}
<1>1. 0 \in K
  OBVIOUS
<1>2. ASSUME NEW k \in Nat, k \in K PROVE k + 1 \in K
  <2>1. ASSUME NEW i \in 1..(n + 1), i >= (n + 1) - (k + 1) PROVE i \in T
    <3>1. CASE i >= (n + 1) - k
      BY <1>2, <3>1
    <3>2. CASE i = (n + 1) - (k + 1)
      <4>1. i \in 1..n /\ \A j \in (i + 1)..(n + 1) : j \in 1..(n + 1) /\ j >= (n + 1) - k
        BY <3>2
      <4>2. \A j \in (i + 1)..(n + 1) : j \in T
        BY <1>2, <4>1
      <4> QED BY <4>1, <4>2
    <3> QED BY <2>1, <3>1, <3>2
  <2> QED BY <2>1
<1> HIDE DEF K
<1>3. n + 1 \in K
  BY <1>1, <1>2, Induction
<1> QED BY <1>3 DEF K

\* Induction over texts: what holds of a text if it holds of all shorter ones,
\* holds of all.
LEMMA TextInduction ==
    ASSUME NEW S, NEW Q,
           \A text \in Seq(S) : (\A other \in Seq(S) : Len(other) < Len(text) => other \in Q) => text \in Q
    PROVE  Seq(S) \subseteq Q
<1> DEFINE T == {n \in Nat : \A text \in Seq(S) : Len(text) < n => text \in Q}
<1>1. 0 \in T
  OBVIOUS
<1>2. ASSUME NEW n \in Nat, n \in T PROVE n + 1 \in T
  <2>1. ASSUME NEW text \in Seq(S), Len(text) < n + 1 PROVE text \in Q
    <3>1. \A other \in Seq(S) : Len(other) < Len(text) => Len(other) < n
      BY <2>1
    <3> QED BY <1>2, <3>1
  <2> QED BY <2>1
<1> HIDE DEF T
<1>3. Nat \subseteq T
  BY <1>1, <1>2, Induction
<1>4. \A text \in Seq(S) : Len(text) + 1 \in Nat /\ Len(text) < Len(text) + 1
  OBVIOUS
<1> QED BY <1>3, <1>4 DEF T

-------------------------------------------------------------------------------
(* The shell.                                                              *)

\* A state of the shell, and the one in which it begins.
State(words, word, open, mode) == [words |-> words, word |-> word, open |-> open, mode |-> mode]
ShellStart == State(<<>>, <<>>, FALSE, "plain")

\* The states of a shell that reads n symbols of a line.
ShellReadsSo(f, line, n) ==
    f = [i \in 0..n |-> IF i = 0 THEN ShellStart ELSE ShellStep(f[i - 1], line[i])]

\* There are such states, however long the line.
LEMMA ShellStatesExist == ASSUME NEW line, NEW n \in Nat PROVE \E f : ShellReadsSo(f, line, n)
<1> DEFINE S == {m \in Nat : \E f : ShellReadsSo(f, line, m)}
<1>1. 0 \in S
  <2> DEFINE f == [i \in 0..0 |-> ShellStart]
  <2>1. ShellReadsSo(f, line, 0)
    BY DEF ShellReadsSo
  <2> QED BY <2>1
<1>2. ASSUME NEW m \in Nat, m \in S PROVE m + 1 \in S
  <2>1. PICK f : ShellReadsSo(f, line, m)
    BY <1>2
  <2> DEFINE g == [i \in 0..(m + 1) |-> IF i <= m THEN f[i] ELSE ShellStep(f[m], line[m + 1])]
  <2>2. f[0] = ShellStart /\ \A i \in 1..m : f[i] = ShellStep(f[i - 1], line[i])
    BY <2>1 DEF ShellReadsSo
  <2>3. ASSUME NEW i \in 0..(m + 1)
        PROVE  g[i] = IF i = 0 THEN ShellStart ELSE ShellStep(g[i - 1], line[i])
    <3>1. CASE i = 0
      BY <2>2, <3>1
    <3>2. CASE i \in 1..m
      <4>1. g[i] = f[i] /\ g[i - 1] = f[i - 1]
        BY <3>2
      <4> QED BY <2>2, <3>2, <4>1
    <3>3. CASE i = m + 1
      <4>1. g[i] = ShellStep(f[m], line[m + 1]) /\ g[i - 1] = f[m]
        BY <3>3
      <4> QED BY <3>3, <4>1
    <3> QED BY <3>1, <3>2, <3>3
  <2>4. ShellReadsSo(g, line, m + 1)
    BY <2>3 DEF ShellReadsSo
  <2> QED BY <2>4
<1> HIDE DEF S
<1>3. n \in S
  BY <1>1, <1>2, Induction
<1> QED BY <1>3 DEF S

\* The state after the whole line is the last of them.
LEMMA ShellAfterIs ==
    ASSUME NEW line, Len(line) \in Nat
    PROVE  \E f : ShellReadsSo(f, line, Len(line)) /\ ShellAfter(line) = f[Len(line)]
<1> DEFINE f == CHOOSE f : ShellReadsSo(f, line, Len(line))
<1>1. ShellReadsSo(f, line, Len(line))
  BY ShellStatesExist
<1>2. ShellAfter(line) = f[Len(line)]
  BY DEF ShellAfter, ShellReadsSo, ShellStart, State
<1> QED BY <1>1, <1>2

\* It reads a line symbol by symbol.
LEMMA ShellReadsOn ==
    /\ ShellAfter(<<>>) = ShellStart
    /\ \A S : \A line \in Seq(S), c \in S :
          ShellAfter(Append(line, c)) = ShellStep(ShellAfter(line), c)
<1>1. ShellAfter(<<>>) = ShellStart
  <2>1. Len(<<>>) = 0
    OBVIOUS
  <2>2. PICK f : ShellReadsSo(f, <<>>, 0) /\ ShellAfter(<<>>) = f[0]
    BY <2>1, ShellAfterIs
  <2> QED BY <2>2 DEF ShellReadsSo
<1>2. ASSUME NEW S, NEW line \in Seq(S), NEW c \in S
      PROVE  ShellAfter(Append(line, c)) = ShellStep(ShellAfter(line), c)
  <2> DEFINE n == Len(line)
             longer == Append(line, c)
  <2>1. n \in Nat /\ Len(longer) = n + 1 /\ longer[n + 1] = c
        /\ \A i \in 1..n : longer[i] = line[i]
    OBVIOUS
  <2> HIDE DEF n, longer
  <2>2. PICK f : ShellReadsSo(f, line, n) /\ ShellAfter(line) = f[n]
    BY <2>1, ShellAfterIs DEF n
  <2>3. PICK g : ShellReadsSo(g, longer, n + 1) /\ ShellAfter(longer) = g[n + 1]
    BY <2>1, ShellAfterIs
  <2> DEFINE T == {i \in Nat : i <= n => f[i] = g[i]}
  <2>4. 0 \in T
    BY <2>1, <2>2, <2>3 DEF ShellReadsSo
  <2>5. ASSUME NEW i \in Nat, i \in T PROVE i + 1 \in T
    <3>1. CASE i + 1 <= n
      <4>1. f[i + 1] = ShellStep(f[i], line[i + 1])
        BY <2>1, <2>2, <3>1 DEF ShellReadsSo
      <4>2. g[i + 1] = ShellStep(g[i], longer[i + 1])
        BY <2>1, <2>3, <3>1 DEF ShellReadsSo
      <4> QED BY <2>1, <2>5, <3>1, <4>1, <4>2
    <3> QED BY <3>1, <2>1
  <2> HIDE DEF T
  <2>6. n \in T
    BY <2>1, <2>4, <2>5, Induction
  <2>7. f[n] = g[n]
    BY <2>1, <2>6 DEF T
  <2>8. g[n + 1] = ShellStep(g[n], longer[n + 1])
    BY <2>1, <2>3 DEF ShellReadsSo
  <2> QED BY <2>1, <2>2, <2>3, <2>7, <2>8 DEF longer
<1> QED BY <1>1, <1>2

-------------------------------------------------------------------------------

\* f holds what the first n parts are together, one after the other.
PutsTogether(f, parts, n) ==
    f[0] = <<>> /\ \A i \in 1..n : f[i] = f[i - 1] \o parts[i]

\* FlattenSeq does it the same way, but begins with the first part.
FlattensSo(f, parts, n) ==
    f = [i \in 1..n |-> IF i = 1 THEN parts[i] ELSE f[i - 1] \o parts[i]]

\* Any parts can be put together one by one.
LEMMA PartsPutTogether ==
    ASSUME NEW S, NEW parts \in Seq(Seq(S)), NEW n \in 0..Len(parts)
    PROVE  \E f \in [0..n -> Seq(S)] : PutsTogether(f, parts, n)
<1> DEFINE T == {m \in Nat : m <= Len(parts) => \E f \in [0..m -> Seq(S)] : PutsTogether(f, parts, m)}
<1>1. 0 \in T
  <2> DEFINE f == [i \in 0..0 |-> <<>>]
  <2>1. f \in [0..0 -> Seq(S)] /\ PutsTogether(f, parts, 0)
    BY DEF PutsTogether
  <2> QED BY <2>1
<1>2. ASSUME NEW m \in Nat, m \in T PROVE m + 1 \in T
  <2>1. SUFFICES ASSUME m + 1 <= Len(parts)
                 PROVE  \E f \in [0..(m + 1) -> Seq(S)] : PutsTogether(f, parts, m + 1)
    OBVIOUS
  <2>2. PICK f \in [0..m -> Seq(S)] : PutsTogether(f, parts, m)
    BY <1>2, <2>1
  <2> DEFINE last == f[m] \o parts[m + 1]
             g == [i \in 0..(m + 1) |-> IF i = m + 1 THEN last ELSE f[i]]
  <2>3. last \in Seq(S)
    <3>1. parts[m + 1] \in Seq(S)
      BY <2>1
    <3> QED BY <3>1
  <2>4. g \in [0..(m + 1) -> Seq(S)]
    <3> HIDE DEF last
    <3> QED BY <2>3
  <2>5. g[0] = <<>>
    BY <2>2 DEF PutsTogether
  <2>6. ASSUME NEW i \in 1..(m + 1) PROVE g[i] = g[i - 1] \o parts[i]
    <3>1. CASE i = m + 1
      <4>1. g[i] = last /\ g[i - 1] = f[m]
        BY <3>1
      <4> QED BY <3>1, <4>1
    <3>2. CASE i \in 1..m
      <4>1. g[i] = f[i] /\ g[i - 1] = f[i - 1]
        BY <3>2
      <4>2. f[i] = f[i - 1] \o parts[i]
        BY <2>2, <3>2 DEF PutsTogether
      <4> HIDE DEF g
      <4> QED BY <4>1, <4>2
    <3>3. i = m + 1 \/ i \in 1..m
      BY <1>2
    <3> HIDE DEF g, T
    <3> QED BY <3>1, <3>2, <3>3
  <2> HIDE DEF g
  <2>7. PutsTogether(g, parts, m + 1)
    BY <2>5, <2>6 DEF PutsTogether
  <2> QED BY <2>4, <2>7
<1> HIDE DEF T
<1>3. n \in Nat /\ n <= Len(parts)
  OBVIOUS
<1>4. n \in T
  BY <1>1, <1>2, <1>3, Induction
<1> QED BY <1>3, <1>4 DEF T

\* FlattenSeq puts its parts together one by one.
LEMMA Flattened ==
    ASSUME NEW S, NEW parts \in Seq(Seq(S))
    PROVE  \E f \in [0..Len(parts) -> Seq(S)] :
              PutsTogether(f, parts, Len(parts)) /\ FlattenSeq(parts) = f[Len(parts)]
<1> DEFINE len == Len(parts)
<1>1. len \in Nat
  OBVIOUS
<1>2. PICK f \in [0..len -> Seq(S)] : PutsTogether(f, parts, len)
  BY <1>1, PartsPutTogether
<1>3. FlattenSeq(parts) = f[len]
  <2>1. CASE len = 0
    <3>1. FlattenSeq(parts) = parts /\ parts = <<>>
      BY <2>1 DEF FlattenSeq
    <3> QED BY <1>2, <2>1, <3>1 DEF PutsTogether
  <2>2. CASE len # 0
    <3> DEFINE e == [i \in 1..len |-> f[i]]
    <3>1. ASSUME NEW i \in 1..len
          PROVE  f[i] = IF i = 1 THEN parts[i] ELSE f[i - 1] \o parts[i]
      <4>1. CASE i = 1
        <5>0. 1 \in 1..len /\ 1 - 1 = 0
          BY <4>1
        <5>1. f[1] = f[0] \o parts[1] /\ f[0] = <<>>
          BY <1>2, <5>0 DEF PutsTogether
        <5>2. parts[1] \in Seq(S)
          BY <4>1
        <5>3. <<>> \o parts[1] = parts[1]
          BY <5>2
        <5> QED BY <4>1, <5>1, <5>3
      <4>2. CASE i # 1
        BY <1>2, <4>2 DEF PutsTogether
      <4> QED BY <4>1, <4>2
    <3>2. FlattensSo(e, parts, len)
      <4>1. \A i \in 1..len : e[i] = IF i = 1 THEN parts[i] ELSE e[i - 1] \o parts[i]
        <5>1. \A i \in 1..len : i # 1 => e[i - 1] = f[i - 1]
          BY <1>1
        <5>2. \A i \in 1..len : e[i] = f[i]
          OBVIOUS
        <5> HIDE DEF e
        <5> QED BY <3>1, <5>1, <5>2
      <4> QED BY <4>1 DEF FlattensSo
    <3> DEFINE h == CHOOSE g : FlattensSo(g, parts, len)
    <3>3. FlattensSo(h, parts, len)
      BY <3>2
    <3>4. FlattenSeq(parts) = h[len]
      BY <2>2 DEF FlattenSeq, FlattensSo
    <3> HIDE DEF h, len, e
    <3> DEFINE U == {i \in Nat : i \in 1..len => h[i] = f[i]}
    <3>5. 0 \in U
      OBVIOUS
    <3>6. ASSUME NEW i \in Nat, i \in U PROVE i + 1 \in U
      <4> SUFFICES ASSUME i + 1 \in 1..len PROVE h[i + 1] = f[i + 1]
        OBVIOUS
      <4>0. (i + 1) - 1 = i /\ (i + 1 = 1 <=> i = 0)
        BY <3>6
      <4>a. \A j \in 1..len : h[j] = IF j = 1 THEN parts[j] ELSE h[j - 1] \o parts[j]
        BY <3>3 DEF FlattensSo
      <4>1. h[i + 1] = IF i = 0 THEN parts[i + 1] ELSE h[i] \o parts[i + 1]
        BY <4>0, <4>a
      <4>2. f[i + 1] = IF i = 0 THEN parts[i + 1] ELSE f[i] \o parts[i + 1]
        BY <3>1, <4>0
      <4>3. i # 0 => h[i] = f[i]
        BY <1>1, <3>6
      <4> QED BY <4>1, <4>2, <4>3
    <3>7. len \in U
      <4> HIDE DEF U
      <4> QED BY <1>1, <3>5, <3>6, Induction
    <3> QED BY <1>1, <2>2, <3>4, <3>7
  <2> QED BY <2>1, <2>2
<1> QED BY <1>2, <1>3

\* A text is a sequence of symbols, whatever they are.
IsText(text) == \E S : text \in Seq(S)
AreTexts(parts) == \E S : parts \in Seq(Seq(S))

\* One text after the other, as an operator that the provers leave alone.
Then(text, other) == text \o other

\* A text of some symbols is a text of more.
LEMMA TextsOfMore ==
    ASSUME NEW S, NEW U
    PROVE  /\ \A text \in Seq(S) : text \in Seq(S \cup U) /\ text \in Seq(U \cup S)
           /\ \A parts \in Seq(Seq(S)) : parts \in Seq(Seq(S \cup U)) /\ parts \in Seq(Seq(U \cup S))
<1>1. \A text \in Seq(S) : text \in Seq(S \cup U) /\ text \in Seq(U \cup S)
  OBVIOUS
<1>2. \A P, Q : (\A p \in P : p \in Q) => \A parts \in Seq(P) : parts \in Seq(Q)
  OBVIOUS
<1> QED BY <1>1, <1>2, Zenon

\* Putting together does not depend on the order in which it is done.
LEMMA TypedThenIs ==
    ASSUME NEW S, NEW a \in Seq(S), NEW b \in Seq(S), NEW c \in Seq(S)
    PROVE  /\ Then(a, b) \in Seq(S)
           /\ Then(a, Then(b, c)) = Then(Then(a, b), c)
           /\ Then(a, <<>>) = a /\ Then(<<>>, a) = a
  BY DEF Then

\* Any three texts are made of one set of symbols.
LEMMA CommonSymbols ==
    ASSUME NEW a, IsText(a), NEW b, IsText(b), NEW c, IsText(c)
    PROVE  \E S : a \in Seq(S) /\ b \in Seq(S) /\ c \in Seq(S)
<1>1. PICK A : a \in Seq(A)
  BY DEF IsText
<1>2. PICK B : b \in Seq(B)
  BY DEF IsText
<1>3. PICK C : c \in Seq(C)
  BY DEF IsText
<1>4. a \in Seq(A \cup B) /\ b \in Seq(A \cup B)
  BY <1>1, <1>2, TextsOfMore, Zenon
<1>5. a \in Seq((A \cup B) \cup C) /\ b \in Seq((A \cup B) \cup C) /\ c \in Seq((A \cup B) \cup C)
  BY <1>3, <1>4, TextsOfMore, Zenon
<1> QED BY <1>5, Zenon

\* The same of texts of any symbols.
LEMMA ThenIs ==
    ASSUME NEW a, IsText(a), NEW b, IsText(b)
    PROVE  /\ IsText(Then(a, b))
           /\ Then(a, <<>>) = a /\ Then(<<>>, a) = a
           /\ \A c : IsText(c) => Then(a, Then(b, c)) = Then(Then(a, b), c)
<1>1. ASSUME NEW c, IsText(c) PROVE Then(a, Then(b, c)) = Then(Then(a, b), c)
  <2>1. PICK S : a \in Seq(S) /\ b \in Seq(S) /\ c \in Seq(S)
    BY <1>1, CommonSymbols, Zenon
  <2> QED BY <2>1, TypedThenIs
<1>2. IsText(Then(a, b)) /\ Then(a, <<>>) = a /\ Then(<<>>, a) = a
  <2>1. PICK S : a \in Seq(S) /\ b \in Seq(S)
    BY CommonSymbols, Zenon
  <2> QED BY <2>1, TypedThenIs DEF IsText
<1> QED BY <1>1, <1>2, Zenon

\* The third fact of ThenIs, in a form that is easy to use.
LEMMA ThenAgain ==
    ASSUME NEW a, IsText(a), NEW b, IsText(b), NEW c, IsText(c)
    PROVE  Then(a, Then(b, c)) = Then(Then(a, b), c)
  BY ThenIs

\* What is a text.
LEMMA TextFacts ==
    /\ IsText(<<>>)
    /\ \A c : IsText(<<c>>)
    /\ \A text, c : IsText(text) => IsText(Append(text, c)) /\ Append(text, c) = Then(text, <<c>>)
    /\ \A parts : AreTexts(parts) => Len(parts) \in Nat /\ \A i \in 1..Len(parts) : IsText(parts[i])
<1>1. IsText(<<>>)
  <2>1. <<>> \in Seq({})
    OBVIOUS
  <2> QED BY <2>1 DEF IsText
<1>2. ASSUME NEW c PROVE IsText(<<c>>)
  <2>1. <<c>> \in Seq({c})
    OBVIOUS
  <2> QED BY <2>1 DEF IsText
<1>3. ASSUME NEW text, NEW c, IsText(text)
      PROVE  IsText(Append(text, c)) /\ Append(text, c) = Then(text, <<c>>)
  <2>1. PICK S : text \in Seq(S)
    BY <1>3 DEF IsText
  <2>2. text \in Seq(S \cup {c}) /\ c \in S \cup {c}
    BY <2>1, TextsOfMore
  <2>3. Append(text, c) \in Seq(S \cup {c}) /\ Append(text, c) = Then(text, <<c>>)
    BY <2>2, AppendIsConcat DEF Then
  <2> QED BY <2>3, Zenon DEF IsText
<1>4. ASSUME NEW parts, AreTexts(parts)
      PROVE  Len(parts) \in Nat /\ \A i \in 1..Len(parts) : IsText(parts[i])
  <2>1. PICK S : parts \in Seq(Seq(S))
    BY <1>4 DEF AreTexts
  <2>2. Len(parts) \in Nat /\ \A i \in 1..Len(parts) : parts[i] \in Seq(S)
    BY <2>1
  <2> QED BY <2>2, Zenon DEF IsText
<1> QED BY <1>1, <1>2, <1>3, <1>4, Zenon

\* Put after a text, the parts come one after the other.
LEMMA FlattenedAfter ==
    ASSUME NEW parts, AreTexts(parts), NEW text, IsText(text)
    PROVE  /\ IsText(FlattenSeq(parts))
           /\ \E h : /\ h[0] = text
                     /\ \A i \in 1..Len(parts) : IsText(h[i - 1]) /\ h[i] = Then(h[i - 1], parts[i])
                     /\ h[Len(parts)] = Then(text, FlattenSeq(parts))
<1> DEFINE n == Len(parts)
<1>1. n \in Nat /\ 0 \in 0..n /\ n \in 0..n /\ \A i \in 1..n : IsText(parts[i])
  BY TextFacts
<1>2. PICK f : /\ PutsTogether(f, parts, n) /\ FlattenSeq(parts) = f[n]
               /\ \A i \in 0..n : IsText(f[i])
  <2>1. PICK S : parts \in Seq(Seq(S))
    BY DEF AreTexts
  <2>2. PICK f \in [0..n -> Seq(S)] : PutsTogether(f, parts, n) /\ FlattenSeq(parts) = f[n]
    BY <2>1, Flattened
  <2>3. \A i \in 0..n : f[i] \in Seq(S)
    BY <2>2
  <2> QED BY <2>2, <2>3, Zenon DEF IsText
<1>4. f[0] = <<>> /\ \A i \in 1..n : f[i] = Then(f[i - 1], parts[i])
  BY <1>2 DEF PutsTogether, Then
<1> HIDE DEF n
<1> DEFINE h == [i \in 0..n |-> Then(text, f[i])]
<1>6. \A i \in 0..n : h[i] = Then(text, f[i]) /\ IsText(h[i])
  BY <1>2, ThenIs, Zenon
<1> HIDE DEF h
<1>7. h[0] = text
  BY <1>1, <1>4, <1>6, ThenIs, Zenon
<1>8. ASSUME NEW i \in 1..n PROVE IsText(h[i - 1]) /\ h[i] = Then(h[i - 1], parts[i])
  <2>1. i - 1 \in 0..n /\ i \in 0..n
    BY <1>1
  <2>2. h[i] = Then(text, Then(f[i - 1], parts[i])) /\ h[i - 1] = Then(text, f[i - 1])
    BY <1>4, <1>6, <2>1, Zenon
  <2>3. IsText(f[i - 1]) /\ IsText(parts[i])
    BY <1>1, <1>2, <2>1, Zenon
  <2>4. Then(text, Then(f[i - 1], parts[i])) = Then(Then(text, f[i - 1]), parts[i])
    BY <2>3, ThenAgain
  <2>5. h[i] = Then(h[i - 1], parts[i])
    BY <2>2, <2>4, Zenon
  <2> QED BY <1>6, <2>1, <2>5, Zenon
<1>9. h[n] = Then(text, FlattenSeq(parts)) /\ IsText(FlattenSeq(parts))
  BY <1>1, <1>2, <1>6, Zenon
<1> QED BY <1>7, <1>8, <1>9, Zenon DEF n

\* What a shell makes of a symbol.
LEMMA UnsafeSymbols ==
    ~IsSafePosixShellChar("'") /\ ~IsSafePosixShellChar("\\") /\ ~IsSafePosixShellChar(" ")
    /\ ~IsSafePosixShellChar("2>&1")
  BY ShellAssumption DEF IsSafePosixShellChar

\* What the shell does with one symbol.
LEMMA ShellSteps ==
    ASSUME NEW w, NEW x, NEW o \in BOOLEAN
    PROVE  /\ ShellStep(State(w, x, o, "quoted"), "'") = State(w, x, o, "plain")
           /\ ShellStep(State(w, x, o, "plain"), "'") = State(w, x, TRUE, "quoted")
           /\ ShellStep(State(w, x, o, "plain"), "\\") = State(w, x, TRUE, "escaped")
           /\ ShellStep(State(w, x, TRUE, "plain"), " ") = State(Append(w, x), <<>>, FALSE, "plain")
           /\ ShellStep(State(w, x, FALSE, "plain"), " ") = State(w, x, FALSE, "plain")
           /\ ShellStep(State(w, x, FALSE, "plain"), "2>&1") = State(w, x, FALSE, "plain")
<1>1. ShellStep(State(w, x, o, "quoted"), "'") = State(w, x, o, "plain")
  BY DEF ShellStep, State
<1>5. ShellStep(State(w, x, o, "plain"), "'") = State(w, x, TRUE, "quoted")
  BY UnsafeSymbols DEF ShellStep, State
<1>6. ShellStep(State(w, x, o, "plain"), "\\") = State(w, x, TRUE, "escaped")
  BY UnsafeSymbols DEF ShellStep, State
<1>7. ShellStep(State(w, x, TRUE, "plain"), " ") = State(Append(w, x), <<>>, FALSE, "plain")
  BY UnsafeSymbols DEF ShellStep, State
<1>8. \A c \in {" ", "2>&1"} : ShellStep(State(w, x, FALSE, "plain"), c) = State(w, x, FALSE, "plain")
  BY UnsafeSymbols DEF ShellStep, State
<1> QED BY <1>1, <1>5, <1>6, <1>7, <1>8

\* A shell that has read line is in the state given.
HasRead(line, state) == IsText(line) /\ ShellAfter(line) = state

\* The shell reads one symbol more.
LEMMA ReadsOn ==
    ASSUME NEW line, NEW state, NEW c, HasRead(line, state)
    PROVE  HasRead(Append(line, c), ShellStep(state, c))
<1>1. PICK S : line \in Seq(S) /\ ShellAfter(line) = state
  BY DEF HasRead, IsText
<1>2. line \in Seq(S \cup {c}) /\ c \in S \cup {c}
  BY <1>1, TextsOfMore
<1>3. ShellAfter(Append(line, c)) = ShellStep(ShellAfter(line), c)
  BY <1>2, ShellReadsOn
<1>4. Append(line, c) \in Seq(S \cup {c})
  BY <1>2
<1> QED BY <1>1, <1>3, <1>4, Zenon DEF HasRead, IsText

\* A quote opens and closes a quoted part.
LEMMA ReadsQuote ==
    ASSUME NEW line, NEW w, NEW x, NEW o \in BOOLEAN
    PROVE  /\ HasRead(line, State(w, x, o, "plain")) => HasRead(Append(line, "'"), State(w, x, TRUE, "quoted"))
           /\ HasRead(line, State(w, x, o, "quoted")) => HasRead(Append(line, "'"), State(w, x, o, "plain"))
<1>1. ShellStep(State(w, x, o, "plain"), "'") = State(w, x, TRUE, "quoted")
      /\ ShellStep(State(w, x, o, "quoted"), "'") = State(w, x, o, "plain")
  BY ShellSteps
<1> QED BY <1>1, ReadsOn

\* A backslash hides the next symbol.
LEMMA ReadsEscape ==
    ASSUME NEW line, NEW w, NEW x, NEW o \in BOOLEAN, HasRead(line, State(w, x, o, "plain"))
    PROVE  HasRead(Append(line, "\\"), State(w, x, TRUE, "escaped"))
<1>1. ShellStep(State(w, x, o, "plain"), "\\") = State(w, x, TRUE, "escaped")
  BY ShellSteps
<1> QED BY <1>1, ReadsOn

\* What is quoted or escaped is part of the word, whatever it is.
LEMMA ReadsHidden ==
    ASSUME NEW c, NEW line, NEW w, NEW x, NEW o \in BOOLEAN
    PROVE  /\ HasRead(line, State(w, x, o, "escaped")) => HasRead(Append(line, c), State(w, Append(x, c), o, "plain"))
           /\ HasRead(line, State(w, x, o, "quoted")) /\ c # "'" =>
                 HasRead(Append(line, c), State(w, Append(x, c), o, "quoted"))
<1>1. ShellStep(State(w, x, o, "escaped"), c) = State(w, Append(x, c), o, "plain")
  BY DEF ShellStep, State
<1>2. c # "'" => ShellStep(State(w, x, o, "quoted"), c) = State(w, Append(x, c), o, "quoted")
  BY DEF ShellStep, State
<1> QED BY <1>1, <1>2, ReadsOn

\* What needs no quotes is part of the word as it is.
LEMMA ReadsPlain ==
    ASSUME NEW c, NEW line, NEW w, NEW x, NEW o \in BOOLEAN, HasRead(line, State(w, x, o, "plain")),
           IsSafePosixShellChar(c), c = "=" => w # <<>>
    PROVE  HasRead(Append(line, c), State(w, Append(x, c), TRUE, "plain"))
<1>1. ShellStep(State(w, x, o, "plain"), c) = State(w, Append(x, c), TRUE, "plain")
  <2>1. c \notin {"'", "\\", " ", "2>&1"}
    BY UnsafeSymbols
  <2> QED BY <2>1 DEF ShellStep, State
<1> QED BY <1>1, ReadsOn

\* A blank ends a word.
LEMMA ReadsBlank ==
    ASSUME NEW line, NEW w, NEW x
    PROVE  /\ HasRead(line, State(w, x, TRUE, "plain")) => HasRead(Append(line, " "), State(Append(w, x), <<>>, FALSE, "plain"))
           /\ HasRead(line, State(w, x, FALSE, "plain")) =>
                 /\ HasRead(Append(line, " "), State(w, x, FALSE, "plain"))
                 /\ HasRead(Append(line, "2>&1"), State(w, x, FALSE, "plain"))
<1>1. ShellStep(State(w, x, TRUE, "plain"), " ") = State(Append(w, x), <<>>, FALSE, "plain")
      /\ ShellStep(State(w, x, FALSE, "plain"), "2>&1") = State(w, x, FALSE, "plain")
      /\ ShellStep(State(w, x, FALSE, "plain"), " ") = State(w, x, FALSE, "plain")
  BY ShellSteps
<1> QED BY <1>1, ReadsOn

QuotedSymbol(c) == IF c = "'" THEN <<"'", "\\", "'", "'">> ELSE <<c>>

\* A quoted symbol is a text.
LEMMA QuotedSymbolIn ==
    ASSUME NEW S, "'" \in S, "\\" \in S
    PROVE  QuotedSymbol("'") \in Seq(S) /\ \A c \in S : QuotedSymbol(c) \in Seq(S)
<1>1. <<"'", "\\", "'", "'">> \in Seq(S) /\ \A c \in S : <<c>> \in Seq(S)
  OBVIOUS
<1> QED BY <1>1 DEF QuotedSymbol

\* Quoting a value is quoting its symbols one by one.
LEMMA QuotedSymbolAdds ==
    ASSUME NEW line, IsText(line)
    PROVE  /\ Then(line, QuotedSymbol("'")) = Append(Append(Append(Append(line, "'"), "\\"), "'"), "'")
           /\ \A c : c # "'" => Then(line, QuotedSymbol(c)) = Append(line, c)
<1>1. PICK S : line \in Seq(S)
  BY DEF IsText
<1>2. line \o <<"'", "\\", "'", "'">> = Append(Append(Append(Append(line, "'"), "\\"), "'"), "'")
  BY <1>1
<1>3. \A c : c # "'" => Then(line, QuotedSymbol(c)) = Append(line, c)
  BY TextFacts DEF QuotedSymbol
<1>4. QuotedSymbol("'") = <<"'", "\\", "'", "'">>
  BY DEF QuotedSymbol
<1>5. Then(line, QuotedSymbol("'")) = Append(Append(Append(Append(line, "'"), "\\"), "'"), "'")
  BY <1>2, <1>4 DEF Then
<1> QED BY <1>3, <1>5, Zenon

\* A symbol of the caller's between the quotes.
LEMMA QuotedSymbolIsRead ==
    ASSUME NEW c, NEW line, NEW w, NEW x, HasRead(line, State(w, x, TRUE, "quoted"))
    PROVE  HasRead(Then(line, QuotedSymbol(c)), State(w, Append(x, c), TRUE, "quoted"))
<1>1. IsText(line) /\ TRUE \in BOOLEAN
  BY DEF HasRead
<1>2. CASE c # "'"
  <2>1. HasRead(Append(line, c), State(w, Append(x, c), TRUE, "quoted"))
    BY <1>1, <1>2, ReadsHidden, Zenon
  <2> QED BY <1>1, <1>2, <2>1, QuotedSymbolAdds, Zenon
<1>3. CASE c = "'"
  <2> DEFINE a == Append(line, "'")
             b == Append(a, "\\")
             d == Append(b, "'")
             e == Append(d, "'")
  <2>1. Then(line, QuotedSymbol("'")) = e
    BY <1>1, QuotedSymbolAdds
  <2>2. HasRead(a, State(w, x, TRUE, "plain"))
    BY <1>1, ReadsQuote, Zenon
  <2> HIDE DEF a
  <2>3. HasRead(b, State(w, x, TRUE, "escaped"))
    BY <1>1, <2>2, ReadsEscape, Zenon
  <2> HIDE DEF b
  <2>4. HasRead(d, State(w, Append(x, "'"), TRUE, "plain"))
    BY <1>1, <2>3, ReadsHidden, Zenon
  <2> HIDE DEF d
  <2>5. HasRead(e, State(w, Append(x, "'"), TRUE, "quoted"))
    BY <1>1, <2>4, ReadsQuote, Zenon
  <2> HIDE DEF e
  <2> QED BY <1>3, <2>1, <2>5, Zenon
<1> QED BY <1>2, <1>3, Zenon

\* The first i symbols of a text.
LEMMA FirstSymbols ==
    ASSUME NEW text, IsText(text)
    PROVE  /\ Len(text) \in Nat /\ DOMAIN text = 1..Len(text)
           /\ SubSeq(text, 1, 0) = <<>> /\ SubSeq(text, 1, Len(text)) = text
           /\ \A i \in 1..Len(text) : SubSeq(text, 1, i) = Append(SubSeq(text, 1, i - 1), text[i])
<1>0. PICK S : text \in Seq(S)
  BY DEF IsText
<1>1. SubSeq(text, 1, 0) = <<>> /\ SubSeq(text, 1, Len(text)) = text
  BY <1>0, SubSeqFull
<1>2. \A i \in 1..Len(text) : SubSeq(text, 1, i) = Append(SubSeq(text, 1, i - 1), text[i])
  BY <1>0
<1> QED BY <1>0, <1>1, <1>2

\* The texts between and around which symbols are put.
LEMMA QuotesAround ==
    ASSUME NEW line, IsText(line), NEW inside, IsText(inside)
    PROVE  /\ IsText(<<"'">> \o inside \o <<"'">>)
           /\ Then(line, <<"'">> \o inside \o <<"'">>) = Append(Then(Append(line, "'"), inside), "'")
<1> DEFINE q == <<"'">>
<1>1. IsText(q)
  BY TextFacts
<1>2. Append(line, "'") = Then(line, q)
  BY TextFacts, Zenon
<1>3. <<"'">> \o inside \o <<"'">> = Then(Then(q, inside), q)
  BY DEF Then
<1>4. ASSUME NEW t, IsText(t) PROVE Append(t, "'") = Then(t, q)
  BY <1>4, TextFacts, Zenon
<1> HIDE DEF q
<1>5. IsText(Then(q, inside)) /\ IsText(Then(line, q)) /\ IsText(Then(Then(q, inside), q))
      /\ IsText(Then(Then(line, q), inside))
  BY <1>1, ThenIs, Zenon
<1>6. Then(line, Then(Then(q, inside), q)) = Then(Then(line, Then(q, inside)), q)
  BY <1>1, <1>5, ThenAgain, SMT
<1>7. Then(line, Then(q, inside)) = Then(Then(line, q), inside)
  BY <1>1, ThenAgain, SMT
<1> QED BY <1>2, <1>3, <1>4, <1>5, <1>6, <1>7, Zenon

\* What stands between the quotes is read as it was.
LEMMA QuotedIsRead ==
    ASSUME NEW value, IsText(value), NEW line, NEW w, HasRead(line, State(w, <<>>, FALSE, "plain"))
    PROVE  /\ IsText(QuoteForShellPosix(value))
           /\ HasRead(Then(line, QuoteForShellPosix(value)), State(w, value, TRUE, "plain"))
<1> DEFINE parts == [i \in DOMAIN value |->
                       IF value[i] = "'" THEN <<"'", "\\", "'", "'">> ELSE <<value[i]>>]
           open == Append(line, "'")
           inside == FlattenSeq(parts)
           n == Len(value)
           last == Then(open, inside)
<1>1. IsText(line) /\ FALSE \in BOOLEAN /\ TRUE \in BOOLEAN
  BY DEF HasRead
<1>2. \A i \in DOMAIN value : parts[i] = QuotedSymbol(value[i])
  BY DEF QuotedSymbol
<1>3. QuoteForShellPosix(value) = <<"'">> \o inside \o <<"'">>
  BY DEF QuoteForShellPosix
<1>4. n \in Nat /\ DOMAIN value = 1..n /\ Len(parts) = n
  BY FirstSymbols
<1>5. AreTexts(parts)
  <2>1. PICK S : value \in Seq(S)
    BY DEF IsText
  <2>2. parts \in Seq(Seq(S \cup {"'", "\\"}))
    <3>1. \A i \in DOMAIN value : value[i] \in S
      BY <2>1
    <3>2. \A c \in S \cup {"'", "\\"} : QuotedSymbol(c) \in Seq(S \cup {"'", "\\"})
      BY QuotedSymbolIn
    <3>3. \A i \in 1..n : parts[i] \in Seq(S \cup {"'", "\\"})
      BY <1>2, <1>4, <3>1, <3>2
    <3>4. parts = [i \in 1..n |-> parts[i]]
      BY <1>4
    <3> HIDE DEF parts, n
    <3> QED BY <1>4, <3>3, <3>4
  <2> QED BY <2>2 DEF AreTexts
<1> HIDE DEF parts, inside, n
<1>6. HasRead(open, State(w, <<>>, TRUE, "quoted"))
  BY <1>1, ReadsQuote, Zenon
<1>7. IsText(open)
  BY <1>6 DEF HasRead
<1>8. IsText(inside)
      /\ \E h : /\ h[0] = open
                /\ \A i \in 1..n : IsText(h[i - 1]) /\ h[i] = Then(h[i - 1], parts[i])
                /\ h[n] = last
  BY <1>4, <1>5, <1>7, FlattenedAfter, Zenon DEF inside
<1>9. PICK h : /\ h[0] = open
               /\ \A i \in 1..n : h[i] = Then(h[i - 1], parts[i])
               /\ h[n] = last
  BY <1>8, Zenon
<1> DEFINE T == {i \in 0..n : HasRead(h[i], State(w, SubSeq(value, 1, i), TRUE, "quoted"))}
<1>10. 0 \in T
  <2>1. 0 \in 0..n /\ SubSeq(value, 1, 0) = <<>>
    BY <1>4, FirstSymbols
  <2> QED BY <1>6, <1>9, <2>1, Zenon
<1>11. ASSUME NEW i \in 1..n, i - 1 \in T PROVE i \in T
  <2>1. HasRead(h[i - 1], State(w, SubSeq(value, 1, i - 1), TRUE, "quoted"))
    BY <1>11
  <2>2. i \in 0..n
    BY <1>4
  <2>3. SubSeq(value, 1, i) = Append(SubSeq(value, 1, i - 1), value[i])
    BY FirstSymbols DEF n
  <2>4. h[i] = Then(h[i - 1], QuotedSymbol(value[i]))
    BY <1>2, <1>4, <1>9, Zenon
  <2>5. HasRead(h[i], State(w, SubSeq(value, 1, i), TRUE, "quoted"))
    BY <2>1, <2>3, <2>4, QuotedSymbolIsRead, Zenon
  <2> QED BY <2>2, <2>5, Zenon
<1> HIDE DEF T
<1>12. n \in T
  BY <1>4, <1>10, <1>11, InductionTo, Zenon
<1>13. HasRead(last, State(w, value, TRUE, "quoted"))
  <2>1. HasRead(h[n], State(w, SubSeq(value, 1, n), TRUE, "quoted"))
    BY <1>12 DEF T
  <2>2. SubSeq(value, 1, n) = value
    BY FirstSymbols DEF n
  <2> QED BY <1>9, <2>1, <2>2, Zenon
<1>14. HasRead(Append(last, "'"), State(w, value, TRUE, "plain"))
  <2> HIDE DEF last
  <2> QED BY <1>1, <1>13, ReadsQuote, Zenon
<1> QED BY <1>1, <1>3, <1>8, <1>14, QuotesAround, Zenon

\* Putting together and then a symbol more.
LEMMA ThenAppend ==
    ASSUME NEW text, IsText(text), NEW other, IsText(other), NEW c
    PROVE  Then(text, Append(other, c)) = Append(Then(text, other), c)
<1>1. IsText(<<c>>) /\ Append(other, c) = Then(other, <<c>>)
  BY TextFacts
<1>2. IsText(Then(text, other))
  BY ThenIs, Zenon
<1>3. Append(Then(text, other), c) = Then(Then(text, other), <<c>>)
  BY <1>2, TextFacts, Zenon
<1>4. Then(text, Then(other, <<c>>)) = Then(Then(text, other), <<c>>)
  <2> DEFINE last == <<c>>
  <2> HIDE DEF last
  <2> SUFFICES Then(text, Then(other, last)) = Then(Then(text, other), last)
    BY DEF last
  <2>1. IsText(last)
    BY <1>1 DEF last
  <2> QED BY <2>1, ThenAgain, SMT
<1> QED BY <1>1, <1>3, <1>4, Zenon

\* A text is its symbols, one after the other.
LEMMA SymbolsOfText ==
    ASSUME NEW text, IsText(text)
    PROVE  text \in Seq({text[j] : j \in DOMAIN text})
<1>1. PICK S : text \in Seq(S)
  BY DEF IsText
<1> QED BY <1>1

\* Texts in a row.
LEMMA AreTextsIf ==
    ASSUME NEW n \in Nat, NEW parts, parts = [i \in 1..n |-> parts[i]], \A i \in 1..n : IsText(parts[i])
    PROVE  AreTexts(parts) /\ Len(parts) = n
<1> DEFINE Symbols(i) == {parts[i][j] : j \in DOMAIN parts[i]}
           S == UNION {Symbols(i) : i \in 1..n}
<1>1. ASSUME NEW i \in 1..n PROVE parts[i] \in Seq(S)
  <2>1. parts[i] \in Seq(Symbols(i))
    BY SymbolsOfText, Zenon
  <2>2. Symbols(i) \subseteq S
    OBVIOUS
  <2>3. S = Symbols(i) \cup S
    BY <2>2, Zenon
  <2> HIDE DEF S, Symbols
  <2>4. parts[i] \in Seq(Symbols(i) \cup S)
    BY <2>1, TextsOfMore, Zenon
  <2> QED BY <2>3, <2>4
<1> HIDE DEF S
<1>2. parts \in Seq(Seq(S)) /\ Len(parts) = n
  BY <1>1
<1> QED BY <1>2, Zenon DEF AreTexts

\* A word of safe symbols is read as it stands, but for = in the first one.
LEMMA PlainIsRead ==
    ASSUME NEW value, IsText(value), ~NeedsQuotingPosix(value), NEW line, NEW w,
           HasRead(line, State(w, <<>>, FALSE, "plain")),
           (\E i \in DOMAIN value : value[i] = "=") => w # <<>>
    PROVE  HasRead(Then(line, value), State(w, value, TRUE, "plain"))
<1> DEFINE n == Len(value)
           Word(i) == SubSeq(value, 1, i)
           Open(i) == IF i = 0 THEN FALSE ELSE TRUE
           T == {i \in 0..n : IsText(Word(i)) /\ HasRead(Then(line, Word(i)), State(w, Word(i), Open(i), "plain"))}
<1>1. n \in Nat /\ DOMAIN value = 1..n /\ Word(0) = <<>> /\ Word(n) = value
      /\ \A i \in 1..n : Word(i) = Append(Word(i - 1), value[i])
  BY FirstSymbols
<1>2. n # 0
  <2>1. value # <<>> /\ Word(n) = value
    BY <1>1 DEF NeedsQuotingPosix
  <2> HIDE DEF n, Word
  <2> QED BY <1>1, <2>1
<1>3. Open(0) = FALSE /\ Open(n) = TRUE /\ \A i \in 1..n : Open(i) = TRUE /\ Open(i - 1) \in BOOLEAN
  BY <1>1, <1>2
<1>4. IsText(line)
  BY DEF HasRead
<1> HIDE DEF n, Word, Open
<1>5. 0 \in T
  <2>1. Then(line, <<>>) = line /\ IsText(<<>>)
    BY <1>4, ThenIs, TextFacts, Zenon
  <2>2. 0 \in 0..n
    BY <1>1
  <2> QED BY <1>1, <1>3, <2>1, <2>2, Zenon
<1>6. ASSUME NEW i \in 1..n, i - 1 \in T PROVE i \in T
  <2>1. IsText(Word(i - 1)) /\ HasRead(Then(line, Word(i - 1)), State(w, Word(i - 1), Open(i - 1), "plain"))
    BY <1>6
  <2>2. i \in 0..n /\ i \in DOMAIN value
    BY <1>1
  <2>3. IsSafePosixShellChar(value[i]) /\ (value[i] = "=" => w # <<>>)
    BY <2>2 DEF NeedsQuotingPosix
  <2> DEFINE c == value[i]
             before == Then(line, Word(i - 1))
  <2>4. Word(i) = Append(Word(i - 1), c) /\ IsText(Word(i))
    BY <1>1, <2>1, TextFacts, Zenon
  <2>5. Then(line, Word(i)) = Append(before, c)
    <3> DEFINE word == Word(i - 1)
    <3>1. IsText(word)
      BY <2>1
    <3> HIDE DEF word, c
    <3>2. Then(line, Append(word, c)) = Append(Then(line, word), c)
      BY <1>4, <3>1, ThenAppend
    <3> QED BY <2>4, <3>2 DEF word
  <2> HIDE DEF c, before
  <2>6. HasRead(Append(before, c), State(w, Append(Word(i - 1), c), TRUE, "plain"))
    <3> DEFINE word == Word(i - 1)
               o == Open(i - 1)
    <3>1. HasRead(before, State(w, word, o, "plain")) /\ o \in BOOLEAN
      BY <1>3, <2>1 DEF before
    <3>2. IsSafePosixShellChar(c) /\ (c = "=" => w # <<>>)
      BY <2>3 DEF c
    <3> HIDE DEF word, o
    <3>3. HasRead(Append(before, c), State(w, Append(word, c), TRUE, "plain"))
      BY <3>1, <3>2, ReadsPlain
    <3> QED BY <3>3 DEF word
  <2> QED BY <1>3, <2>2, <2>4, <2>5, <2>6
<1> HIDE DEF T
<1>7. n \in T
  BY <1>1, <1>5, <1>6, InductionTo, Zenon
<1> QED BY <1>1, <1>3, <1>7 DEF T

\* How BuildShellCommand writes an argument.
Written(value) == IF NeedsQuotingPosix(value) THEN QuoteForShellPosix(value) ELSE value

\* A value as it is written is read as one word.
LEMMA WrittenIsRead ==
    ASSUME NEW value, IsText(value), NEW line, NEW w, HasRead(line, State(w, <<>>, FALSE, "plain")),
           (\E i \in DOMAIN value : value[i] = "=") /\ w = <<>> => NeedsQuotingPosix(value)
    PROVE  IsText(Written(value)) /\ HasRead(Then(line, Written(value)), State(w, value, TRUE, "plain"))
<1>1. CASE NeedsQuotingPosix(value)
  BY <1>1, QuotedIsRead, Zenon DEF Written
<1>2. CASE ~NeedsQuotingPosix(value)
  BY <1>2, PlainIsRead, Zenon DEF Written
<1> QED BY <1>1, <1>2, Zenon

\* What Join does, in the form that is used here.
LEMMA JoinIs ==
    ASSUME NEW texts, NEW start, NEW delimiter
    PROVE  Join(texts, start, delimiter) =
             FlattenSeq([i \in 1..(Len(texts) - start + 1) |->
                           IF i = 1 THEN texts[start] ELSE <<delimiter>> \o texts[start + i - 1]])
  BY DEF Join

\* Joining texts is putting one after the other, with a blank before each but the first.
LEMMA JoinedIs ==
    ASSUME NEW n \in Nat \ {0}, NEW texts, Len(texts) = n, \A i \in 1..n : IsText(texts[i])
    PROVE  \E pieces : /\ AreTexts(pieces) /\ Len(pieces) = n
                       /\ Join(texts, 1, " ") = FlattenSeq(pieces)
                       /\ pieces[1] = texts[1]
                       /\ \A i \in 2..n : pieces[i] = Then(<<" ">>, texts[i])
<1>s. \E start : start = 1
  OBVIOUS
<1>0. PICK start : start = 1
  BY <1>s
<1> DEFINE Piece(i) == IF i = 1 THEN texts[1] ELSE Then(<<" ">>, texts[i])
           pieces == [i \in 1..n |-> Piece(i)]
<1>2. Join(texts, 1, " ") = FlattenSeq(pieces)
  <2> DEFINE joined == [i \in 1..(Len(texts) - start + 1) |->
                           IF i = 1 THEN texts[start] ELSE <<" ">> \o texts[start + i - 1]]
  <2>1. Len(texts) - start + 1 = n /\ \A i \in 1..n : start + i - 1 = i
    BY <1>0
  <2>2. Join(texts, 1, " ") = FlattenSeq(joined)
    <3>1. Join(texts, start, " ") = FlattenSeq(joined)
      BY JoinIs
    <3> HIDE DEF joined
    <3> QED BY <1>0, <3>1
  <2>3. joined = [i \in 1..n |-> IF i = 1 THEN texts[1] ELSE <<" ">> \o texts[i]]
    BY <1>0, <2>1
  <2>4. joined = pieces
    <3>1. \A i \in 1..n : (IF i = 1 THEN texts[1] ELSE <<" ">> \o texts[i]) = Piece(i)
      BY DEF Then
    <3> HIDE DEF joined, Piece
    <3> QED BY <2>3, <3>1
  <2> HIDE DEF joined, pieces
  <2> QED BY <2>2, <2>4, Zenon
<1>3. pieces[1] = texts[1] /\ \A i \in 2..n : pieces[i] = Then(<<" ">>, texts[i])
  <2>1. 1 \in 1..n /\ \A i \in 2..n : i \in 1..n /\ i # 1
    OBVIOUS
  <2> QED BY <2>1
<1>4. pieces = [i \in 1..n |-> pieces[i]]
  OBVIOUS
<1> HIDE DEF pieces
<1>5. \A i \in 1..n : IsText(pieces[i])
  <2>1. IsText(texts[1]) /\ \A i \in 2..n : IsText(texts[i])
    OBVIOUS
  <2>2. IsText(<<" ">>)
    BY TextFacts
  <2>3. \A i \in 2..n : IsText(pieces[i])
    <3> DEFINE blank == <<" ">>
    <3>1. IsText(blank) /\ \A i \in 2..n : pieces[i] = Then(blank, texts[i])
      BY <1>3, <2>2
    <3> HIDE DEF blank
    <3> QED BY <2>1, <3>1, ThenIs
  <2>4. \A i \in 1..n : i = 1 \/ i \in 2..n
    OBVIOUS
  <2> QED BY <1>3, <2>1, <2>3, <2>4, Zenon
<1>6. AreTexts(pieces) /\ Len(pieces) = n
  <2>1. n \in Nat
    OBVIOUS
  <2> QED BY <1>4, <1>5, <2>1, AreTextsIf, Zenon
<1> QED BY <1>2, <1>3, <1>6, Zenon

\* The first i words.
LEMMA FirstWords ==
    ASSUME NEW parts, AreTexts(parts)
    PROVE  /\ Len(parts) \in Nat /\ DOMAIN parts = 1..Len(parts)
           /\ parts = [i \in 1..Len(parts) |-> parts[i]]
           /\ SubSeq(parts, 1, 0) = <<>> /\ SubSeq(parts, 1, Len(parts)) = parts
           /\ \A i \in 1..Len(parts) : /\ SubSeq(parts, 1, i) = Append(SubSeq(parts, 1, i - 1), parts[i])
                                       /\ SubSeq(parts, 1, i) # <<>>
                                       /\ IsText(parts[i])
<1>1. PICK S : parts \in Seq(S)
  BY DEF AreTexts
<1>2. IsText(parts)
  BY <1>1 DEF IsText
<1>3. \A i \in 1..Len(parts) : SubSeq(parts, 1, i) # <<>> /\ Len(parts) \in Nat
  BY <1>1
<1>4. parts = [i \in 1..Len(parts) |-> parts[i]]
  BY <1>1
<1> QED BY <1>2, <1>3, <1>4, FirstSymbols, TextFacts

\* What is written is a text.
LEMMA WrittenIsText == ASSUME NEW value, IsText(value) PROVE IsText(Written(value))
<1>1. HasRead(<<>>, State(<<>>, <<>>, FALSE, "plain"))
  BY TextFacts, ShellReadsOn DEF HasRead, ShellStart
<1>2. IsText(QuoteForShellPosix(value))
  BY <1>1, QuotedIsRead, Zenon
<1> QED BY <1>2 DEF Written

\* Two symbols in a row.
LEMMA TwoSymbols == ASSUME NEW c, NEW d PROVE Append(<<c>>, d) = <<c, d>>
<1> DEFINE S == {c, d}
           r == Append(<<c>>, d)
           q == <<c, d>>
<1>1. <<c>> \in Seq(S) /\ d \in S
  OBVIOUS
<1>2. r \in Seq(S) /\ Len(r) = 2 /\ r[1] = c /\ r[2] = d
  BY <1>1
<1>3. q \in Seq(S) /\ Len(q) = 2 /\ q[1] = c /\ q[2] = d
  OBVIOUS
<1> HIDE DEF q, r
<1>4. \A i \in 1..2 : r[i] = q[i]
  BY <1>2, <1>3
<1>5. r = q
  BY <1>2, <1>3, <1>4, SeqEqual
<1> QED BY <1>5 DEF r, q

\* The redirection at the end of the line ends the last word.
LEMMA EndIsRead ==
    ASSUME NEW line, NEW w, NEW x
    PROVE  /\ HasRead(line, State(w, x, TRUE, "plain")) =>
                 HasRead(line \o <<" ", "2>&1">>, State(Append(w, x), <<>>, FALSE, "plain"))
           /\ HasRead(line, State(w, x, FALSE, "plain")) =>
                 HasRead(line \o <<" ", "2>&1">>, State(w, x, FALSE, "plain"))
<1> DEFINE a == Append(line, " ")
           b == Append(a, "2>&1")
<1>1. ASSUME IsText(line) PROVE line \o <<" ", "2>&1">> = b
  <2> DEFINE blank == <<" ">>
  <2>1. IsText(blank) /\ a = Then(line, blank)
    BY <1>1, TextFacts
  <2>2. Append(blank, "2>&1") = <<" ", "2>&1">>
    BY TwoSymbols, Zenon
  <2> HIDE DEF blank, a
  <2>3. Then(line, Append(blank, "2>&1")) = b
    BY <1>1, <2>1, ThenAppend
  <2> QED BY <2>2, <2>3 DEF Then
<1>2. ASSUME HasRead(line, State(w, x, TRUE, "plain"))
      PROVE  HasRead(b, State(Append(w, x), <<>>, FALSE, "plain"))
  <2>1. HasRead(a, State(Append(w, x), <<>>, FALSE, "plain"))
    BY <1>2, ReadsBlank, Zenon
  <2> HIDE DEF a
  <2> DEFINE v == Append(w, x)
  <2> HIDE DEF v
  <2>2. HasRead(b, State(v, <<>>, FALSE, "plain"))
    BY <2>1, ReadsBlank DEF v
  <2> QED BY <2>2 DEF v
<1>3. ASSUME HasRead(line, State(w, x, FALSE, "plain"))
      PROVE  HasRead(b, State(w, x, FALSE, "plain"))
  <2>1. HasRead(a, State(w, x, FALSE, "plain"))
    BY <1>3, ReadsBlank, Zenon
  <2> HIDE DEF a
  <2> QED BY <2>1, ReadsBlank, Zenon
<1> HIDE DEF b
<1>4. \A state : HasRead(line, state) => IsText(line)
  BY DEF HasRead
<1> QED BY <1>1, <1>2, <1>3, <1>4, Zenon

\* A blank and an argument after the words before it.
LEMMA NextIsRead ==
    ASSUME NEW line, NEW w, NEW x, HasRead(line, State(w, x, TRUE, "plain")), NEW value, IsText(value),
           NEW more, more = Append(w, x), more # <<>>
    PROVE  HasRead(Then(line, Then(<<" ">>, Written(value))), State(more, value, TRUE, "plain"))
<1> DEFINE blank == <<" ">>
           written == Written(value)
           a == Append(line, " ")
<1>1. IsText(line) /\ IsText(blank) /\ a = Then(line, blank)
  BY TextFacts DEF HasRead
<1>2. HasRead(a, State(more, <<>>, FALSE, "plain"))
  BY ReadsBlank, Zenon
<1> HIDE DEF a, blank
<1>3. IsText(written) /\ HasRead(Then(a, written), State(more, value, TRUE, "plain"))
  BY <1>2, WrittenIsRead
<1> HIDE DEF written
<1>4. Then(line, Then(blank, written)) = Then(a, written)
  BY <1>1, <1>3, ThenAgain
<1> QED BY <1>3, <1>4, Zenon DEF blank, written

\* The program is given the arguments it was meant to be given, whatever is in
\* them - but for a name with = in it that needs no quotes.
THEOREM ShellReadsWhatIsBuilt ==
    ASSUME NEW parts, AreTexts(parts),
           parts # <<>> /\ (\E i \in DOMAIN parts[1] : parts[1][i] = "=") => NeedsQuotingPosix(parts[1])
    PROVE  ShellReads(BuildShellCommand(parts)) = parts
<1> DEFINE n == Len(parts)
           texts == [i \in DOMAIN parts |-> Written(parts[i])]
           joined == Join(texts, 1, " ")
           First(i) == SubSeq(parts, 1, i)
<1>1. /\ n \in Nat /\ DOMAIN parts = 1..n /\ First(0) = <<>> /\ First(n) = parts
      /\ \A i \in 1..n : First(i) = Append(First(i - 1), parts[i]) /\ First(i) # <<>> /\ IsText(parts[i])
  BY FirstWords
<1>2. BuildShellCommand(parts) = joined \o <<" ", "2>&1">>
  BY DEF BuildShellCommand, Written
<1>3. HasRead(<<>>, State(<<>>, <<>>, FALSE, "plain"))
  BY TextFacts, ShellReadsOn DEF HasRead, ShellStart
<1>4. ASSUME HasRead(joined \o <<" ", "2>&1">>, State(parts, <<>>, FALSE, "plain"))
      PROVE  ShellReads(BuildShellCommand(parts)) = parts
  <2> DEFINE line == joined \o <<" ", "2>&1">>
  <2>1. ShellAfter(line) = State(parts, <<>>, FALSE, "plain") /\ BuildShellCommand(parts) = line
    BY <1>2, <1>4 DEF HasRead
  <2> HIDE DEF line
  <2> QED BY <2>1 DEF ShellReads, State
<1>5. CASE n = 0
  <2>1. parts = <<>>
    BY <1>1, <1>5
  <2>2. joined = <<>>
    <3>1. texts = <<>> /\ Len(texts) = 0
      BY <1>1, <1>5
    <3>2. joined = FlattenSeq(<<>>)
      BY <3>1 DEF Join
    <3> QED BY <3>2 DEF FlattenSeq
  <2> HIDE DEF joined
  <2>3. HasRead(joined, State(parts, <<>>, FALSE, "plain"))
    BY <1>3, <2>1, <2>2, Zenon
  <2> QED BY <1>4, <2>3, EndIsRead, Zenon
<1>6. CASE n # 0
  <2>1. Len(texts) = n /\ \A i \in 1..n : texts[i] = Written(parts[i])
    BY <1>1
  <2> HIDE DEF texts
  <2>2. \A i \in 1..n : IsText(texts[i])
    BY <1>1, <2>1, WrittenIsText, Zenon
  <2>3. PICK pieces : /\ AreTexts(pieces) /\ Len(pieces) = n /\ joined = FlattenSeq(pieces)
                      /\ pieces[1] = texts[1]
                      /\ \A i \in 2..n : pieces[i] = Then(<<" ">>, texts[i])
    <3>1. n \in Nat \ {0}
      BY <1>1, <1>6
    <3> HIDE DEF n, joined
    <3>2. \E pieces : /\ AreTexts(pieces) /\ Len(pieces) = n
                      /\ Join(texts, 1, " ") = FlattenSeq(pieces)
                      /\ pieces[1] = texts[1]
                      /\ \A i \in 2..n : pieces[i] = Then(<<" ">>, texts[i])
      BY <2>1, <2>2, <3>1, JoinedIs
    <3> QED BY <3>2, Zenon DEF joined
  <2> HIDE DEF joined, n
  <2>4. PICK h : /\ h[0] = <<>>
                 /\ \A i \in 1..n : h[i] = Then(h[i - 1], pieces[i])
                 /\ h[n] = Then(<<>>, joined)
    BY <2>3, TextFacts, FlattenedAfter
  <2>5. h[n] = joined
    BY <2>3, <2>4, TextFacts, FlattenedAfter, ThenIs
  <2> DEFINE T == {i \in 0..n : i = 0 \/ HasRead(h[i], State(First(i - 1), parts[i], TRUE, "plain"))}
  <2> HIDE DEF First
  <2>6. 0 \in T
    BY <1>1
  <2>7. ASSUME NEW i \in 1..n, i - 1 \in T PROVE i \in T
    <3>1. i \in 0..n
      BY <1>1
    <3>2. CASE i = 1
      <4>1. 1 \in 1..n /\ 1 - 1 = 0
        BY <1>1, <3>2
      <4>2. h[1] = Then(<<>>, Written(parts[1]))
        BY <2>1, <2>3, <2>4, <4>1
      <4>3. IsText(parts[1]) /\ ((\E j \in DOMAIN parts[1] : parts[1][j] = "=") => NeedsQuotingPosix(parts[1]))
        <5>1. parts # <<>>
          BY <1>1, <1>6, <4>1
        <5> QED BY <1>1, <4>1, <5>1
      <4>4. HasRead(h[1], State(<<>>, parts[1], TRUE, "plain"))
        <5> DEFINE value == parts[1]
        <5>1. IsText(value) /\ ((\E j \in DOMAIN value : value[j] = "=") => NeedsQuotingPosix(value))
          BY <4>3
        <5> HIDE DEF value
        <5>2. HasRead(Then(<<>>, Written(value)), State(<<>>, value, TRUE, "plain"))
          BY <1>3, <5>1, WrittenIsRead
        <5> QED BY <4>2, <5>2 DEF value
      <4>5. HasRead(h[i], State(First(i - 1), parts[i], TRUE, "plain"))
        BY <1>1, <3>2, <4>1, <4>4
      <4> QED BY <3>1, <4>5
    <3>3. CASE i \in 2..n
      <4>1. i - 1 \in 1..n /\ i - 1 # 0
        BY <1>1, <3>3
      <4>2. HasRead(h[i - 1], State(First((i - 1) - 1), parts[i - 1], TRUE, "plain"))
        BY <2>7, <4>1
      <4>3. h[i] = Then(h[i - 1], Then(<<" ">>, Written(parts[i])))
        BY <2>1, <2>3, <2>4, <3>3
      <4>4. First(i - 1) = Append(First((i - 1) - 1), parts[i - 1]) /\ First(i - 1) # <<>> /\ IsText(parts[i])
        BY <1>1, <4>1
      <4> DEFINE line == h[i - 1]
                 w == First((i - 1) - 1)
                 x == parts[i - 1]
                 more == First(i - 1)
                 value == parts[i]
      <4>5. HasRead(line, State(w, x, TRUE, "plain")) /\ IsText(value) /\ more = Append(w, x) /\ more # <<>>
        BY <4>2, <4>4
      <4> HIDE DEF line, w, x, more, value
      <4>6. HasRead(Then(line, Then(<<" ">>, Written(value))), State(more, value, TRUE, "plain"))
        BY <4>5, NextIsRead
      <4>7. HasRead(h[i], State(First(i - 1), parts[i], TRUE, "plain"))
        BY <4>3, <4>6 DEF line, more, value
      <4> HIDE DEF T
      <4> QED BY <3>1, <4>7 DEF T
    <3>4. i = 1 \/ i \in 2..n
      BY <1>1
    <3> HIDE DEF T
    <3> QED BY <3>2, <3>3, <3>4
  <2> HIDE DEF T
  <2>8. n \in T
    BY <1>1, <2>6, <2>7, InductionTo, Zenon
  <2>9. HasRead(joined, State(First(n - 1), parts[n], TRUE, "plain"))
    BY <1>6, <2>5, <2>8 DEF T
  <2>10. First(n) = Append(First(n - 1), parts[n])
    BY <1>1, <1>6
  <2> QED BY <1>1, <1>4, <2>9, <2>10, EndIsRead, Zenon
<1> QED BY <1>1, <1>5, <1>6

-------------------------------------------------------------------------------
(* The object in an output.                                                *)

\* The state in which the scan begins.
ScanStart == [inString |-> FALSE, escaped |-> FALSE, depth |-> 0]

\* The states of the scan of a text from the symbol at start, n symbols on.
ScansSo(f, text, start, n) ==
    f = [i \in (start - 1)..n |-> IF i = start - 1 THEN ScanStart ELSE ScanStep(f[i - 1], text[i])]

\* The states of a scan can be named as far as one likes.
LEMMA ScanStatesExist ==
    ASSUME NEW text, NEW start \in Nat \ {0}, NEW k \in Nat
    PROVE  \E f : ScansSo(f, text, start, start - 1 + k)
<1> DEFINE S == {m \in Nat : \E f : ScansSo(f, text, start, start - 1 + m)}
<1>1. 0 \in S
  <2> DEFINE f == [i \in (start - 1)..(start - 1 + 0) |-> ScanStart]
  <2>1. ScansSo(f, text, start, start - 1 + 0)
    BY DEF ScansSo
  <2> QED BY <2>1
<1>2. ASSUME NEW m \in Nat, m \in S PROVE m + 1 \in S
  <2> DEFINE low == start - 1
             n == low + m
             n1 == low + (m + 1)
  <2>1. PICK f : ScansSo(f, text, start, n)
    BY <1>2
  <2>0. low \in Nat /\ n \in Nat /\ n1 = n + 1 /\ low <= n
    OBVIOUS
  <2> DEFINE g == [i \in low..n1 |-> IF i <= n THEN f[i] ELSE ScanStep(f[n], text[n1])]
  <2>2. f[low] = ScanStart /\ \A i \in (low + 1)..n : f[i] = ScanStep(f[i - 1], text[i])
    BY <2>0, <2>1 DEF ScansSo
  <2> HIDE DEF low, n, n1
  <2>3. ASSUME NEW i \in low..n1
        PROVE  g[i] = IF i = low THEN ScanStart ELSE ScanStep(g[i - 1], text[i])
    <3>1. CASE i = low
      BY <2>0, <2>2, <3>1
    <3>2. CASE i \in (low + 1)..n
      <4>1. g[i] = f[i] /\ g[i - 1] = f[i - 1] /\ i # low
        BY <2>0, <3>2
      <4> HIDE DEF g
      <4> QED BY <2>2, <3>2, <4>1
    <3>3. CASE i = n1
      <4>1. g[i] = ScanStep(f[n], text[n1]) /\ g[i - 1] = f[n] /\ i # low
        BY <2>0, <3>3
      <4> HIDE DEF g
      <4> QED BY <3>3, <4>1
    <3>4. i = low \/ i \in (low + 1)..n \/ i = n1
      BY <2>0
    <3> HIDE DEF g
    <3> QED BY <3>1, <3>2, <3>3, <3>4
  <2>4. ScansSo(g, text, start, n1)
    BY <2>3 DEF ScansSo, low
  <2> HIDE DEF g
  <2> QED BY <2>4 DEF n1, low
<1> HIDE DEF S
<1>3. k \in S
  BY <1>1, <1>2, Induction
<1> QED BY <1>3 DEF S

\* What the scan of a text is.
LEMMA ScannedIs ==
    ASSUME NEW text, NEW start \in Nat \ {0}, NEW n \in Nat, start - 1 <= n
    PROVE  \E f : ScansSo(f, text, start, n) /\ Scanned(text, start, n) = f[n]
<1> DEFINE f == CHOOSE f : ScansSo(f, text, start, n)
<1>1. ScansSo(f, text, start, n)
  <2>1. n - (start - 1) \in Nat /\ start - 1 + (n - (start - 1)) = n
    OBVIOUS
  <2>2. \E g : ScansSo(g, text, start, start - 1 + (n - (start - 1)))
    BY <2>1, ScanStatesExist
  <2>3. \E g : ScansSo(g, text, start, n)
    BY <2>1, <2>2
  <2> QED BY <2>3
<1>2. Scanned(text, start, n) = f[n]
  BY DEF Scanned, ScansSo, ScanStart
<1> HIDE DEF f
<1> QED BY <1>1, <1>2

\* Two scans that go on over the same symbols are in the same state.
ScansTo(f, text, start, m) == \E n \in Nat : m <= n /\ ScansSo(f, text, start, n)

SameSymbols(text, other, start, m) ==
    /\ start \in Nat \ {0} /\ m \in Nat /\ start - 1 <= m
    /\ \A i \in start..m : text[i] = other[i]

\* A scan depends only on the symbols it has seen.
LEMMA SameScans ==
    ASSUME NEW start, NEW m, NEW text, NEW other, SameSymbols(text, other, start, m)
    PROVE  \A f, g : ScansTo(f, text, start, m) /\ ScansTo(g, other, start, m) => f[m] = g[m]
<1> SUFFICES ASSUME NEW f, NEW g, ScansTo(f, text, start, m), ScansTo(g, other, start, m)
             PROVE  f[m] = g[m]
  OBVIOUS
<1> USE DEF SameSymbols
<1>n. PICK n \in Nat : m <= n /\ ScansSo(f, text, start, n)
  BY DEF ScansTo
<1>p. PICK p \in Nat : m <= p /\ ScansSo(g, other, start, p)
  BY DEF ScansTo
<1> DEFINE low == start - 1
           k == m - low
           T == {i \in Nat : i <= k => f[low + i] = g[low + i]}
<1>0. low \in Nat /\ low + 0 = low /\ low \in low..n /\ low \in low..p /\ k \in Nat /\ low + k = m
  BY <1>n, <1>p
<1>1. 0 \in T
  <2>1. f[low] = ScanStart /\ g[low] = ScanStart
    BY <1>0, <1>n, <1>p DEF ScansSo
  <2> HIDE DEF low
  <2> QED BY <1>0, <2>1
<1>2. ASSUME NEW i \in Nat, i \in T PROVE i + 1 \in T
  <2>1. CASE i + 1 <= k
    <3> DEFINE j == low + (i + 1)
    <3>1. j \in low..n /\ j \in low..p /\ j # low /\ j - 1 = low + i /\ j \in start..m /\ i <= k
      BY <2>1, <1>n, <1>p
    <3>2. f[j] = ScanStep(f[j - 1], text[j]) /\ g[j] = ScanStep(g[j - 1], other[j])
      BY <1>n, <1>p, <3>1 DEF ScansSo
    <3>3. text[j] = other[j]
      BY <3>1
    <3>4. f[low + i] = g[low + i]
      BY <1>2, <3>1
    <3> HIDE DEF low, j, k
    <3>5. f[j] = g[j]
      BY <3>1, <3>2, <3>3, <3>4
    <3> QED BY <3>5 DEF j
  <2> QED BY <2>1
<1> HIDE DEF T, k, low
<1>3. k \in T
  BY <1>0, <1>1, <1>2, Induction
<1> QED BY <1>0, <1>3 DEF T

\* A scan goes on symbol by symbol, and depends on nothing after them.
LEMMA ScansOn ==
    ASSUME NEW text, NEW start \in Nat \ {0}
    PROVE  /\ Scanned(text, start, start - 1) = ScanStart
           /\ \A i \in Nat : i >= start => Scanned(text, start, i) = ScanStep(Scanned(text, start, i - 1), text[i])
           /\ \A other, i : /\ i \in Nat /\ start - 1 <= i
                            /\ \A j \in start..i : text[j] = other[j]
                            => Scanned(text, start, i) = Scanned(other, start, i)
<1>1. Scanned(text, start, start - 1) = ScanStart
  <2>1. 0 \in Nat /\ start - 1 + 0 = start - 1
    OBVIOUS
  <2>2. PICK f : ScansSo(f, text, start, start - 1) /\ Scanned(text, start, start - 1) = f[start - 1]
    BY <2>1, ScannedIs
  <2> QED BY <2>2 DEF ScansSo
<1>2. ASSUME NEW other, NEW i \in Nat, start - 1 <= i, \A j \in start..i : text[j] = other[j]
      PROVE  Scanned(text, start, i) = Scanned(other, start, i)
  <2>1. start - 1 <= i /\ i <= i
    BY <1>2
  <2>2. PICK f : ScansSo(f, text, start, i) /\ Scanned(text, start, i) = f[i]
    BY <2>1, ScannedIs
  <2>3. PICK g : ScansSo(g, other, start, i) /\ Scanned(other, start, i) = g[i]
    BY <2>1, ScannedIs
  <2>4. f[i] = g[i]
    <3>1. ScansTo(f, text, start, i) /\ ScansTo(g, other, start, i)
      BY <2>1, <2>2, <2>3 DEF ScansTo
    <3>2. \A e, h : ScansTo(e, text, start, i) /\ ScansTo(h, other, start, i) => e[i] = h[i]
      <4>1. SameSymbols(text, other, start, i)
        BY <1>2 DEF SameSymbols
      <4> QED BY <4>1, SameScans
    <3> QED BY <3>1, <3>2
  <2> QED BY <2>2, <2>3, <2>4
<1>3. ASSUME NEW i \in Nat, i >= start
      PROVE  Scanned(text, start, i) = ScanStep(Scanned(text, start, i - 1), text[i])
  <2> DEFINE p == i - 1
  <2>1. p \in Nat /\ start - 1 <= p /\ p <= p /\ p <= i /\ start - 1 <= i
        /\ i \in (start - 1)..i /\ i # start - 1
    BY <1>3
  <2> HIDE DEF p
  <2>2. PICK f : ScansSo(f, text, start, i) /\ Scanned(text, start, i) = f[i]
    BY <2>1, ScannedIs
  <2>3. PICK g : ScansSo(g, text, start, p) /\ Scanned(text, start, p) = g[p]
    BY <2>1, ScannedIs
  <2>4. g[p] = f[p]
    <3>1. ScansTo(g, text, start, p) /\ ScansTo(f, text, start, p)
      BY <2>1, <2>2, <2>3 DEF ScansTo
    <3>2. \A e, h : ScansTo(e, text, start, p) /\ ScansTo(h, text, start, p) => e[p] = h[p]
      <4>1. SameSymbols(text, text, start, p)
        BY <2>1 DEF SameSymbols
      <4> QED BY <4>1, SameScans
    <3> QED BY <3>1, <3>2
  <2>5. f[i] = ScanStep(f[i - 1], text[i])
    BY <2>1, <2>2 DEF ScansSo
  <2> QED BY <2>2, <2>3, <2>4, <2>5 DEF p
<1> QED BY <1>1, <1>2, <1>3

\* The scan outside strings, in one, and in one after a backslash.
Outside(d) == [inString |-> FALSE, escaped |-> FALSE, depth |-> d]
Inside(d)  == [inString |-> TRUE, escaped |-> FALSE, depth |-> d]
Backslashed(d) == [inString |-> TRUE, escaped |-> TRUE, depth |-> d]

\* The first object ends with a symbol c that leaves the scan in the state given.
Closes(c, state) == c = "}" /\ state.depth = 0 /\ ~state.inString

\* An object that begins at start is still open at the end of text, the scan
\* in the state given.
IsOpen(text, start, state) ==
    /\ IsText(text) /\ start \in Nat \ {0} /\ start - 1 <= Len(text)
    /\ Scanned(text, start, Len(text)) = state
    /\ \A i \in start..Len(text) : ~Closes(text[i], Scanned(text, start, i))

\* A text with more symbols after it.
LEMMA Longer ==
    ASSUME NEW text, IsText(text), NEW other, IsText(other)
    PROVE  /\ Len(text) \in Nat /\ Len(Then(text, other)) = Len(text) + Len(other)
           /\ Len(Then(text, other)) \in Nat
           /\ \A i \in 1..Len(text) : Then(text, other)[i] = text[i]
           /\ \A i \in 1..Len(other) : Then(text, other)[Len(text) + i] = other[i]
           /\ SubSeq(Then(text, other), 1, Len(text)) = text
           /\ SubSeq(Then(text, other), Len(text) + 1, Len(text) + Len(other)) = other
<1>1. PICK S : text \in Seq(S) /\ other \in Seq(S)
  BY CommonSymbols, Zenon
<1>2. /\ Len(text) \in Nat /\ Len(text \o other) = Len(text) + Len(other) /\ Len(text \o other) \in Nat
      /\ \A i \in 1..Len(text) : (text \o other)[i] = text[i]
      /\ \A i \in 1..Len(other) : (text \o other)[Len(text) + i] = other[i]
  BY <1>1
<1>3. SubSeq(text \o other, 1, Len(text)) = text
  BY <1>1
<1>4. SubSeq(text \o other, Len(text) + 1, Len(text) + Len(other)) = other
  BY <1>1
<1> QED BY <1>2, <1>3, <1>4 DEF Then

\* A text with one symbol more.
LEMMA OneLonger ==
    ASSUME NEW text, IsText(text), NEW c
    PROVE  /\ IsText(Append(text, c)) /\ Len(text) \in Nat /\ Len(Append(text, c)) = Len(text) + 1
           /\ Append(text, c)[Len(text) + 1] = c
           /\ \A i \in 1..Len(text) : Append(text, c)[i] = text[i]
<1>1. PICK S : text \in Seq(S)
  BY DEF IsText
<1>2. text \in Seq(S \cup {c}) /\ c \in S \cup {c}
  BY <1>1, TextsOfMore
<1>3. /\ Len(text) \in Nat /\ Len(Append(text, c)) = Len(text) + 1
      /\ Append(text, c)[Len(text) + 1] = c
      /\ \A i \in 1..Len(text) : Append(text, c)[i] = text[i]
  BY <1>2
<1> QED BY <1>3, TextFacts

\* What the scan makes of the next symbol.
LEMMA ScansNext ==
    ASSUME NEW text, NEW start, NEW state, NEW c, IsOpen(text, start, state)
    PROVE  /\ Scanned(Append(text, c), start, Len(text) + 1) = ScanStep(state, c)
           /\ \A i \in start..Len(text) :
                 Scanned(Append(text, c), start, i) = Scanned(text, start, i) /\ Append(text, c)[i] = text[i]
<1> DEFINE longer == Append(text, c)
           n == Len(text)
<1>1. /\ n \in Nat /\ longer[n + 1] = c /\ \A i \in 1..n : longer[i] = text[i]
      /\ start \in Nat \ {0} /\ start - 1 <= n /\ Scanned(text, start, n) = state
  BY OneLonger DEF IsOpen
<1> HIDE DEF longer, n
<1>2. ASSUME NEW i \in Nat, start - 1 <= i, i <= n
      PROVE  Scanned(longer, start, i) = Scanned(text, start, i)
  <2>1. \A j \in start..i : longer[j] = text[j]
    BY <1>1, <1>2
  <2> QED BY <1>1, <1>2, <2>1, ScansOn
<1>3. Scanned(longer, start, n + 1) = ScanStep(state, c)
  <2>1. n + 1 \in Nat /\ n + 1 >= start /\ (n + 1) - 1 = n /\ n <= n
    BY <1>1
  <2>2. Scanned(longer, start, n + 1) = ScanStep(Scanned(longer, start, (n + 1) - 1), longer[n + 1])
    BY <1>1, <2>1, ScansOn
  <2>3. Scanned(longer, start, n) = Scanned(text, start, n)
    BY <1>1, <1>2, <2>1
  <2> QED BY <1>1, <2>1, <2>2, <2>3
<1>4. ASSUME NEW i \in start..n
      PROVE  Scanned(longer, start, i) = Scanned(text, start, i) /\ longer[i] = text[i]
  <2>1. i \in Nat /\ start - 1 <= i /\ i <= n /\ i \in 1..n
    BY <1>1
  <2> QED BY <1>1, <1>2, <2>1
<1> QED BY <1>3, <1>4 DEF longer, n

\* A symbol that does not close the object leaves it open.
LEMMA StaysOpen ==
    ASSUME NEW text, NEW start, NEW state, NEW c, IsOpen(text, start, state), ~Closes(c, ScanStep(state, c))
    PROVE  IsOpen(Append(text, c), start, ScanStep(state, c))
<1> DEFINE longer == Append(text, c)
           n == Len(text)
           next == ScanStep(state, c)
<1>1. /\ n \in Nat /\ Len(longer) = n + 1 /\ longer[n + 1] = c /\ IsText(longer)
      /\ start \in Nat \ {0} /\ start - 1 <= n
      /\ \A i \in start..n : ~Closes(text[i], Scanned(text, start, i))
  BY OneLonger DEF IsOpen
<1>2. /\ Scanned(longer, start, n + 1) = next
      /\ \A i \in start..n : Scanned(longer, start, i) = Scanned(text, start, i) /\ longer[i] = text[i]
  BY ScansNext
<1> HIDE DEF longer, n, next
<1>3. ASSUME NEW i \in start..(n + 1) PROVE ~Closes(longer[i], Scanned(longer, start, i))
  <2>1. CASE i \in start..n
    BY <1>1, <1>2, <2>1
  <2>2. CASE i = n + 1
    BY <1>1, <1>2, <2>2 DEF next
  <2>3. i \in start..n \/ i = n + 1
    BY <1>1
  <2> QED BY <2>1, <2>2, <2>3
<1>4. start - 1 <= n + 1
  BY <1>1
<1> QED BY <1>1, <1>2, <1>3, <1>4 DEF IsOpen, longer, next

\* What the scan does with one symbol.
LEMMA ScanSteps ==
    ASSUME NEW d \in Int
    PROVE  /\ ScanStep(Outside(d), "\"") = Inside(d)
           /\ ScanStep(Outside(d), "{") = Outside(d + 1)
           /\ ScanStep(Outside(d), "}") = Outside(d - 1)
           /\ \A c : c \notin {"\"", "{", "}"} => ScanStep(Outside(d), c) = Outside(d)
           /\ \A c : ScanStep(Backslashed(d), c) = Inside(d)
           /\ ScanStep(Inside(d), "\"") = Outside(d)
           /\ ScanStep(Inside(d), "\\") = Backslashed(d)
           /\ \A c : c \notin {"\"", "\\"} => ScanStep(Inside(d), c) = Inside(d)
<1>1. ScanStep(Outside(d), "\"") = Inside(d)
  BY DEF ScanStep, Outside, Inside
<1>2. ScanStep(Outside(d), "{") = Outside(d + 1)
  BY DEF ScanStep, Outside
<1>3. ScanStep(Outside(d), "}") = Outside(d - 1)
  BY DEF ScanStep, Outside
<1>4. \A c : c \notin {"\"", "{", "}"} => ScanStep(Outside(d), c) = Outside(d)
  BY DEF ScanStep, Outside
<1>5. \A c : ScanStep(Backslashed(d), c) = Inside(d)
  BY DEF ScanStep, Backslashed, Inside
<1>6. ScanStep(Inside(d), "\"") = Outside(d)
  BY DEF ScanStep, Inside, Outside
<1>7. ScanStep(Inside(d), "\\") = Backslashed(d)
  BY DEF ScanStep, Inside, Backslashed
<1>8. \A c : c \notin {"\"", "\\"} => ScanStep(Inside(d), c) = Inside(d)
  BY DEF ScanStep, Inside
<1> QED BY <1>1, <1>2, <1>3, <1>4, <1>5, <1>6, <1>7, <1>8

\* Only outside strings, at depth 0, is there an end.
LEMMA NoEnd ==
    \A d, c : /\ ~Closes(c, Inside(d)) /\ ~Closes(c, Backslashed(d))
              /\ d # 0 => ~Closes(c, Outside(d))
              /\ c # "}" => ~Closes(c, Outside(d))
              /\ Closes("}", Outside(0))
  BY DEF Closes, Inside, Backslashed, Outside

\* A string is passed over: the scan is in it up to its last symbol.
LEMMA StringIsScanned ==
    ASSUME NEW text, NEW start, NEW d \in Nat \ {0}, IsOpen(text, start, Outside(d)),
           NEW lexeme, IsText(lexeme), IsStringLexeme(lexeme)
    PROVE  IsOpen(Then(text, lexeme), start, Outside(d))
<1>1. PICK hidden \in SUBSET (3..Len(lexeme)) :
        /\ Len(lexeme) > 1 /\ lexeme[1] = "\""
        /\ \A i \in 3..Len(lexeme) : i \in hidden <=> lexeme[i - 1] = "\\" /\ i - 1 \notin hidden
        /\ \A i \in 2..Len(lexeme) : i = Len(lexeme) <=> lexeme[i] = "\"" /\ i \notin hidden
  BY DEF IsStringLexeme
<1> DEFINE n == Len(lexeme)
           Part(i) == SubSeq(lexeme, 1, i)
           At1(i) == IF i = n THEN Outside(d) ELSE IF i + 1 \in hidden THEN Backslashed(d) ELSE Inside(d)
           T == {i \in 0..n : i # 0 => IsText(Part(i)) /\ IsOpen(Then(text, Part(i)), start, At1(i))}
<1>2. /\ n \in Nat /\ Part(0) = <<>> /\ Part(n) = lexeme
      /\ \A i \in 1..n : Part(i) = Append(Part(i - 1), lexeme[i])
  BY FirstSymbols
<1>3. 0 \in T
  BY <1>2
<1>4. IsText(text) /\ d \in Int /\ d # 0
  BY DEF IsOpen
<1>n. n > 1 /\ hidden \subseteq 3..n
  BY <1>1
<1> HIDE DEF n, Part, At1
<1>h. n # 0 /\ n # 1 /\ 1 \in 1..n /\ 2 \notin hidden /\ n + 1 \notin hidden
  BY <1>2, <1>n
<1>5. ASSUME NEW i \in 1..n, i - 1 \in T PROVE i \in T
  <2> DEFINE c == lexeme[i]
             before == Then(text, Part(i - 1))
  <2>1. i \in 0..n
    BY <1>2
  <2>2. CASE i = 1
    <3>1. Part(1) = <<c>> /\ IsText(Part(1)) /\ c = "\""
      <4>1. 1 \in 1..n /\ 1 - 1 = 0
        BY <1>h
      <4>2. Part(1) = Append(<<>>, lexeme[1])
        BY <1>2, <4>1
      <4>3. Append(<<>>, lexeme[1]) = <<lexeme[1]>>
        OBVIOUS
      <4> QED BY <1>1, <2>2, <4>2, <4>3, TextFacts
    <3>2. IsOpen(Append(text, "\""), start, Inside(d))
      <4>1. ScanStep(Outside(d), "\"") = Inside(d)
        BY <1>4, ScanSteps
      <4> QED BY <4>1, NoEnd, StaysOpen
    <3>3. Append(text, "\"") = Then(text, Part(1))
      BY <1>4, <3>1, TextFacts
    <3>4. At1(1) = Inside(d)
      <4>1. 1 # n /\ 1 + 1 \notin hidden
        BY <1>h
      <4> QED BY <4>1 DEF At1
    <3> QED BY <2>1, <2>2, <3>1, <3>2, <3>3, <3>4
  <2>3. CASE i \in 2..n
    <3>1. IsText(Part(i - 1)) /\ IsOpen(before, start, At1(i - 1))
      <4>1. i - 1 # 0
        BY <2>3
      <4> QED BY <1>5, <4>1
    <3>2. IsText(Part(i)) /\ Then(text, Part(i)) = Append(before, c)
      <4> DEFINE part == Part(i - 1)
      <4>1. Part(i) = Append(part, c) /\ IsText(part)
        BY <1>2, <3>1
      <4> HIDE DEF part, c
      <4>2. Then(text, Append(part, c)) = Append(Then(text, part), c)
        BY <1>4, <4>1, ThenAppend
      <4>3. IsText(Append(part, c))
        BY <4>1, TextFacts, Zenon
      <4> QED BY <4>1, <4>2, <4>3 DEF part
    <3>3. i - 1 # n /\ (i - 1) + 1 = i
      BY <1>2, <2>3
    <3>4. i = n <=> c = "\"" /\ i \notin hidden
      BY <1>1, <2>3 DEF n
    <3>5. i + 1 \in hidden <=> c = "\\" /\ i \notin hidden
      <4>1. CASE i + 1 \in 3..n
        <5>1. (i + 1) - 1 = i
          BY <1>2
        <5> QED BY <1>1, <4>1, <5>1 DEF n
      <4>2. CASE i = n
        <5>1. i + 1 \notin 3..n
          BY <1>2, <4>2
        <5>2. hidden \subseteq 3..n
          BY <1>1 DEF n
        <5> QED BY <3>4, <4>2, <5>1, <5>2
      <4>3. i + 1 \in 3..n \/ i = n
        BY <1>2, <2>3
      <4> QED BY <4>1, <4>2, <4>3
    <3> HIDE DEF c, before
    <3>6. ScanStep(At1(i - 1), c) = At1(i)
      <4>1. CASE i \in hidden
        <5>1. At1(i - 1) = Backslashed(d)
          BY <3>3, <4>1 DEF At1
        <5>2. At1(i) = Inside(d)
          BY <3>4, <3>5, <4>1 DEF At1
        <5> QED BY <1>4, <5>1, <5>2, ScanSteps
      <4>2. CASE i \notin hidden
        <5>1. At1(i - 1) = Inside(d)
          BY <3>3, <4>2 DEF At1
        <5>2. At1(i) = IF c = "\"" THEN Outside(d) ELSE IF c = "\\" THEN Backslashed(d) ELSE Inside(d)
          BY <3>4, <3>5, <4>2 DEF At1
        <5> QED BY <1>4, <5>1, <5>2, ScanSteps
      <4> QED BY <4>1, <4>2
    <3>7. ~Closes(c, At1(i))
      BY <1>4, NoEnd DEF At1
    <3>8. IsOpen(Append(before, c), start, At1(i))
      BY <3>1, <3>6, <3>7, StaysOpen
    <3> QED BY <2>1, <3>2, <3>8
  <2>4. i = 1 \/ i \in 2..n
    BY <1>2
  <2> HIDE DEF T, c, before
  <2> QED BY <2>2, <2>3, <2>4
<1> HIDE DEF T
<1>6. n \in T
  BY <1>2, <1>3, <1>5, InductionTo, Zenon
<1>7. n # 0 /\ At1(n) = Outside(d)
  BY <1>h DEF At1
<1> QED BY <1>2, <1>6, <1>7 DEF T

\* The braces a lexeme opens.
Opens(lexeme) == IF lexeme = <<"{">> THEN 1 ELSE IF lexeme = <<"}">> THEN -1 ELSE 0

\* How often one of the first n lexemes is a given one.
HowMany(lexemes, lexeme, n) == Cardinality({i \in 1..n : lexemes[i] = lexeme})

\* Counting one lexeme more.
LEMMA Counted ==
    ASSUME NEW lexemes, NEW lexeme, NEW n \in Nat \ {0}
    PROVE  /\ HowMany(lexemes, lexeme, n - 1) \in Nat
           /\ HowMany(lexemes, lexeme, n) =
                 HowMany(lexemes, lexeme, n - 1) + (IF lexemes[n] = lexeme THEN 1 ELSE 0)
<1> DEFINE S == {i \in 1..(n - 1) : lexemes[i] = lexeme}
           U == {i \in 1..n : lexemes[i] = lexeme}
<1>1. IsFiniteSet(S)
  <2>1. IsFiniteSet(1..(n - 1)) /\ S \subseteq 1..(n - 1)
    BY FS_Interval
  <2> QED BY <2>1, FS_Subset
<1>2. Cardinality(S) \in Nat
  BY <1>1, FS_CardinalityType
<1>3. n \notin S
  OBVIOUS
<1>4. U = IF lexemes[n] = lexeme THEN S \cup {n} ELSE S
  OBVIOUS
<1> HIDE DEF S, U
<1>5. Cardinality(S \cup {n}) = Cardinality(S) + 1
  BY <1>1, <1>3, FS_AddElement
<1>6. Cardinality(U) = Cardinality(S) + (IF lexemes[n] = lexeme THEN 1 ELSE 0)
  BY <1>2, <1>4, <1>5
<1> QED BY <1>2, <1>6 DEF HowMany, S, U

\* The open braces after one lexeme more.
LEMMA OpenBracesOn ==
    ASSUME NEW lexemes
    PROVE  /\ OpenBraces(lexemes, 0) = 0
           /\ \A n \in Nat \ {0} : /\ OpenBraces(lexemes, n - 1) \in Int
                                   /\ OpenBraces(lexemes, n) = OpenBraces(lexemes, n - 1) + Opens(lexemes[n])
<1>1. \A n : OpenBraces(lexemes, n) = HowMany(lexemes, <<"{">>, n) - HowMany(lexemes, <<"}">>, n)
  BY DEF OpenBraces, HowMany
<1>2. OpenBraces(lexemes, 0) = 0
  <2>1. \A lexeme : HowMany(lexemes, lexeme, 0) = 0
    <3>1. \A lexeme : {i \in 1..0 : lexemes[i] = lexeme} = {}
      OBVIOUS
    <3>2. Cardinality({}) = 0
      BY FS_EmptySet
    <3> QED BY <3>1, <3>2, Zenon DEF HowMany
  <2> DEFINE open == <<"{">>
             close == <<"}">>
  <2>2. OpenBraces(lexemes, 0) = HowMany(lexemes, open, 0) - HowMany(lexemes, close, 0)
    BY <1>1
  <2> HIDE DEF open, close
  <2>3. OpenBraces(lexemes, 0) = 0 - 0
    BY <2>1, <2>2
  <2> QED BY <2>3
<1>3. ASSUME NEW n \in Nat \ {0}
      PROVE  /\ OpenBraces(lexemes, n - 1) \in Int
             /\ OpenBraces(lexemes, n) = OpenBraces(lexemes, n - 1) + Opens(lexemes[n])
  <2> DEFINE open == <<"{">>
             close == <<"}">>
  <2>1. open # close
    OBVIOUS
  <2>2. Opens(lexemes[n]) = IF lexemes[n] = open THEN 1 ELSE IF lexemes[n] = close THEN -1 ELSE 0
    BY DEF Opens
  <2>3. \A m : OpenBraces(lexemes, m) = HowMany(lexemes, open, m) - HowMany(lexemes, close, m)
    BY <1>1
  <2> HIDE DEF open, close
  <2>4. /\ HowMany(lexemes, open, n - 1) \in Nat /\ HowMany(lexemes, close, n - 1) \in Nat
        /\ HowMany(lexemes, open, n) = HowMany(lexemes, open, n - 1) + (IF lexemes[n] = open THEN 1 ELSE 0)
        /\ HowMany(lexemes, close, n) = HowMany(lexemes, close, n - 1) + (IF lexemes[n] = close THEN 1 ELSE 0)
    BY Counted
  <2> QED BY <2>1, <2>2, <2>3, <2>4
<1> QED BY <1>2, <1>3

\* An object that is open goes on with any symbol; one begins with a brace.
GoesOn(d, c) == d = 0 => c = "{"

\* A quote, which an SMT solver is better not shown.
IsQuote(c) == c = "\""

\* Outside strings only braces count.
LEMMA BraceSteps ==
    ASSUME NEW d \in Int
    PROVE  /\ ScanStep(Outside(d), "{") = Outside(d + 1)
           /\ ScanStep(Outside(d), "}") = Outside(d - 1)
           /\ \A c : ~IsQuote(c) /\ c \notin {"{", "}"} => ScanStep(Outside(d), c) = Outside(d)
  BY ScanSteps, Zenon DEF IsQuote

\* So is a symbol, if it does not end the object.
LEMMA SymbolIsScanned ==
    ASSUME NEW c, ~IsQuote(c), NEW d \in Nat, GoesOn(d, c)
    PROVE  \A n : n = (IF c = "{" THEN 1 ELSE IF c = "}" THEN -1 ELSE 0) =>
              ScanStep(Outside(d), c) = Outside(d + n) /\ d + n \in Nat
<1>0. d \in Int
  OBVIOUS
<1>1. CASE c = "{"
  <2>1. ScanStep(Outside(d), c) = Outside(d + 1)
    BY <1>1, <1>0, BraceSteps, Zenon
  <2>2. d + 1 \in Nat
    OBVIOUS
  <2> QED BY <1>1, <2>1, <2>2, Zenon
<1>2. CASE c = "}"
  <2>1. ScanStep(Outside(d), c) = Outside(d - 1)
    BY <1>2, <1>0, BraceSteps, Zenon
  <2>2. d # 0
    BY <1>2 DEF GoesOn
  <2>3. d - 1 \in Nat /\ d - 1 = d + (-1)
    BY <2>2
  <2>4. c # "{"
    BY <1>2
  <2> QED BY <1>2, <2>1, <2>3, <2>4, Zenon
<1>3. CASE c \notin {"{", "}"}
  <2>1. ScanStep(Outside(d), c) = Outside(d)
    BY <1>3, <1>0, BraceSteps, Zenon
  <2>2. d \in Nat /\ d + 0 = d
    OBVIOUS
  <2> QED BY <1>3, <2>1, <2>2, Zenon
<1> QED BY <1>1, <1>2, <1>3

\* A symbol as a lexeme.
LEMMA SymbolLexeme ==
    ASSUME NEW lexeme, IsText(lexeme), Len(lexeme) = 1
    PROVE  /\ lexeme = <<lexeme[1]>>
           /\ Opens(lexeme) = IF lexeme[1] = "{" THEN 1 ELSE IF lexeme[1] = "}" THEN -1 ELSE 0
<1>1. lexeme = <<lexeme[1]>>
  <2>1. PICK S : lexeme \in Seq(S)
    BY DEF IsText
  <2> QED BY <2>1
<1> DEFINE c == lexeme[1]
<1>2. lexeme = <<c>>
  BY <1>1
<1> HIDE DEF c
<1>3. <<c>> = <<"{">> <=> c = "{"
  OBVIOUS
<1>4. <<c>> = <<"}">> <=> c = "}"
  OBVIOUS
<1> QED BY <1>2, <1>3, <1>4, Zenon DEF Opens, c

\* A lexeme that does not end the object is passed over.
LEMMA LexemeIsScanned ==
    ASSUME NEW text, NEW start, NEW d \in Nat, IsOpen(text, start, Outside(d)),
           NEW lexeme, IsText(lexeme), IsLexeme(lexeme), GoesOn(d, lexeme[1])
    PROVE  /\ d + Opens(lexeme) \in Nat
           /\ d + Opens(lexeme) # 0 => IsOpen(Then(text, lexeme), start, Outside(d + Opens(lexeme)))
<1>1. CASE IsStringLexeme(lexeme)
  <2>1. lexeme[1] = "\""
    BY <1>1 DEF IsStringLexeme
  <2>2. lexeme # <<"{">> /\ lexeme # <<"}">>
    <3>1. \A c : lexeme = <<c>> => lexeme[1] = c
      OBVIOUS
    <3> QED BY <2>1, <3>1, Zenon
  <2>3. Opens(lexeme) = 0 /\ d # 0
    BY <2>1, <2>2, Zenon DEF Opens, GoesOn
  <2>4. d \in Nat \ {0} /\ d + Opens(lexeme) = d
    BY <2>3
  <2>5. IsOpen(Then(text, lexeme), start, Outside(d))
    BY <1>1, <2>4, StringIsScanned
  <2> QED BY <2>4, <2>5
<1>2. CASE Len(lexeme) = 1 /\ lexeme[1] # "\""
  <2> DEFINE c == lexeme[1]
             e == d + Opens(lexeme)
  <2>1. lexeme = <<c>> /\ ~IsQuote(c)
        /\ Opens(lexeme) = (IF c = "{" THEN 1 ELSE IF c = "}" THEN -1 ELSE 0)
        /\ GoesOn(d, c)
    BY <1>2, SymbolLexeme, Zenon DEF IsQuote
  <2> HIDE DEF c
  <2>4. ScanStep(Outside(d), c) = Outside(e) /\ e \in Nat
    BY <2>1, SymbolIsScanned, Zenon
  <2> HIDE DEF e
  <2>5. e # 0 => IsOpen(Append(text, c), start, Outside(e))
    BY <2>4, NoEnd, StaysOpen
  <2>6. Append(text, c) = Then(text, lexeme)
    BY <2>1, TextFacts DEF IsOpen
  <2> QED BY <2>4, <2>5, <2>6 DEF e
<1> QED BY <1>1, <1>2 DEF IsLexeme

\* The least number of a set.
LEMMA LeastIs ==
    ASSUME NEW S, NEW least \in S, least \in Int, S \subseteq Int, \A i \in S : least <= i
    PROVE  Min(S) = least
<1>1. \E x \in S : \A y \in S : x =< y
  OBVIOUS
<1>2. Min(S) \in S /\ \A y \in S : Min(S) =< y
  BY <1>1 DEF Min
<1> HIDE DEF Min
<1>3. Min(S) \in Int /\ least <= Min(S) /\ Min(S) =< least
  BY <1>2
<1> QED BY <1>3

\* A text's end is at the same place when something follows it.
LEMMA PartOfLonger ==
    ASSUME NEW text, IsText(text), NEW other, IsText(other), NEW start \in 1..Len(text)
    PROVE  SubSeq(Then(text, other), start, Len(text)) = SubSeq(text, start, Len(text))
<1>1. PICK S : text \in Seq(S) /\ other \in Seq(S)
  BY CommonSymbols, Zenon
<1>2. SubSeq(text \o other, start, Len(text)) = SubSeq(text, start, Len(text))
  BY <1>1
<1> QED BY <1>2 DEF Then

\* The braces; an SMT solver is better not shown the strings.
Opening == "{"
Closing == "}"

\* An object begins at start, with the first brace of text.
BeginsAt(text, start) ==
    /\ IsText(text) /\ start \in Nat \ {0} /\ start <= Len(text)
    /\ text[start] = Opening /\ \A i \in 1..(start - 1) : text[i] # Opening

\* An object that begins at start ends at end.
EndsAt(text, start, end) ==
    /\ end \in Nat /\ start <= end /\ end <= Len(text)
    /\ Closes(text[end], Scanned(text, start, end))
    /\ \A i \in start..(end - 1) : ~Closes(text[i], Scanned(text, start, i))

\* What begins and ends there is found.
LEMMA BeginningIsFound ==
    ASSUME NEW text, NEW start, BeginsAt(text, start)
    PROVE  SelectInSeq(text, LAMBDA c : c = "{") = start
<1> DEFINE First == {i \in 1..Len(text) : text[i] = Opening}
<1>1. start \in Nat \ {0} /\ Len(text) \in Nat /\ start <= Len(text) /\ text[start] = Opening
      /\ \A i \in 1..(start - 1) : text[i] # Opening
  BY FirstSymbols DEF BeginsAt
<1>2. start \in First /\ First \subseteq Int /\ start \in Int
  BY <1>1
<1>3. ASSUME NEW i \in First PROVE start <= i
  <2>1. i \in 1..Len(text) /\ i \notin 1..(start - 1)
    BY <1>1
  <2> HIDE DEF First
  <2> QED BY <1>1, <2>1
<1>4. First # {}
  BY <1>2, Zenon
<1>5. SelectInSeq(text, LAMBDA c : c = "{") = Min(First)
  BY <1>4, Zenon DEF SelectInSeq, First, Opening
<1> HIDE DEF First
<1>6. Min(First) = start
  BY <1>2, <1>3, LeastIs
<1> QED BY <1>5, <1>6, Zenon

\* From where it begins to where it ends, an object is what is found.
LEMMA ObjectIsFound ==
    ASSUME NEW text, NEW start, NEW end, BeginsAt(text, start), EndsAt(text, start, end)
    PROVE  TryExtractFirstJsonObject(text) = SubSeq(text, start, end)
<1> DEFINE ends == {i \in start..Len(text) :
                      text[i] = "}" /\ Scanned(text, start, i).depth = 0 /\ ~Scanned(text, start, i).inString}
<1>1. start \in Nat \ {0} /\ Len(text) \in Nat /\ end \in Nat /\ start <= end /\ end <= Len(text)
  BY FirstSymbols DEF BeginsAt, EndsAt
<1>2. \A i : i \in ends <=> i \in start..Len(text) /\ Closes(text[i], Scanned(text, start, i))
  BY Zenon DEF Closes
<1> HIDE DEF ends
<1>3. end \in ends
  BY <1>1, <1>2 DEF EndsAt
<1>4. \A i \in ends : i \in start..Len(text) /\ i \notin start..(end - 1)
  BY <1>2 DEF EndsAt
<1>5. Min(ends) = end
  <2>1. ends \subseteq Int /\ end \in Int /\ \A i \in ends : end <= i
    BY <1>1, <1>4
  <2> QED BY <1>3, <2>1, LeastIs
<1>6. start # 0 /\ ends # {}
  BY <1>1, <1>3
<1>7. SelectInSeq(text, LAMBDA c : c = "{") = start
  BY BeginningIsFound, Zenon
<1>8. TryExtractFirstJsonObject(text) = SubSeq(text, start, Min(ends))
  BY <1>6, <1>7, Zenon DEF TryExtractFirstJsonObject, ends
<1> QED BY <1>5, <1>8

\* The states in which one brace is open, and none, outside strings.
OneOpen  == Outside(1)
NoneOpen == Outside(0)

\* The last brace closes the object.
LEMMA LastBrace ==
    /\ ScanStep(OneOpen, Closing) = NoneOpen
    /\ Closes(Closing, NoneOpen)
<1>1. ScanStep(Outside(1), Closing) = Outside(1 - 1) /\ 1 - 1 = 0
  <2>1. 1 \in Int /\ 1 - 1 = 0
    OBVIOUS
  <2> QED BY <2>1, BraceSteps, Zenon DEF Closing
<1>2. ScanStep(OneOpen, Closing) = NoneOpen
  BY <1>1 DEF OneOpen, NoneOpen
<1>3. Closes(Closing, NoneOpen)
  <2>1. NoneOpen.depth = 0 /\ ~NoneOpen.inString
    BY DEF NoneOpen, Outside
  <2> QED BY <2>1, Zenon DEF Closes, Closing
<1> QED BY <1>2, <1>3

\* The object ends with the brace that closes its first one, whatever follows.
LEMMA EndIsFound ==
    ASSUME NEW text, NEW start, IsOpen(text, start, OneOpen), BeginsAt(text, start), NEW after, IsText(after)
    PROVE  EndsAt(Then(Append(text, Closing), after), start, Len(text) + 1)
<1>1. Len(text) \in Nat /\ IsText(text) /\ start \in Nat \ {0}
  BY FirstSymbols DEF IsOpen
<1>2. start <= Len(text)
  BY DEF BeginsAt
<1>3. /\ IsText(Append(text, Closing)) /\ Len(Append(text, Closing)) = Len(text) + 1
      /\ Append(text, Closing)[Len(text) + 1] = Closing /\ \A i \in 1..Len(text) : Append(text, Closing)[i] = text[i]
  BY <1>1, OneLonger
<1>4. Scanned(Append(text, Closing), start, Len(text) + 1) = NoneOpen
  <2>1. Scanned(Append(text, Closing), start, Len(text) + 1) = ScanStep(OneOpen, Closing)
    BY ScansNext
  <2> QED BY <2>1, LastBrace, Zenon
<1>5. \A i \in start..Len(text) : ~Closes(text[i], Scanned(text, start, i))
  BY Zenon DEF IsOpen
<1>6. \A i \in start..Len(text) : Scanned(Append(text, Closing), start, i) = Scanned(text, start, i)
  BY ScansNext
<1>7. Len(after) \in Nat
  BY FirstSymbols
<1> DEFINE closed == Append(text, Closing)
           n == Len(text)
           all == Then(closed, after)
<1>8. Len(all) = Len(closed) + Len(after) /\ \A i \in 1..Len(closed) : all[i] = closed[i]
  <2> HIDE DEF closed
  <2>1. IsText(closed)
    BY <1>3 DEF closed
  <2> QED BY <2>1, Longer
<1> HIDE DEF all, closed, n
<1>9. /\ n \in Nat /\ start \in Nat \ {0} /\ start <= n /\ Len(closed) = n + 1
      /\ closed[n + 1] = Closing /\ \A i \in 1..n : closed[i] = text[i]
  BY <1>1, <1>2, <1>3, Zenon DEF closed, n
<1>10. /\ Scanned(closed, start, n + 1) = NoneOpen
       /\ \A i \in start..n : /\ ~Closes(text[i], Scanned(text, start, i))
                              /\ Scanned(closed, start, i) = Scanned(text, start, i)
  BY <1>4, <1>5, <1>6, Zenon DEF closed, n
<1>11. Len(all) \in Nat /\ n + 1 <= Len(all) /\ \A i \in 1..(n + 1) : all[i] = closed[i]
  <2>1. \A i \in 1..(n + 1) : all[i] = closed[i]
    BY <1>8, <1>9
  <2>2. Len(all) = (n + 1) + Len(after)
    BY <1>8, <1>9
  <2> QED BY <1>7, <1>9, <2>1, <2>2
<1>12. n + 1 \in start..(n + 1) /\ n + 1 \in 1..(n + 1) /\ start <= n + 1 /\ n + 1 \in Nat /\ (n + 1) - 1 = n
  BY <1>9
<1>13. \A i \in start..n : i \in start..(n + 1) /\ i \in 1..(n + 1) /\ i \in 1..n
  BY <1>9
<1>14. \A i \in start..(n + 1) : Scanned(all, start, i) = Scanned(closed, start, i)
  <2>1. ASSUME NEW i \in Nat, start - 1 <= i, i <= n + 1
        PROVE  Scanned(all, start, i) = Scanned(closed, start, i)
    <3>1. \A j \in start..i : all[j] = closed[j]
      BY <1>9, <1>11, <2>1
    <3>2. start \in Nat \ {0}
      BY <1>9
    <3>3. i \in Nat /\ start - 1 <= i
      BY <2>1
    <3> QED BY <3>1, <3>2, <3>3, ScansOn
  <2>2. \A i \in start..(n + 1) : i \in Nat /\ start - 1 <= i /\ i <= n + 1
    BY <1>9
  <2> QED BY <2>1, <2>2
<1>15. Closes(all[n + 1], Scanned(all, start, n + 1))
  <2>1. all[n + 1] = Closing /\ Scanned(all, start, n + 1) = NoneOpen
    BY <1>9, <1>10, <1>11, <1>12, <1>14
  <2> QED BY <2>1, LastBrace, Zenon
<1>16. ASSUME NEW i \in start..n PROVE ~Closes(all[i], Scanned(all, start, i))
  <2>1. all[i] = text[i] /\ Scanned(all, start, i) = Scanned(text, start, i)
    BY <1>9, <1>10, <1>11, <1>13, <1>14
  <2> QED BY <1>10, <2>1
<1>17. EndsAt(all, start, n + 1)
  BY <1>11, <1>12, <1>15, <1>16 DEF EndsAt
<1> QED BY <1>17, Zenon DEF n, all, closed

\* An object begins where it began, whatever follows.
LEMMA StillBegins ==
    ASSUME NEW text, NEW start, BeginsAt(text, start), NEW other, IsText(other)
    PROVE  BeginsAt(Then(text, other), start)
<1>1. /\ IsText(text) /\ start \in Nat \ {0} /\ start <= Len(text)
      /\ text[start] = Opening /\ \A i \in 1..(start - 1) : text[i] # Opening
  BY DEF BeginsAt
<1>2. IsText(Then(text, other))
  BY <1>1, ThenIs
<1>3. /\ Len(text) \in Nat /\ Len(other) \in Nat /\ Len(Then(text, other)) = Len(text) + Len(other)
      /\ \A i \in 1..Len(text) : Then(text, other)[i] = text[i]
  BY <1>1, Longer, FirstSymbols
<1> QED BY <1>1, <1>2, <1>3 DEF BeginsAt

\* The first symbol of an object is its first brace.
LEMMA ObjectBegins ==
    ASSUME NEW before, IsText(before), \A i \in 1..Len(before) : before[i] # Opening
    PROVE  /\ BeginsAt(Then(before, <<Opening>>), Len(before) + 1)
           /\ IsOpen(before, Len(before) + 1, Outside(0))
<1>1. Len(before) \in Nat
  BY FirstSymbols
<1>2. /\ IsText(Append(before, Opening)) /\ Len(Append(before, Opening)) = Len(before) + 1
      /\ Append(before, Opening)[Len(before) + 1] = Opening
      /\ \A i \in 1..Len(before) : Append(before, Opening)[i] = before[i]
  BY OneLonger
<1>3. BeginsAt(Append(before, Opening), Len(before) + 1)
  BY <1>1, <1>2 DEF BeginsAt
<1>4. Append(before, Opening) = Then(before, <<Opening>>)
  BY TextFacts
<1>5. IsOpen(before, Len(before) + 1, Outside(0))
  <2>1. (Len(before) + 1) - 1 = Len(before) /\ Len(before) + 1 \in Nat \ {0} /\ (Len(before) + 1)..Len(before) = {}
    BY <1>1
  <2>2. Scanned(before, Len(before) + 1, (Len(before) + 1) - 1) = ScanStart
    BY <2>1, ScansOn
  <2>3. Scanned(before, Len(before) + 1, Len(before)) = Outside(0)
    BY <2>1, <2>2 DEF ScanStart, Outside
  <2> QED BY <1>1, <2>1, <2>3 DEF IsOpen
<1> QED BY <1>3, <1>4, <1>5

\* What the lexemes of an object's text are.
LEMMA ObjectTextIs ==
    ASSUME NEW lexemes, IsObjectText(lexemes)
    PROVE  /\ lexemes # <<>> /\ lexemes[1] = <<Opening>>
           /\ \A i \in DOMAIN lexemes : IsLexeme(lexemes[i])
           /\ \A n \in DOMAIN lexemes : OpenBraces(lexemes, n) = 0 <=> n = Len(lexemes)
  BY Zenon DEF IsObjectText, Opening

\* A lexeme opens one brace, closes one or does neither.
LEMMA OpensIs ==
    ASSUME NEW lexeme
    PROVE  /\ Opens(lexeme) \in {1, 0, -1}
           /\ Opens(lexeme) = -1 => lexeme = <<Closing>>
<1>1. CASE lexeme = <<"{">>
  <2>1. Opens(lexeme) = 1
    BY <1>1, Zenon DEF Opens
  <2> QED BY ONLY <2>1
<1>2. CASE lexeme # <<"{">> /\ lexeme = <<"}">>
  <2>1. Opens(lexeme) = -1 /\ lexeme = <<Closing>>
    BY <1>2, Zenon DEF Opens, Closing
  <2> QED BY ONLY <2>1
<1>3. CASE lexeme # <<"{">> /\ lexeme # <<"}">>
  <2>1. Opens(lexeme) = 0
    BY <1>3, Zenon DEF Opens
  <2> QED BY ONLY <2>1
<1> QED BY <1>1, <1>2, <1>3, Zenon

\* Up to its last lexeme the object is open, and its first brace is found.
LEMMA ObjectStaysOpen ==
    ASSUME NEW lexemes, AreTexts(lexemes), IsObjectText(lexemes),
           NEW before, IsText(before), \A i \in 1..Len(before) : before[i] # Opening,
           NEW h, h[0] = before,
           \A i \in 1..Len(lexemes) : IsText(h[i - 1]) /\ h[i] = Then(h[i - 1], lexemes[i])
    PROVE  /\ Len(lexemes) \in Nat \ {0, 1} /\ lexemes[Len(lexemes)] = <<Closing>>
           /\ BeginsAt(h[Len(lexemes) - 1], Len(before) + 1)
           /\ IsOpen(h[Len(lexemes) - 1], Len(before) + 1, OneOpen)
<1> DEFINE n == Len(lexemes)
           start == Len(before) + 1
           d(i) == OpenBraces(lexemes, i)
           T == {i \in 0..n : /\ d(i) \in Nat
                              /\ i # 0 => BeginsAt(h[i], start)
                              /\ i # n => IsOpen(h[i], start, Outside(d(i)))}
<1>1. n \in Nat /\ DOMAIN lexemes = 1..n /\ \A i \in 1..n : IsText(lexemes[i])
  <2>1. IsText(lexemes)
    BY DEF AreTexts, IsText
  <2> QED BY <2>1, TextFacts, FirstSymbols
<1>2. BeginsAt(Then(before, <<Opening>>), start) /\ IsOpen(before, start, Outside(0))
  BY ObjectBegins
<1>3. /\ n # 0 /\ lexemes[1] = <<Opening>>
      /\ \A i \in 1..n : IsLexeme(lexemes[i])
      /\ \A i \in 1..n : d(i) = 0 <=> i = n
  <2>1. n # 0
    <3>1. lexemes # <<>>
      BY ObjectTextIs
    <3>2. PICK S : lexemes \in Seq(S)
      BY DEF AreTexts
    <3> QED BY <3>1, <3>2
  <2> QED BY <1>1, <2>1, ObjectTextIs
<1>4. d(0) = 0 /\ \A i \in 1..n : d(i - 1) \in Int /\ d(i) = d(i - 1) + Opens(lexemes[i])
  <2>1. \A i \in 1..n : i \in Nat \ {0}
    BY <1>1
  <2> QED BY <2>1, OpenBracesOn
<1>5. \A i \in 1..n : IsText(h[i - 1]) /\ h[i] = Then(h[i - 1], lexemes[i])
  OBVIOUS
<1>6. h[0] = before
  OBVIOUS
<1> HIDE DEF n, start, d
<1>7. 0 \in T
  BY <1>1, <1>2, <1>4, <1>6
<1>8. ASSUME NEW i \in 1..n, i - 1 \in T PROVE i \in T
  <2>1. i - 1 # n /\ i \in 0..n /\ (i - 1 = 0 <=> i = 1) /\ (i - 1 # 0 => i - 1 \in 1..n)
    BY <1>1
  <2>2. d(i - 1) \in Nat /\ IsOpen(h[i - 1], start, Outside(d(i - 1))) /\ (i - 1 # 0 => BeginsAt(h[i - 1], start))
    BY <1>8, <2>1
  <2> HIDE DEF T
  <2>3. GoesOn(d(i - 1), lexemes[i][1])
    <3>1. d(i - 1) = 0 => i = 1
      BY <1>3, <2>1
    <3>2. <<Opening>>[1] = Opening
      OBVIOUS
    <3>3. i = 1 => lexemes[i][1] = Opening
      BY <1>3, <3>2
    <3> QED BY <3>1, <3>3, Zenon DEF GoesOn, Opening
  <2>4. IsText(lexemes[i]) /\ IsLexeme(lexemes[i])
    BY <1>1, <1>3
  <2>5. /\ d(i - 1) + Opens(lexemes[i]) \in Nat
        /\ d(i - 1) + Opens(lexemes[i]) # 0 =>
              IsOpen(Then(h[i - 1], lexemes[i]), start, Outside(d(i - 1) + Opens(lexemes[i])))
    BY <2>2, <2>3, <2>4, LexemeIsScanned
  <2>6. d(i) \in Nat /\ (d(i) # 0 => IsOpen(h[i], start, Outside(d(i))))
    <3>1. d(i) = d(i - 1) + Opens(lexemes[i]) /\ h[i] = Then(h[i - 1], lexemes[i])
      BY <1>4, <1>5
    <3> QED BY <2>5, <3>1
  <2>7. i # n => d(i) # 0
    BY <1>3
  <2>8. BeginsAt(h[i], start)
    <3>1. CASE i = 1
      <4>1. h[1] = Then(before, <<Opening>>)
        <5>1. 1 \in 1..n /\ 1 - 1 = 0
          BY <3>1
        <5> QED BY <1>3, <1>5, <1>6, <5>1
      <4> QED BY <1>2, <3>1, <4>1, Zenon
    <3>2. CASE i # 1
      <4>1. BeginsAt(h[i - 1], start)
        BY <2>1, <2>2, <3>2
      <4>2. BeginsAt(Then(h[i - 1], lexemes[i]), start)
        BY <2>4, <4>1, StillBegins
      <4> QED BY <1>5, <4>2
    <3> QED BY <3>1, <3>2
  <2> QED BY <2>1, <2>6, <2>7, <2>8 DEF T
<1>9. \A i \in 0..n : i \in T
  <2> HIDE DEF T
  <2>1. ASSUME NEW m \in 0..n PROVE m \in T
    <3>1. m \in Nat /\ \A i \in 1..m : i \in 1..n
      BY <1>1
    <3> QED BY <1>7, <1>8, <3>1, InductionTo
  <2> QED BY <2>1
<1>10. n # 1
  <2>1. SUFFICES ASSUME n = 1 PROVE FALSE
    OBVIOUS
  <2>2. d(1) = 0 /\ d(1) = d(0) + Opens(lexemes[1])
    <3>1. 1 \in 1..n /\ 1 - 1 = 0
      BY <2>1
    <3> QED BY <1>3, <1>4, <2>1, <3>1
  <2>3. Opens(lexemes[1]) = 1
    BY <1>3, Zenon DEF Opens, Opening
  <2> QED BY ONLY <1>4, <2>2, <2>3
<1>11. n \in 1..n /\ n - 1 \in 1..n /\ n - 1 \in 0..n /\ n - 1 # n /\ n - 1 # 0
  BY <1>1, <1>3, <1>10
<1>12. d(n - 1) \in Nat /\ BeginsAt(h[n - 1], start) /\ IsOpen(h[n - 1], start, Outside(d(n - 1)))
  BY <1>9, <1>11
<1>13. d(n) = 0 /\ d(n - 1) # 0 /\ d(n) = d(n - 1) + Opens(lexemes[n])
  BY <1>3, <1>4, <1>11
<1>14. d(n - 1) = 1 /\ Opens(lexemes[n]) = -1
  <2>1. Opens(lexemes[n]) \in {1, 0, -1}
    BY OpensIs
  <2> QED BY <1>12, <1>13, <2>1
<1>15. lexemes[n] = <<Closing>>
  BY <1>14, OpensIs
<1> QED BY <1>1, <1>3, <1>10, <1>12, <1>14, <1>15 DEF n, start, OneOpen

\* The object of a command's output is found, whatever is printed after it, and
\* before it but a brace: the strings in it, with the braces, the quotes and the
\* backslashes in them, do not mislead TryExtractFirstJsonObject.
THEOREM FirstObjectIsFound ==
    ASSUME NEW lexemes, AreTexts(lexemes), IsObjectText(lexemes),
           NEW before, IsText(before), Opening \notin ToSet(before), NEW after, IsText(after)
    PROVE  TryExtractFirstJsonObject(before \o FlattenSeq(lexemes) \o after) = FlattenSeq(lexemes)
<1> DEFINE n == Len(lexemes)
           start == Len(before) + 1
           object == FlattenSeq(lexemes)
<1>1. \A i \in 1..Len(before) : before[i] # Opening
  <2>1. \A i \in 1..Len(before) : before[i] \in ToSet(before)
    <3>1. DOMAIN before = 1..Len(before)
      BY FirstSymbols
    <3> QED BY <3>1 DEF ToSet
  <2> QED BY <2>1, Zenon
<1>2. IsText(object)
  <2>1. IsText(<<>>)
    BY TextFacts
  <2> QED BY <2>1, FlattenedAfter
<1>3. PICK h : /\ h[0] = before
               /\ \A i \in 1..n : IsText(h[i - 1]) /\ h[i] = Then(h[i - 1], lexemes[i])
               /\ h[n] = Then(before, object)
  BY FlattenedAfter
<1> DEFINE text == h[n - 1]
           closed == Append(text, Closing)
           all == Then(closed, after)
<1>4. /\ n \in Nat \ {0, 1} /\ lexemes[n] = <<Closing>>
      /\ BeginsAt(text, start) /\ IsOpen(text, start, OneOpen)
  BY <1>1, <1>3, ObjectStaysOpen
<1>5. IsText(text) /\ start \in Nat \ {0} /\ start <= Len(text) /\ Len(text) \in Nat
  BY <1>4, FirstSymbols DEF BeginsAt
<1> HIDE DEF n, object, start
<1>6. closed = Then(before, object) /\ closed = Then(text, <<Closing>>)
  <2>1. n \in 1..n
    BY <1>4
  <2>2. h[n] = Then(text, <<Closing>>)
    BY <1>3, <1>4, <2>1
  <2>3. closed = Then(text, <<Closing>>)
    BY <1>5, TextFacts
  <2> QED BY <1>3, <2>2, <2>3
<1> HIDE DEF text
<1>7. EndsAt(all, start, Len(text) + 1)
  BY <1>4, EndIsFound
<1>8. IsText(closed) /\ Len(closed) = Len(text) + 1
  BY <1>5, OneLonger
<1>9. BeginsAt(all, start)
  <2>1. BeginsAt(Then(text, <<Closing>>), start)
    BY <1>4, TextFacts, StillBegins
  <2>2. BeginsAt(closed, start)
    BY <1>6, <2>1, Zenon
  <2> HIDE DEF closed
  <2> QED BY <2>2, StillBegins
<1> HIDE DEF closed
<1>10. SubSeq(all, start, Len(closed)) = object
  <2>1. start \in 1..Len(closed)
    BY <1>5, <1>8
  <2>2. SubSeq(all, start, Len(closed)) = SubSeq(closed, start, Len(closed))
    BY <1>8, <2>1, PartOfLonger
  <2>3. Len(closed) = Len(before) + Len(object)
        /\ SubSeq(Then(before, object), Len(before) + 1, Len(before) + Len(object)) = object
    BY <1>2, <1>6, Longer
  <2> QED BY <1>6, <2>2, <2>3 DEF start
<1> HIDE DEF all
<1>11. TryExtractFirstJsonObject(all) = SubSeq(all, start, Len(text) + 1)
  BY <1>7, <1>9, ObjectIsFound
<1>12. all = before \o object \o after
  BY <1>6, Zenon DEF all, Then
<1> QED BY <1>8, <1>10, <1>11, <1>12 DEF object

-------------------------------------------------------------------------------
(* The command.                                                            *)

\* The first n parts are texts, and what they are together.
TextsTo(parts, n) == n \in Nat /\ \A i \in 1..n : IsText(parts[i])
UpTo(parts, n) == FlattenSeq([i \in 1..n |-> parts[i]])

\* What parts are together depends on nothing else.
LEMMA PutsTogetherOnce ==
    ASSUME NEW n \in Nat, NEW f, NEW g, NEW parts, NEW others,
           PutsTogether(f, parts, n), PutsTogether(g, others, n), \A i \in 1..n : parts[i] = others[i]
    PROVE  f[n] = g[n]
<1> DEFINE T == {i \in 0..n : f[i] = g[i]}
<1>1. 0 \in T
  BY DEF PutsTogether
<1>2. ASSUME NEW i \in 1..n, i - 1 \in T PROVE i \in T
  <2>1. f[i] = f[i - 1] \o parts[i] /\ g[i] = g[i - 1] \o others[i] /\ parts[i] = others[i]
    BY DEF PutsTogether
  <2>2. f[i - 1] = g[i - 1] /\ i \in 0..n
    BY <1>2
  <2>3. f[i] = g[i]
    BY <2>1, <2>2, Zenon
  <2> QED BY <2>2, <2>3
<1> HIDE DEF T
<1>3. n \in T
  BY <1>1, <1>2, InductionTo
<1> QED BY <1>3 DEF T

\* What n parts are together is a text, made of the parts one by one.
LEMMA UpToOn ==
    ASSUME NEW parts, NEW n, TextsTo(parts, n)
    PROVE  /\ UpTo(parts, 0) = <<>>
           /\ \A p \in 0..n : IsText(UpTo(parts, p))
           /\ \A p \in 1..n : UpTo(parts, p) = Then(UpTo(parts, p - 1), parts[p])
<1> DEFINE First(p) == [i \in 1..p |-> parts[i]]
<1>0. n \in Nat /\ \A i \in 1..n : IsText(parts[i])
  BY DEF TextsTo
<1>1. ASSUME NEW p \in 0..n
      PROVE  \E f : PutsTogether(f, parts, p) /\ f[p] = UpTo(parts, p) /\ IsText(f[p])
  <2>1. p \in Nat /\ First(p) = [i \in 1..p |-> First(p)[i]] /\ \A i \in 1..p : First(p)[i] = parts[i] /\ IsText(parts[i])
    BY <1>0
  <2> HIDE DEF First
  <2>2. AreTexts(First(p)) /\ Len(First(p)) = p
    <3>1. \A i \in 1..p : IsText(First(p)[i])
      BY <2>1
    <3> QED BY <2>1, <3>1, AreTextsIf
  <2>3. PICK S : First(p) \in Seq(Seq(S))
    BY <2>2 DEF AreTexts
  <2>4. PICK f \in [0..p -> Seq(S)] : PutsTogether(f, First(p), p) /\ FlattenSeq(First(p)) = f[p]
    BY <2>2, <2>3, Flattened
  <2>5. PutsTogether(f, parts, p)
    BY <2>1, <2>4, Zenon DEF PutsTogether
  <2>6. IsText(f[p])
    BY <2>1, <2>4 DEF IsText
  <2> QED BY <2>4, <2>5, <2>6 DEF UpTo, First
<1>2. \A p \in 0..n : IsText(UpTo(parts, p))
  BY <1>1, Zenon
<1>3. UpTo(parts, 0) = <<>>
  <2>1. 0 \in 0..n
    BY <1>0
  <2> QED BY <1>1, <2>1, Zenon DEF PutsTogether
<1>4. ASSUME NEW p \in 1..n PROVE UpTo(parts, p) = Then(UpTo(parts, p - 1), parts[p])
  <2>1. p \in 0..n /\ p - 1 \in 0..n /\ p - 1 \in Nat /\ p \in 1..p /\ 1..(p - 1) \subseteq 1..p
    BY <1>0
  <2>2. PICK f : PutsTogether(f, parts, p) /\ f[p] = UpTo(parts, p)
    BY <1>1, <2>1
  <2>3. PICK g : PutsTogether(g, parts, p - 1) /\ g[p - 1] = UpTo(parts, p - 1)
    BY <1>1, <2>1
  <2>4. PutsTogether(f, parts, p - 1) /\ f[p] = f[p - 1] \o parts[p]
    BY <2>1, <2>2 DEF PutsTogether
  <2>5. f[p - 1] = g[p - 1]
    BY <2>1, <2>3, <2>4, PutsTogetherOnce
  <2> QED BY <2>2, <2>3, <2>4, <2>5, Zenon DEF Then
<1> QED BY <1>2, <1>3, <1>4

\* A part of a text, after its first symbols.
IsPart(text, first, part) == \A j \in 1..Len(part) : text[first + j] = part[j]

\* Where the parts are: what is put together stays a part of what follows.
LEMMA PartsAreThere ==
    ASSUME NEW parts, NEW n, TextsTo(parts, n)
    PROVE  /\ Len(UpTo(parts, 0)) = 0
           /\ \A p \in 0..n : Len(UpTo(parts, p)) \in Nat
           /\ \A p \in 1..n : Len(UpTo(parts, p)) = Len(UpTo(parts, p - 1)) + Len(parts[p])
           /\ \A p \in 0..n : \A q \in p..n :
                 /\ Len(UpTo(parts, p)) <= Len(UpTo(parts, q))
                 /\ \A j \in 1..Len(UpTo(parts, p)) : UpTo(parts, q)[j] = UpTo(parts, p)[j]
           /\ \A p \in 1..n : IsPart(UpTo(parts, n), Len(UpTo(parts, p - 1)), parts[p])
<1> DEFINE U(p) == UpTo(parts, p)
           L(p) == Len(U(p))
<1>0. n \in Nat /\ \A i \in 1..n : IsText(parts[i])
  BY DEF TextsTo
<1>1. U(0) = <<>> /\ (\A p \in 0..n : IsText(U(p))) /\ (\A p \in 1..n : U(p) = Then(U(p - 1), parts[p]))
  BY UpToOn, Zenon
<1> HIDE DEF U
<1>2. ASSUME NEW p \in 1..n
      PROVE  /\ L(p - 1) \in Nat /\ L(p) \in Nat /\ Len(parts[p]) \in Nat /\ L(p) = L(p - 1) + Len(parts[p])
             /\ \A j \in 1..L(p - 1) : U(p)[j] = U(p - 1)[j]
             /\ \A j \in 1..Len(parts[p]) : U(p)[L(p - 1) + j] = parts[p][j]
  <2>1. p - 1 \in 0..n /\ p \in 0..n
    BY <1>0
  <2>2. IsText(U(p - 1)) /\ IsText(U(p)) /\ IsText(parts[p]) /\ U(p) = Then(U(p - 1), parts[p])
    BY <1>0, <1>1, <2>1
  <2>3. Len(parts[p]) \in Nat
    BY <2>2, FirstSymbols, Zenon
  <2> DEFINE a == U(p - 1)
             b == parts[p]
             c == U(p)
  <2> HIDE DEF a, b, c
  <2>4. IsText(a) /\ IsText(b) /\ c = Then(a, b)
    BY <2>2 DEF a, b, c
  <2>5. /\ Len(a) \in Nat /\ Len(Then(a, b)) = Len(a) + Len(b) /\ Len(Then(a, b)) \in Nat
        /\ \A j \in 1..Len(a) : Then(a, b)[j] = a[j]
        /\ \A j \in 1..Len(b) : Then(a, b)[Len(a) + j] = b[j]
    BY <2>4, Longer
  <2>6. /\ Len(a) \in Nat /\ Len(c) = Len(a) + Len(b) /\ Len(c) \in Nat
        /\ \A j \in 1..Len(a) : c[j] = a[j]
        /\ \A j \in 1..Len(b) : c[Len(a) + j] = b[j]
    BY <2>4, <2>5, Zenon
  <2> QED BY <2>3, <2>6 DEF a, b, c
<1>3. \A p \in 0..n : L(p) \in Nat
  BY <1>1, FirstSymbols
<1>4. L(0) = 0
  BY <1>1
<1>5. ASSUME NEW p \in 0..n, NEW q \in p..n
      PROVE  L(p) <= L(q) /\ \A j \in 1..L(p) : U(q)[j] = U(p)[j]
  <2> DEFINE Keeps(r) == L(p) <= L(r) /\ \A j \in 1..L(p) : U(r)[j] = U(p)[j]
             T == {k \in Nat : p + k <= n => Keeps(p + k)}
  <2>1. 0 \in T
    <3>1. p + 0 = p /\ L(p) \in Nat
      BY <1>3
    <3>2. Keeps(p)
      BY <3>1
    <3> HIDE DEF Keeps
    <3> QED BY <3>1, <3>2
  <2>2. ASSUME NEW k \in Nat, k \in T PROVE k + 1 \in T
    <3> SUFFICES ASSUME p + (k + 1) <= n PROVE Keeps(p + (k + 1))
      OBVIOUS
    <3> DEFINE r == p + (k + 1)
    <3>1. r \in 1..n /\ r - 1 = p + k /\ p + k <= n
      BY <1>0
    <3>2. Keeps(r - 1)
      BY <2>2, <3>1
    <3>3. L(r - 1) \in Nat /\ L(r) \in Nat /\ Len(parts[r]) \in Nat /\ L(r) = L(r - 1) + Len(parts[r])
      BY <1>2, <3>1
    <3>4. \A j \in 1..L(r - 1) : U(r)[j] = U(r - 1)[j]
      BY <1>2, <3>1
    <3>5. L(p) \in Nat
      BY <1>3
    <3> HIDE DEF r, L
    <3>6. Keeps(r)
      BY <3>2, <3>3, <3>4, <3>5
    <3> QED BY <3>6 DEF r
  <2> HIDE DEF T
  <2>3. q - p \in Nat /\ p + (q - p) = q /\ q <= n
    BY <1>0
  <2>4. q - p \in T
    BY <2>1, <2>2, <2>3, Induction
  <2> HIDE DEF Keeps
  <2>5. Keeps(q)
    BY <2>3, <2>4 DEF T
  <2> QED BY <2>5 DEF Keeps
<1>6. ASSUME NEW p \in 1..n, NEW j \in 1..Len(parts[p]) PROVE U(n)[L(p - 1) + j] = parts[p][j]
  <2>1. /\ L(p - 1) \in Nat /\ L(p) \in Nat /\ Len(parts[p]) \in Nat /\ L(p) = L(p - 1) + Len(parts[p])
        /\ U(p)[L(p - 1) + j] = parts[p][j]
    BY <1>2
  <2>2. p \in 0..n /\ n \in p..n
    BY <1>0
  <2>3. L(p - 1) + j \in 1..L(p)
    BY <2>1
  <2>4. \A i \in 1..L(p) : U(n)[i] = U(p)[i]
    BY <1>5, <2>2
  <2> HIDE DEF L
  <2> QED BY <2>1, <2>3, <2>4
<1>7. \A p \in 1..n : IsPart(U(n), L(p - 1), parts[p])
  BY <1>6 DEF IsPart
<1> QED BY <1>2, <1>3, <1>4, <1>5, <1>7 DEF U

\* Parts that are empty add nothing.
LEMMA EmptyPartsAdd ==
    ASSUME NEW parts, NEW n, TextsTo(parts, n), NEW a \in 0..n, NEW k \in Nat, a + k <= n,
           \A j \in 1..k : parts[a + j] = <<>>
    PROVE  UpTo(parts, a + k) = UpTo(parts, a)
<1> DEFINE T == {j \in Nat : j <= k => UpTo(parts, a + j) = UpTo(parts, a)}
<1>0. n \in Nat /\ \A i \in 1..n : IsText(parts[i])
  BY DEF TextsTo
<1>1. 0 \in T
  <2>1. a + 0 = a
    OBVIOUS
  <2> QED BY <2>1
<1>2. ASSUME NEW j \in 1..k, j - 1 \in T PROVE j \in T
  <2>1. a + j \in 1..n /\ a + (j - 1) \in 0..n /\ (a + j) - 1 = a + (j - 1) /\ j - 1 <= k /\ j \in Nat
    BY <1>0
  <2> DEFINE before == UpTo(parts, a + (j - 1))
  <2>2. UpTo(parts, a + j) = Then(before, parts[a + j]) /\ IsText(before)
    BY <2>1, UpToOn
  <2>3. parts[a + j] = <<>> /\ before = UpTo(parts, a)
    BY <1>2, <2>1
  <2> HIDE DEF before
  <2>4. Then(before, <<>>) = before
    BY <2>2, ThenIs, TextFacts, Zenon
  <2> QED BY <2>1, <2>2, <2>3, <2>4
<1> HIDE DEF T
<1>3. k \in T
  BY <1>1, <1>2, InductionTo
<1> QED BY <1>3 DEF T

\* Parts that are the symbols of a text add this text.
LEMMA SymbolsAdd ==
    ASSUME NEW parts, NEW n, TextsTo(parts, n), NEW a \in 0..n, NEW text, IsText(text), a + Len(text) <= n,
           \A j \in 1..Len(text) : parts[a + j] = <<text[j]>>
    PROVE  UpTo(parts, a + Len(text)) = Then(UpTo(parts, a), text)
<1> DEFINE k == Len(text)
           First(j) == SubSeq(text, 1, j)
           T == {j \in 0..k : IsText(First(j)) /\ UpTo(parts, a + j) = Then(UpTo(parts, a), First(j))}
<1>0. n \in Nat /\ \A i \in 1..n : IsText(parts[i])
  BY DEF TextsTo
<1>1. /\ k \in Nat /\ First(0) = <<>> /\ First(k) = text
      /\ \A j \in 1..k : First(j) = Append(First(j - 1), text[j])
  BY FirstSymbols
<1>2. IsText(UpTo(parts, a))
  BY UpToOn
<1> HIDE DEF First, k
<1>3. 0 \in T
  <2>1. a + 0 = a /\ 0 \in 0..k
    BY <1>1
  <2>2. IsText(<<>>) /\ Then(UpTo(parts, a), <<>>) = UpTo(parts, a)
    BY <1>2, ThenIs, TextFacts, Zenon
  <2> QED BY <1>1, <2>1, <2>2
<1>4. ASSUME NEW j \in 1..k, j - 1 \in T PROVE j \in T
  <2>1. a + j \in 1..n /\ (a + j) - 1 = a + (j - 1) /\ j \in 0..k
    BY <1>0, <1>1 DEF k
  <2>2. IsText(First(j - 1)) /\ UpTo(parts, a + (j - 1)) = Then(UpTo(parts, a), First(j - 1))
    BY <1>4
  <2>3. UpTo(parts, a + j) = Then(UpTo(parts, a + (j - 1)), parts[a + j])
    BY <2>1, UpToOn
  <2>4. parts[a + j] = <<text[j]>>
    BY DEF k
  <2>5. First(j) = Then(First(j - 1), <<text[j]>>) /\ IsText(First(j)) /\ IsText(<<text[j]>>)
    BY <1>1, <2>2, TextFacts
  <2>6. Then(UpTo(parts, a), First(j)) = Then(Then(UpTo(parts, a), First(j - 1)), <<text[j]>>)
    <3> DEFINE u == UpTo(parts, a)
               x == First(j - 1)
               y == <<text[j]>>
    <3>1. IsText(u) /\ IsText(x) /\ IsText(y)
      BY <1>2, <2>2, <2>5
    <3> HIDE DEF u, x, y
    <3>2. Then(u, Then(x, y)) = Then(Then(u, x), y)
      BY <3>1, ThenAgain
    <3> QED BY <2>5, <3>2 DEF u, x, y
  <2>7. UpTo(parts, a + j) = Then(UpTo(parts, a), First(j))
    BY <2>2, <2>3, <2>4, <2>6, Zenon
  <2> QED BY <2>1, <2>5, <2>7
<1> HIDE DEF T
<1>5. k \in T
  BY <1>1, <1>3, <1>4, InductionTo
<1> QED BY <1>1, <1>5 DEF T, k

\* The pieces of a token as they are written, and where they are.
Spelling(pieces) == [i \in DOMAIN pieces |-> WrittenPiece(pieces[i])]

\* A token is its pieces, one after the other, each at its place.
LEMMA PiecesAreThere ==
    ASSUME NEW token, NEW pieces, IsMeaning(token, pieces)
    PROVE  /\ Len(pieces) \in Nat /\ DOMAIN pieces = 1..Len(pieces)
           /\ TextsTo(Spelling(pieces), Len(pieces)) /\ IsText(token)
           /\ token = UpTo(Spelling(pieces), Len(pieces))
           /\ \A i \in 1..Len(pieces) :
                 /\ Spelling(pieces)[i] = WrittenPiece(pieces[i]) /\ IsText(pieces[i][2])
                 /\ pieces[i][1] \in {"text", "arg"}
                 /\ PlaceOf(pieces, i) = <<Len(UpTo(Spelling(pieces), i - 1)) + 1,
                                           Len(UpTo(Spelling(pieces), i))>>
<1> DEFINE n == Len(pieces)
           parts == Spelling(pieces)
<1>1. n \in Nat /\ DOMAIN pieces = 1..n
  <2>1. IsText(pieces)
    BY DEF IsMeaning, OfSymbols, IsText
  <2> QED BY <2>1, FirstSymbols
<1>2. ASSUME NEW i \in 1..n
      PROVE  /\ parts[i] = WrittenPiece(pieces[i]) /\ IsText(pieces[i][2])
             /\ pieces[i][1] \in {"text", "arg"} /\ IsText(parts[i])
  <2>1. IsText(pieces[i][2]) /\ pieces[i][1] \in {"text", "arg"}
    BY <1>1 DEF IsMeaning, OfSymbols, IsText
  <2>2. parts[i] = WrittenPiece(pieces[i])
    BY <1>1 DEF Spelling
  <2>3. IsText(WrittenPiece(pieces[i]))
    <3>1. PICK S : pieces[i][2] \in Seq(S)
      BY <2>1 DEF IsText
    <3>2. pieces[i][2] \in Seq(S \cup {Opening, Closing})
      BY <3>1, TextsOfMore, Zenon
    <3>3. <<Opening>> \in Seq(S \cup {Opening, Closing}) /\ <<Closing>> \in Seq(S \cup {Opening, Closing})
      OBVIOUS
    <3>4. <<Opening>> \o pieces[i][2] \o <<Closing>> \in Seq(S \cup {Opening, Closing})
      BY <3>2, <3>3
    <3>5. IsText(<<Opening>> \o pieces[i][2] \o <<Closing>>)
      BY <3>4, Zenon DEF IsText
    <3>6. WrittenPiece(pieces[i]) \in {pieces[i][2], <<Opening>> \o pieces[i][2] \o <<Closing>>}
      BY Zenon DEF WrittenPiece, Opening, Closing
    <3> QED BY <2>1, <3>5, <3>6, Zenon
  <2> QED BY <2>1, <2>2, <2>3, Zenon
<1>3. TextsTo(parts, n)
  BY <1>1, <1>2 DEF TextsTo
<1>4. ASSUME NEW p \in 0..n PROVE WrittenPieces(pieces, p) = UpTo(parts, p)
  <2>1. [i \in 1..p |-> parts[i]] = [i \in 1..p |-> WrittenPiece(pieces[i])]
    BY <1>1, <1>2
  <2> QED BY <2>1, Zenon DEF UpTo, WrittenPieces
<1>5. token = UpTo(parts, n)
  BY <1>1, <1>4 DEF IsMeaning
<1>6. IsText(token)
  BY <1>1, <1>3, <1>5, UpToOn
<1>7. \A i \in 1..n : PlaceOf(pieces, i) = <<Len(UpTo(parts, i - 1)) + 1, Len(UpTo(parts, i))>>
  <2>1. \A i \in 1..n : i - 1 \in 0..n /\ i \in 0..n
    BY <1>1
  <2> QED BY <1>4, <2>1, Zenon DEF PlaceOf
<1> QED BY <1>1, <1>2, <1>3, <1>5, <1>6, <1>7, Zenon

\* Texts of the same symbols are the same.
LEMMA SameText ==
    ASSUME NEW text, IsText(text), NEW other, IsText(other), Len(text) = Len(other),
           \A i \in 1..Len(text) : text[i] = other[i]
    PROVE  text = other
<1>1. PICK S : text \in Seq(S)
  BY DEF IsText
<1>2. PICK U : other \in Seq(U)
  BY DEF IsText
<1> QED BY <1>1, <1>2

\* A part of a text is a text.
LEMMA PartOfText ==
    ASSUME NEW text, IsText(text), NEW first \in Int, NEW last \in Int,
           1 <= first, last <= Len(text)
    PROVE  /\ IsText(SubSeq(text, first, last))
           /\ Len(SubSeq(text, first, last)) = IF first <= last THEN last - first + 1 ELSE 0
           /\ \A i \in 1..(last - first + 1) : SubSeq(text, first, last)[i] = text[first + i - 1]
<1>1. PICK S : text \in Seq(S)
  BY DEF IsText
<1>2. \A i \in first..last : text[i] \in S
  BY <1>1
<1>3. /\ SubSeq(text, first, last) \in Seq(S)
      /\ Len(SubSeq(text, first, last)) = IF first <= last THEN last - first + 1 ELSE 0
      /\ \A i \in 1..(last - first + 1) : SubSeq(text, first, last)[i] = text[first + i - 1]
  BY <1>2, SubSeqProperties
<1> QED BY <1>3 DEF IsText

\* An argument between its braces.
LEMMA BracesAround ==
    ASSUME NEW name, IsText(name)
    PROVE  LET written == <<Opening>> \o name \o <<Closing>>
           IN  /\ Len(name) \in Nat /\ Len(written) = Len(name) + 2
               /\ \A j \in 1..Len(name) : written[j + 1] = name[j]
<1>1. PICK S : name \in Seq(S)
  BY DEF IsText
<1>2. PICK U : name \in Seq(U) /\ Opening \in U /\ Closing \in U
  <2>1. name \in Seq(S \cup {Opening, Closing})
    BY <1>1, TextsOfMore, Zenon
  <2> QED BY <2>1
<1> QED BY <1>2

\* The i-th piece is an argument, or not; where it is.
IsArg(pieces, i) == pieces[i][1] = "arg"
Before(pieces, i) == Len(UpTo(Spelling(pieces), i - 1))

\* A place in a piece is in a match if the piece is an argument, and in no
\* other match.
LEMMA MatchesAround ==
    ASSUME NEW token, NEW pieces, IsMeaning(token, pieces), NEW i \in 1..Len(pieces),
           NEW k \in Int, Before(pieces, i) < k, k <= Len(UpTo(Spelling(pieces), i))
    PROVE  {m \in Matches(token) : k \in m[1]..m[2]} = IF IsArg(pieces, i) THEN {PlaceOf(pieces, i)} ELSE {}
<1> DEFINE n == Len(pieces)
           L(p) == Len(UpTo(Spelling(pieces), p))
<1>1. /\ n \in Nat /\ DOMAIN pieces = 1..n /\ TextsTo(Spelling(pieces), n)
      /\ \A q \in 1..n : PlaceOf(pieces, q) = <<L(q - 1) + 1, L(q)>>
  BY PiecesAreThere
<1>2. /\ \A p \in 0..n : L(p) \in Nat
      /\ \A p \in 0..n : \A q \in p..n : L(p) <= L(q)
  BY <1>1, PartsAreThere
<1>3. L(i - 1) < k /\ k <= L(i)
  BY DEF Before
<1> HIDE DEF L, n
<1>4. ASSUME NEW q \in 1..n PROVE k \in (L(q - 1) + 1)..L(q) <=> q = i
  <2> DEFINE a == L(q - 1)
             b == L(q)
             c == L(i - 1)
             d == L(i)
  <2>0. i \in 1..n /\ i \in Int /\ q \in Int
    BY DEF n
  <2>1. a \in Nat /\ b \in Nat /\ c \in Nat /\ d \in Nat
    <3>1. q - 1 \in 0..n /\ q \in 0..n /\ i - 1 \in 0..n /\ i \in 0..n
      BY <1>1, <2>0
    <3> QED BY <1>2, <3>1
  <2>2. q < i => b <= c
    <3>1. q < i => q \in 0..n /\ i - 1 \in q..n
      BY <1>1, <2>0
    <3> QED BY <1>2, <3>1
  <2>3. q > i => d <= a
    <3>1. q > i => i \in 0..n /\ q - 1 \in i..n
      BY <1>1, <2>0
    <3> QED BY <1>2, <3>1
  <2>4. q = i => a = c /\ b = d
    OBVIOUS
  <2>5. c < k /\ k <= d
    BY <1>3
  <2> HIDE DEF a, b, c, d
  <2>6. k \in (a + 1)..b <=> q = i
    <3>1. q < i \/ q > i \/ q = i
      BY <2>0
    <3>2. CASE q < i
      BY <2>0, <2>1, <2>2, <2>5, <3>2
    <3>3. CASE q > i
      BY <2>0, <2>1, <2>3, <2>5, <3>3
    <3>4. CASE q = i
      BY <2>0, <2>1, <2>4, <2>5, <3>4
    <3> QED BY <3>1, <3>2, <3>3, <3>4
  <2> QED BY <2>6 DEF a, b
<1>5. Matches(token) = {PlaceOf(pieces, q) : q \in {j \in 1..n : IsArg(pieces, j)}}
  BY <1>1, Zenon DEF IsMeaning, IsArg
<1>6. \A q \in 1..n : PlaceOf(pieces, q)[1] = L(q - 1) + 1 /\ PlaceOf(pieces, q)[2] = L(q)
  BY <1>1
<1>7. \A q \in 1..n : k \in PlaceOf(pieces, q)[1]..PlaceOf(pieces, q)[2] <=> q = i
  BY <1>4, <1>6
<1>8. i \in 1..n
  BY DEF n
<1> QED BY <1>5, <1>7, <1>8, Zenon

\* What the i-th symbol of a token contributes to the rendered token, as
\* RenderToken has it; what a piece should.
Shown(token, args, i) ==
    LET around == {m \in Matches(token) : i \in m[1]..m[2]}
    IN  IF around = {} THEN <<token[i]>>
        ELSE LET m == CHOOSE m \in around : TRUE
             IN  IF i = m[1] THEN args[ArgName(token, m)] ELSE <<>>
ValueOf(piece, args) == IF piece[1] = "text" THEN piece[2] ELSE args[TrimCopy(piece[2])]

\* The parts one by one: how long, and where.
LEMMA PartIs ==
    ASSUME NEW parts, NEW n, TextsTo(parts, n)
    PROVE  \A i \in 1..n :
             /\ Len(UpTo(parts, i - 1)) \in Nat /\ Len(UpTo(parts, i)) \in Nat
             /\ Len(UpTo(parts, i)) = Len(UpTo(parts, i - 1)) + Len(parts[i])
             /\ Len(UpTo(parts, i)) <= Len(UpTo(parts, n))
             /\ IsPart(UpTo(parts, n), Len(UpTo(parts, i - 1)), parts[i])
<1> SUFFICES ASSUME NEW i \in 1..n
             PROVE  /\ Len(UpTo(parts, i - 1)) \in Nat /\ Len(UpTo(parts, i)) \in Nat
                    /\ Len(UpTo(parts, i)) = Len(UpTo(parts, i - 1)) + Len(parts[i])
                    /\ Len(UpTo(parts, i)) <= Len(UpTo(parts, n))
                    /\ IsPart(UpTo(parts, n), Len(UpTo(parts, i - 1)), parts[i])
  OBVIOUS
<1>1. n \in Nat
  BY DEF TextsTo
<1>2. i - 1 \in 0..n /\ i \in 0..n /\ n \in i..n
  BY <1>1
<1>3. \A p \in 0..n : Len(UpTo(parts, p)) \in Nat
  BY PartsAreThere
<1>4. \A p \in 1..n : Len(UpTo(parts, p)) = Len(UpTo(parts, p - 1)) + Len(parts[p])
  BY PartsAreThere
<1>5. \A p \in 0..n : \A q \in p..n : Len(UpTo(parts, p)) <= Len(UpTo(parts, q))
  BY PartsAreThere
<1>6. \A p \in 1..n : IsPart(UpTo(parts, n), Len(UpTo(parts, p - 1)), parts[p])
  BY PartsAreThere
<1> QED BY <1>2, <1>3, <1>4, <1>5, <1>6, Zenon

\* The numbers of the places between two braces.
LEMMA InBraces ==
    ASSUME NEW a \in Nat, NEW l \in Nat, NEW t \in Nat, NEW b, b = a + l + 2, b <= t
    PROVE  /\ (a + 1) + 1 \in Int /\ b - 1 \in Int /\ 1 <= (a + 1) + 1 /\ b - 1 <= t
           /\ (IF (a + 1) + 1 <= b - 1 THEN (b - 1) - ((a + 1) + 1) + 1 ELSE 0) = l
           /\ (b - 1) - ((a + 1) + 1) + 1 = l
  OBVIOUS

\* Where the i-th piece is, and that it is there.
LEMMA PieceIs ==
    ASSUME NEW token, NEW pieces, IsMeaning(token, pieces), NEW i \in 1..Len(pieces),
           NEW a, a = Before(pieces, i), NEW b, b = Len(UpTo(Spelling(pieces), i))
    PROVE  /\ a \in Nat /\ b \in Nat /\ b <= Len(token) /\ IsText(token) /\ Len(token) \in Nat
           /\ IsText(pieces[i][2]) /\ Len(pieces[i][2]) \in Nat
           /\ IsArg(pieces, i) =>
                 /\ b = a + Len(pieces[i][2]) + 2 /\ PlaceOf(pieces, i) = <<a + 1, b>>
                 /\ ArgName(token, PlaceOf(pieces, i)) = TrimCopy(pieces[i][2])
           /\ ~IsArg(pieces, i) =>
                 /\ pieces[i][1] = "text" /\ b = a + Len(pieces[i][2])
                 /\ \A j \in 1..Len(pieces[i][2]) : token[a + j] = pieces[i][2][j]
<1> DEFINE n == Len(pieces)
           name == pieces[i][2]
           written == Spelling(pieces)[i]
<1>1. /\ n \in Nat /\ TextsTo(Spelling(pieces), n) /\ IsText(token)
      /\ token = UpTo(Spelling(pieces), n) /\ written = WrittenPiece(pieces[i]) /\ IsText(name)
      /\ pieces[i][1] \in {"text", "arg"}
      /\ PlaceOf(pieces, i) = <<a + 1, b>>
  BY PiecesAreThere DEF Before
<1>2. i - 1 \in 0..n /\ i \in 0..n /\ n \in i..n
  BY <1>1
<1>3. /\ a \in Nat /\ b \in Nat /\ b = a + Len(written) /\ b <= Len(token)
      /\ \A j \in 1..Len(written) : token[a + j] = written[j]
  <2>1. /\ Len(UpTo(Spelling(pieces), i - 1)) \in Nat /\ Len(UpTo(Spelling(pieces), i)) \in Nat
        /\ Len(UpTo(Spelling(pieces), i)) = Len(UpTo(Spelling(pieces), i - 1)) + Len(written)
        /\ Len(UpTo(Spelling(pieces), i)) <= Len(UpTo(Spelling(pieces), n))
        /\ IsPart(UpTo(Spelling(pieces), n), Len(UpTo(Spelling(pieces), i - 1)), written)
    <3> DEFINE parts == Spelling(pieces)
    <3>1. TextsTo(parts, n) /\ i \in 1..n
      BY <1>1
    <3> HIDE DEF parts, n
    <3>2. /\ Len(UpTo(parts, i - 1)) \in Nat /\ Len(UpTo(parts, i)) \in Nat
          /\ Len(UpTo(parts, i)) = Len(UpTo(parts, i - 1)) + Len(parts[i])
          /\ Len(UpTo(parts, i)) <= Len(UpTo(parts, n))
          /\ IsPart(UpTo(parts, n), Len(UpTo(parts, i - 1)), parts[i])
      BY ONLY <3>1, PartIs
    <3> QED BY <3>2 DEF parts
  <2>2. IsPart(token, a, written)
    BY <1>1, <2>1, Zenon DEF Before
  <2> QED BY <1>1, <2>1, <2>2, Zenon DEF Before, IsPart
<1>4. Len(name) \in Nat /\ Len(token) \in Nat
  BY <1>1, FirstSymbols
<1> HIDE DEF name, written, n
<1>5. CASE IsArg(pieces, i)
  <2>1. written = <<Opening>> \o name \o <<Closing>>
    BY <1>1, <1>5, Zenon DEF WrittenPiece, IsArg, name, Opening, Closing
  <2>2. Len(written) = Len(name) + 2 /\ \A j \in 1..Len(name) : written[j + 1] = name[j]
    BY <1>1, <2>1, BracesAround
  <2>3. b = a + Len(name) + 2
    BY <1>3, <1>4, <2>2
  <2> DEFINE part == SubSeq(token, (a + 1) + 1, b - 1)
  <2>4. part = name
    <3>0. (a + 1) + 1 \in Int /\ b - 1 \in Int /\ 1 <= (a + 1) + 1 /\ b - 1 <= Len(token)
          /\ (IF (a + 1) + 1 <= b - 1 THEN (b - 1) - ((a + 1) + 1) + 1 ELSE 0) = Len(name)
          /\ (b - 1) - ((a + 1) + 1) + 1 = Len(name)
      <4>1. a \in Nat /\ b = a + Len(name) + 2 /\ b <= Len(token) /\ Len(name) \in Nat /\ Len(token) \in Nat
        BY <1>3, <1>4, <2>3
      <4> QED BY ONLY <4>1, InBraces
    <3>1. /\ IsText(part) /\ Len(part) = Len(name)
          /\ \A j \in 1..Len(name) : part[j] = token[((a + 1) + 1) + j - 1]
      <4> DEFINE first == (a + 1) + 1
                 last == b - 1
      <4>1. /\ IsText(token) /\ first \in Int /\ last \in Int /\ 1 <= first /\ last <= Len(token)
            /\ (IF first <= last THEN last - first + 1 ELSE 0) = Len(name) /\ last - first + 1 = Len(name)
        BY <1>1, <3>0
      <4> HIDE DEF first, last
      <4>2. /\ IsText(SubSeq(token, first, last))
            /\ Len(SubSeq(token, first, last)) = IF first <= last THEN last - first + 1 ELSE 0
            /\ \A j \in 1..(last - first + 1) : SubSeq(token, first, last)[j] = token[first + j - 1]
        BY ONLY <4>1, PartOfText
      <4>3. /\ IsText(SubSeq(token, first, last)) /\ Len(SubSeq(token, first, last)) = Len(name)
            /\ \A j \in 1..Len(name) : SubSeq(token, first, last)[j] = token[first + j - 1]
        BY <4>1, <4>2, Zenon
      <4> QED BY <4>3 DEF first, last
    <3> HIDE DEF part
    <3>2. ASSUME NEW j \in 1..Len(name) PROVE part[j] = name[j]
      <4>1. ((a + 1) + 1) + j - 1 = a + (j + 1) /\ j + 1 \in 1..Len(written)
        BY <1>3, <1>4, <2>2
      <4>2. part[j] = token[a + (j + 1)]
        BY <3>1, <4>1
      <4>3. token[a + (j + 1)] = written[j + 1]
        BY <1>3, <4>1
      <4> QED BY <2>2, <4>2, <4>3
    <3> QED BY <1>1, <3>1, <3>2, SameText
  <2>5. ArgName(token, PlaceOf(pieces, i)) = TrimCopy(name)
    <3>1. PlaceOf(pieces, i)[1] = a + 1 /\ PlaceOf(pieces, i)[2] = b
      BY <1>1
    <3> QED BY <2>4, <3>1, Zenon DEF ArgName
  <2> QED BY <1>1, <1>3, <1>4, <1>5, <2>3, <2>5, Zenon DEF name
<1>6. CASE ~IsArg(pieces, i)
  <2>1. written = name /\ pieces[i][1] = "text"
    BY <1>1, <1>6, Zenon DEF WrittenPiece, IsArg, name
  <2>2. b = a + Len(name) /\ \A j \in 1..Len(name) : token[a + j] = name[j]
    BY <1>3, <2>1
  <2> QED BY <1>1, <1>3, <1>4, <1>6, <2>1, <2>2, Zenon DEF name
<1> QED BY <1>5, <1>6

\* These are the contributions of all symbols.
Shows(shown, token, args) ==
    TextsTo(shown, Len(token)) /\ \A k \in 1..Len(token) : shown[k] = Shown(token, args, k)

\* The pieces of a token are rendered one by one.
LEMMA PieceIsRendered ==
    ASSUME NEW token, NEW pieces, IsMeaning(token, pieces), NEW args, NEW shown, Shows(shown, token, args)
    PROVE  \A i \in 1..Len(pieces) :
             UpTo(shown, Len(UpTo(Spelling(pieces), i))) =
               Then(UpTo(shown, Before(pieces, i)), ValueOf(pieces[i], args))
<1> SUFFICES ASSUME NEW i \in 1..Len(pieces)
             PROVE  UpTo(shown, Len(UpTo(Spelling(pieces), i))) =
                      Then(UpTo(shown, Before(pieces, i)), ValueOf(pieces[i], args))
  OBVIOUS
<1>s. TextsTo(shown, Len(token)) /\ \A k \in 1..Len(token) : shown[k] = Shown(token, args, k)
  BY DEF Shows
<1> DEFINE a == Before(pieces, i)
           b == Len(UpTo(Spelling(pieces), i))
           name == pieces[i][2]
           place == PlaceOf(pieces, i)
<1>0. a = Before(pieces, i) /\ b = Len(UpTo(Spelling(pieces), i))
  OBVIOUS
<1> HIDE DEF a, b
<1>1. /\ a \in Nat /\ b \in Nat /\ b <= Len(token) /\ IsText(token) /\ Len(token) \in Nat
      /\ IsText(name) /\ Len(name) \in Nat
      /\ IsArg(pieces, i) =>
            /\ b = a + Len(name) + 2 /\ place = <<a + 1, b>>
            /\ ArgName(token, place) = TrimCopy(name)
      /\ ~IsArg(pieces, i) =>
            /\ pieces[i][1] = "text" /\ b = a + Len(name)
            /\ \A j \in 1..Len(name) : token[a + j] = name[j]
  BY <1>0, PieceIs
<1> HIDE DEF name, place
<1>2. ASSUME NEW k \in Int, a < k, k <= b
      PROVE  {m \in Matches(token) : k \in m[1]..m[2]} = IF IsArg(pieces, i) THEN {place} ELSE {}
  BY <1>2, MatchesAround DEF a, b, place
<1>3. CASE IsArg(pieces, i)
  <2> DEFINE value == ValueOf(pieces[i], args)
  <2>1. value = args[ArgName(token, place)]
    BY <1>1, <1>3 DEF IsArg, ValueOf, name
  <2> HIDE DEF value
  <2>2. ASSUME NEW k \in Int, a < k, k <= b PROVE shown[k] = IF k = a + 1 THEN value ELSE <<>>
    <3>1. {m \in Matches(token) : k \in m[1]..m[2]} = {place} /\ k \in 1..Len(token)
      BY <1>1, <1>2, <1>3, <2>2
    <3>2. (CHOOSE m \in {place} : TRUE) = place /\ {place} # {}
      OBVIOUS
    <3>3. place[1] = a + 1
      BY <1>1, <1>3
    <3>4. shown[k] = Shown(token, args, k)
      BY <1>s, <3>1
    <3> QED BY <2>1, <3>1, <3>2, <3>3, <3>4, Zenon DEF Shown
  <2>3. /\ a \in 0..Len(token) /\ a + 1 \in 0..Len(token) /\ a + 1 \in 1..Len(token) /\ (a + 1) - 1 = a
        /\ Len(name) + 1 \in Nat /\ (a + 1) + (Len(name) + 1) = b
        /\ (a + 1) + (Len(name) + 1) <= Len(token)
    BY <1>1, <1>3
  <2>4. shown[a + 1] = value
    BY <1>1, <1>3, <2>2
  <2>5. UpTo(shown, a + 1) = Then(UpTo(shown, a), value)
    BY <1>s, <2>3, <2>4, UpToOn
  <2>6. \A j \in 1..(Len(name) + 1) : shown[(a + 1) + j] = <<>>
    BY <1>1, <1>3, <2>2
  <2>7. UpTo(shown, b) = UpTo(shown, a + 1)
    <3>1. UpTo(shown, (a + 1) + (Len(name) + 1)) = UpTo(shown, a + 1)
      BY <1>s, <2>3, <2>6, EmptyPartsAdd
    <3> QED BY <2>3, <3>1, Zenon
  <2> QED BY <2>5, <2>7, Zenon DEF a, b, value
<1>4. CASE ~IsArg(pieces, i)
  <2>1. ValueOf(pieces[i], args) = name
    BY <1>1, <1>4 DEF ValueOf, name
  <2>2. ASSUME NEW j \in 1..Len(name) PROVE shown[a + j] = <<name[j]>>
    <3>1. a + j \in Int /\ a < a + j /\ a + j <= b /\ a + j \in 1..Len(token)
      BY <1>1, <1>4
    <3>2. {m \in Matches(token) : a + j \in m[1]..m[2]} = {}
      BY <1>2, <1>4, <3>1
    <3>3. shown[a + j] = Shown(token, args, a + j)
      BY <1>s, <3>1
    <3>4. token[a + j] = name[j]
      BY <1>1, <1>4
    <3> QED BY <3>2, <3>3, <3>4, Zenon DEF Shown
  <2>3. a \in 0..Len(token) /\ a + Len(name) <= Len(token) /\ a + Len(name) = b
    BY <1>1, <1>4
  <2>4. UpTo(shown, a + Len(name)) = Then(UpTo(shown, a), name)
    BY <1>s, <1>1, <2>2, <2>3, SymbolsAdd
  <2> QED BY <2>1, <2>3, <2>4, Zenon DEF a, b
<1> QED BY <1>3, <1>4

\* What each symbol contributes is a text.
LEMMA ShownIsText ==
    ASSUME NEW token, NEW pieces, IsMeaning(token, pieces), NEW args,
           \A i \in 1..Len(pieces) : IsText(ValueOf(pieces[i], args))
    PROVE  \A k : IsText(Shown(token, args, k))
<1> SUFFICES ASSUME NEW k PROVE IsText(Shown(token, args, k))
  OBVIOUS
<1>1. ASSUME NEW m \in Matches(token) PROVE IsText(args[ArgName(token, m)])
  <2>1. PICK i \in DOMAIN pieces : m = PlaceOf(pieces, i) /\ IsArg(pieces, i)
    BY Zenon DEF IsMeaning, IsArg
  <2>2. i \in 1..Len(pieces)
    BY PiecesAreThere
  <2>3. ArgName(token, m) = TrimCopy(pieces[i][2])
    <3> DEFINE a == Before(pieces, i)
               b == Len(UpTo(Spelling(pieces), i))
    <3>1. a = Before(pieces, i) /\ b = Len(UpTo(Spelling(pieces), i))
      OBVIOUS
    <3> HIDE DEF a, b
    <3>2. IsArg(pieces, i) => ArgName(token, PlaceOf(pieces, i)) = TrimCopy(pieces[i][2])
      BY <2>2, <3>1, PieceIs
    <3> QED BY <2>1, <3>2, Zenon
  <2>4. ValueOf(pieces[i], args) = args[TrimCopy(pieces[i][2])]
    BY <2>1 DEF ValueOf, IsArg
  <2> QED BY <2>2, <2>3, <2>4
<1>2. IsText(<<>>) /\ \A c : IsText(<<c>>)
  BY TextFacts
<1> DEFINE around == {m \in Matches(token) : k \in m[1]..m[2]}
           chosen == CHOOSE m \in around : TRUE
<1>3. around # {} => chosen \in Matches(token)
  OBVIOUS
<1>4. Shown(token, args, k) = IF around = {} THEN <<token[k]>>
                              ELSE IF k = chosen[1] THEN args[ArgName(token, chosen)] ELSE <<>>
  BY Zenon DEF Shown
<1> HIDE DEF around, chosen
<1> QED BY <1>1, <1>2, <1>3, <1>4

\* A token is rendered as it is meant: each argument where its name was, and
\* the text around it as it was.
THEOREM TokenIsRendered ==
    ASSUME NEW token, NEW pieces, IsMeaning(token, pieces), NEW args,
           \A i \in 1..Len(pieces) : IsText(ValueOf(pieces[i], args))
    PROVE  /\ IsText(RenderToken(token, args))
           /\ RenderToken(token, args) = FlattenSeq([i \in DOMAIN pieces |-> ValueOf(pieces[i], args)])
<1> DEFINE n == Len(pieces)
           len == Len(token)
           L(p) == Len(UpTo(Spelling(pieces), p))
           shown == [k \in DOMAIN token |-> Shown(token, args, k)]
           values == [i \in DOMAIN pieces |-> ValueOf(pieces[i], args)]
           T == {p \in 0..n : UpTo(shown, L(p)) = UpTo(values, p)}
<1>1. /\ n \in Nat /\ DOMAIN pieces = 1..n /\ TextsTo(Spelling(pieces), n)
      /\ IsText(token) /\ token = UpTo(Spelling(pieces), n)
  BY PiecesAreThere
<1>2. len \in Nat /\ DOMAIN token = 1..len /\ L(n) = len
  BY <1>1, FirstSymbols
<1>3. TextsTo(shown, len)
  BY <1>2, ShownIsText DEF TextsTo
<1>4. TextsTo(values, n)
  BY <1>1 DEF TextsTo
<1>5. \A k \in 1..len : shown[k] = Shown(token, args, k)
  BY <1>2
<1>6. \A i \in 1..n : values[i] = ValueOf(pieces[i], args)
  BY <1>1
<1>7. RenderToken(token, args) = UpTo(shown, len)
  <2>1. [i \in 1..len |-> shown[i]] = shown
    BY <1>2
  <2>2. RenderToken(token, args) = FlattenSeq(shown)
    BY Zenon DEF RenderToken, Shown
  <2> QED BY <2>1, <2>2, Zenon DEF UpTo
<1>8. FlattenSeq(values) = UpTo(values, n)
  <2>1. [i \in 1..n |-> values[i]] = values
    BY <1>1
  <2> QED BY <2>1, Zenon DEF UpTo
<1> HIDE DEF shown, values, n, len, L
<1>9. 0 \in T
  <2>1. L(0) = 0
    BY <1>1, PartsAreThere DEF L
  <2>2. UpTo(shown, 0) = <<>>
    BY <1>3, UpToOn
  <2>3. UpTo(values, 0) = <<>>
    BY <1>4, UpToOn
  <2> QED BY <1>1, <2>1, <2>2, <2>3
<1>10. ASSUME NEW i \in 1..n, i - 1 \in T PROVE i \in T
  <2>1. UpTo(shown, L(i)) = Then(UpTo(shown, L(i - 1)), ValueOf(pieces[i], args))
    <3>1. Shows(shown, token, args)
      BY <1>3, <1>5 DEF len, Shows
    <3>2. \A p \in 1..Len(pieces) : UpTo(shown, Len(UpTo(Spelling(pieces), p))) =
             Then(UpTo(shown, Before(pieces, p)), ValueOf(pieces[p], args))
      BY <3>1, PieceIsRendered
    <3> QED BY <3>2, Zenon DEF Before, L, n
  <2>2. UpTo(values, i) = Then(UpTo(values, i - 1), values[i])
    BY <1>4, UpToOn
  <2>3. UpTo(shown, L(i - 1)) = UpTo(values, i - 1)
    BY <1>10
  <2>4. UpTo(shown, L(i)) = UpTo(values, i)
    BY <1>6, <2>1, <2>2, <2>3, Zenon
  <2>5. i \in 0..n
    BY <1>1
  <2> QED BY <2>4, <2>5
<1> HIDE DEF T
<1>11. n \in T
  BY <1>1, <1>9, <1>10, InductionTo
<1>12. UpTo(shown, len) = UpTo(values, n)
  BY <1>2, <1>11 DEF T
<1>13. IsText(UpTo(shown, len))
  BY <1>2, <1>3, UpToOn
<1> QED BY <1>7, <1>8, <1>12, <1>13 DEF values

\* Numbers have a least.
LEMMA LeastNumber ==
    ASSUME NEW S, S \subseteq Nat, S # {}
    PROVE  \E least \in S : \A i \in S : least <= i
<1> DEFINE R == OpToRel(<, Nat)
<1>1. IsWellFoundedOn(R, Nat)
  BY NatLessThanWellFounded, Zenon
<1>2. \A m, n \in Nat : m < n => <<m, n>> \in R
  BY DEF OpToRel
<1> HIDE DEF R
<1>3. PICK least \in S : \A i \in S : <<i, least>> \notin R
  BY <1>1, WFMin
<1>4. \A i \in S : ~(i < least) /\ i \in Nat /\ least \in Nat
  BY <1>2, <1>3
<1>5. \A i \in S : least <= i
  BY <1>4
<1> QED BY <1>3, <1>5

\* Places in a text have a first and a last.
LEMMA EndsOf ==
    ASSUME NEW n \in Nat, NEW S, S \subseteq 1..n, S # {}
    PROVE  Min(S) \in S /\ Max(S) \in S
<1>0. S \subseteq Nat /\ \A i \in S : i \in Nat /\ n - i \in Nat
  BY SMT
<1>1. \E x \in S : \A y \in S : x <= y
  BY <1>0, LeastNumber
<1>2. \E x \in S : \A y \in S : x >= y
  <2> DEFINE D == {n - i : i \in S}
  <2>1. D \subseteq Nat /\ D # {} /\ \A i \in S : n - i \in D
    BY <1>0
  <2>2. \A d \in D : \E x \in S : d = n - x
    OBVIOUS
  <2> HIDE DEF D
  <2>3. PICK d \in D : \A e \in D : d <= e
    BY <2>1, LeastNumber
  <2>4. PICK x \in S : d = n - x
    BY <2>2
  <2>5. \A y \in S : n - x <= n - y /\ y \in Int /\ x \in Int
    BY <1>0, <2>1, <2>3, <2>4
  <2>6. \A y \in S : x >= y
    BY <2>5
  <2> QED BY <2>6
<1> QED BY <1>1, <1>2 DEF Min, Max

\* A trimmed text is a text.
LEMMA TrimIsText == ASSUME NEW text, IsText(text) PROVE IsText(TrimCopy(text))
<1> DEFINE kept == {i \in DOMAIN text : text[i] \notin Blanks}
<1>1. Len(text) \in Nat /\ DOMAIN text = 1..Len(text)
  BY FirstSymbols
<1>2. kept \subseteq 1..Len(text)
  BY <1>1
<1>3. TrimCopy(text) = IF kept = {} THEN <<>> ELSE SubSeq(text, Min(kept), Max(kept))
  BY DEF TrimCopy
<1> HIDE DEF kept
<1>4. CASE kept = {}
  BY <1>3, <1>4, TextFacts
<1>5. CASE kept # {}
  <2>1. Min(kept) \in 1..Len(text) /\ Max(kept) \in 1..Len(text)
    BY <1>1, <1>2, <1>5, EndsOf
  <2>2. \A first, last \in 1..Len(text) : IsText(SubSeq(text, first, last))
    BY <1>1, PartOfText
  <2> QED BY <1>3, <1>5, <2>1, <2>2
<1> QED BY <1>4, <1>5

\* A command is rendered token by token.
LEMMA CommandIsRendered ==
    ASSUME NEW meaning, \A token \in DOMAIN meaning : IsMeaning(token, meaning[token]),
           NEW command \in Seq(DOMAIN meaning), NEW args,
           \A k \in DOMAIN command : \A i \in 1..Len(meaning[command[k]]) :
               IsText(ValueOf(meaning[command[k]][i], args))
    PROVE  /\ AreTexts(RenderCommand(command, args))
           /\ Len(RenderCommand(command, args)) = Len(command)
           /\ \A k \in DOMAIN command :
                 RenderCommand(command, args)[k] =
                   FlattenSeq([i \in DOMAIN meaning[command[k]] |-> ValueOf(meaning[command[k]][i], args)])
<1> DEFINE made == RenderCommand(command, args)
           n == Len(command)
<1>1. n \in Nat /\ DOMAIN command = 1..n /\ made = [k \in 1..n |-> RenderToken(command[k], args)]
  BY DEF RenderCommand
<1>2. ASSUME NEW k \in 1..n
      PROVE  /\ IsText(made[k])
             /\ made[k] = FlattenSeq([i \in DOMAIN meaning[command[k]] |->
                                          ValueOf(meaning[command[k]][i], args)])
  <2> DEFINE token == command[k]
             pieces == meaning[token]
  <2>1. IsMeaning(token, pieces) /\ made[k] = RenderToken(token, args)
    BY <1>1
  <2>2. \A i \in 1..Len(pieces) : IsText(ValueOf(pieces[i], args))
    BY <1>1
  <2> HIDE DEF made, pieces, token
  <2>3. /\ IsText(RenderToken(token, args))
        /\ RenderToken(token, args) = FlattenSeq([i \in DOMAIN pieces |-> ValueOf(pieces[i], args)])
    BY <2>1, <2>2, TokenIsRendered
  <2> QED BY <2>1, <2>3 DEF pieces, token
<1>3. made = [k \in 1..n |-> made[k]]
  BY <1>1
<1> HIDE DEF made
<1>4. AreTexts(made) /\ Len(made) = n
  BY <1>1, <1>2, <1>3, AreTextsIf
<1> QED BY <1>1, <1>2, <1>4 DEF made

\* The directory a command is run in.
LEMMA CwdIsText ==
    ASSUME OfSymbols(RepoRoot), NEW cwd, OfSymbols(cwd)
    PROVE  IsText(ResolveActionCwd(cwd))
<1> DEFINE slash == <<"/">>
<1>1. IsText(RepoRoot) /\ IsText(cwd) /\ IsText(slash)
  BY TextFacts DEF OfSymbols, IsText
<1>2. InRepo(cwd) = cwd \/ InRepo(cwd) = Then(Then(RepoRoot, slash), cwd)
  BY DEF InRepo, Then
<1> HIDE DEF slash
<1>3. IsText(Then(Then(RepoRoot, slash), cwd))
  BY <1>1, ThenIs
<1>4. ResolveActionCwd(cwd) \in {RepoRoot, InRepo(cwd)}
  BY Zenon DEF ResolveActionCwd
<1> QED BY <1>1, <1>2, <1>3, <1>4

\* What a text ends with.
LEMMA EndsWith ==
    ASSUME NEW a, IsText(a), NEW b, IsText(b)
    PROVE  IsSuffix(b, Then(a, b))
<1> DEFINE c == Then(a, b)
           rb == Reverse(b)
           rc == Reverse(c)
<1>1. PICK S : a \in Seq(S) /\ b \in Seq(S)
  BY CommonSymbols, Zenon
<1>2. c \in Seq(S) /\ Len(c) = Len(a) + Len(b) /\ Len(a) \in Nat /\ Len(b) \in Nat
  BY <1>1 DEF Then
<1>3. \A i \in 1..Len(b) : c[Len(a) + i] = b[i]
  BY Longer
<1> HIDE DEF c
<1>4. rb \in Seq(S) /\ rc \in Seq(S) /\ Len(rb) = Len(b) /\ Len(rc) = Len(c)
  BY <1>1, <1>2 DEF Reverse
<1>5. \A i \in 1..Len(b) : rb[i] = rc[i]
  <2> TAKE i \in 1..Len(b)
  <2>1. rb[i] = b[(Len(b) - i) + 1] /\ rc[i] = c[(Len(c) - i) + 1]
    BY <1>1, <1>2 DEF Reverse
  <2>2. (Len(b) - i) + 1 \in 1..Len(b) /\ (Len(c) - i) + 1 = Len(a) + ((Len(b) - i) + 1)
    BY <1>2
  <2> QED BY <1>3, <2>1, <2>2
<1> HIDE DEF rb, rc
<1>6. SubSeq(rb, 1, Len(rb)) = SubSeq(rc, 1, Len(rb)) /\ Len(rb) <= Len(rc)
  BY <1>2, <1>4, <1>5
<1> QED BY <1>6 DEF IsSuffix, IsPrefix, rb, rc, c

\* Where a script is looked for, and what it is called.
ScriptPlaces == << <<"/">>, <<"/", "ops", "/", "scripts", "/">>, <<"/", "scripts", "/">> >>
ScriptEnd == <<".", "py">>
ScriptIn(cwd, place, entry) == cwd \o place \o entry \o ScriptEnd

\* The directories in which a script is looked for.
LEMMA PlacesEnd ==
    \A place \in {ScriptPlaces[i] : i \in 1..3} : \E before : IsText(before) /\ place = Then(before, <<"/">>)
<1>1. /\ ScriptPlaces[1] = Then(<<>>, <<"/">>)
      /\ ScriptPlaces[2] = Then(<<"/", "ops", "/", "scripts">>, <<"/">>)
      /\ ScriptPlaces[3] = Then(<<"/", "scripts">>, <<"/">>)
  BY DEF ScriptPlaces, Then
<1>2. IsText(<<>>) /\ IsText(<<"/", "ops", "/", "scripts">>) /\ IsText(<<"/", "scripts">>)
  <2>1. <<>> \in Seq({}) /\ <<"/", "ops", "/", "scripts">> \in Seq({"/", "ops", "scripts"})
        /\ <<"/", "scripts">> \in Seq({"/", "scripts"})
    OBVIOUS
  <2> QED BY <2>1 DEF IsText
<1>3. \A i \in 1..3 : i = 1 \/ i = 2 \/ i = 3
  OBVIOUS
<1> QED BY <1>1, <1>2, <1>3, Zenon

\* The path of a script ends with its name.
LEMMA ScriptEndsWith ==
    ASSUME NEW cwd, IsText(cwd), NEW i \in 1..3, NEW entry, IsText(entry)
    PROVE  /\ IsText(ScriptIn(cwd, ScriptPlaces[i], entry))
           /\ IsSuffix(<<"/">> \o entry \o ScriptEnd, ScriptIn(cwd, ScriptPlaces[i], entry))
<1> DEFINE slash == <<"/">>
           place == ScriptPlaces[i]
<1>1. PICK before : IsText(before) /\ place = Then(before, slash)
  BY PlacesEnd, Zenon
<1>2. IsText(slash) /\ IsText(ScriptEnd)
  <2>1. ScriptEnd \in Seq({".", "py"})
    BY DEF ScriptEnd
  <2> QED BY <2>1, TextFacts DEF IsText
<1> DEFINE name == Then(Then(slash, entry), ScriptEnd)
<1>3. /\ ScriptIn(cwd, place, entry) = Then(Then(Then(cwd, place), entry), ScriptEnd)
      /\ slash \o entry \o ScriptEnd = name
  BY DEF ScriptIn, Then
<1> HIDE DEF slash, place
<1>4. IsText(Then(cwd, before)) /\ IsText(Then(slash, entry)) /\ IsText(name)
  BY <1>1, <1>2, ThenIs
<1>5. Then(cwd, place) = Then(Then(cwd, before), slash)
  BY <1>1, <1>2, ThenAgain
<1>6. Then(Then(Then(cwd, before), slash), entry) = Then(Then(cwd, before), Then(slash, entry))
  BY <1>2, <1>4, ThenAgain
<1>7. Then(Then(Then(cwd, before), Then(slash, entry)), ScriptEnd) = Then(Then(cwd, before), name)
  BY <1>2, <1>4, ThenAgain
<1>8. ScriptIn(cwd, place, entry) = Then(Then(cwd, before), name)
  BY <1>3, <1>5, <1>6, <1>7, Zenon
<1> HIDE DEF name
<1>9. IsText(Then(Then(cwd, before), name)) /\ IsSuffix(name, Then(Then(cwd, before), name))
  BY <1>4, ThenIs, EndsWith
<1> QED BY <1>3, <1>8, <1>9 DEF slash, place

\* A command keeps its arguments, but for the name of a script, which may
\* become the path of a file of that name.
LEMMA ScriptIsFound ==
    ASSUME NEW command, AreTexts(command), NEW cwd, IsText(cwd), NEW files,
           NEW made, made = ApplyPythonScriptFallback(command, cwd, files)
    PROVE  /\ AreTexts(made) /\ Len(made) = Len(command)
           /\ \A k \in 1..Len(command) :
                 \/ made[k] = command[k]
                 \/ /\ k = 2
                    /\ Exists(files, made[2])
                    /\ IsSuffix(<<"/">> \o TrimCopy(command[2]) \o <<".", "py">>, made[2])
<1> DEFINE n == Len(command)
           entry == TrimCopy(command[2])
           Found(i) == Exists(files, ScriptIn(cwd, ScriptPlaces[i], entry))
<1>1. n \in Nat /\ (\A k \in 1..n : IsText(command[k])) /\ DOMAIN command = 1..n
  <2>1. PICK S : command \in Seq(Seq(S))
    BY DEF AreTexts
  <2> QED BY <2>1, TextFacts
<1>2. \/ made = command
      \/ n >= 2 /\ \E i \in 1..3 : Found(i) /\ made = [command EXCEPT ![2] = ScriptIn(cwd, ScriptPlaces[i], entry)]
  <2> DEFINE at == {i \in 1..Len(ScriptPlaces) : Found(i)}
  <2>1. Len(ScriptPlaces) = 3
    BY DEF ScriptPlaces
  <2>2. \/ made = command
        \/ n >= 2 /\ at # {} /\ made = [command EXCEPT ![2] = ScriptIn(cwd, ScriptPlaces[Min(at)], entry)]
    BY Zenon DEF ApplyPythonScriptFallback, SelectInSeq, ReplaceAt, ScriptPlaces, ScriptIn, ScriptEnd
  <2>3. at # {} => Min(at) \in at
    BY <2>1, EndsOf
  <2> QED BY <2>1, <2>2, <2>3
<1>3. CASE made = command
  BY <1>1, <1>3
<1>4. CASE n >= 2 /\ \E i \in 1..3 : Found(i) /\ made = [command EXCEPT ![2] = ScriptIn(cwd, ScriptPlaces[i], entry)]
  <2>1. PICK i \in 1..3 : Found(i) /\ made = [command EXCEPT ![2] = ScriptIn(cwd, ScriptPlaces[i], entry)]
    BY <1>4
  <2> DEFINE script == ScriptIn(cwd, ScriptPlaces[i], entry)
  <2>2. IsText(entry)
    BY <1>1, <1>4, TrimIsText
  <2>3. IsText(script) /\ IsSuffix(<<"/">> \o entry \o <<".", "py">>, script)
    BY <2>2, ScriptEndsWith DEF ScriptEnd
  <2>4. Exists(files, script)
    BY <2>1
  <2> HIDE DEF script, entry
  <2>5. made = [k \in 1..n |-> made[k]] /\ made[2] = script /\ \A k \in 1..n : k # 2 => made[k] = command[k]
    <3>1. made = [command EXCEPT ![2] = script]
      BY <2>1 DEF script
    <3>2. 2 \in 1..n /\ DOMAIN command = 1..n
      BY <1>1, <1>4
    <3> HIDE DEF n
    <3> QED BY ONLY <3>1, <3>2
  <2>6. \A k \in 1..n : IsText(made[k])
    BY <1>1, <2>3, <2>5
  <2>7. AreTexts(made) /\ Len(made) = n
    BY <1>1, <2>5, <2>6, AreTextsIf
  <2> QED BY <2>3, <2>4, <2>5, <2>7 DEF entry
<1> QED BY <1>2, <1>3, <1>4

-------------------------------------------------------------------------------
(* Paths.  Substitute walks over a text from its start; what it makes of   *)
(* the text from some place on depends on the text from there on alone     *)
(* (SameSubstitution).  So it can be told by how a text begins: with the   *)
(* placeholder, or with another symbol (FilledIs, FilledStays).            *)

\* A placeholder before a text.
Held(name, text) == Cons(Opening, Cons(name, Cons(Closing, text)))

\* A text with one symbol before it.
LEMMA ConsIs ==
    ASSUME NEW text, IsText(text)
    PROVE  \A c : /\ IsText(Cons(c, text)) /\ Cons(c, text) # <<>>
                 /\ Len(Cons(c, text)) = Len(text) + 1 /\ Len(text) \in Nat /\ Cons(c, text)[1] = c
                 /\ \A i \in 1..Len(text) : Cons(c, text)[i + 1] = text[i]
                 /\ \A S : text \in Seq(S) /\ c \in S => Cons(c, text) \in Seq(S)
<1> SUFFICES ASSUME NEW c
             PROVE  /\ IsText(Cons(c, text)) /\ Cons(c, text) # <<>>
                    /\ Len(Cons(c, text)) = Len(text) + 1 /\ Len(text) \in Nat /\ Cons(c, text)[1] = c
                    /\ \A i \in 1..Len(text) : Cons(c, text)[i + 1] = text[i]
                    /\ \A S : text \in Seq(S) /\ c \in S => Cons(c, text) \in Seq(S)
  OBVIOUS
<1>1. PICK S : text \in Seq(S) /\ c \in S
  <2>1. PICK U : text \in Seq(U)
    BY DEF IsText
  <2>2. text \in Seq(U \cup {c}) /\ c \in U \cup {c}
    BY <2>1, TextsOfMore, Zenon
  <2> QED BY <2>2
<1>2. \A U : text \in Seq(U) /\ c \in U => Cons(c, text) \in Seq(U)
  BY DEF Cons
<1>3. /\ Cons(c, text) # <<>> /\ Len(Cons(c, text)) = Len(text) + 1 /\ Len(text) \in Nat
      /\ Cons(c, text)[1] = c /\ \A i \in 1..Len(text) : Cons(c, text)[i + 1] = text[i]
  BY <1>1 DEF Cons
<1>4. IsText(Cons(c, text))
  BY <1>1, <1>2, Zenon DEF IsText
<1> QED BY <1>2, <1>3, <1>4

\* It tells the symbol and the text.
LEMMA ConsOnce ==
    ASSUME NEW text, IsText(text), NEW other, IsText(other), NEW c, NEW d, Cons(c, text) = Cons(d, other)
    PROVE  c = d /\ text = other
<1>1. c = d /\ Len(text) = Len(other)
  <2>1. Cons(c, text)[1] = c /\ Len(Cons(c, text)) = Len(text) + 1 /\ Len(text) \in Nat
    BY ConsIs
  <2>2. Cons(d, other)[1] = d /\ Len(Cons(d, other)) = Len(other) + 1 /\ Len(other) \in Nat
    BY ConsIs
  <2> QED BY <2>1, <2>2
<1>2. \A i \in 1..Len(text) : text[i] = other[i]
  <2>1. \A i \in 1..Len(text) : Cons(c, text)[i + 1] = text[i]
    BY ConsIs
  <2>2. \A i \in 1..Len(other) : Cons(d, other)[i + 1] = other[i]
    BY ConsIs
  <2> QED BY <1>1, <2>1, <2>2
<1> QED BY <1>1, <1>2, SameText

\* A text is empty or begins with a symbol.
LEMMA ConsOf ==
    ASSUME NEW S, NEW text \in Seq(S)
    PROVE  text = <<>> \/ \E c \in S : \E rest \in Seq(S) : text = Cons(c, rest) /\ Len(rest) < Len(text)
<1> SUFFICES ASSUME text # <<>>
             PROVE  \E c \in S : \E rest \in Seq(S) : text = Cons(c, rest) /\ Len(rest) < Len(text)
  OBVIOUS
<1>1. text[1] \in S /\ Tail(text) \in Seq(S) /\ text = Cons(text[1], Tail(text)) /\ Len(Tail(text)) < Len(text)
  BY DEF Cons
<1> QED BY <1>1

\* A placeholder stands at the i-th place of a text.
Here(text, name, i) ==
    i + 2 <= Len(text) /\ text[i] = Opening /\ text[i + 1] = name /\ text[i + 2] = Closing

\* Where OccursAt finds a placeholder.
LEMMA HereIs ==
    ASSUME NEW text, IsText(text), NEW name, NEW i \in 1..Len(text)
    PROVE  OccursAt(text, Placeholder(name), i) <=> Here(text, name, i)
<1> DEFINE needle == <<Opening, name, Closing>>
           part == SubSeq(text, i, i + 2)
<1>1. Placeholder(name) = needle
  BY Zenon DEF Placeholder, Opening, Closing
<1>2. Len(needle) = 3 /\ needle[1] = Opening /\ needle[2] = name /\ needle[3] = Closing /\ IsText(needle)
  <2>1. needle \in Seq({Opening, name, Closing})
    OBVIOUS
  <2> QED BY <2>1 DEF IsText
<1> HIDE DEF needle
<1>3. Len(text) \in Nat
  BY FirstSymbols
<1>4. i + Len(needle) - 1 = i + 2
  BY <1>2, <1>3
<1>5. OccursAt(text, needle, i) <=> i + 2 <= Len(text) /\ part = needle
  BY <1>4 DEF OccursAt
<1>6. SUFFICES ASSUME i + 2 <= Len(text)
               PROVE  part = needle <=> text[i] = Opening /\ text[i + 1] = name /\ text[i + 2] = Closing
  BY <1>1, <1>5 DEF Here
<1>7. IsText(part) /\ Len(part) = 3 /\ part[1] = text[i] /\ part[2] = text[i + 1] /\ part[3] = text[i + 2]
  <2>1. i \in Int /\ i + 2 \in Int /\ 1 <= i /\ i <= i + 2 /\ (i + 2) - i + 1 = 3
    BY <1>3
  <2> DEFINE last == i + 2
  <2> HIDE DEF last
  <2>2. /\ IsText(SubSeq(text, i, last))
        /\ Len(SubSeq(text, i, last)) = IF i <= last THEN last - i + 1 ELSE 0
        /\ \A j \in 1..(last - i + 1) : SubSeq(text, i, last)[j] = text[i + j - 1]
    BY <1>6, <2>1, PartOfText DEF last
  <2>3. \A j \in 1..3 : part[j] = text[i + j - 1]
    BY <2>1, <2>2 DEF last
  <2>4. i + 1 - 1 = i /\ i + 2 - 1 = i + 1 /\ i + 3 - 1 = i + 2 /\ 1 \in 1..3 /\ 2 \in 1..3 /\ 3 \in 1..3
    BY <2>1
  <2>5. IsText(part) /\ Len(part) = 3
    BY <2>1, <2>2 DEF last
  <2>6. part[1] = text[i] /\ part[2] = text[i + 1] /\ part[3] = text[i + 2]
    BY <2>3, <2>4
  <2> QED BY <2>5, <2>6
<1> HIDE DEF part
<1>8. ASSUME part[1] = Opening, part[2] = name, part[3] = Closing PROVE part = needle
  <2>1. \A j \in 1..Len(part) : part[j] = needle[j]
    BY <1>2, <1>7, <1>8
  <2> QED BY <1>2, <1>7, <2>1, SameText
<1> QED BY <1>2, <1>7, <1>8

\* The function that Substitute defines.
Substitutes(f, text, name, value) ==
    /\ f[Len(text) + 1] = <<>>
    /\ \A i \in 1..Len(text) :
          f[i] = IF Here(text, name, i) THEN Then(value, f[i + 3]) ELSE Then(<<text[i]>>, f[i + 1])

\* There is such a function: its values can be found from the end of the text on.
LEMMA SubstitutesFrom ==
    ASSUME NEW text, IsText(text), NEW name, NEW value
    PROVE  \E f : /\ f = [i \in 1..(Len(text) + 1) |-> f[i]]
                  /\ Substitutes(f, text, name, value)
<1> DEFINE n == Len(text)
           Turn(g, i) == IF Here(text, name, i) THEN Then(value, g[i + 3]) ELSE Then(<<text[i]>>, g[i + 1])
           So(g, m) == g[n + 1] = <<>> /\ \A i \in m..n : g[i] = Turn(g, i)
           K == {k \in Nat : k <= n => \E g : So(g, (n + 1) - k)}
<1>1. n \in Nat
  BY FirstSymbols
<1>2. \A i \in 1..n : Here(text, name, i) => i + 3 \in (i + 1)..(n + 1)
  BY <1>1 DEF Here
<1>3. \A i \in 1..n : \A g, h : (\A j \in (i + 1)..(n + 1) : g[j] = h[j]) => Turn(g, i) = Turn(h, i)
  <2> TAKE i \in 1..n
  <2> TAKE g, h
  <2> HAVE \A j \in (i + 1)..(n + 1) : g[j] = h[j]
  <2>1. i + 1 \in (i + 1)..(n + 1)
    BY <1>1
  <2> QED BY <1>2, <2>1
<1> HIDE DEF n, Turn
<1>4. 0 \in K
  <2> DEFINE g == [i \in 1..(n + 1) |-> <<>>]
  <2>1. g[n + 1] = <<>> /\ \A i \in (n + 1)..n : FALSE
    BY <1>1
  <2>2. (n + 1) - 0 = n + 1
    BY <1>1
  <2> HIDE DEF g
  <2>3. So(g, n + 1)
    BY <2>1
  <2> QED BY <2>2, <2>3
<1>5. ASSUME NEW k \in Nat, k \in K PROVE k + 1 \in K
  <2>1. SUFFICES ASSUME k + 1 <= n PROVE \E g : So(g, (n + 1) - (k + 1))
    OBVIOUS
  <2>2. PICK g : So(g, (n + 1) - k)
    BY <1>1, <1>5, <2>1
  <2> DEFINE m == (n + 1) - (k + 1)
             h == [i \in 1..(n + 1) |-> IF i = m THEN Turn(g, i) ELSE g[i]]
  <2>3. m \in 1..n /\ (n + 1) - k = m + 1 /\ m # n + 1
    BY <1>1, <2>1
  <2> HIDE DEF m
  <2>4. \A i \in 1..(n + 1) : i # m => h[i] = g[i]
    OBVIOUS
  <2>5. h[m] = Turn(g, m)
    BY <1>1, <2>3
  <2> HIDE DEF h
  <2>6. h[n + 1] = <<>>
    BY <1>1, <2>2, <2>3, <2>4
  <2>7. ASSUME NEW i \in m..n PROVE h[i] = Turn(h, i)
    <3>1. i \in 1..n /\ \A j \in (i + 1)..(n + 1) : j \in 1..(n + 1) /\ j # m
      BY <1>1, <2>3
    <3>2. Turn(h, i) = Turn(g, i)
      BY <1>3, <2>4, <3>1
    <3>3. h[i] = Turn(g, i)
      <4>1. CASE i = m
        BY <2>5, <4>1
      <4>2. CASE i # m
        <5>1. i \in (m + 1)..n /\ i \in 1..(n + 1)
          BY <1>1, <2>3, <4>2
        <5>2. g[i] = Turn(g, i)
          BY <2>2, <2>3, <5>1
        <5> QED BY <2>4, <4>2, <5>1, <5>2
      <4> QED BY <4>1, <4>2
    <3> QED BY <3>2, <3>3
  <2> QED BY <2>6, <2>7 DEF m
<1> HIDE DEF K
<1>6. n \in K
  BY <1>1, <1>4, <1>5, Induction
<1>7. PICK g : So(g, 1)
  BY <1>1, <1>6 DEF K
<1> DEFINE f == [i \in 1..(n + 1) |-> g[i]]
<1>8. \A i \in 1..(n + 1) : f[i] = g[i]
  OBVIOUS
<1>9. f = [i \in 1..(n + 1) |-> f[i]]
  OBVIOUS
<1> HIDE DEF f
<1>10. f[n + 1] = <<>> /\ \A i \in 1..n : f[i] = Turn(f, i)
  <2>1. \A i \in 1..n : i \in 1..(n + 1) /\ \A j \in (i + 1)..(n + 1) : j \in 1..(n + 1)
    BY <1>1
  <2>2. \A i \in 1..n : Turn(f, i) = Turn(g, i)
    BY <1>3, <1>8, <2>1
  <2>3. n + 1 \in 1..(n + 1)
    BY <1>1
  <2> QED BY <1>7, <1>8, <2>1, <2>2, <2>3
<1> QED BY <1>9, <1>10 DEF Substitutes, Turn, n

\* Substitute is defined by one.
LEMMA SubstituteIs ==
    ASSUME NEW text, IsText(text), NEW name, NEW value
    PROVE  \E f : Substitutes(f, text, name, value) /\ Substitute(text, Placeholder(name), value) = f[1]
<1> DEFINE n == Len(text)
           needle == Placeholder(name)
           Turns(f) == [i \in 1..(n + 1) |->
               IF i > n THEN <<>>
               ELSE IF OccursAt(text, needle, i) THEN value \o f[i + Len(needle)]
               ELSE <<text[i]>> \o f[i + 1]]
           Turn(f, i) == IF OccursAt(text, needle, i) THEN value \o f[i + Len(needle)]
                         ELSE <<text[i]>> \o f[i + 1]
           Next1(f, i) == IF Here(text, name, i) THEN Then(value, f[i + 3]) ELSE Then(<<text[i]>>, f[i + 1])
<1>1. n \in Nat
  BY FirstSymbols
<1>2. Len(needle) = 3
  <2>1. needle = <<Opening, name, Closing>>
    BY Zenon DEF Placeholder, Opening, Closing
  <2> HIDE DEF needle
  <2> QED BY <2>1
<1>3. ASSUME NEW f, NEW i \in 1..n PROVE Turn(f, i) = Next1(f, i)
  <2>1. OccursAt(text, needle, i) <=> Here(text, name, i)
    BY HereIs
  <2> HIDE DEF needle
  <2> QED BY <1>2, <2>1, Zenon DEF Then
<1>4. \A f : Turns(f) = [i \in 1..(n + 1) |-> IF i > n THEN <<>> ELSE Turn(f, i)]
  OBVIOUS
<1>5. Substitute(text, needle, value) = (CHOOSE f : f = Turns(f))[1]
  BY Zenon DEF Substitute
<1>6. \A f : Substitutes(f, text, name, value) <=> f[n + 1] = <<>> /\ \A i \in 1..n : f[i] = Next1(f, i)
  BY Zenon DEF Substitutes
<1> HIDE DEF Turns, Turn, Next1, needle, n
<1>7. \A f : Turns(f)[n + 1] = <<>> /\ \A i \in 1..n : Turns(f)[i] = Next1(f, i)
  BY <1>1, <1>3, <1>4
<1>8. ASSUME NEW f, f = [i \in 1..(n + 1) |-> f[i]], Substitutes(f, text, name, value) PROVE f = Turns(f)
  <2>1. ASSUME NEW i \in 1..(n + 1) PROVE f[i] = Turns(f)[i]
    <3>1. i = n + 1 \/ i \in 1..n
      BY <1>1
    <3> QED BY <1>6, <1>7, <1>8, <3>1
  <2>2. Turns(f) = [i \in 1..(n + 1) |-> Turns(f)[i]]
    BY <1>4
  <2> DEFINE g == Turns(f)
  <2> HIDE DEF g
  <2>3. g = [i \in 1..(n + 1) |-> g[i]] /\ \A i \in 1..(n + 1) : f[i] = g[i]
    BY <2>1, <2>2 DEF g
  <2>4. f = g
    BY ONLY <1>8, <2>3
  <2> QED BY <2>4 DEF g
<1>9. \E f : f = Turns(f)
  BY <1>8, SubstitutesFrom DEF n
<1> DEFINE chosen == CHOOSE f : f = Turns(f)
<1>10. chosen = Turns(chosen)
  BY <1>9, Zenon
<1> HIDE DEF chosen
<1>11. Substitutes(chosen, text, name, value)
  BY <1>6, <1>7, <1>10
<1> QED BY <1>5, <1>11 DEF chosen, needle

\* What is put in for a text depends only on the text from there on.
LEMMA SameSubstitution ==
    ASSUME NEW text, IsText(text), NEW other, IsText(other), NEW d \in Nat, Len(text) = d + Len(other),
           \A i \in 1..Len(other) : text[d + i] = other[i],
           NEW name, NEW value,
           NEW f, Substitutes(f, text, name, value), NEW g, Substitutes(g, other, name, value)
    PROVE  f[d + 1] = g[1]
<1> DEFINE n == Len(other)
           T == {i \in 1..(n + 1) : f[d + i] = g[i]}
<1>1. n \in Nat /\ Len(text) = d + n
  BY FirstSymbols
<1>2. /\ f[d + n + 1] = <<>> /\ g[n + 1] = <<>>
      /\ \A i \in 1..(d + n) :
            f[i] = IF Here(text, name, i) THEN Then(value, f[i + 3]) ELSE Then(<<text[i]>>, f[i + 1])
      /\ \A i \in 1..n :
            g[i] = IF Here(other, name, i) THEN Then(value, g[i + 3]) ELSE Then(<<other[i]>>, g[i + 1])
  BY <1>1 DEF Substitutes
<1>3. \A i \in 1..n : text[d + i] = other[i]
  OBVIOUS
<1>4. \A i \in 1..n : Here(text, name, d + i) <=> Here(other, name, i)
  <2> TAKE i \in 1..n
  <2>1. (d + i) + 2 <= Len(text) <=> i + 2 <= n
    BY <1>1
  <2>2. i + 2 <= n => /\ i + 1 \in 1..n /\ i + 2 \in 1..n /\ (d + i) + 1 = d + (i + 1) /\ (d + i) + 2 = d + (i + 2)
    BY <1>1
  <2>3. text[d + i] = other[i]
    BY <1>3
  <2>4. i + 2 <= n => text[(d + i) + 1] = other[i + 1] /\ text[(d + i) + 2] = other[i + 2]
    BY <1>3, <2>2
  <2> QED BY <2>1, <2>3, <2>4, Zenon DEF Here, n
<1>5. \A i \in 1..n : Here(other, name, i) => i + 2 <= n
  BY DEF Here
<1> HIDE DEF n
<1>6. n + 1 \in T
  BY <1>1, <1>2
<1>7. ASSUME NEW i \in 1..n, \A j \in (i + 1)..(n + 1) : j \in T PROVE i \in T
  <2>1. d + i \in 1..(d + n) /\ i \in 1..(n + 1)
    BY <1>1
  <2>2. text[d + i] = other[i] /\ (Here(text, name, d + i) <=> Here(other, name, i))
    BY <1>3, <1>4
  <2>3. f[(d + i) + 1] = g[i + 1]
    <3>1. i + 1 \in T /\ (d + i) + 1 = d + (i + 1)
      BY <1>1, <1>7
    <3> QED BY <3>1
  <2>4. Here(other, name, i) => f[(d + i) + 3] = g[i + 3]
    <3>1. Here(other, name, i) => i + 3 \in (i + 1)..(n + 1) /\ (d + i) + 3 = d + (i + 3)
      BY <1>1, <1>5
    <3>2. Here(other, name, i) => i + 3 \in T
      BY <1>7, <3>1
    <3> QED BY <3>1, <3>2
  <2>5. f[d + i] = IF Here(text, name, d + i) THEN Then(value, f[(d + i) + 3]) ELSE Then(<<text[d + i]>>, f[(d + i) + 1])
    BY <1>2, <2>1
  <2>6. g[i] = IF Here(other, name, i) THEN Then(value, g[i + 3]) ELSE Then(<<other[i]>>, g[i + 1])
    BY <1>2
  <2>7. f[d + i] = g[i]
    BY <2>2, <2>3, <2>4, <2>5, <2>6, Zenon
  <2> QED BY <2>1, <2>7
<1> HIDE DEF T
<1>8. 1 \in T
  <2>1. \A i \in 1..(n + 1) : i \in T
    BY <1>1, <1>6, <1>7, InductionFrom
  <2> QED BY <1>1, <2>1
<1> QED BY <1>8 DEF T

\* A text begins with a placeholder.
StartsWith(text, name) == \E rest : IsText(rest) /\ text = Held(name, rest)

\* Substitute, as the provers know it.
Filled(text, name, value) == Substitute(text, Placeholder(name), value)

\* A placeholder begins a text.
LEMMA BeginsWith ==
    ASSUME NEW text, IsText(text), NEW name
    PROVE  /\ Here(Held(name, text), name, 1) /\ IsText(Held(name, text))
           /\ Len(Held(name, text)) = 3 + Len(text) /\ Len(text) \in Nat
           /\ \A i \in 1..Len(text) : Held(name, text)[3 + i] = text[i]
           /\ \A other : IsText(other) /\ other # <<>> /\ Here(other, name, 1) =>
                 \E rest : IsText(rest) /\ other = Held(name, rest)
<1> DEFINE a == Cons(Closing, text)
           b == Cons(name, a)
           c == Cons(Opening, b)
<1>1. /\ IsText(a) /\ Len(a) = Len(text) + 1 /\ Len(text) \in Nat /\ a[1] = Closing
      /\ \A i \in 1..Len(text) : a[i + 1] = text[i]
  BY ConsIs
<1> HIDE DEF a
<1>2. IsText(b) /\ Len(b) = Len(a) + 1 /\ b[1] = name /\ \A i \in 1..Len(a) : b[i + 1] = a[i]
  BY <1>1, ConsIs
<1> HIDE DEF b
<1>3. IsText(c) /\ Len(c) = Len(b) + 1 /\ c[1] = Opening /\ \A i \in 1..Len(b) : c[i + 1] = b[i]
  BY <1>2, ConsIs
<1> HIDE DEF c
<1>4. Len(c) = 3 + Len(text) /\ c[2] = name /\ c[3] = Closing /\ \A i \in 1..Len(text) : c[3 + i] = text[i]
  <2>1. c[2] = b[1] /\ c[3] = b[2] /\ b[2] = a[1] /\ Len(c) = 3 + Len(text)
    BY <1>1, <1>2, <1>3
  <2>2. ASSUME NEW i \in 1..Len(text) PROVE c[3 + i] = text[i]
    <3>1. a[i + 1] = text[i] /\ b[(i + 1) + 1] = a[i + 1] /\ c[((i + 1) + 1) + 1] = b[(i + 1) + 1]
      BY <1>1, <1>2, <1>3
    <3>2. ((i + 1) + 1) + 1 = 3 + i
      BY <1>1
    <3> QED BY <3>1, <3>2
  <2> QED BY <1>1, <1>2, <2>1, <2>2
<1>5. Here(c, name, 1)
  BY <1>1, <1>3, <1>4 DEF Here
<1>6. ASSUME NEW other, IsText(other), other # <<>>, Here(other, name, 1)
      PROVE  \E rest : IsText(rest) /\ other = Held(name, rest)
  <2>1. PICK S : other \in Seq(S)
    BY <1>6 DEF IsText
  <2>2. Len(other) >= 3 /\ other[1] = Opening /\ other[2] = name /\ other[3] = Closing
    BY <1>6, <2>1 DEF Here
  <2>3. PICK c1 \in S : \E r1 \in Seq(S) : other = Cons(c1, r1)
    BY <1>6, <2>1, ConsOf
  <2>4. PICK r1 \in Seq(S) : other = Cons(c1, r1)
    BY <2>3
  <2>5. /\ IsText(r1) /\ Len(other) = Len(r1) + 1 /\ Len(r1) \in Nat /\ other[1] = c1
        /\ \A i \in 1..Len(r1) : other[i + 1] = r1[i]
    <3>1. IsText(r1)
      BY DEF IsText
    <3> QED BY <2>4, <3>1, ConsIs
  <2>6. Len(r1) >= 2 /\ r1[1] = name /\ r1[2] = Closing /\ c1 = Opening /\ r1 # <<>>
    BY <2>2, <2>5
  <2>7. PICK c2 \in S : \E r2 \in Seq(S) : r1 = Cons(c2, r2)
    BY <2>6, ConsOf
  <2>8. PICK r2 \in Seq(S) : r1 = Cons(c2, r2)
    BY <2>7
  <2>9. /\ IsText(r2) /\ Len(r1) = Len(r2) + 1 /\ Len(r2) \in Nat /\ r1[1] = c2
        /\ \A i \in 1..Len(r2) : r1[i + 1] = r2[i]
    <3>1. IsText(r2)
      BY DEF IsText
    <3> QED BY <2>8, <3>1, ConsIs
  <2>10. Len(r2) >= 1 /\ r2[1] = Closing /\ c2 = name /\ r2 # <<>>
    BY <2>6, <2>9
  <2>11. PICK c3 \in S : \E r3 \in Seq(S) : r2 = Cons(c3, r3)
    BY <2>10, ConsOf
  <2>12. PICK r3 \in Seq(S) : r2 = Cons(c3, r3)
    BY <2>11
  <2>13. IsText(r3) /\ r2[1] = c3
    <3>1. IsText(r3)
      BY DEF IsText
    <3> QED BY <2>12, <3>1, ConsIs
  <2>14. other = Held(name, r3)
    BY <2>4, <2>6, <2>8, <2>10, <2>12, <2>13, Zenon DEF Held
  <2> QED BY <2>13, <2>14
<1>7. c = Held(name, text)
  BY DEF Held, c, b, a
<1> QED BY <1>1, <1>3, <1>4, <1>5, <1>6, <1>7

\* The same of Filled.
LEMMA FilledFrom ==
    \A text, name, value : IsText(text) =>
        \E f : Substitutes(f, text, name, value) /\ Filled(text, name, value) = f[1]
<1> TAKE text, name, value
<1> HAVE IsText(text)
<1>1. \E f : Substitutes(f, text, name, value) /\ Substitute(text, Placeholder(name), value) = f[1]
  BY SubstituteIs
<1> QED BY <1>1, Zenon DEF Filled

\* What is put in for a placeholder.
LEMMA FilledIs ==
    ASSUME NEW name, NEW value
    PROVE  /\ Filled(<<>>, name, value) = <<>>
           /\ \A text : IsText(text) => Filled(Held(name, text), name, value) = Then(value, Filled(text, name, value))
<1>1. Filled(<<>>, name, value) = <<>>
  <2>1. IsText(<<>>) /\ Len(<<>>) + 1 = 1
    BY TextFacts
  <2>2. PICK f : Substitutes(f, <<>>, name, value) /\ Filled(<<>>, name, value) = f[1]
    BY <2>1, FilledFrom
  <2> QED BY <2>1, <2>2 DEF Substitutes
<1>2. ASSUME NEW text, IsText(text) PROVE Filled(Held(name, text), name, value) = Then(value, Filled(text, name, value))
  <2> DEFINE whole == Held(name, text)
  <2>1. /\ Here(whole, name, 1) /\ IsText(whole) /\ Len(whole) = 3 + Len(text) /\ Len(text) \in Nat
        /\ \A i \in 1..Len(text) : whole[3 + i] = text[i]
    BY <1>2, BeginsWith, Zenon
  <2> HIDE DEF whole
  <2>2. PICK f : Substitutes(f, whole, name, value) /\ Filled(whole, name, value) = f[1]
    BY <2>1, FilledFrom
  <2>3. PICK g : Substitutes(g, text, name, value) /\ Filled(text, name, value) = g[1]
    BY <1>2, FilledFrom
  <2>4. f[3 + 1] = g[1]
    BY <1>2, <2>1, <2>2, <2>3, SameSubstitution
  <2>5. f[1] = Then(value, f[1 + 3])
    <3>1. 1 \in 1..Len(whole)
      BY <2>1
    <3> QED BY <2>1, <2>2, <3>1, Zenon DEF Substitutes
  <2>6. 3 + 1 = 1 + 3
    OBVIOUS
  <2> QED BY <2>2, <2>3, <2>4, <2>5, <2>6, Zenon DEF whole
<1> QED BY <1>1, <1>2

\* What is no placeholder stays.
LEMMA FilledStays ==
    ASSUME NEW name, NEW value, NEW c, NEW text, IsText(text), ~StartsWith(Cons(c, text), name)
    PROVE  Filled(Cons(c, text), name, value) = Cons(c, Filled(text, name, value))
<1> DEFINE whole == Cons(c, text)
<1>1. /\ IsText(whole) /\ whole # <<>> /\ Len(whole) = 1 + Len(text) /\ Len(text) \in Nat
      /\ whole[1] = c /\ \A i \in 1..Len(text) : whole[1 + i] = text[i]
  <2>1. /\ IsText(whole) /\ whole # <<>> /\ Len(whole) = Len(text) + 1 /\ Len(text) \in Nat
        /\ whole[1] = c /\ \A i \in 1..Len(text) : whole[i + 1] = text[i]
    BY ConsIs
  <2> HIDE DEF whole
  <2>2. \A i \in 1..Len(text) : i + 1 = 1 + i
    BY <2>1
  <2> QED BY <2>1, <2>2
<1>2. \A rest : IsText(rest) => whole # Held(name, rest)
  BY Zenon DEF StartsWith
<1> HIDE DEF whole
<1>3. ~Here(whole, name, 1)
  <2>1. Here(whole, name, 1) => \E rest : IsText(rest) /\ whole = Held(name, rest)
    BY <1>1, BeginsWith
  <2> QED BY <1>2, <2>1
<1>4. PICK f : Substitutes(f, whole, name, value) /\ Filled(whole, name, value) = f[1]
  BY <1>1, FilledFrom
<1>5. PICK g : Substitutes(g, text, name, value) /\ Filled(text, name, value) = g[1]
  BY FilledFrom
<1>6. f[1 + 1] = g[1]
  BY <1>1, <1>4, <1>5, SameSubstitution
<1>7. f[1] = Then(<<whole[1]>>, f[1 + 1])
  <2>1. 1 \in 1..Len(whole)
    BY <1>1
  <2> QED BY <1>3, <1>4, <2>1, Zenon DEF Substitutes
<1> QED BY <1>1, <1>4, <1>5, <1>6, <1>7, Zenon DEF whole, Then, Cons

\* A sequence of symbols is a text.
LEMMA TextIsText == \A S : \A text \in Seq(S) : IsText(text)
  BY DEF IsText

\* A placeholder before a text is three symbols before it.
LEMMA HeldIs ==
    \A name, text : IsText(text) =>
        /\ IsText(Held(name, text)) /\ Held(name, text) = Cons(Opening, Cons(name, Cons(Closing, text)))
        /\ IsText(Cons(Closing, text)) /\ IsText(Cons(name, Cons(Closing, text)))
<1> TAKE name, text
<1> HAVE IsText(text)
<1>1. IsText(Cons(Closing, text))
  BY ConsIs
<1>2. IsText(Cons(name, Cons(Closing, text)))
  BY <1>1, ConsIs
<1>3. IsText(Cons(Opening, Cons(name, Cons(Closing, text))))
  BY <1>2, ConsIs
<1> QED BY <1>1, <1>2, <1>3, Zenon DEF Held

\* Only a brace begins a placeholder, and only its name follows.
LEMMA StartIs ==
    ASSUME NEW c, NEW text, IsText(text), NEW name
    PROVE  StartsWith(Cons(c, text), name) <=>
               c = Opening /\ \E rest : IsText(rest) /\ text = Cons(name, Cons(Closing, rest))
<1>1. ASSUME NEW rest, IsText(rest), Cons(c, text) = Held(name, rest)
      PROVE  c = Opening /\ text = Cons(name, Cons(Closing, rest))
  <2> DEFINE tail == Cons(name, Cons(Closing, rest))
  <2>1. IsText(tail) /\ Cons(c, text) = Cons(Opening, tail)
    BY <1>1, HeldIs, Zenon
  <2> HIDE DEF tail
  <2>2. c = Opening /\ text = tail
    BY <2>1, ConsOnce
  <2> QED BY <2>2 DEF tail
<1>2. ASSUME NEW rest, IsText(rest), c = Opening, text = Cons(name, Cons(Closing, rest))
      PROVE  Cons(c, text) = Held(name, rest)
  BY <1>2, Zenon DEF Held
<1> QED BY <1>1, <1>2, Zenon DEF StartsWith

\* Two names do not stand at one place.
LEMMA NamesDiffer ==
    ASSUME NEW name, NEW other, name # other, NEW text, IsText(text)
    PROVE  ~StartsWith(Held(other, text), name)
<1> DEFINE tail == Cons(other, Cons(Closing, text))
<1>1. IsText(tail) /\ IsText(Cons(Closing, text)) /\ Held(other, text) = Cons(Opening, tail)
  BY HeldIs, Zenon
<1>2. ASSUME NEW rest, IsText(rest), tail = Cons(name, Cons(Closing, rest)) PROVE FALSE
  <2>1. IsText(Cons(Closing, rest))
    BY <1>2, HeldIs, Zenon
  <2> DEFINE left == Cons(Closing, text)
             right == Cons(Closing, rest)
  <2> HIDE DEF left, right
  <2>2. IsText(left) /\ IsText(right) /\ Cons(other, left) = Cons(name, right)
    BY <1>1, <1>2, <2>1, Zenon DEF left, right
  <2>3. other = name
    BY <2>2, ConsOnce
  <2> QED BY <2>3
<1> HIDE DEF tail
<1>3. StartsWith(Cons(Opening, tail), name) <=>
          Opening = Opening /\ \E rest : IsText(rest) /\ tail = Cons(name, Cons(Closing, rest))
  BY <1>1, StartIs
<1> QED BY <1>1, <1>2, <1>3, Zenon

\* whole is a and b, one after the other.
Joins(a, b, whole) ==
    /\ IsText(whole) /\ Len(whole) = Len(a) + Len(b) /\ Len(a) \in Nat /\ Len(b) \in Nat
    /\ \A i \in 1..Len(a) : whole[i] = a[i]
    /\ \A i \in 1..Len(b) : whole[Len(a) + i] = b[i]

\* Then is that.
LEMMA ThenJoins ==
    ASSUME NEW a, IsText(a), NEW b, IsText(b)
    PROVE  Joins(a, b, Then(a, b))
<1>1. PICK S : a \in Seq(S) /\ b \in Seq(S)
  BY CommonSymbols, TextFacts, Zenon
<1>2. IsText(Then(a, b))
  BY ThenIs, Zenon
<1> QED BY <1>1, <1>2 DEF Then, Joins

\* Two texts that begin with as many symbols agree in these and in the rest.
LEMMA ThenOnce ==
    ASSUME NEW a, IsText(a), NEW b, IsText(b), NEW x, IsText(x), NEW y, IsText(y),
           Then(a, x) = Then(b, y), Len(a) = Len(b)
    PROVE  a = b /\ x = y
<1> DEFINE whole == Then(a, x)
<1>1. Joins(a, x, whole) /\ Joins(b, y, whole)
  BY ThenJoins
<1> HIDE DEF whole
<1>2. \A i \in 1..Len(a) : a[i] = b[i]
  BY <1>1 DEF Joins
<1>3. Len(x) = Len(y) /\ \A i \in 1..Len(x) : x[i] = y[i]
  BY <1>1 DEF Joins
<1>4. a = b
  BY <1>2, SameText
<1>5. x = y
  BY <1>3, SameText
<1> QED BY <1>4, <1>5

\* A symbol that is in neither of two texts shows where they end.
LEMMA EndIsSeen ==
    ASSUME NEW a, IsText(a), NEW b, IsText(b), NEW x, IsText(x), NEW y, IsText(y), NEW d,
           \A i \in 1..Len(a) : a[i] # d, \A i \in 1..Len(b) : b[i] # d,
           Then(a, Cons(d, x)) = Then(b, Cons(d, y))
    PROVE  a = b /\ Cons(d, x) = Cons(d, y)
<1> DEFINE u == Cons(d, x)
           v == Cons(d, y)
           whole == Then(a, u)
<1>1. IsText(u) /\ Len(u) = Len(x) + 1 /\ Len(x) \in Nat /\ u[1] = d
  BY ConsIs
<1>2. IsText(v) /\ Len(v) = Len(y) + 1 /\ Len(y) \in Nat /\ v[1] = d
  BY ConsIs
<1>3. Then(a, u) = whole /\ Then(b, v) = whole
  OBVIOUS
<1> HIDE DEF u, v, whole
<1>4. Joins(a, u, whole) /\ Joins(b, v, whole)
  BY <1>1, <1>2, <1>3, ThenJoins
<1>5. /\ Len(a) \in Nat /\ Len(b) \in Nat /\ whole[Len(a) + 1] = d /\ whole[Len(b) + 1] = d
      /\ \A i \in 1..Len(a) : whole[i] = a[i]
      /\ \A i \in 1..Len(b) : whole[i] = b[i]
  <2>1. 1 \in 1..Len(u) /\ 1 \in 1..Len(v)
    BY <1>1, <1>2
  <2> QED BY <1>1, <1>2, <1>4, <2>1 DEF Joins
<1>6. ~(Len(a) < Len(b))
  <2>1. Len(a) < Len(b) => Len(a) + 1 \in 1..Len(b)
    BY <1>5
  <2> QED BY <1>5, <2>1
<1>7. ~(Len(b) < Len(a))
  <2>1. Len(b) < Len(a) => Len(b) + 1 \in 1..Len(a)
    BY <1>5
  <2> QED BY <1>5, <2>1
<1>8. Len(a) = Len(b)
  BY <1>5, <1>6, <1>7
<1>9. a = b /\ u = v
  BY <1>1, <1>2, <1>3, <1>8, ThenOnce
<1> QED BY <1>9 DEF u, v

\* A symbol before two texts is one before the first.
LEMMA ConsThen ==
    ASSUME NEW c, NEW text, IsText(text), NEW other, IsText(other)
    PROVE  Then(Cons(c, text), other) = Cons(c, Then(text, other))
<1> DEFINE one == <<c>>
<1>1. IsText(one)
  BY TextFacts
<1> HIDE DEF one
<1>2. Then(one, Then(text, other)) = Then(Then(one, text), other)
  BY <1>1, ThenAgain
<1> QED BY <1>2 DEF Cons, one, Then

\* A symbol more of the same set.
LEMMA ConsIn ==
    ASSUME NEW S, NEW c \in S, NEW text \in Seq(S)
    PROVE  Cons(c, text) \in Seq(S)
  BY DEF Cons

\* What follows a placeholder is a shorter text of the same symbols.
LEMMA HeldOf ==
    ASSUME NEW S, NEW name, NEW rest, IsText(rest), Held(name, rest) \in Seq(S)
    PROVE  rest \in Seq(S) /\ Len(rest) < Len(Held(name, rest))
<1> DEFINE whole == Held(name, rest)
<1>1. Len(whole) = 3 + Len(rest) /\ Len(rest) \in Nat /\ \A i \in 1..Len(rest) : whole[3 + i] = rest[i]
  BY BeginsWith, Zenon
<1>2. whole \in Seq(S)
  OBVIOUS
<1> HIDE DEF whole
<1>3. \A i \in 1..Len(rest) : rest[i] \in S
  BY <1>1, <1>2
<1>4. PICK U : rest \in Seq(U)
  BY DEF IsText
<1>5. rest = [i \in 1..Len(rest) |-> rest[i]]
  BY <1>4
<1>6. rest \in Seq(S)
  BY <1>1, <1>3, <1>4, <1>5
<1> QED BY <1>1, <1>6 DEF whole

\* Induction over templates: of placeholders with two names, and of symbols.
LEMMA TemplateInduction ==
    ASSUME NEW S, NEW name, NEW other, NEW Q, <<>> \in Q,
           \A text \in Seq(S) : text \in Q /\ Held(name, text) \in Seq(S) => Held(name, text) \in Q,
           \A text \in Seq(S) : text \in Q /\ Held(other, text) \in Seq(S) => Held(other, text) \in Q,
           \A c \in S : \A text \in Seq(S) :
               /\ text \in Q
               /\ ~StartsWith(Cons(c, text), name) /\ ~StartsWith(Cons(c, text), other)
               => Cons(c, text) \in Q
    PROVE  Seq(S) \subseteq Q
<1>1. ASSUME NEW text \in Seq(S), \A shorter \in Seq(S) : Len(shorter) < Len(text) => shorter \in Q
      PROVE  text \in Q
  <2>1. ASSUME NEW n \in {name, other}, StartsWith(text, n) PROVE text \in Q
    <3>1. PICK rest : IsText(rest) /\ text = Held(n, rest)
      BY <2>1, Zenon DEF StartsWith
    <3>2. rest \in Seq(S) /\ Len(rest) < Len(text)
      BY <3>1, HeldOf
    <3>3. rest \in Q
      BY <1>1, <3>2
    <3> QED BY <3>1, <3>2, <3>3
  <2>2. CASE text # <<>> /\ ~StartsWith(text, name) /\ ~StartsWith(text, other)
    <3>1. PICK c \in S : \E rest \in Seq(S) : text = Cons(c, rest) /\ Len(rest) < Len(text)
      BY <2>2, ConsOf
    <3>2. PICK rest \in Seq(S) : text = Cons(c, rest) /\ Len(rest) < Len(text)
      BY <3>1
    <3> QED BY <1>1, <2>2, <3>2
  <2>3. CASE text = <<>>
    BY <2>3
  <2> QED BY <2>1, <2>2, <2>3
<1> QED BY <1>1, TextInduction

\* A symbol that is no brace stays.
LEMMA FilledSymbol ==
    ASSUME NEW name, NEW value, NEW c, c # Opening, NEW text, IsText(text)
    PROVE  Filled(Cons(c, text), name, value) = Cons(c, Filled(text, name, value))
<1>1. ~StartsWith(Cons(c, text), name)
  BY StartIs, Zenon
<1> QED BY <1>1, FilledStays

\* A placeholder with another name stays.
LEMMA FilledKeeps ==
    ASSUME NEW name, NEW other, name # other, other # Opening, Closing # Opening, NEW value,
           NEW text, IsText(text)
    PROVE  Filled(Held(other, text), name, value) = Held(other, Filled(text, name, value))
<1> DEFINE a == Cons(Closing, text)
           b == Cons(other, a)
<1>1. IsText(a) /\ IsText(b) /\ Held(other, text) = Cons(Opening, b)
  BY HeldIs, Zenon
<1>2. Filled(a, name, value) = Cons(Closing, Filled(text, name, value))
  BY FilledSymbol
<1> HIDE DEF a
<1>3. Filled(b, name, value) = Cons(other, Filled(a, name, value))
  BY <1>1, FilledSymbol
<1> HIDE DEF b
<1>4. ~StartsWith(Cons(Opening, b), name)
  BY <1>1, NamesDiffer, Zenon
<1>5. Filled(Cons(Opening, b), name, value) = Cons(Opening, Filled(b, name, value))
  BY <1>1, <1>4, FilledStays
<1> QED BY <1>1, <1>2, <1>3, <1>5, Zenon DEF Held

\* Of texts a text is made.
LEMMA FilledIsText ==
    ASSUME NEW name, NEW value, IsText(value), NEW text, IsText(text)
    PROVE  IsText(Filled(text, name, value))
<1>1. PICK S : text \in Seq(S)
  BY DEF IsText
<1> DEFINE Q == {t \in Seq(S) : IsText(Filled(t, name, value))}
<1>2. IsText(<<>>)
  BY TextFacts
<1>3. <<>> \in Q
  <2>1. <<>> \in Seq(S)
    OBVIOUS
  <2> QED BY <1>2, <2>1, FilledIs, Zenon
<1>4. ASSUME NEW t \in Seq(S), t \in Q, Held(name, t) \in Seq(S) PROVE Held(name, t) \in Q
  <2>1. IsText(t) /\ IsText(Filled(t, name, value))
    BY <1>4, TextIsText, Zenon
  <2>2. Filled(Held(name, t), name, value) = Then(value, Filled(t, name, value))
    BY <2>1, FilledIs, Zenon
  <2>3. IsText(Then(value, Filled(t, name, value)))
    BY <2>1, ThenIs, Zenon
  <2> QED BY <1>4, <2>2, <2>3, Zenon
<1>5. ASSUME NEW c \in S, NEW t \in Seq(S), t \in Q, ~StartsWith(Cons(c, t), name) PROVE Cons(c, t) \in Q
  <2>1. IsText(t) /\ IsText(Filled(t, name, value))
    BY <1>5, TextIsText, Zenon
  <2>2. Filled(Cons(c, t), name, value) = Cons(c, Filled(t, name, value))
    BY <1>5, <2>1, FilledStays
  <2> DEFINE filled == Filled(t, name, value)
  <2>3. IsText(filled)
    BY <2>1
  <2> HIDE DEF filled
  <2>4. IsText(Cons(c, filled))
    BY <2>3, ConsIs
  <2>5. Cons(c, t) \in Seq(S)
    BY ConsIn
  <2> QED BY <2>2, <2>4, <2>5, Zenon DEF filled
<1> HIDE DEF Q
<1>6. Seq(S) \subseteq Q
  BY <1>3, <1>4, <1>5, TemplateInduction
<1> QED BY <1>1, <1>6 DEF Q

\* A text without a brace stays.
LEMMA FilledPasses ==
    ASSUME NEW name, NEW value, IsText(value), NEW a, IsText(a), \A i \in 1..Len(a) : a[i] # Opening,
           NEW text, IsText(text)
    PROVE  Filled(Then(a, text), name, value) = Then(a, Filled(text, name, value))
<1>1. PICK S : a \in Seq(S)
  BY DEF IsText
<1> DEFINE filled == Filled(text, name, value)
           Q == {b \in Seq(S) : (\A i \in 1..Len(b) : b[i] # Opening) =>
                                    Filled(Then(b, text), name, value) = Then(b, filled)}
<1>2. IsText(filled)
  BY FilledIsText
<1> HIDE DEF filled
<1>3. ASSUME NEW b \in Seq(S), \A other \in Seq(S) : Len(other) < Len(b) => other \in Q PROVE b \in Q
  <2>1. CASE b = <<>>
    <3>1. Then(<<>>, text) = text /\ Then(<<>>, filled) = filled
      BY <1>2, TextFacts, ThenIs, Zenon
    <3> QED BY <2>1, <3>1, Zenon DEF filled
  <2>2. CASE b # <<>> /\ \A i \in 1..Len(b) : b[i] # Opening
    <3>1. PICK c \in S : \E rest \in Seq(S) : b = Cons(c, rest) /\ Len(rest) < Len(b)
      BY <2>2, ConsOf
    <3>2. PICK rest \in Seq(S) : b = Cons(c, rest) /\ Len(rest) < Len(b)
      BY <3>1
    <3>3. IsText(rest)
      BY TextIsText
    <3>4. c # Opening /\ \A i \in 1..Len(rest) : rest[i] # Opening
      <4>1. /\ Len(b) = Len(rest) + 1 /\ Len(rest) \in Nat /\ b[1] = c
            /\ \A i \in 1..Len(rest) : b[i + 1] = rest[i]
        BY <3>2, <3>3, ConsIs
      <4>2. 1 \in 1..Len(b) /\ \A i \in 1..Len(rest) : i + 1 \in 1..Len(b)
        BY <4>1
      <4> QED BY <2>2, <4>1, <4>2
    <3>5. Filled(Then(rest, text), name, value) = Then(rest, filled)
      BY <1>3, <3>2, <3>4
    <3>6. Then(b, text) = Cons(c, Then(rest, text)) /\ Then(b, filled) = Cons(c, Then(rest, filled))
      BY <1>2, <3>2, <3>3, ConsThen
    <3>7. IsText(Then(rest, text))
      BY <3>3, ThenIs, Zenon
    <3>8. Filled(Cons(c, Then(rest, text)), name, value) = Cons(c, Filled(Then(rest, text), name, value))
      BY <3>4, <3>7, FilledSymbol
    <3> QED BY <3>5, <3>6, <3>8, Zenon
  <2> QED BY <2>1, <2>2, Zenon
<1> HIDE DEF Q
<1>4. Seq(S) \subseteq Q
  BY <1>3, TextInduction
<1> QED BY <1>1, <1>4 DEF Q, filled

\* The braces and the three names are five different symbols.
LEMMA NamesAre ==
    /\ Closing # Opening
    /\ "repoRoot" # Opening /\ "appId" # Opening /\ "jobId" # Opening
    /\ "repoRoot" # "appId" /\ "repoRoot" # "jobId" /\ "appId" # "jobId"
    /\ "appId" # Closing /\ "jobId" # Closing
  BY Zenon DEF Opening, Closing

\* Where a template has its placeholders.
LEMMA TokenIs ==
    ASSUME NEW text, IsText(text), NEW name
    PROVE  HasToken(text, name) <=> \E i \in 1..Len(text) : Here(text, name, i)
  BY FirstSymbols, HereIs, Zenon DEF HasToken

\* A placeholder at the first place begins the text.
LEMMA StartIsHere ==
    ASSUME NEW text, IsText(text), text # <<>>, NEW name
    PROVE  Here(text, name, 1) <=> StartsWith(text, name)
<1>1. Here(text, name, 1) => \E rest : IsText(rest) /\ text = Held(name, rest)
  BY BeginsWith
<1>2. \A rest : IsText(rest) => Here(Held(name, rest), name, 1)
  BY BeginsWith
<1> QED BY <1>1, <1>2, Zenon DEF StartsWith

\* Nothing is in an empty template.
LEMMA NoToken == \A name : ~HasToken(<<>>, name)
  BY DEF HasToken

\* A template with one symbol more has the same placeholders, and perhaps one that begins there.
LEMMA TokenOf ==
    ASSUME NEW c, NEW text, IsText(text), NEW name
    PROVE  HasToken(Cons(c, text), name) <=> HasToken(text, name) \/ StartsWith(Cons(c, text), name)
<1> DEFINE whole == Cons(c, text)
           n == Len(text)
<1>1. /\ IsText(whole) /\ whole # <<>> /\ Len(whole) = n + 1 /\ n \in Nat
      /\ \A i \in 1..n : whole[i + 1] = text[i]
  BY ConsIs
<1> HIDE DEF whole
<1>2. Here(whole, name, 1) <=> StartsWith(whole, name)
  BY <1>1, StartIsHere
<1>3. ASSUME NEW i \in 1..n PROVE Here(whole, name, i + 1) <=> Here(text, name, i)
  <2>1. (i + 1) + 2 <= Len(whole) <=> i + 2 <= n
    BY <1>1
  <2>2. i + 2 <= n => i + 1 \in 1..n /\ i + 2 \in 1..n /\ (i + 2) + 1 = (i + 1) + 2
    BY <1>1
  <2>3. whole[i + 1] = text[i]
    BY <1>1
  <2>4. i + 2 <= n => whole[(i + 1) + 1] = text[i + 1] /\ whole[(i + 1) + 2] = text[i + 2]
    BY <1>1, <2>2
  <2> QED BY <2>1, <2>3, <2>4, Zenon DEF Here, n
<1>4. HasToken(whole, name) <=> \E i \in 1..(n + 1) : Here(whole, name, i)
  BY <1>1, TokenIs
<1>5. HasToken(text, name) <=> \E i \in 1..n : Here(text, name, i)
  BY TokenIs
<1> HIDE DEF n
<1>6. \A i \in 1..(n + 1) : i = 1 \/ (i - 1 \in 1..n /\ (i - 1) + 1 = i)
  BY <1>1
<1>7. 1 \in 1..(n + 1) /\ \A i \in 1..n : i + 1 \in 1..(n + 1)
  BY <1>1
<1>8. HasToken(whole, name) <=> HasToken(text, name) \/ StartsWith(whole, name)
  BY <1>2, <1>3, <1>4, <1>5, <1>6, <1>7
<1> QED BY <1>8 DEF whole

\* A placeholder is where it is, whatever comes before it.
LEMMA TokenBehind ==
    ASSUME NEW a, IsText(a), NEW text, IsText(text), NEW name, HasToken(text, name)
    PROVE  HasToken(Then(a, text), name)
<1> DEFINE whole == Then(a, text)
           m == Len(a)
           n == Len(text)
<1>1. Joins(a, text, whole)
  BY ThenJoins
<1> HIDE DEF whole
<1>2. /\ IsText(whole) /\ Len(whole) = m + n /\ m \in Nat /\ n \in Nat
      /\ \A i \in 1..n : whole[m + i] = text[i]
  BY <1>1 DEF Joins
<1>3. PICK i \in 1..n : Here(text, name, i)
  BY TokenIs
<1>4. i + 2 <= n /\ text[i] = Opening /\ text[i + 1] = name /\ text[i + 2] = Closing
  BY <1>3 DEF Here
<1>5. i + 1 \in 1..n /\ i + 2 \in 1..n /\ m + (i + 1) = (m + i) + 1 /\ m + (i + 2) = (m + i) + 2
  BY <1>2, <1>4
<1>6. /\ (m + i) + 2 <= Len(whole) /\ m + i \in 1..Len(whole)
      /\ whole[m + i] = Opening /\ whole[(m + i) + 1] = name /\ whole[(m + i) + 2] = Closing
  BY <1>2, <1>4, <1>5
<1>7. Here(whole, name, m + i)
  BY <1>6, Zenon DEF Here
<1>8. HasToken(whole, name)
  BY <1>2, <1>6, <1>7, TokenIs
<1> QED BY <1>8 DEF whole

\* A placeholder that begins a template is in it.
LEMMA TokenHeld ==
    ASSUME NEW name, NEW text, IsText(text)
    PROVE  HasToken(Held(name, text), name)
<1> DEFINE b == Cons(name, Cons(Closing, text))
<1>1. IsText(b) /\ Held(name, text) = Cons(Opening, b)
  BY HeldIs, Zenon
<1> HIDE DEF b
<1>2. StartsWith(Cons(Opening, b), name)
  BY <1>1, Zenon DEF StartsWith
<1> QED BY <1>1, <1>2, TokenOf, Zenon

\* It is no other one.
LEMMA TokenOfOther ==
    ASSUME NEW name, NEW other, name # other, other # Opening, NEW text, IsText(text)
    PROVE  HasToken(Held(other, text), name) <=> HasToken(text, name)
<1> DEFINE a == Cons(Closing, text)
           b == Cons(other, a)
<1>1. IsText(a) /\ IsText(b) /\ Held(other, text) = Cons(Opening, b)
  BY HeldIs, Zenon
<1>2. ~StartsWith(Cons(Opening, b), name)
  BY <1>1, NamesDiffer, Zenon
<1>3. ~StartsWith(Cons(Closing, text), name)
  BY NamesAre, StartIs
<1>4. HasToken(a, name) <=> HasToken(text, name)
  BY <1>3, TokenOf
<1> HIDE DEF a
<1>5. ~StartsWith(Cons(other, a), name)
  BY <1>1, StartIs
<1>6. HasToken(b, name) <=> HasToken(a, name)
  BY <1>1, <1>5, TokenOf
<1> HIDE DEF b
<1>7. HasToken(Cons(Opening, b), name) <=> HasToken(b, name)
  BY <1>1, <1>2, TokenOf
<1> QED BY <1>1, <1>4, <1>6, <1>7, Zenon

\* A placeholder is still there when another one has been filled.
LEMMA TokenStays ==
    ASSUME NEW name, NEW other, name # other, name # Opening, other # Opening, NEW value, IsText(value),
           NEW text, IsText(text), HasToken(text, name)
    PROVE  HasToken(Filled(text, other, value), name)
<1>1. PICK S : text \in Seq(S)
  BY DEF IsText
<1> DEFINE Q == {t \in Seq(S) : HasToken(t, name) => HasToken(Filled(t, other, value), name)}
<1>2. <<>> \in Q
  <2>1. <<>> \in Seq(S)
    OBVIOUS
  <2> QED BY <2>1, NoToken, Zenon
<1>3. ASSUME NEW t \in Seq(S), t \in Q, Held(other, t) \in Seq(S) PROVE Held(other, t) \in Q
  <2>1. IsText(t)
    BY TextIsText
  <2>2. Filled(Held(other, t), other, value) = Then(value, Filled(t, other, value))
    BY <2>1, FilledIs, Zenon
  <2>3. IsText(Filled(t, other, value))
    BY <2>1, FilledIsText
  <2>4. SUFFICES ASSUME HasToken(Held(other, t), name)
                 PROVE  HasToken(Filled(Held(other, t), other, value), name)
    BY <1>3, Zenon
  <2>5. HasToken(t, name)
    BY <2>1, <2>4, TokenOfOther
  <2>6. HasToken(Filled(t, other, value), name)
    BY <1>3, <2>5, Zenon
  <2> DEFINE filled == Filled(t, other, value)
  <2> HIDE DEF filled
  <2>7. HasToken(Then(value, filled), name)
    BY <2>3, <2>6, TokenBehind DEF filled
  <2> QED BY <2>2, <2>7, Zenon DEF filled
<1>4. ASSUME NEW t \in Seq(S), t \in Q, Held(name, t) \in Seq(S) PROVE Held(name, t) \in Q
  <2>1. IsText(t) /\ Closing # Opening
    BY TextIsText, NamesAre, Zenon
  <2>2. Filled(Held(name, t), other, value) = Held(name, Filled(t, other, value))
    BY <2>1, FilledKeeps
  <2>3. IsText(Filled(t, other, value))
    BY <2>1, FilledIsText
  <2> DEFINE filled == Filled(t, other, value)
  <2> HIDE DEF filled
  <2>4. HasToken(Held(name, filled), name)
    BY <2>3, TokenHeld DEF filled
  <2> QED BY <1>4, <2>2, <2>4, Zenon DEF filled
<1>5. ASSUME NEW c \in S, NEW t \in Seq(S), t \in Q, ~StartsWith(Cons(c, t), other), ~StartsWith(Cons(c, t), name)
      PROVE  Cons(c, t) \in Q
  <2>1. IsText(t)
    BY TextIsText
  <2>2. Filled(Cons(c, t), other, value) = Cons(c, Filled(t, other, value))
    BY <1>5, <2>1, FilledStays
  <2>3. IsText(Filled(t, other, value))
    BY <2>1, FilledIsText
  <2>4. HasToken(Cons(c, t), name) => HasToken(t, name)
    BY <1>5, <2>1, TokenOf
  <2> DEFINE filled == Filled(t, other, value)
  <2> HIDE DEF filled
  <2>5. HasToken(filled, name) => HasToken(Cons(c, filled), name)
    BY <2>3, TokenOf DEF filled
  <2>6. Cons(c, t) \in Seq(S)
    BY ConsIn
  <2> QED BY <1>5, <2>2, <2>4, <2>5, <2>6, Zenon DEF filled
<1> HIDE DEF Q
<1>6. Seq(S) \subseteq Q
  BY <1>2, <1>3, <1>4, <1>5, TemplateInduction
<1> QED BY <1>1, <1>6 DEF Q

\* A name that puts no placeholder into a template.
IsName(a) ==
    /\ IsText(a) /\ a # <<>>
    /\ \A i \in 1..Len(a) : a[i] # Opening /\ a[i] # Closing /\ a[i] # "jobId"

\* A template with the names in it.
WithNames(text, app, job) == Filled(Filled(text, "appId", app), "jobId", job)

\* A symbol that does not come from a name was in the template.
LEMMA SymbolWasThere ==
    ASSUME NEW a, IsName(a), NEW text, IsText(text), NEW d, d = "jobId" \/ d = Closing,
           NEW rest, IsText(rest), Filled(text, "appId", a) = Cons(d, rest)
    PROVE  \E left : IsText(left) /\ text = Cons(d, left) /\ Filled(left, "appId", a) = rest
<1>1. PICK S : text \in Seq(S)
  BY DEF IsText
<1>2. IsText(a) /\ a # <<>> /\ Len(a) \in Nat /\ Len(a) > 0
      /\ a[1] # "jobId" /\ a[1] # Closing
  <2>1. PICK A : a \in Seq(A)
    BY DEF IsName, IsText
  <2>2. Len(a) \in Nat /\ Len(a) > 0 /\ 1 \in 1..Len(a)
    BY <2>1 DEF IsName
  <2> QED BY <2>2 DEF IsName
<1>3. Cons(d, rest) # <<>> /\ Cons(d, rest)[1] = d
  BY ConsIs
<1>4. CASE StartsWith(text, "appId")
  <2>1. PICK t : IsText(t) /\ text = Held("appId", t)
    BY <1>4, Zenon DEF StartsWith
  <2> DEFINE filled == Filled(t, "appId", a)
             whole == Then(a, filled)
  <2>2. IsText(filled)
    BY <1>2, <2>1, FilledIsText
  <2>3. Filled(text, "appId", a) = whole
    BY <2>1, FilledIs, Zenon
  <2> HIDE DEF filled
  <2>4. Joins(a, filled, whole)
    BY <1>2, <2>2, ThenJoins
  <2> HIDE DEF whole
  <2>5. whole[1] = a[1]
    BY <1>2, <2>4 DEF Joins
  <2> QED BY <1>2, <1>3, <2>3, <2>5
<1>5. CASE ~StartsWith(text, "appId")
  <2>1. text # <<>>
    <3>1. Filled(<<>>, "appId", a) = <<>>
      BY FilledIs, Zenon
    <3> QED BY <1>3, <3>1
  <2>2. PICK c \in S : \E left \in Seq(S) : text = Cons(c, left) /\ Len(left) < Len(text)
    BY <1>1, <2>1, ConsOf
  <2>3. PICK left \in Seq(S) : text = Cons(c, left)
    BY <2>2
  <2>4. IsText(left)
    BY TextIsText
  <2>5. Filled(text, "appId", a) = Cons(c, Filled(left, "appId", a))
    BY <1>5, <2>3, <2>4, FilledStays
  <2> DEFINE filled == Filled(left, "appId", a)
  <2>6. IsText(filled)
    BY <1>2, <2>4, FilledIsText
  <2> HIDE DEF filled
  <2>7. Cons(c, filled) = Cons(d, rest)
    BY <2>5 DEF filled
  <2>8. c = d /\ filled = rest
    BY <2>6, <2>7, ConsOnce
  <2> QED BY <2>3, <2>4, <2>8 DEF filled
<1> QED BY <1>4, <1>5

\* Each placeholder is replaced by its value, whatever is in the other one.
LEMMA WithNamesIs ==
    ASSUME NEW a, IsName(a), NEW j, IsText(j), NEW text, IsText(text)
    PROVE  /\ IsText(WithNames(text, a, j))
           /\ WithNames(Held("appId", text), a, j) = Then(a, WithNames(text, a, j))
           /\ WithNames(Held("jobId", text), a, j) = Then(j, WithNames(text, a, j))
<1> DEFINE filled == Filled(text, "appId", a)
<1>1. IsText(a) /\ \A i \in 1..Len(a) : a[i] # Opening
  BY DEF IsName
<1>2. IsText(filled)
  BY <1>1, FilledIsText
<1>3. WithNames(text, a, j) = Filled(filled, "jobId", j)
  BY DEF WithNames
<1>4. WithNames(Held("appId", text), a, j) = Filled(Then(a, filled), "jobId", j)
  <2>1. Filled(Held("appId", text), "appId", a) = Then(a, filled)
    BY FilledIs, Zenon
  <2> QED BY <2>1, Zenon DEF WithNames
<1>5. WithNames(Held("jobId", text), a, j) = Filled(Held("jobId", filled), "jobId", j)
  <2>1. Filled(Held("jobId", text), "appId", a) = Held("jobId", filled)
    BY NamesAre, FilledKeeps
  <2> QED BY <2>1, Zenon DEF WithNames
<1> HIDE DEF filled
<1>6. IsText(Filled(filled, "jobId", j))
  BY <1>2, FilledIsText
<1>7. Filled(Then(a, filled), "jobId", j) = Then(a, Filled(filled, "jobId", j))
  BY <1>1, <1>2, FilledPasses
<1>8. Filled(Held("jobId", filled), "jobId", j) = Then(j, Filled(filled, "jobId", j))
  BY <1>2, FilledIs, Zenon
<1> QED BY <1>3, <1>4, <1>5, <1>6, <1>7, <1>8

\* Nothing comes of an empty template.
LEMMA WithNamesOfNothing == \A a, j : WithNames(<<>>, a, j) = <<>>
<1> TAKE a, j
<1>1. Filled(<<>>, "appId", a) = <<>> /\ Filled(<<>>, "jobId", j) = <<>>
  BY FilledIs, Zenon
<1> QED BY <1>1, Zenon DEF WithNames

\* All else stays: no name makes a placeholder of what was none.
LEMMA WithNamesStays ==
    ASSUME NEW a, IsName(a), NEW j, IsText(j), NEW c, NEW text, IsText(text),
           ~StartsWith(Cons(c, text), "appId"), ~StartsWith(Cons(c, text), "jobId")
    PROVE  WithNames(Cons(c, text), a, j) = Cons(c, WithNames(text, a, j))
<1> DEFINE filled == Filled(text, "appId", a)
<1>1. IsText(filled)
  BY FilledIsText DEF IsName
<1>2. Filled(Cons(c, text), "appId", a) = Cons(c, filled)
  BY FilledStays
<1>3. ASSUME NEW rest, IsText(rest), c = Opening, filled = Cons("jobId", Cons(Closing, rest)) PROVE FALSE
  <2> DEFINE b == Cons(Closing, rest)
  <2>1. IsText(b)
    BY <1>3, ConsIs
  <2>2. filled = Cons("jobId", b)
    BY <1>3
  <2> HIDE DEF b
  <2>3. PICK left : IsText(left) /\ text = Cons("jobId", left) /\ Filled(left, "appId", a) = b
    BY <2>1, <2>2, SymbolWasThere
  <2>4. PICK last : IsText(last) /\ left = Cons(Closing, last)
    BY <1>3, <2>3, SymbolWasThere DEF b
  <2>5. StartsWith(Cons(c, text), "jobId")
    BY <1>3, <2>3, <2>4, StartIs, Zenon
  <2> QED BY <2>5
<1> HIDE DEF filled
<1>4. ~StartsWith(Cons(c, filled), "jobId")
  BY <1>1, <1>3, StartIs
<1>5. Filled(Cons(c, filled), "jobId", j) = Cons(c, Filled(filled, "jobId", j))
  BY <1>1, <1>4, FilledStays
<1> QED BY <1>2, <1>5, Zenon DEF WithNames, filled

\* The length of two texts in a row.
LEMMA ThenLength ==
    ASSUME NEW a, IsText(a), NEW b, IsText(b)
    PROVE  Len(Then(a, b)) = Len(a) + Len(b) /\ Len(a) \in Nat /\ Len(b) \in Nat
  BY ThenJoins DEF Joins

\* The longer of two names makes the longer path, and one that makes the same
\* path is the same.
LEMMA NameTells ==
    ASSUME NEW a, IsName(a), NEW b, IsName(b), Len(a) <= Len(b), NEW j, IsText(j),
           NEW text, IsText(text)
    PROVE  /\ Len(WithNames(text, a, j)) <= Len(WithNames(text, b, j))
           /\ WithNames(text, a, j) = WithNames(text, b, j) /\ HasToken(text, "appId") => a = b
<1>1. PICK S : text \in Seq(S)
  BY DEF IsText
<1> DEFINE A(t) == WithNames(t, a, j)
           B(t) == WithNames(t, b, j)
           Tells(t) == Len(A(t)) <= Len(B(t)) /\ (A(t) = B(t) /\ HasToken(t, "appId") => a = b)
           Q == {t \in Seq(S) : Tells(t)}
<1>2. IsText(a) /\ IsText(b) /\ Len(a) \in Nat /\ Len(b) \in Nat
  BY FirstSymbols DEF IsName
<1>3. \A t \in Seq(S) : IsText(t) /\ IsText(A(t)) /\ IsText(B(t))
  <2> TAKE t \in Seq(S)
  <2>1. IsText(t)
    BY TextIsText
  <2> QED BY <2>1, WithNamesIs
<1>4. <<>> \in Q
  <2>1. A(<<>>) = <<>> /\ B(<<>>) = <<>> /\ <<>> \in Seq(S) /\ ~HasToken(<<>>, "appId")
    BY WithNamesOfNothing, NoToken
  <2>2. Tells(<<>>)
    BY <2>1
  <2> QED BY <2>1, <2>2
<1>5. ASSUME NEW t \in Seq(S), t \in Q, Held("appId", t) \in Seq(S) PROVE Held("appId", t) \in Q
  <2> DEFINE x == A(t)
             y == B(t)
             whole == Held("appId", t)
  <2>1. IsText(t) /\ IsText(x) /\ IsText(y)
    BY <1>3
  <2>2. A(whole) = Then(a, x) /\ B(whole) = Then(b, y)
    BY <2>1, WithNamesIs
  <2>3. Len(x) <= Len(y)
    BY <1>5
  <2> HIDE DEF x, y, whole, A, B
  <2>4. Len(Then(a, x)) = Len(a) + Len(x) /\ Len(x) \in Nat
    BY <1>2, <2>1, ThenLength
  <2>5. Len(Then(b, y)) = Len(b) + Len(y) /\ Len(y) \in Nat
    BY <1>2, <2>1, ThenLength
  <2>6. Len(A(whole)) <= Len(B(whole))
    BY <1>2, <2>2, <2>3, <2>4, <2>5
  <2>7. ASSUME A(whole) = B(whole) PROVE a = b
    <3>1. Len(a) = Len(b)
      BY <1>2, <2>2, <2>3, <2>4, <2>5, <2>7
    <3> QED BY <1>2, <2>1, <2>2, <2>7, <3>1, ThenOnce
  <2>8. Tells(whole)
    BY <2>6, <2>7
  <2> QED BY <1>5, <2>8 DEF whole
<1>6. ASSUME NEW t \in Seq(S), t \in Q, Held("jobId", t) \in Seq(S) PROVE Held("jobId", t) \in Q
  <2> DEFINE x == A(t)
             y == B(t)
             whole == Held("jobId", t)
  <2>1. IsText(t) /\ IsText(x) /\ IsText(y)
    BY <1>3
  <2>2. A(whole) = Then(j, x) /\ B(whole) = Then(j, y)
    BY <2>1, WithNamesIs
  <2>3. Len(x) <= Len(y) /\ (x = y /\ HasToken(t, "appId") => a = b)
    BY <1>6
  <2>4. HasToken(whole, "appId") <=> HasToken(t, "appId")
    BY <2>1, NamesAre, TokenOfOther
  <2> HIDE DEF x, y, whole, A, B
  <2>5. Len(Then(j, x)) = Len(j) + Len(x) /\ Len(x) \in Nat /\ Len(j) \in Nat
    BY <1>2, <2>1, ThenLength
  <2>6. Len(Then(j, y)) = Len(j) + Len(y) /\ Len(y) \in Nat
    BY <1>2, <2>1, ThenLength
  <2>7. Len(A(whole)) <= Len(B(whole))
    BY <1>2, <2>2, <2>3, <2>5, <2>6
  <2>8. ASSUME A(whole) = B(whole) PROVE x = y
    BY <2>1, <2>2, <2>8, ThenOnce
  <2>9. Tells(whole)
    BY <2>3, <2>4, <2>7, <2>8
  <2> QED BY <1>6, <2>9 DEF whole
<1>7. ASSUME NEW c \in S, NEW t \in Seq(S), t \in Q,
             ~StartsWith(Cons(c, t), "appId"), ~StartsWith(Cons(c, t), "jobId")
      PROVE  Cons(c, t) \in Q
  <2> DEFINE x == A(t)
             y == B(t)
             whole == Cons(c, t)
  <2>1. IsText(t) /\ IsText(x) /\ IsText(y)
    BY <1>3
  <2>2. A(whole) = Cons(c, x) /\ B(whole) = Cons(c, y)
    BY <1>7, <2>1, WithNamesStays
  <2>3. Len(x) <= Len(y) /\ (x = y /\ HasToken(t, "appId") => a = b)
    BY <1>7
  <2>4. HasToken(whole, "appId") <=> HasToken(t, "appId")
    BY <1>7, <2>1, TokenOf
  <2>5. whole \in Seq(S)
    BY ConsIn
  <2> HIDE DEF x, y, whole, A, B
  <2>6. Len(Cons(c, x)) = Len(x) + 1 /\ Len(x) \in Nat
    BY <2>1, ConsIs
  <2>7. Len(Cons(c, y)) = Len(y) + 1 /\ Len(y) \in Nat
    BY <2>1, ConsIs
  <2>8. Len(A(whole)) <= Len(B(whole))
    BY <2>2, <2>3, <2>6, <2>7
  <2>9. ASSUME A(whole) = B(whole) PROVE x = y
    BY <2>1, <2>2, <2>9, ConsOnce
  <2>10. Tells(whole)
    BY <2>3, <2>4, <2>8, <2>9
  <2> QED BY <2>5, <2>10 DEF whole
<1>8. Seq(S) \subseteq Q
  <2> HIDE DEF Q
  <2> QED BY <1>4, <1>5, <1>6, <1>7, TemplateInduction
<1> QED BY <1>1, <1>8

\* Wherever a template has the name, it ends there or a symbol of ends follows.
Ends(text, name, ends) ==
    \A i \in 1..Len(text) : Here(text, name, i) => i + 2 = Len(text) \/ text[i + 3] \in ends

\* No symbol of a text is one of these.
Lacks(text, symbols) == \A i \in 1..Len(text) : text[i] \notin symbols

\* What is so of a template is so of its rest after a symbol,
LEMMA EndsLater ==
    ASSUME NEW c, NEW text, IsText(text), NEW name, NEW ends, Ends(Cons(c, text), name, ends)
    PROVE  Ends(text, name, ends)
<1> DEFINE whole == Cons(c, text)
           n == Len(text)
<1>1. /\ IsText(whole) /\ Len(whole) = n + 1 /\ n \in Nat
      /\ \A i \in 1..n : whole[i + 1] = text[i]
  BY ConsIs
<1>2. Ends(whole, name, ends)
  OBVIOUS
<1> HIDE DEF whole
<1>3. ASSUME NEW i \in 1..n, Here(text, name, i) PROVE i + 2 = n \/ text[i + 3] \in ends
  <2>1. i + 2 <= n /\ text[i] = Opening /\ text[i + 1] = name /\ text[i + 2] = Closing
    BY <1>3 DEF Here
  <2>2. i + 1 \in 1..n /\ i + 2 \in 1..n /\ (i + 1) + 1 = i + 2 /\ (i + 2) + 1 = (i + 1) + 2
    BY <1>1, <2>1
  <2>3. whole[i + 1] = Opening /\ whole[(i + 1) + 1] = name /\ whole[(i + 1) + 2] = Closing
    BY <1>1, <2>1, <2>2
  <2>4. (i + 1) + 2 <= Len(whole) /\ i + 1 \in 1..Len(whole)
    BY <1>1, <2>1
  <2>5. Here(whole, name, i + 1)
    BY <2>3, <2>4, Zenon DEF Here
  <2>6. (i + 1) + 2 = Len(whole) \/ whole[(i + 1) + 3] \in ends
    BY <1>2, <2>4, <2>5 DEF Ends
  <2>7. i + 2 # n => i + 3 \in 1..n /\ (i + 3) + 1 = (i + 1) + 3 /\ (i + 1) + 2 # Len(whole)
    BY <1>1, <2>1
  <2>8. i + 2 # n => whole[(i + 1) + 3] = text[i + 3]
    BY <1>1, <2>7
  <2> QED BY <2>6, <2>7, <2>8
<1> QED BY <1>3 DEF Ends

\* and of its rest after a placeholder,
LEMMA EndsBehind ==
    ASSUME NEW other, NEW text, IsText(text), NEW name, NEW ends, Ends(Held(other, text), name, ends)
    PROVE  Ends(text, name, ends)
<1> DEFINE a == Cons(Closing, text)
           b == Cons(other, a)
<1>1. IsText(a) /\ IsText(b) /\ Held(other, text) = Cons(Opening, b)
  BY HeldIs, Zenon
<1> HIDE DEF b
<1>2. Ends(b, name, ends)
  BY <1>1, EndsLater
<1> HIDE DEF a
<1>3. Ends(a, name, ends)
  BY <1>1, <1>2, EndsLater DEF b
<1> QED BY <1>3, EndsLater DEF a

\* which begins with one of the ends.
LEMMA EndsHere ==
    ASSUME NEW text, IsText(text), NEW name, NEW ends, Ends(Held(name, text), name, ends)
    PROVE  text = <<>> \/ text[1] \in ends
<1> DEFINE whole == Held(name, text)
<1>1. /\ Here(whole, name, 1) /\ Len(whole) = 3 + Len(text) /\ Len(text) \in Nat
      /\ \A i \in 1..Len(text) : whole[3 + i] = text[i]
  BY BeginsWith, Zenon
<1>2. Ends(whole, name, ends)
  OBVIOUS
<1> HIDE DEF whole
<1>3. 1 + 2 = Len(whole) \/ whole[1 + 3] \in ends
  BY <1>1, <1>2 DEF Ends
<1>4. Len(text) = 0 => text = <<>>
  BY DEF IsText
<1>5. Len(text) # 0 => 1 \in 1..Len(text) /\ 1 + 3 = 3 + 1 /\ 1 + 2 # Len(whole)
  BY <1>1
<1> QED BY <1>1, <1>3, <1>4, <1>5

\* Two names before the same end of a template: who reads the path knows them,
\* if what follows them is in none of them.
LEMMA CutTells ==
    ASSUME NEW a, IsName(a), NEW b, IsName(b), NEW j, IsText(j), NEW k, IsText(k),
           NEW text, IsText(text), NEW ends, Opening \notin ends, text = <<>> \/ text[1] \in ends,
           NEW x, IsText(x), Lacks(x, ends), NEW y, IsText(y), Lacks(y, ends),
           Then(x, WithNames(text, a, j)) = Then(y, WithNames(text, b, k))
    PROVE  x = y /\ WithNames(text, a, j) = WithNames(text, b, k)
<1>1. CASE text = <<>>
  <2>1. WithNames(text, a, j) = <<>> /\ WithNames(text, b, k) = <<>>
    BY <1>1, WithNamesOfNothing
  <2>2. Then(x, <<>>) = x /\ Then(y, <<>>) = y
    BY TextFacts, ThenIs, Zenon
  <2> QED BY <2>1, <2>2
<1>2. CASE text # <<>>
  <2>1. PICK S : text \in Seq(S)
    BY DEF IsText
  <2>2. PICK d \in S : \E rest \in Seq(S) : text = Cons(d, rest) /\ Len(rest) < Len(text)
    BY <1>2, <2>1, ConsOf
  <2>3. PICK rest \in Seq(S) : text = Cons(d, rest)
    BY <2>2
  <2>4. IsText(rest)
    BY TextIsText
  <2>5. text[1] = d
    BY <2>3, <2>4, ConsIs
  <2>6. d \in ends /\ d # Opening
    BY <1>2, <2>5
  <2>7. ~StartsWith(Cons(d, rest), "appId") /\ ~StartsWith(Cons(d, rest), "jobId")
    BY <2>4, <2>6, StartIs
  <2> DEFINE u == WithNames(rest, a, j)
             v == WithNames(rest, b, k)
  <2>8. IsText(u) /\ IsText(v)
    BY <2>4, WithNamesIs
  <2>9. WithNames(text, a, j) = Cons(d, u)
    BY <2>3, <2>4, <2>7, WithNamesStays
  <2>10. WithNames(text, b, k) = Cons(d, v)
    BY <2>3, <2>4, <2>7, WithNamesStays
  <2> HIDE DEF u, v
  <2>11. (\A i \in 1..Len(x) : x[i] # d) /\ (\A i \in 1..Len(y) : y[i] # d)
    BY <2>6 DEF Lacks
  <2>12. Then(x, Cons(d, u)) = Then(y, Cons(d, v))
    BY <2>9, <2>10
  <2>13. x = y /\ Cons(d, u) = Cons(d, v)
    BY <2>8, <2>11, <2>12, EndIsSeen
  <2> QED BY <2>9, <2>10, <2>13
<1> QED BY <1>1, <1>2

\* A path tells the names in it, if each of them ends where it says.
LEMMA NamesTell ==
    ASSUME NEW a, IsName(a), NEW b, IsName(b), NEW j, IsText(j), NEW k, IsText(k),
           NEW appEnds, Opening \notin appEnds, Lacks(a, appEnds), Lacks(b, appEnds),
           NEW jobEnds, Opening \notin jobEnds, Lacks(j, jobEnds), Lacks(k, jobEnds),
           NEW text, IsText(text), Ends(text, "appId", appEnds), Ends(text, "jobId", jobEnds),
           WithNames(text, a, j) = WithNames(text, b, k)
    PROVE  (HasToken(text, "appId") => a = b) /\ (HasToken(text, "jobId") => j = k)
<1>1. PICK S : text \in Seq(S)
  BY DEF IsText
<1> DEFINE A(t) == WithNames(t, a, j)
           B(t) == WithNames(t, b, k)
           Fits(t) == Ends(t, "appId", appEnds) /\ Ends(t, "jobId", jobEnds)
           Tells(t) == (HasToken(t, "appId") => a = b) /\ (HasToken(t, "jobId") => j = k)
           Q == {t \in Seq(S) : Fits(t) /\ A(t) = B(t) => Tells(t)}
<1>2. IsText(a) /\ IsText(b)
  BY DEF IsName
<1>3. <<>> \in Q
  <2>1. <<>> \in Seq(S) /\ ~HasToken(<<>>, "appId") /\ ~HasToken(<<>>, "jobId")
    BY NoToken
  <2> QED BY <2>1
<1>4. ASSUME NEW t \in Seq(S), t \in Q, Held("appId", t) \in Seq(S) PROVE Held("appId", t) \in Q
  <2> DEFINE whole == Held("appId", t)
  <2>1. IsText(t)
    BY TextIsText
  <2>2. SUFFICES ASSUME Fits(whole), A(whole) = B(whole) PROVE Tells(whole)
    BY <1>4
  <2>3. Fits(t)
    BY <2>1, <2>2, EndsBehind
  <2>4. t = <<>> \/ t[1] \in appEnds
    BY <2>1, <2>2, EndsHere
  <2>5. A(whole) = Then(a, A(t)) /\ B(whole) = Then(b, B(t))
    BY <2>1, WithNamesIs
  <2>6. a = b /\ A(t) = B(t)
    BY <1>2, <2>1, <2>2, <2>4, <2>5, CutTells
  <2>7. HasToken(whole, "jobId") <=> HasToken(t, "jobId")
    BY <2>1, NamesAre, TokenOfOther
  <2> QED BY <1>4, <2>3, <2>6, <2>7
<1>5. ASSUME NEW t \in Seq(S), t \in Q, Held("jobId", t) \in Seq(S) PROVE Held("jobId", t) \in Q
  <2> DEFINE whole == Held("jobId", t)
  <2>1. IsText(t)
    BY TextIsText
  <2>2. SUFFICES ASSUME Fits(whole), A(whole) = B(whole) PROVE Tells(whole)
    BY <1>5
  <2>3. Fits(t)
    BY <2>1, <2>2, EndsBehind
  <2>4. t = <<>> \/ t[1] \in jobEnds
    BY <2>1, <2>2, EndsHere
  <2>5. A(whole) = Then(j, A(t)) /\ B(whole) = Then(k, B(t))
    BY <2>1, WithNamesIs
  <2>6. j = k /\ A(t) = B(t)
    BY <2>1, <2>2, <2>4, <2>5, CutTells
  <2>7. HasToken(whole, "appId") <=> HasToken(t, "appId")
    BY <2>1, NamesAre, TokenOfOther
  <2> QED BY <1>5, <2>3, <2>6, <2>7
<1>6. ASSUME NEW c \in S, NEW t \in Seq(S), t \in Q,
             ~StartsWith(Cons(c, t), "appId"), ~StartsWith(Cons(c, t), "jobId")
      PROVE  Cons(c, t) \in Q
  <2> DEFINE whole == Cons(c, t)
  <2>1. IsText(t) /\ whole \in Seq(S)
    BY TextIsText, ConsIn
  <2>2. SUFFICES ASSUME Fits(whole), A(whole) = B(whole) PROVE Tells(whole)
    BY <2>1
  <2>3. Fits(t)
    BY <2>1, <2>2, EndsLater
  <2>4. IsText(A(t)) /\ IsText(B(t))
    BY <2>1, WithNamesIs
  <2>5. A(whole) = Cons(c, A(t))
    BY <1>6, <2>1, WithNamesStays
  <2>6. B(whole) = Cons(c, B(t))
    BY <1>6, <2>1, WithNamesStays
  <2> DEFINE x == A(t)
             y == B(t)
  <2>7. IsText(x) /\ IsText(y) /\ Cons(c, x) = Cons(c, y)
    BY <2>2, <2>4, <2>5, <2>6
  <2> HIDE DEF x, y
  <2>8. x = y
    BY <2>7, ConsOnce
  <2>9. /\ HasToken(whole, "appId") <=> HasToken(t, "appId")
        /\ HasToken(whole, "jobId") <=> HasToken(t, "jobId")
    BY <1>6, <2>1, TokenOf
  <2> QED BY <1>6, <2>3, <2>8, <2>9 DEF x, y
<1>7. Seq(S) \subseteq Q
  <2> HIDE DEF Q
  <2> QED BY <1>3, <1>4, <1>5, <1>6, TemplateInduction
<1>8. text \in Q
  BY <1>1, <1>7
<1> QED BY <1>8
================================================================================
