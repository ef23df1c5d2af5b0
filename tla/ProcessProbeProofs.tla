--------------------------- MODULE ProcessProbeProofs --------------------------
(***************************************************************************)
(* Proofs about ProcessProbe, for any number of hosts, processes, programs *)
(* and queries: its type invariant, that no query leaves its output file   *)
(* behind, and, of hosts that run one after the other, that a report is of *)
(* its time.                                                               *)
(***************************************************************************)
EXTENDS ProcessProbe, FiniteSetTheorems, TLAPS

-------------------------------------------------------------------------------
(* What pgrep writes.                                                      *)

\* A listing names each pid pgrep saw, in no more lines than there are pids.
LEMMA ListingFacts ==
    ASSUME NEW pids \in SUBSET Pids, NEW new \in Listings(pids)
    PROVE  /\ new \in Seq(Pids)
           /\ Len(new) <= Cardinality(Pids)
           /\ ToSet(new) = pids
<1>1. /\ IsFiniteSet(pids)
      /\ Cardinality(pids) \in Nat /\ Cardinality(Pids) \in Nat
      /\ Cardinality(pids) <= Cardinality(Pids)
  BY PgrepAssumption, FS_Subset, FS_CardinalityType
<1>2. new \in [1..Cardinality(pids) -> pids] /\ ToSet(new) = pids
  BY DEF Listings
<1>3. new \in Seq(Pids) /\ Len(new) = Cardinality(pids)
  BY <1>1, <1>2
<1> QED BY <1>1, <1>2, <1>3

\* A list written over the start of a file keeps the file within its bound.
LEMMA OverwrittenFacts ==
    ASSUME NEW n \in Nat,
           NEW old \in Seq(Pids), Len(old) <= n,
           NEW new \in Seq(Pids), Len(new) <= n
    PROVE  Overwritten(old, new) \in Seq(Pids) /\ Len(Overwritten(old, new)) <= n
<1> DEFINE tail == SubSeq(old, Len(new) + 1, Len(old))
<1>1. CASE Len(new) >= Len(old)
  <2>1. tail = <<>>
    BY <1>1
  <2> QED BY <2>1 DEF Overwritten
<1>2. CASE Len(new) < Len(old)
  <2>1. tail \in Seq(Pids) /\ Len(tail) = Len(old) - Len(new)
    BY <1>2
  <2> HIDE DEF tail
  <2>2. new \o tail \in Seq(Pids) /\ Len(new \o tail) = Len(new) + Len(tail)
    BY <2>1
  <2> QED BY <2>1, <2>2 DEF Overwritten, tail
<1> QED BY <1>1, <1>2

\* A file that was empty holds the list and nothing else.
LEMMA WrittenToEmpty ==
    ASSUME NEW new \in Seq(Pids)
    PROVE  Overwritten(<<>>, new) = new
BY DEF Overwritten

-------------------------------------------------------------------------------
(* Hosts and their shells.                                                 *)

\* A shell runs for a host that waits for it or was killed; a host has drawn a
\* name before it uses one.
Places ==
    \A h \in Hosts :
        /\ pc[h] = "new" => sh[h] = "none"
        /\ ~ShellDone(h) => pc[h] \in {"wait", "killed"} /\ draws[h] \in Stamps
        /\ pc[h] = "wait" => sh[h] # "none"
        /\ pc[h] = "name" => draws[h] < MaxDraws
        /\ pc[h] \in {"launch", "wait", "read", "remove"} => draws[h] \in Stamps

\* A file is there for a host that has launched a shell and not removed the
\* file yet, or was killed before it could.
FileOfQuery ==
    \A n \in Stamps : dir[n] # NoFile =>
        \E h \in Hosts : draws[h] = n /\ pc[h] \in {"wait", "read", "remove", "killed"}

\* The inductive invariant, whether or not hosts run at the same time.
Inv == TypeOK /\ Places /\ FileOfQuery

\* No host has run and the directory is empty.
LEMMA InitInv == Init => Inv
<1> SUFFICES ASSUME Init PROVE Inv
  OBVIOUS
<1>1. Cardinality(Pids) \in Nat
  BY PgrepAssumption, FS_CardinalityType
<1>2. TypeOK
  BY <1>1, PgrepAssumption DEF Init, TypeOK, Calling
<1>3. Places
  BY PgrepAssumption DEF Init, Places, ShellDone
<1>4. FileOfQuery
  BY DEF Init, FileOfQuery
<1> QED BY <1>2, <1>3, <1>4 DEF Inv

\* A host's own steps, up to the removal of the file.
LEMMA HostInv ==
    ASSUME Inv, NEW h \in Hosts,
           \/ StartHost(h) \/ HostStep(h) \/ HostDies(h)
           \/ \E n \in Names : Query(h, n)
    PROVE  Inv'
<1> USE PgrepAssumption DEF Inv, Stamps, Calling
<1>1. CASE StartHost(h)
  <2>1. TypeOK'
    BY <1>1 DEF TypeOK, StartHost, shellVars
  <2>2. Places'
    BY <1>1 DEF TypeOK, Places, ShellDone, StartHost, shellVars
  <2>3. FileOfQuery'
    BY <1>1 DEF TypeOK, FileOfQuery, StartHost, shellVars
  <2> QED BY <2>1, <2>2, <2>3
<1>2. ASSUME NEW n \in Names, Query(h, n) PROVE Inv'
  <2>1. TypeOK'
    BY <1>2 DEF TypeOK, Query, Matching
  <2>2. Places'
    BY <1>2 DEF TypeOK, Places, ShellDone, Query
  <2>3. FileOfQuery'
    BY <1>2 DEF TypeOK, FileOfQuery, Query
  <2> QED BY <2>1, <2>2, <2>3
<1>3. CASE MakeName(h)
  <2>1. TypeOK'
    <3>1. pc' \in [Hosts -> {"new", "idle", "dead", "killed"} \cup Calling]
      <4>1. \E l \in {"idle", "launch"} : pc' = [pc EXCEPT ![h] = l]
        BY <1>3 DEF MakeName
      <4> QED BY <4>1 DEF TypeOK, Calling
    <3>2. draws' \in [Hosts -> 0..MaxDraws]
      <4>1. draws[h] + 1 \in 0..MaxDraws
        BY <1>3 DEF TypeOK, Places, MakeName
      <4>2. draws' = draws \/ draws' = [draws EXCEPT ![h] = draws[h] + 1]
        BY <1>3 DEF MakeName
      <4> QED BY <4>1, <4>2 DEF TypeOK
    <3> QED BY <1>3, <3>1, <3>2 DEF TypeOK, MakeName, shellVars
  <2>2. Places'
    BY <1>3 DEF TypeOK, Places, ShellDone, MakeName, shellVars
  <2>3. FileOfQuery'
    <3>1. ASSUME NEW g \in Hosts, pc[g] \in {"wait", "read", "remove", "killed"}
          PROVE  draws'[g] = draws[g] /\ pc'[g] = pc[g]
      BY <1>3, <3>1 DEF TypeOK, MakeName
    <3> QED BY <1>3, <3>1 DEF FileOfQuery, MakeName
  <2> QED BY <2>1, <2>2, <2>3
<1>4. CASE Launch(h)
  <2>1. TypeOK'
    BY <1>4 DEF TypeOK, Launch
  <2>2. Places'
    BY <1>4 DEF TypeOK, Places, ShellDone, Launch
  <2>3. FileOfQuery'
    <3>1. ASSUME NEW g \in Hosts, pc[g] \in {"wait", "read", "remove", "killed"}
          PROVE  draws'[g] = draws[g] /\ pc'[g] = pc[g]
      BY <1>4, <3>1 DEF TypeOK, Launch
    <3> QED BY <1>4, <3>1 DEF FileOfQuery, Launch
  <2> QED BY <2>1, <2>2, <2>3
<1>5. CASE SystemReturns(h)
  <2>1. TypeOK'
    BY <1>5 DEF TypeOK, SystemReturns, shellVars
  <2>2. Places'
    BY <1>5 DEF TypeOK, Places, ShellDone, SystemReturns, shellVars
  <2>3. FileOfQuery'
    BY <1>5 DEF TypeOK, FileOfQuery, SystemReturns, shellVars
  <2> QED BY <2>1, <2>2, <2>3
<1>6. CASE ReadOutput(h)
  <2>1. TypeOK'
    BY <1>6 DEF TypeOK, Places, ReadOutput, shellVars
  <2>2. Places'
    BY <1>6 DEF TypeOK, Places, ShellDone, ReadOutput, shellVars
  <2>3. FileOfQuery'
    BY <1>6 DEF TypeOK, FileOfQuery, ReadOutput, shellVars
  <2> QED BY <2>1, <2>2, <2>3
<1>7. CASE RemoveOutput(h)
  <2>1. PidsFound(h) \subseteq Pids
    BY DEF TypeOK, PidsFound, ToSet
  <2>2. TypeOK'
    BY <1>7, <2>1 DEF TypeOK, Places, RemoveOutput, shellVars
  <2>3. Places'
    BY <1>7 DEF TypeOK, Places, ShellDone, RemoveOutput, shellVars
  <2>4. FileOfQuery'
    BY <1>7 DEF TypeOK, Places, FileOfQuery, RemoveOutput, shellVars
  <2> QED BY <2>2, <2>3, <2>4
<1>8. CASE HostDies(h)
  <2>1. TypeOK'
    BY <1>8 DEF TypeOK, HostDies, shellVars
  <2>2. Places'
    BY <1>8 DEF TypeOK, Places, ShellDone, HostDies, Running, shellVars
  <2>3. FileOfQuery'
    <3>1. draws' = draws /\ dir' = dir /\ sh' = sh /\ opened' = opened /\ rc' = rc
      BY <1>8 DEF HostDies, shellVars
    <3>2. pc[h] # "idle" => pc'[h] = "killed"
      BY <1>8 DEF TypeOK, HostDies
    <3>3. \A g \in Hosts \ {h} : pc'[g] = pc[g]
      BY <1>8 DEF TypeOK, HostDies
    <3> QED BY <3>1, <3>2, <3>3 DEF FileOfQuery
  <2> QED BY <2>1, <2>2, <2>3
<1> QED BY <1>1, <1>2, <1>3, <1>4, <1>5, <1>6, <1>7, <1>8 DEF HostStep

\* The shell's steps, whether its host still waits or not.
LEMMA ShellInv ==
    ASSUME Inv, NEW h \in Hosts, ShellStep(h)
    PROVE  Inv'
<1> USE PgrepAssumption DEF Inv, Stamps, Calling
<1>1. CASE ShellOpens(h)
  <2>1. draws[h] \in Stamps /\ pc[h] \in {"wait", "killed"}
    BY <1>1 DEF Places, ShellOpens, ShellDone
  <2>2. CASE UNCHANGED <<dir, text>> /\ ShellExits(h, "failed")
    <3>1. TypeOK'
      BY <1>1, <2>2 DEF TypeOK, ShellOpens, ShellExits, hostVars
    <3>2. Places' /\ FileOfQuery'
      BY <1>1, <2>2 DEF TypeOK, Places, FileOfQuery, ShellDone, ShellOpens, ShellExits, hostVars
    <3> QED BY <3>1, <3>2
  <2>3. ASSUME NEW f, f = IF dir[draws[h]] = NoFile THEN <<h, draws[h]>> ELSE dir[draws[h]],
               dir' = [dir EXCEPT ![draws[h]] = f],
               text' = [text EXCEPT ![f] = <<>>],
               opened' = [opened EXCEPT ![h] = f],
               sh' = [sh EXCEPT ![h] = "look"],
               UNCHANGED <<rc, saw>>
        PROVE  Inv'
    <3>1. f \in Hosts \X {draws[h]} /\ f \in Files
      BY <2>1, <2>3 DEF TypeOK, Files
    <3>2. Cardinality(Pids) \in Nat
      BY FS_CardinalityType
    <3>3. \A n \in Stamps : dir'[n] \in (Hosts \X {n}) \cup {NoFile}
      BY <2>1, <2>3, <3>1 DEF TypeOK
    <3>4. /\ text' \in [Files -> Seq(Pids)]
          /\ \A g \in Files : Len(text'[g]) <= Cardinality(Pids)
      BY <2>3, <3>1, <3>2 DEF TypeOK
    <3>5. TypeOK'
      BY <1>1, <2>1, <2>3, <3>1, <3>3, <3>4 DEF TypeOK, ShellOpens, hostVars
    <3>6. Places'
      BY <1>1, <2>3 DEF TypeOK, Places, ShellDone, ShellOpens, hostVars
    <3>7. FileOfQuery'
      BY <1>1, <2>1, <2>3 DEF TypeOK, FileOfQuery, ShellOpens, hostVars
    <3> QED BY <3>5, <3>6, <3>7
  <2> QED BY <1>1, <2>2, <2>3 DEF ShellOpens
<1>2. CASE PgrepLooks(h)
  <2>1. Matching(asked[h], alive) \subseteq Pids
    BY DEF TypeOK, Matching
  <2>2. TypeOK'
    <3>1. CASE ShellExits(h, "failed")
      BY <1>2, <3>1 DEF TypeOK, PgrepLooks, ShellExits, hostVars
    <3>2. CASE ~ShellExits(h, "failed")
      <4>1. /\ saw' = [saw EXCEPT ![h] = Matching(asked[h], alive)]
            /\ sh' = [sh EXCEPT ![h] = "print"]
            /\ UNCHANGED <<rc, opened, hostVars, dir, text, alive, always, ever>>
        BY <1>2, <3>2 DEF PgrepLooks
      <4> QED BY <2>1, <4>1 DEF TypeOK, hostVars
    <3> QED BY <3>1, <3>2
  <2>3. Places'
    BY <1>2 DEF TypeOK, Places, ShellDone, PgrepLooks, ShellExits, hostVars
  <2>4. FileOfQuery'
    BY <1>2 DEF TypeOK, FileOfQuery, PgrepLooks, hostVars
  <2> QED BY <2>2, <2>3, <2>4
<1>3. CASE PgrepPrints(h)
  <2>1. PICK new \in Listings(saw[h]) :
          text' = [text EXCEPT ![opened[h]] = Overwritten(text[opened[h]], new)]
    BY <1>3 DEF PgrepPrints
  <2>2. new \in Seq(Pids) /\ Len(new) <= Cardinality(Pids)
    BY <2>1, ListingFacts DEF TypeOK
  <2>3. Cardinality(Pids) \in Nat
    BY FS_CardinalityType
  <2>4. \A f \in Files : /\ Overwritten(text[f], new) \in Seq(Pids)
                         /\ Len(Overwritten(text[f], new)) <= Cardinality(Pids)
    BY <2>2, <2>3, OverwrittenFacts DEF TypeOK
  <2>5. /\ text' \in [Files -> Seq(Pids)]
        /\ \A f \in Files : Len(text'[f]) <= Cardinality(Pids)
    BY <2>1, <2>4 DEF TypeOK
  <2>6. TypeOK'
    BY <1>3, <2>5 DEF TypeOK, PgrepPrints, ShellExits, hostVars
  <2>7. Places'
    BY <1>3 DEF TypeOK, Places, ShellDone, PgrepPrints, ShellExits, hostVars
  <2>8. FileOfQuery'
    BY <1>3 DEF TypeOK, FileOfQuery, PgrepPrints, hostVars
  <2> QED BY <2>6, <2>7, <2>8
<1> QED BY <1>1, <1>2, <1>3 DEF ShellStep

\* Processes that come and go disturb nothing of the hosts.
LEMMA ProcessesInv ==
    ASSUME Inv, ProcessesChange PROVE Inv'
<1>1. alive' \subseteq Pids
  BY DEF Inv, TypeOK, ProcessesChange
<1>2. TypeOK'
  BY <1>1 DEF Inv, TypeOK, ProcessesChange, Matching, hostVars, shellVars
<1>3. Places' /\ FileOfQuery'
  BY DEF Inv, Places, FileOfQuery, ShellDone, ProcessesChange, hostVars, shellVars
<1> QED BY <1>2, <1>3 DEF Inv

\* The invariant holds in every state a host or its shell can reach.
THEOREM Invariance == Spec => []Inv
<1>1. ASSUME Inv, [Next]_vars PROVE Inv'
  <2>1. CASE Next
    BY <1>1, <2>1, HostInv, ShellInv, ProcessesInv DEF Next
  <2>2. CASE UNCHANGED vars
    BY <1>1, <2>2 DEF Inv, TypeOK, Places, FileOfQuery, ShellDone, vars, hostVars, shellVars
  <2> QED BY <1>1, <2>1, <2>2
<1> QED BY InitInv, <1>1, PTL DEF Spec

\* QueryProcessByName keeps every variable in its type: a name of the temp
\* directory holds files made under that name, and no file outgrows the pids.
THEOREM TypeCorrect == Spec => []TypeOK
<1>1. Inv => TypeOK
  BY DEF Inv
<1> QED BY Invariance, <1>1, PTL

\* Every way out of QueryProcessByName removes the output file: one that is
\* there belongs to a query that goes on or to a host that was killed, also
\* when hosts run at the same time and draw the same names.
THEOREM FilesAreRemoved == Spec => []OutputIsRemoved
<1>1. Inv => OutputIsRemoved
  BY DEF Inv, FileOfQuery, OutputIsRemoved, Calling
<1> QED BY Invariance, <1>1, PTL

-------------------------------------------------------------------------------
(* Hosts that run one after the other, each after the shells of the earlier *)
(* ones have exited.                                                        *)

Busy(h) == Running(h) \/ ~ShellDone(h)

Alone == \A g, h \in Hosts : Busy(g) /\ Busy(h) => g = h

\* What a query may report, and what it has to.
Window ==
    \A h \in Hosts :
        /\ always[h] \subseteq ever[h]
        /\ pc[h] \in Calling => /\ always[h] \subseteq Matching(asked[h], alive)
                                /\ Matching(asked[h], alive) \subseteq ever[h]

\* A list of pids that is right for the query of h.
OfItsTime(h, pids) == always[h] \subseteq pids /\ pids \subseteq ever[h]

\* What an exit code of the shell says, if the list is these pids.
CodeTells(h, pids) ==
    /\ rc[h] = "ok" => OfItsTime(h, pids)
    /\ rc[h] = "nothing" => always[h] = {}

\* The file of a query that goes on.
OutputOf(h) == ToSet(text[dir[draws[h]]])

\* How far a query is: the shell empties the file, pgrep puts there what it
\* saw, and nobody else writes until the file is read and removed.
Fresh ==
    \A h \in Hosts :
        /\ pc[h] \in {"new", "name", "launch"} => rc[h] = "unset"
        /\ pc[h] \in Calling \cup {"new"} => report[h] = {}
        /\ pc[h] = "wait" /\ sh[h] \in {"look", "print"} =>
             opened[h] \in Files /\ opened[h] = dir[draws[h]] /\ text[opened[h]] = <<>>
        /\ pc[h] = "wait" /\ sh[h] = "print" => OfItsTime(h, saw[h])
        /\ (pc[h] = "wait" /\ sh[h] = "exited") \/ pc[h] = "read" =>
             /\ rc[h] = "ok" => dir[draws[h]] # NoFile
             /\ CodeTells(h, OutputOf(h))
        /\ pc[h] = "remove" => CodeTells(h, ToSet(output[h]))

\* The inductive invariant of hosts that are not concurrent.
InTurn == Inv /\ Alone /\ Window /\ Fresh /\ ReportIsOfItsTime

\* Before any host runs, none is at work.
LEMMA InitInTurn == Init => InTurn
<1> SUFFICES ASSUME Init PROVE InTurn
  OBVIOUS
<1>1. Inv
  BY InitInv
<1>2. Alone /\ Window /\ ReportIsOfItsTime
  BY DEF Init, Alone, Busy, Running, ShellDone, Window, ReportIsOfItsTime, Calling
<1>3. Fresh
  BY DEF Init, Fresh, Calling
<1> QED BY <1>1, <1>2, <1>3 DEF InTurn

\* A host starts when no other is at work.
LEMMA StartHostInTurn ==
    ASSUME ~Concurrent, InTurn, NEW h \in Hosts, StartHost(h) PROVE InTurn'
<1> USE DEF InTurn, Inv, StartHost, shellVars
<1>1. Inv'
  BY HostInv
<1>2. Alone'
  BY DEF TypeOK, Alone, Busy, Running, ShellDone
<1>3. Window'
  BY DEF TypeOK, Window, Calling
<1>4. Fresh'
  BY DEF TypeOK, Fresh, CodeTells, OfItsTime, OutputOf, Calling
<1>5. ReportIsOfItsTime'
  BY DEF TypeOK, Fresh, ReportIsOfItsTime, Calling
<1> QED BY <1>1, <1>2, <1>3, <1>4, <1>5

\* A query starts with no report and the processes that run now.
LEMMA QueryInTurn ==
    ASSUME InTurn, NEW h \in Hosts, NEW n \in Names, Query(h, n) PROVE InTurn'
<1> USE DEF InTurn, Inv, Query
<1>1. Inv'
  BY HostInv
<1>2. Alone'
  BY DEF TypeOK, Alone, Busy, Running, ShellDone
<1>3. Window'
  BY DEF TypeOK, Window, Calling
<1>4. Fresh'
  BY DEF TypeOK, Fresh, CodeTells, OfItsTime, OutputOf, Calling
<1>5. ReportIsOfItsTime'
  BY DEF TypeOK, ReportIsOfItsTime
<1> QED BY <1>1, <1>2, <1>3, <1>4, <1>5

\* No temp directory, no report.
LEMMA MakeNameInTurn ==
    ASSUME InTurn, NEW h \in Hosts, MakeName(h) PROVE InTurn'
<1> USE DEF InTurn, Inv, MakeName, shellVars
<1>1. Inv'
  BY HostInv DEF HostStep
<1>2. Alone'
  <2>1. \A g \in Hosts : Busy(g)' => Busy(g)
    <3>1. Busy(h)
      BY DEF Busy, Running
    <3>2. \A g \in Hosts \ {h} : pc'[g] = pc[g] /\ sh'[g] = sh[g]
      BY DEF TypeOK
    <3> QED BY <3>1, <3>2 DEF Busy, Running, ShellDone
  <2> QED BY <2>1 DEF Alone
<1>3. Window'
  BY DEF TypeOK, Window, Calling
<1>4. Fresh'
  <2>1. ASSUME NEW g \in Hosts, g # h PROVE draws'[g] = draws[g] /\ pc'[g] = pc[g]
    BY <2>1 DEF TypeOK
  <2>2. pc'[h] \in {"idle", "launch"} /\ pc[h] = "name"
    BY DEF TypeOK
  <2> QED BY <2>1, <2>2 DEF TypeOK, Fresh, CodeTells, OfItsTime, OutputOf, Calling
<1>5. ReportIsOfItsTime'
  <2>1. rc[h] = "unset" /\ report[h] = {}
    BY DEF Fresh, Calling
  <2> QED BY <2>1 DEF TypeOK, ReportIsOfItsTime
<1> QED BY <1>1, <1>2, <1>3, <1>4, <1>5

\* std::system starts the shell, or says it did not.
LEMMA LaunchInTurn ==
    ASSUME InTurn, NEW h \in Hosts, Launch(h) PROVE InTurn'
<1> USE DEF InTurn, Inv, Launch
<1>1. Inv'
  BY HostInv DEF HostStep
<1>2. Alone'
  <2>1. \A g \in Hosts : Busy(g)' => Busy(g)
    <3>1. Busy(h)
      BY DEF Busy, Running
    <3>2. \A g \in Hosts \ {h} : pc'[g] = pc[g] /\ sh'[g] = sh[g]
      BY DEF TypeOK
    <3> QED BY <3>1, <3>2 DEF Busy, Running, ShellDone
  <2> QED BY <2>1 DEF Alone
<1>3. Window'
  BY DEF TypeOK, Window, Calling
<1>4. Fresh'
  <2>1. pc[h] = "launch" /\ pc'[h] \in {"wait", "read"}
    BY DEF TypeOK
  <2>2. pc'[h] = "wait" => sh'[h] = "open"
    BY DEF TypeOK
  <2>3. pc'[h] = "read" => rc'[h] = "failed"
    BY DEF TypeOK
  <2>4. report'[h] = {}
    BY DEF Fresh, Calling
  <2>5. ASSUME NEW g \in Hosts, g # h
        PROVE  pc'[g] = pc[g] /\ rc'[g] = rc[g] /\ sh'[g] = sh[g]
    BY <2>5 DEF TypeOK
  <2> QED BY <2>1, <2>2, <2>3, <2>4, <2>5 DEF Fresh, CodeTells, OfItsTime, OutputOf, Calling
<1>5. ReportIsOfItsTime'
  <2>1. ASSUME NEW g \in Hosts, pc'[g] = "idle"
        PROVE  pc[g] = "idle" /\ rc'[g] = rc[g]
    BY <2>1 DEF TypeOK
  <2> QED BY <2>1 DEF ReportIsOfItsTime
<1> QED BY <1>1, <1>2, <1>3, <1>4, <1>5

\* The file is read after the shell has exited.
LEMMA SystemReturnsInTurn ==
    ASSUME InTurn, NEW h \in Hosts, SystemReturns(h) PROVE InTurn'
<1> USE DEF InTurn, Inv, SystemReturns, shellVars
<1>1. Inv'
  BY HostInv DEF HostStep
<1>2. Alone'
  BY DEF TypeOK, Alone, Busy, Running, ShellDone
<1>3. Window'
  BY DEF TypeOK, Window, Calling
<1>4. Fresh'
  BY DEF TypeOK, Fresh, CodeTells, OfItsTime, OutputOf, Calling
<1>5. ReportIsOfItsTime'
  BY DEF TypeOK, ReportIsOfItsTime, Calling
<1> QED BY <1>1, <1>2, <1>3, <1>4, <1>5

\* ReadTextFile gets what pgrep printed.
LEMMA ReadOutputInTurn ==
    ASSUME InTurn, NEW h \in Hosts, ReadOutput(h) PROVE InTurn'
<1> USE DEF InTurn, Inv, ReadOutput, shellVars
<1>1. Inv'
  BY HostInv DEF HostStep
<1>2. Alone'
  BY DEF TypeOK, Alone, Busy, Running, ShellDone
<1>3. Window'
  BY DEF TypeOK, Window, Calling
<1>4. Fresh'
  BY DEF TypeOK, Fresh, CodeTells, OfItsTime, OutputOf, Calling
<1>5. ReportIsOfItsTime'
  BY DEF TypeOK, ReportIsOfItsTime, Calling
<1> QED BY <1>1, <1>2, <1>3, <1>4, <1>5

\* The query returns the pids of a command that succeeded.
LEMMA RemoveOutputInTurn ==
    ASSUME InTurn, NEW h \in Hosts, RemoveOutput(h) PROVE InTurn'
<1> USE DEF InTurn, Inv, RemoveOutput, shellVars
<1>1. Inv'
  BY HostInv DEF HostStep
<1>2. Alone'
  BY DEF TypeOK, Alone, Busy, Running, ShellDone
<1>3. Window'
  BY DEF TypeOK, Window, Calling
<1>4. ASSUME NEW g \in Hosts, g # h PROVE ~Running(g)
  BY <1>4 DEF Alone, Busy, Running
<1>5. Fresh'
  <2>1. pc' \in [Hosts -> {"new", "idle", "dead", "killed"}] /\ pc'[h] = "idle"
    BY <1>1, <1>4 DEF TypeOK, Running, Calling
  <2>2. ASSUME NEW g \in Hosts, pc'[g] = "new"
        PROVE  rc'[g] = "unset" /\ report'[g] = {}
    BY <2>1, <2>2 DEF TypeOK, Fresh, Calling
  <2> QED BY <2>1, <2>2 DEF Fresh, Calling
<1>6. ReportIsOfItsTime'
  BY DEF TypeOK, Fresh, CodeTells, OfItsTime, PidsFound, ReportIsOfItsTime, Calling
<1> QED BY <1>1, <1>2, <1>3, <1>5, <1>6

\* A host that ends reports nothing.
LEMMA HostDiesInTurn ==
    ASSUME InTurn, NEW h \in Hosts, HostDies(h) PROVE InTurn'
<1> USE DEF InTurn, Inv, HostDies, shellVars
<1>1. Inv'
  BY HostInv
<1>2. Alone'
  BY DEF TypeOK, Alone, Busy, Running, ShellDone
<1>3. pc'[h] \in {"dead", "killed"}
  BY DEF TypeOK
<1>4. Window'
  BY <1>3 DEF TypeOK, Window, Calling
<1>5. Fresh'
  BY <1>3 DEF TypeOK, Fresh, CodeTells, OfItsTime, OutputOf, Calling
<1>6. ReportIsOfItsTime'
  BY <1>3 DEF TypeOK, ReportIsOfItsTime
<1> QED BY <1>1, <1>2, <1>4, <1>5, <1>6

\* While a shell runs, its host is the only one at work.
LEMMA OthersRest ==
    ASSUME InTurn, NEW h \in Hosts, ~ShellDone(h), NEW g \in Hosts, g # h
    PROVE  pc[g] \in {"new", "dead", "killed"}
BY DEF InTurn, Inv, TypeOK, Alone, Busy, Running, Calling

\* The shell creates or empties the file of the query.
LEMMA ShellOpensInTurn ==
    ASSUME InTurn, NEW h \in Hosts, ShellOpens(h) PROVE InTurn'
<1> USE DEF InTurn, Inv, ShellOpens, hostVars
<1>1. Inv'
  BY ShellInv DEF ShellStep
<1>2. Alone' /\ Window' /\ ReportIsOfItsTime'
  <2>1. \A g \in Hosts : Busy(g)' => Busy(g)
    BY DEF TypeOK, Busy, Running, ShellDone, ShellExits
  <2>2. \A g \in Hosts : pc[g] = "idle" => rc'[g] = rc[g]
    BY DEF TypeOK, Places, ShellDone, ShellExits
  <2> QED BY <2>1, <2>2 DEF Alone, Window, ReportIsOfItsTime
<1>3. \A g \in Hosts \ {h} : pc[g] \in {"new", "dead", "killed"}
  BY OthersRest DEF ShellDone
<1>4. Fresh'
  <2>1. CASE ShellExits(h, "failed") /\ UNCHANGED <<dir, text>>
    BY <1>3, <2>1 DEF TypeOK, Places, ShellDone, ShellExits, Fresh, CodeTells, OfItsTime,
       OutputOf, Calling
  <2>2. ASSUME NEW f, f = IF dir[draws[h]] = NoFile THEN <<h, draws[h]>> ELSE dir[draws[h]],
               dir' = [dir EXCEPT ![draws[h]] = f],
               text' = [text EXCEPT ![f] = <<>>],
               opened' = [opened EXCEPT ![h] = f],
               sh' = [sh EXCEPT ![h] = "look"],
               UNCHANGED <<rc, saw>>
        PROVE  Fresh'
    <3>1. draws[h] \in Stamps /\ pc[h] \in {"wait", "killed"}
      BY DEF Places, ShellDone
    <3>2. f \in Files
      BY <2>2, <3>1 DEF TypeOK, Files
    <3>3. opened'[h] \in Files /\ opened'[h] = dir'[draws'[h]] /\ text'[opened'[h]] = <<>>
      BY <2>2, <3>1, <3>2 DEF TypeOK
    <3> QED BY <1>3, <2>2, <3>1, <3>3 DEF TypeOK, Fresh, Calling
  <2> QED BY <2>1, <2>2
<1> QED BY <1>1, <1>2, <1>4

\* pgrep sees what runs now: what ran all the time, and nothing that never did.
LEMMA PgrepLooksInTurn ==
    ASSUME InTurn, NEW h \in Hosts, PgrepLooks(h) PROVE InTurn'
<1> USE DEF InTurn, Inv, PgrepLooks, hostVars
<1>1. Inv'
  BY ShellInv DEF ShellStep
<1>2. Alone' /\ Window' /\ ReportIsOfItsTime'
  <2>1. \A g \in Hosts : Busy(g)' => Busy(g)
    BY DEF TypeOK, Busy, Running, ShellDone, ShellExits
  <2>2. \A g \in Hosts : pc[g] = "idle" => rc'[g] = rc[g]
    BY DEF TypeOK, Places, ShellDone, ShellExits
  <2> QED BY <2>1, <2>2 DEF Alone, Window, ReportIsOfItsTime
<1>3. \A g \in Hosts \ {h} : pc[g] \in {"new", "dead", "killed"}
  BY OthersRest DEF ShellDone
<1>4. pc[h] \in {"wait", "killed"}
  BY DEF Places, ShellDone
<1>5. Fresh'
  <2>1. CASE ShellExits(h, "failed")
    BY <1>3, <1>4, <2>1 DEF TypeOK, ShellExits, Fresh, CodeTells, OfItsTime, OutputOf, Calling
  <2>2. CASE /\ saw' = [saw EXCEPT ![h] = Matching(asked[h], alive)]
             /\ sh' = [sh EXCEPT ![h] = "print"]
             /\ UNCHANGED <<rc, opened>>
    <3>1. pc[h] = "wait" => OfItsTime(h, saw[h])'
      BY <2>2 DEF TypeOK, Window, OfItsTime, Calling
    <3>2. /\ sh'[h] = "print" /\ sh[h] = "look" /\ pc' = pc /\ rc' = rc /\ report' = report
          /\ draws' = draws /\ opened' = opened
          /\ \A g \in Hosts \ {h} : sh'[g] = sh[g] /\ saw'[g] = saw[g]
      BY <2>2 DEF TypeOK
    <3> QED BY <1>3, <1>4, <2>2, <3>1, <3>2 DEF Fresh, Calling
  <2> QED BY <2>1, <2>2
<1> QED BY <1>1, <1>2, <1>5

\* The list goes to an empty file.
LEMMA PgrepPrintsInTurn ==
    ASSUME InTurn, NEW h \in Hosts, PgrepPrints(h) PROVE InTurn'
<1> USE DEF InTurn, Inv, PgrepPrints, hostVars
<1>1. Inv'
  BY ShellInv DEF ShellStep
<1>2. Alone' /\ Window' /\ ReportIsOfItsTime'
  <2>1. \A g \in Hosts : Busy(g)' => Busy(g)
    BY DEF TypeOK, Busy, Running, ShellDone, ShellExits
  <2>2. \A g \in Hosts : pc[g] = "idle" => rc'[g] = rc[g]
    BY DEF TypeOK, Places, ShellDone, ShellExits
  <2> QED BY <2>1, <2>2 DEF Alone, Window, ReportIsOfItsTime
<1>3. \A g \in Hosts \ {h} : pc[g] \in {"new", "dead", "killed"}
  BY OthersRest DEF ShellDone
<1>4. pc[h] \in {"wait", "killed"}
  BY DEF Places, ShellDone
<1>5. PICK new \in Listings(saw[h]) :
        text' = [text EXCEPT ![opened[h]] = Overwritten(text[opened[h]], new)]
  OBVIOUS
<1>6. new \in Seq(Pids) /\ ToSet(new) = saw[h]
  BY <1>5, ListingFacts DEF TypeOK
<1>7. ASSUME pc[h] = "wait"
      PROVE  /\ dir'[draws'[h]] # NoFile
             /\ OutputOf(h)' = saw[h]
             /\ OfItsTime(h, saw[h])
  <2>1. /\ opened[h] \in Files /\ opened[h] = dir[draws[h]]
        /\ text[opened[h]] = <<>> /\ OfItsTime(h, saw[h])
    BY <1>7 DEF Fresh
  <2>2. text'[opened[h]] = new
    BY <1>5, <1>6, <2>1, WrittenToEmpty DEF TypeOK
  <2> QED BY <1>6, <2>1, <2>2, FilesAssumption DEF OutputOf
<1>8. ASSUME pc[h] = "wait" PROVE CodeTells(h, OutputOf(h))'
  <2>1. rc'[h] = IF saw[h] = {} THEN "nothing" ELSE "ok"
    BY DEF TypeOK, ShellExits
  <2> QED BY <1>7, <1>8, <2>1 DEF CodeTells, OfItsTime
<1>9. Fresh'
  BY <1>3, <1>4, <1>7, <1>8 DEF TypeOK, ShellExits, Fresh, Calling
<1> QED BY <1>1, <1>2, <1>9

\* A process that starts or ends during a query narrows what has to be
\* reported and widens what may be.
LEMMA ProcessesInTurn ==
    ASSUME InTurn, ProcessesChange PROVE InTurn'
<1> USE DEF InTurn, Inv, ProcessesChange, hostVars, shellVars
<1>1. Inv'
  BY ProcessesInv
<1>2. Alone'
  BY DEF Alone, Busy, Running, ShellDone
<1>3. \A h \in Hosts : always'[h] \subseteq always[h] /\ ever[h] \subseteq ever'[h]
  OBVIOUS
<1>4. Window'
  BY DEF TypeOK, Window, Matching, Calling
<1>5. \A h \in Hosts : \A pids : /\ OfItsTime(h, pids) => OfItsTime(h, pids)'
                                 /\ always[h] = {} => always'[h] = {}
  BY <1>3 DEF OfItsTime
<1>6. Fresh'
  BY <1>3, <1>5 DEF Fresh, CodeTells, OfItsTime, OutputOf
<1>7. ReportIsOfItsTime'
  BY <1>3 DEF ReportIsOfItsTime
<1> QED BY <1>1, <1>2, <1>4, <1>6, <1>7

\* Of hosts that run one after the other, a query names only processes of its
\* program that ran while it did, and all that ran all the time, unless the
\* command failed: the unseeded std::rand() gives the next host the names of the
\* one before it, and what a killed host left under one is never read.
THEOREM ReportsAreOfTheirTime ==
    ASSUME ~Concurrent
    PROVE  Spec => []ReportIsOfItsTime
<1>1. ASSUME InTurn, [Next]_vars PROVE InTurn'
  <2>1. ASSUME NEW h \in Hosts,
               \/ StartHost(h) \/ HostStep(h) \/ ShellStep(h) \/ HostDies(h)
               \/ \E n \in Names : Query(h, n)
        PROVE  InTurn'
    BY <1>1, <2>1, StartHostInTurn, MakeNameInTurn, LaunchInTurn, SystemReturnsInTurn,
       ReadOutputInTurn, RemoveOutputInTurn, ShellOpensInTurn, PgrepLooksInTurn,
       PgrepPrintsInTurn, HostDiesInTurn, QueryInTurn DEF HostStep, ShellStep
  <2>2. CASE ProcessesChange
    BY <1>1, <2>2, ProcessesInTurn
  <2>3. CASE UNCHANGED vars
    <3> USE <1>1, <2>3 DEF InTurn, vars, hostVars, shellVars
    <3>1. Inv'
      BY DEF Inv, TypeOK, Places, FileOfQuery, ShellDone
    <3>2. Alone' /\ Window' /\ ReportIsOfItsTime'
      BY DEF Alone, Window, ReportIsOfItsTime, Busy, Running, ShellDone
    <3>3. Fresh'
      BY DEF Fresh, CodeTells, OfItsTime, OutputOf
    <3> QED BY <3>1, <3>2, <3>3
  <2> QED BY <1>1, <2>1, <2>2, <2>3 DEF Next
<1>2. InTurn => ReportIsOfItsTime
  BY DEF InTurn
<1> QED BY InitInTurn, <1>1, <1>2, PTL DEF Spec

===============================================================================
