--------------------------- MODULE FileReplaceProofs ---------------------------
(***************************************************************************)
(* Proofs about FileReplace, for any number of writers, readers, temp      *)
(* files and contents: its safety properties, and that it implements       *)
(* AtomicFile.                                                             *)
(***************************************************************************)
EXTENDS FileReplace, TLAPS

Running(w) == pc[w] # "idle"

\* A running call owns its temp file, and nobody else uses it.
OwnTemps ==
    /\ \A w \in Writers : Running(w) =>
         tmp[w] \in Temps /\ outcome[tmp[w]] = "busy"
    /\ \A w, v \in Writers :
         Running(w) /\ Running(v) /\ tmp[w] = tmp[v] => w = v
    /\ \A w \in Writers : ~Running(w) /\ tmp[w] \in Temps =>
         outcome[tmp[w]] # "unused"

\* What the place a call has reached says of its temp file.
Progress ==
    \A w \in Writers :
        /\ pc[w] \in {"open", "write", "fflush", "fsync"} => tmp[w] \notin flushed
        /\ pc[w] = "fsync" => file[tmp[w]] = arg[w]
        /\ pc[w] \in {"close", "rename", "syncDir"} => tmp[w] \in flushed
        /\ pc[w] \in {"open", "syncDir"} => tmp[w] \notin linked
        /\ pc[w] = "syncDir" => Installed(tmp[w])

\* Data is synced before the rename: whatever was ever the target is whole, now
\* and after a power loss.
OnlyWholeFilesInstalled ==
    /\ \A t \in flushed : file[t] \in Contents
    /\ \A i \in 1..Len(hist) : hist[i] \in flushed

UnusedTemps ==
    \A t \in Temps : outcome[t] = "unused" => t \notin flushed /\ t \notin linked

\* A successful call's file is in the part of hist that only the loss of a fresh
\* directory takes back, or was lost with one.
SuccessIsSynced ==
    syncsDirs => \A t \in Temps :
        outcome[t] = "ok" => t \in vanished \/ \E i \in 1..synced : hist[i] = t

ReadersHoldWholeFiles ==
    \A r \in Readers : (fd[r] # NoTemp => fd[r] \in flushed) /\ got[r] # Torn

\* The inductive invariant.
Inv == /\ TypeOK
       /\ OwnTemps
       /\ Progress
       /\ OnlyWholeFilesInstalled
       /\ UnusedTemps
       /\ SuccessIsSynced
       /\ ReadersHoldWholeFiles
       /\ TempsAreCleanedUp

\* A call starts with a temp file nobody has used.
LEMMA BeginStep ==
    ASSUME Inv, NEW w \in Writers, NEW v \in Contents, Begin(w, v)
    PROVE  Inv'
<1> USE ConstantsAssumption DEF Inv, Running, Begin, MakeDirectory, FreshTemp, Goto, reader
<1>1. TypeOK'
  BY DEF TypeOK, Dirs, Pcs, Outcomes, OwnTemps
<1>2. OwnTemps'
  BY DEF TypeOK, OwnTemps
<1>3. Progress'
  BY DEF TypeOK, Progress, OwnTemps, Installed, UnusedTemps
<1>4. OnlyWholeFilesInstalled'
  BY DEF TypeOK, OnlyWholeFilesInstalled, Progress, OwnTemps
<1>5. UnusedTemps'
  BY DEF TypeOK, UnusedTemps, OwnTemps
<1>6. SuccessIsSynced'
  BY DEF TypeOK, SuccessIsSynced, OwnTemps, Progress, Installed
<1>7. ReadersHoldWholeFiles'
  BY DEF TypeOK, ReadersHoldWholeFiles, OnlyWholeFilesInstalled, Progress, OwnTemps
<1>8. TempsAreCleanedUp'
  BY DEF TypeOK, TempsAreCleanedUp, OwnTemps, Progress, UnusedTemps
<1> QED BY <1>1, <1>2, <1>3, <1>4, <1>5, <1>6, <1>7, <1>8

\* fopen makes the temp name, or the call fails with nothing to remove.
LEMMA OpenTempStep ==
    ASSUME Inv, NEW w \in Writers, OpenTemp(w)
    PROVE  Inv'
<1> USE ConstantsAssumption DEF Inv, Running, OpenTemp, Return, Goto, reader, place
<1>1. TypeOK'
  BY DEF TypeOK, Dirs, Pcs, Outcomes, OwnTemps
<1>2. OwnTemps'
  <2>1. tmp' = tmp /\ pc[w] = "open" /\ tmp[w] \in Temps
    BY DEF OwnTemps
  <2>2. CASE outcome' = outcome /\ pc' = [pc EXCEPT ![w] = "write"]
    BY <2>1, <2>2 DEF TypeOK, OwnTemps
  <2>3. CASE outcome' = [outcome EXCEPT ![tmp[w]] = "failed"] /\ pc' = [pc EXCEPT ![w] = "idle"]
    BY <2>1, <2>3 DEF TypeOK, OwnTemps
  <2> QED
    BY <2>2, <2>3
<1>3. Progress'
  BY DEF TypeOK, Progress, OwnTemps, Installed, UnusedTemps
<1>4. OnlyWholeFilesInstalled'
  BY DEF TypeOK, OnlyWholeFilesInstalled, Progress, OwnTemps
<1>5. UnusedTemps'
  BY DEF TypeOK, UnusedTemps, OwnTemps
<1>6. SuccessIsSynced'
  BY DEF TypeOK, SuccessIsSynced, OwnTemps, Progress, Installed
<1>7. ReadersHoldWholeFiles'
  BY DEF TypeOK, ReadersHoldWholeFiles, OnlyWholeFilesInstalled, Progress, OwnTemps
<1>8. TempsAreCleanedUp'
  BY DEF TypeOK, TempsAreCleanedUp, OwnTemps, Progress, UnusedTemps
<1> QED BY <1>1, <1>2, <1>3, <1>4, <1>5, <1>6, <1>7, <1>8

\* fwrite touches only the temp file of the call, which is not yet synced.
LEMMA WriteTempStep ==
    ASSUME Inv, NEW w \in Writers, WriteTemp(w)
    PROVE  Inv'
<1> USE ConstantsAssumption DEF Inv, Running, WriteTemp, Goto, reader, place
<1>1. TypeOK'
  <2>1. tmp[w] \in Temps
    BY DEF TypeOK, OwnTemps
  <2>2. pc' \in [Writers -> Pcs]
    BY DEF TypeOK, Pcs
  <2>3. file' \in [Temps -> Contents \cup {Torn}]
    BY <2>1 DEF TypeOK
  <2> QED BY <2>2, <2>3 DEF TypeOK
<1>2. OwnTemps'
  BY DEF TypeOK, OwnTemps
<1>3. Progress'
  BY DEF TypeOK, Progress, OwnTemps, Installed, UnusedTemps
<1>4. OnlyWholeFilesInstalled'
  BY DEF TypeOK, OnlyWholeFilesInstalled, Progress, OwnTemps
<1>5. UnusedTemps'
  BY DEF TypeOK, UnusedTemps, OwnTemps
<1>6. SuccessIsSynced'
  BY DEF TypeOK, SuccessIsSynced, OwnTemps, Progress, Installed
<1>7. ReadersHoldWholeFiles'
  BY DEF TypeOK, ReadersHoldWholeFiles, OnlyWholeFilesInstalled, Progress, OwnTemps
<1>8. TempsAreCleanedUp'
  BY DEF TypeOK, TempsAreCleanedUp, OwnTemps, Progress, UnusedTemps
<1> QED BY <1>1, <1>2, <1>3, <1>4, <1>5, <1>6, <1>7, <1>8

\* After fflush the temp file holds what the call was given.
LEMMA FlushTempStep ==
    ASSUME Inv, NEW w \in Writers, FlushTemp(w)
    PROVE  Inv'
<1> USE ConstantsAssumption DEF Inv, Running, FlushTemp, Goto, reader, place
<1>1. TypeOK'
  BY DEF TypeOK, Dirs, Pcs, Outcomes, OwnTemps
<1>2. OwnTemps'
  BY DEF TypeOK, OwnTemps
<1>3. Progress'
  BY DEF TypeOK, Progress, OwnTemps, Installed, UnusedTemps
<1>4. OnlyWholeFilesInstalled'
  BY DEF TypeOK, OnlyWholeFilesInstalled, Progress, OwnTemps
<1>5. UnusedTemps'
  BY DEF TypeOK, UnusedTemps, OwnTemps
<1>6. SuccessIsSynced'
  BY DEF TypeOK, SuccessIsSynced, OwnTemps, Progress, Installed
<1>7. ReadersHoldWholeFiles'
  BY DEF TypeOK, ReadersHoldWholeFiles, OnlyWholeFilesInstalled, Progress, OwnTemps
<1>8. TempsAreCleanedUp'
  BY DEF TypeOK, TempsAreCleanedUp, OwnTemps, Progress, UnusedTemps
<1> QED BY <1>1, <1>2, <1>3, <1>4, <1>5, <1>6, <1>7, <1>8

\* fsync makes whole contents durable, the only ones that ever become so.
LEMMA SyncTempStep ==
    ASSUME Inv, NEW w \in Writers, SyncTemp(w)
    PROVE  Inv'
<1> USE ConstantsAssumption DEF Inv, Running, SyncTemp, Goto, reader, place
<1>1. TypeOK'
  BY DEF TypeOK, Dirs, Pcs, Outcomes, OwnTemps
<1>2. OwnTemps'
  BY DEF TypeOK, OwnTemps
<1>3. Progress'
  BY DEF TypeOK, Progress, OwnTemps, Installed, UnusedTemps
<1>4. OnlyWholeFilesInstalled'
  BY DEF TypeOK, OnlyWholeFilesInstalled, Progress, OwnTemps
<1>5. UnusedTemps'
  BY DEF TypeOK, UnusedTemps, OwnTemps
<1>6. SuccessIsSynced'
  BY DEF TypeOK, SuccessIsSynced, OwnTemps, Progress, Installed
<1>7. ReadersHoldWholeFiles'
  BY DEF TypeOK, ReadersHoldWholeFiles, OnlyWholeFilesInstalled, Progress, OwnTemps
<1>8. TempsAreCleanedUp'
  BY DEF TypeOK, TempsAreCleanedUp, OwnTemps, Progress, UnusedTemps
<1> QED BY <1>1, <1>2, <1>3, <1>4, <1>5, <1>6, <1>7, <1>8

\* Only a call whose temp file was synced goes on to the rename.
LEMMA CloseTempStep ==
    ASSUME Inv, NEW w \in Writers, CloseTemp(w)
    PROVE  Inv'
<1> USE ConstantsAssumption DEF Inv, Running, CloseTemp, Goto, disk, reader, place
<1>1. TypeOK'
  BY DEF TypeOK, Dirs, Pcs, Outcomes, OwnTemps
<1>2. OwnTemps'
  BY DEF TypeOK, OwnTemps
<1>3. Progress'
  BY DEF TypeOK, Progress, OwnTemps, Installed, UnusedTemps
<1>4. OnlyWholeFilesInstalled'
  BY DEF TypeOK, OnlyWholeFilesInstalled, Progress, OwnTemps
<1>5. UnusedTemps'
  BY DEF TypeOK, UnusedTemps, OwnTemps
<1>6. SuccessIsSynced'
  BY DEF TypeOK, SuccessIsSynced, OwnTemps, Progress, Installed
<1>7. ReadersHoldWholeFiles'
  BY DEF TypeOK, ReadersHoldWholeFiles, OnlyWholeFilesInstalled, Progress, OwnTemps
<1>8. TempsAreCleanedUp'
  BY DEF TypeOK, TempsAreCleanedUp, OwnTemps, Progress, UnusedTemps
<1> QED BY <1>1, <1>2, <1>3, <1>4, <1>5, <1>6, <1>7, <1>8

\* Renaming a file to the target leaves the earlier part of hist alone.
LEMMA RenameExtendsHist ==
    ASSUME TypeOK, NEW t \in Temps, hist' = Append(hist, t)
    PROVE  /\ hist' \in Seq(Temps)
           /\ Len(hist') = Len(hist) + 1
           /\ \A i \in 1..Len(hist) : hist'[i] = hist[i]
           /\ hist'[Len(hist')] = t
  BY DEF TypeOK

\* The rename installs a synced file and takes its temp name away.
LEMMA RenameTempStep ==
    ASSUME Inv, NEW w \in Writers, RenameTemp(w)
    PROVE  Inv'
<1> USE ConstantsAssumption DEF Inv, Running, RenameTemp, Goto, reader, place
<1>0. tmp[w] \in Temps /\ tmp[w] \in flushed
  BY DEF TypeOK, OwnTemps, Progress
<1>a. CASE hist' = Append(hist, tmp[w]) /\ linked' = linked \ {tmp[w]} /\ Goto(w, "syncDir")
  <2>0. /\ hist' \in Seq(Temps)
        /\ Len(hist') = Len(hist) + 1
        /\ \A i \in 1..Len(hist) : hist'[i] = hist[i]
        /\ hist'[Len(hist')] = tmp[w]
        /\ Len(hist) \in Nat /\ synced \in 0..Len(hist)
    BY <1>0, <1>a, RenameExtendsHist DEF TypeOK
  <2>1. TypeOK'
    <3>1. pc' \in [Writers -> Pcs] /\ linked' \in SUBSET Temps
      BY <1>a DEF TypeOK, Pcs
    <3>2. synced' \in 0..Len(hist')
      BY <2>0
    <3> QED BY <2>0, <3>1, <3>2 DEF TypeOK
  <2>2. OwnTemps'
    BY <1>a DEF TypeOK, OwnTemps
  <2>3. Progress'
    <3>1. Installed(tmp[w])'
      <4>1. Len(hist') \in 1..Len(hist')
        BY <2>0
      <4> QED BY <2>0, <4>1 DEF Installed
    <3>2. \A v \in Writers : Installed(tmp[v]) => Installed(tmp[v])'
      <4> SUFFICES ASSUME NEW v \in Writers, NEW i \in 1..Len(hist), hist[i] = tmp[v]
                   PROVE  Installed(tmp[v])'
        BY DEF Installed
      <4>1. i \in 1..Len(hist') /\ hist'[i] = tmp[v]
        BY <2>0
      <4> QED BY <4>1 DEF Installed
    <3>3. \A v \in Writers : v # w => pc'[v] = pc[v]
      BY <1>a DEF TypeOK
    <3>4. pc'[w] = "syncDir" /\ tmp[w] \in flushed /\ tmp[w] \notin linked'
      BY <1>0, <1>a DEF TypeOK
    <3> QED BY <1>a, <3>1, <3>2, <3>3, <3>4 DEF Progress
  <2>4. OnlyWholeFilesInstalled'
    BY <1>0, <2>0 DEF OnlyWholeFilesInstalled
  <2>5. UnusedTemps' /\ ReadersHoldWholeFiles' /\ TempsAreCleanedUp'
    BY <1>a DEF TypeOK, UnusedTemps, ReadersHoldWholeFiles, TempsAreCleanedUp
  <2>6. SuccessIsSynced'
    <3> SUFFICES ASSUME syncsDirs, NEW t \in Temps, outcome[t] = "ok", t \notin vanished
                 PROVE  \E i \in 1..synced : hist'[i] = t
      BY DEF SuccessIsSynced
    <3>1. PICK i \in 1..synced : hist[i] = t
      BY DEF SuccessIsSynced
    <3> QED BY <3>1, <2>0
  <2> QED BY <2>1, <2>2, <2>3, <2>4, <2>5, <2>6
<1>b. CASE UNCHANGED <<hist, linked>> /\ Goto(w, "remove")
  <2>1. TypeOK'
    BY <1>b DEF TypeOK, Pcs
  <2>2. OwnTemps'
    BY <1>b DEF TypeOK, OwnTemps
  <2>3. Progress' /\ SuccessIsSynced' /\ OnlyWholeFilesInstalled'
    BY <1>b DEF TypeOK, Progress, SuccessIsSynced, OnlyWholeFilesInstalled, Installed
  <2>4. UnusedTemps' /\ ReadersHoldWholeFiles' /\ TempsAreCleanedUp'
    BY <1>b DEF TypeOK, UnusedTemps, ReadersHoldWholeFiles, TempsAreCleanedUp
  <2> QED BY <2>1, <2>2, <2>3, <2>4
<1> QED BY <1>a, <1>b

\* Success is returned when the directory is synced up to the file installed.
LEMMA SyncDirStep ==
    ASSUME Inv, NEW w \in Writers, SyncDir(w)
    PROVE  Inv'
<1> USE ConstantsAssumption DEF Inv, Running, SyncDir, Return, Goto, reader, place
<1>1. TypeOK'
  BY DEF TypeOK, Dirs, Pcs, Outcomes, OwnTemps
<1>2. OwnTemps'
  BY DEF TypeOK, OwnTemps
<1>3. Progress'
  BY DEF TypeOK, Progress, OwnTemps, Installed, UnusedTemps
<1>4. OnlyWholeFilesInstalled'
  BY DEF TypeOK, OnlyWholeFilesInstalled, Progress, OwnTemps
<1>5. UnusedTemps'
  BY DEF TypeOK, UnusedTemps, OwnTemps
<1>6. SuccessIsSynced'
  BY DEF TypeOK, SuccessIsSynced, OwnTemps, Progress, Installed
<1>7. ReadersHoldWholeFiles'
  BY DEF TypeOK, ReadersHoldWholeFiles, OnlyWholeFilesInstalled, Progress, OwnTemps
<1>8. TempsAreCleanedUp'
  BY DEF TypeOK, TempsAreCleanedUp, OwnTemps, Progress, UnusedTemps
<1> QED BY <1>1, <1>2, <1>3, <1>4, <1>5, <1>6, <1>7, <1>8

\* The error paths end with the temp name removed, or the failure to do so noted.
LEMMA RemoveTempStep ==
    ASSUME Inv, NEW w \in Writers, RemoveTemp(w)
    PROVE  Inv'
<1> USE ConstantsAssumption DEF Inv, Running, RemoveTemp, Return, Goto, reader, place
<1>1. TypeOK'
  <2>1. tmp[w] \in Temps
    BY DEF TypeOK, OwnTemps
  <2>2. pc' \in [Writers -> Pcs]
    BY DEF TypeOK, Pcs
  <2>3. outcome' \in [Temps -> Outcomes]
    BY <2>1 DEF TypeOK, Outcomes
  <2>4. linked' \in SUBSET Temps
    BY DEF TypeOK
  <2> QED BY <2>2, <2>3, <2>4 DEF TypeOK
<1>2. OwnTemps'
  BY DEF TypeOK, OwnTemps
<1>3. Progress'
  BY DEF TypeOK, Progress, OwnTemps, Installed, UnusedTemps
<1>4. OnlyWholeFilesInstalled'
  BY DEF TypeOK, OnlyWholeFilesInstalled, Progress, OwnTemps
<1>5. UnusedTemps'
  BY DEF TypeOK, UnusedTemps, OwnTemps
<1>6. SuccessIsSynced'
  BY DEF TypeOK, SuccessIsSynced, OwnTemps, Progress, Installed
<1>7. ReadersHoldWholeFiles'
  BY DEF TypeOK, ReadersHoldWholeFiles, OnlyWholeFilesInstalled, Progress, OwnTemps
<1>8. TempsAreCleanedUp'
  BY DEF TypeOK, TempsAreCleanedUp, OwnTemps, Progress, UnusedTemps
<1> QED BY <1>1, <1>2, <1>3, <1>4, <1>5, <1>6, <1>7, <1>8

\* A process that dies leaves its temp file to nobody.
LEMMA ProcessDiesStep ==
    ASSUME Inv, NEW w \in Writers, ProcessDies(w)
    PROVE  Inv'
<1> USE ConstantsAssumption DEF Inv, Running, ProcessDies, Return, Goto, disk, reader, place
<1>1. TypeOK'
  BY DEF TypeOK, Dirs, Pcs, Outcomes, OwnTemps
<1>2. OwnTemps'
  BY DEF TypeOK, OwnTemps
<1>3. Progress'
  BY DEF TypeOK, Progress, OwnTemps, Installed, UnusedTemps
<1>4. OnlyWholeFilesInstalled'
  BY DEF TypeOK, OnlyWholeFilesInstalled, Progress, OwnTemps
<1>5. UnusedTemps'
  BY DEF TypeOK, UnusedTemps, OwnTemps
<1>6. SuccessIsSynced'
  BY DEF TypeOK, SuccessIsSynced, OwnTemps, Progress, Installed
<1>7. ReadersHoldWholeFiles'
  BY DEF TypeOK, ReadersHoldWholeFiles, OnlyWholeFilesInstalled, Progress, OwnTemps
<1>8. TempsAreCleanedUp'
  BY DEF TypeOK, TempsAreCleanedUp, OwnTemps, Progress, UnusedTemps
<1> QED BY <1>1, <1>2, <1>3, <1>4, <1>5, <1>6, <1>7, <1>8

\* A reader opens the target, a synced file.
LEMMA ReaderOpenStep ==
    ASSUME Inv, NEW r \in Readers, ReaderOpen(r)
    PROVE  Inv'
<1> USE ConstantsAssumption DEF Inv, Running, ReaderOpen, disk, caller, Target, place
<1>1. TypeOK'
  BY DEF TypeOK, Dirs, Pcs, Outcomes, OwnTemps
<1>2. OwnTemps'
  BY DEF TypeOK, OwnTemps
<1>3. Progress'
  BY DEF TypeOK, Progress, OwnTemps, Installed, UnusedTemps
<1>4. OnlyWholeFilesInstalled'
  BY DEF TypeOK, OnlyWholeFilesInstalled, Progress, OwnTemps
<1>5. UnusedTemps'
  BY DEF TypeOK, UnusedTemps, OwnTemps
<1>6. SuccessIsSynced'
  BY DEF TypeOK, SuccessIsSynced, OwnTemps, Progress, Installed
<1>7. ReadersHoldWholeFiles'
  <2>1. Target \in flushed
    <3>1. hist # <<>> /\ Len(hist) \in Nat
      BY DEF TypeOK
    <3>2. Len(hist) \in 1..Len(hist)
      BY <3>1 DEF TypeOK
    <3> QED BY <3>1, <3>2 DEF OnlyWholeFilesInstalled
  <2> QED BY <2>1 DEF TypeOK, ReadersHoldWholeFiles
<1>8. TempsAreCleanedUp'
  BY DEF TypeOK, TempsAreCleanedUp, OwnTemps, Progress, UnusedTemps
<1> QED BY <1>1, <1>2, <1>3, <1>4, <1>5, <1>6, <1>7, <1>8

\* A reader gets what the file it opened holds.
LEMMA ReaderReadStep ==
    ASSUME Inv, NEW r \in Readers, ReaderRead(r)
    PROVE  Inv'
<1> USE ConstantsAssumption DEF Inv, Running, ReaderRead, disk, caller, place
<1>1. TypeOK'
  BY DEF TypeOK, Dirs, Pcs, Outcomes, OwnTemps
<1>2. OwnTemps'
  BY DEF TypeOK, OwnTemps
<1>3. Progress'
  BY DEF TypeOK, Progress, OwnTemps, Installed, UnusedTemps
<1>4. OnlyWholeFilesInstalled'
  BY DEF TypeOK, OnlyWholeFilesInstalled, Progress, OwnTemps
<1>5. UnusedTemps'
  BY DEF TypeOK, UnusedTemps, OwnTemps
<1>6. SuccessIsSynced'
  BY DEF TypeOK, SuccessIsSynced, OwnTemps, Progress, Installed
<1>7. ReadersHoldWholeFiles'
  BY DEF TypeOK, ReadersHoldWholeFiles, OnlyWholeFilesInstalled, Progress, OwnTemps
<1>8. TempsAreCleanedUp'
  BY DEF TypeOK, TempsAreCleanedUp, OwnTemps, Progress, UnusedTemps
<1> QED BY <1>1, <1>2, <1>3, <1>4, <1>5, <1>6, <1>7, <1>8

\* A power loss spares synced files and the synced part of hist.
LEMMA PowerLossStep ==
    ASSUME Inv, PowerLoss
    PROVE  Inv'
<1> USE ConstantsAssumption DEF Inv, Running, PowerLoss, DirectoryStays, DirectoryVanishes
<1>1. TypeOK'
  <2>1. hist' \in Seq(Temps) /\ synced' \in 0..Len(hist')
    <3>1. CASE DirectoryStays
      BY <3>1 DEF TypeOK
    <3>2. CASE DirectoryVanishes
      BY <3>2
    <3> QED
      BY <3>1, <3>2
  <2>2. dir' \in Dirs /\ vanished' \in SUBSET Temps
    BY DEF TypeOK, Dirs
  <2>3. pc' \in [Writers -> Pcs] /\ outcome' \in [Temps -> Outcomes]
    BY DEF TypeOK, Pcs, Outcomes
  <2> QED
    BY <2>1, <2>2, <2>3 DEF TypeOK
<1>2. OwnTemps'
  BY DEF TypeOK, OwnTemps
<1>3. Progress'
  BY DEF TypeOK, Progress, OwnTemps, Installed, UnusedTemps
<1>4. OnlyWholeFilesInstalled'
  BY DEF TypeOK, OnlyWholeFilesInstalled, Progress, OwnTemps
<1>5. UnusedTemps'
  BY DEF TypeOK, UnusedTemps, OwnTemps
<1>6. SuccessIsSynced'
  BY DEF TypeOK, SuccessIsSynced, OwnTemps, Progress, Installed
<1>7. ReadersHoldWholeFiles'
  BY DEF TypeOK, ReadersHoldWholeFiles, OnlyWholeFilesInstalled, Progress, OwnTemps
<1>8. TempsAreCleanedUp'
  BY DEF TypeOK, TempsAreCleanedUp, OwnTemps, Progress, UnusedTemps
<1> QED BY <1>1, <1>2, <1>3, <1>4, <1>5, <1>6, <1>7, <1>8

-------------------------------------------------------------------------------

\* The invariant holds initially.
LEMMA InitInv == Init => Inv
<1> SUFFICES ASSUME Init
             PROVE  Inv
  OBVIOUS
<1> USE ConstantsAssumption DEF Init, Running
<1>1. TypeOK
  BY DEF TypeOK, Dirs, Pcs, Outcomes
<1>2. OwnTemps /\ Progress /\ UnusedTemps
  BY DEF OwnTemps, Progress, UnusedTemps
<1>3. OnlyWholeFilesInstalled /\ ReadersHoldWholeFiles /\ TempsAreCleanedUp
  BY DEF OnlyWholeFilesInstalled, ReadersHoldWholeFiles, TempsAreCleanedUp
<1>4. SuccessIsSynced
  BY DEF SuccessIsSynced
<1> QED BY <1>1, <1>2, <1>3, <1>4 DEF Inv

\* Every step preserves the invariant.
LEMMA StepInv == Inv /\ [Next]_vars => Inv'
<1> SUFFICES ASSUME Inv, [Next]_vars
             PROVE  Inv'
  OBVIOUS
<1>1. CASE \E w \in Writers, v \in Contents : Begin(w, v)
  BY <1>1, BeginStep
<1>2. CASE \E w \in Writers : Step(w)
  BY <1>2, OpenTempStep, WriteTempStep, FlushTempStep, SyncTempStep,
     CloseTempStep, RenameTempStep, SyncDirStep, RemoveTempStep DEF Step
<1>3. CASE \E w \in Writers : ProcessDies(w)
  BY <1>3, ProcessDiesStep
<1>4. CASE \E r \in Readers : ReaderOpen(r) \/ ReaderRead(r)
  BY <1>4, ReaderOpenStep, ReaderReadStep
<1>5. CASE PowerLoss
  BY <1>5, PowerLossStep
<1>6. CASE UNCHANGED vars
  BY <1>6 DEF Inv, vars, disk, caller, reader, TypeOK, OwnTemps, Progress,
     OnlyWholeFilesInstalled, UnusedTemps, SuccessIsSynced,
     ReadersHoldWholeFiles, TempsAreCleanedUp, Running, Installed, place
<1> QED BY <1>1, <1>2, <1>3, <1>4, <1>5, <1>6 DEF Next

\* The inductive invariant holds in every reachable state.
THEOREM Invariance == Spec => []Inv
<1> QED BY InitInv, StepInv, PTL DEF Spec

\* Every variable of the replacement keeps its type.
THEOREM TypeCorrect == Spec => []TypeOK
<1>1. Inv => TypeOK
  BY DEF Inv
<1> QED BY <1>1, Invariance, PTL

\* The target never holds a part of a content, whatever fails in whichever
\* call of AtomicReplaceFile, whichever process dies, and after a power loss.
THEOREM TargetAlwaysWhole == Spec => []TargetIsWhole
<1>1. Inv => TargetIsWhole
  <2> SUFFICES ASSUME Inv, Target # NoTemp
               PROVE  file[Target] \in Contents
    BY DEF TargetIsWhole
  <2>1. hist # <<>> /\ Target = hist[Len(hist)]
    BY DEF Target
  <2>2. Len(hist) \in 1..Len(hist)
    BY <2>1 DEF Inv, TypeOK
  <2> QED BY <2>1, <2>2 DEF Inv, OnlyWholeFilesInstalled
<1> QED BY <1>1, Invariance, PTL

\* ReadTextFile of the target returns whole contents even when the target is
\* replaced between its open and its read.
THEOREM ReadersAlwaysSeeWholeFiles == Spec => []ReadersSeeWholeFiles
<1>1. Inv => ReadersSeeWholeFiles
  BY DEF Inv, ReadersHoldWholeFiles, ReadersSeeWholeFiles
<1> QED BY <1>1, Invariance, PTL

\* Once AtomicReplaceFile has returned true on a file system that syncs
\* directories, no power loss takes the replacement back, but one that takes
\* the directory, made by create_directories and not there for good yet.
THEOREM SuccessAlwaysDurable == Spec => []SuccessIsDurable
<1>1. Inv => SuccessIsDurable
  <2> SUFFICES ASSUME Inv, syncsDirs, NEW t \in Temps, outcome[t] = "ok", t \notin vanished
               PROVE  Installed(t)
    BY DEF SuccessIsDurable
  <2>1. PICK i \in 1..synced : hist[i] = t
    BY DEF Inv, SuccessIsSynced
  <2>2. i \in 1..Len(hist)
    BY DEF Inv, TypeOK
  <2> QED BY <2>1, <2>2 DEF Installed
<1> QED BY <1>1, Invariance, PTL

\* No error path of AtomicReplaceFile leaves a temp file behind.
THEOREM TempsAlwaysCleanedUp == Spec => []TempsAreCleanedUp
<1>1. Inv => TempsAreCleanedUp
  BY DEF Inv
<1> QED BY <1>1, Invariance, PTL

-------------------------------------------------------------------------------
(* FileReplace implements AtomicFile.                                      *)

\* What the refinement needs besides Inv: a temp file is used for one call, and
\* what is about to be renamed holds what the call was given.
OneCallPerTemp ==
    \A w, v \in Writers : tmp[w] \in Temps /\ tmp[w] = tmp[v] => w = v
FinishedCallsAreOver ==
    \A w \in Writers : ~Running(w) /\ tmp[w] \in Temps => outcome[tmp[w]] # "busy"
AboutToRename ==
    \A w \in Writers : pc[w] \in {"close", "rename"} =>
        file[tmp[w]] = arg[w] /\ ~Installed(tmp[w])

CallInv == OneCallPerTemp /\ FinishedCallsAreOver /\ AboutToRename

\* Every step keeps temp files apart and leaves what is to be renamed alone.
LEMMA InitCallInv == Init => CallInv
  BY ConstantsAssumption
     DEF Init, CallInv, OneCallPerTemp, FinishedCallsAreOver, AboutToRename, Running

\* A call that begins is the only one of its temp file.
LEMMA BeginCallInv ==
    ASSUME Inv, CallInv, NEW w \in Writers, NEW v \in Contents, Begin(w, v)
    PROVE  CallInv'
<1> USE ConstantsAssumption DEF Inv, CallInv, Begin, FreshTemp, Goto, reader
<1>1. OneCallPerTemp'
  BY DEF TypeOK, OwnTemps, OneCallPerTemp, Running
<1>2. FinishedCallsAreOver'
  BY DEF TypeOK, OwnTemps, FinishedCallsAreOver, Running
<1>3. AboutToRename'
  BY DEF TypeOK, AboutToRename, Installed
<1> QED
  BY <1>1, <1>2, <1>3

\* A writer's steps, and its death, keep what is known of calls.
LEMMA StepCallInv ==
    ASSUME Inv, CallInv, NEW w \in Writers, Step(w) \/ ProcessDies(w)
    PROVE  CallInv'
<1> USE ConstantsAssumption DEF Inv, CallInv
<1>1. /\ pc[w] # "idle" /\ tmp' = tmp /\ arg' = arg /\ tmp[w] \in Temps
      /\ outcome[tmp[w]] = "busy" /\ \A v \in Writers : v # w => pc'[v] = pc[v]
      /\ \A v \in Writers : v # w => tmp[v] # tmp[w]
  BY DEF Step, OpenTemp, WriteTemp, FlushTemp, SyncTemp, CloseTemp, RenameTemp, SyncDir,
     RemoveTemp, ProcessDies, Return, Goto, TypeOK, OwnTemps, OneCallPerTemp, Running
<1>2. OneCallPerTemp'
  BY <1>1 DEF OneCallPerTemp
<1>3. FinishedCallsAreOver'
  <2>1. \/ outcome' = outcome /\ pc'[w] # "idle"
        \/ \E result \in {"ok", "failed", "dirty", "died"} :
              outcome' = [outcome EXCEPT ![tmp[w]] = result]
    BY DEF Step, OpenTemp, WriteTemp, FlushTemp, SyncTemp, CloseTemp, RenameTemp, SyncDir,
       RemoveTemp, ProcessDies, Return, Goto, TypeOK, disk
  <2> QED
    BY <1>1, <2>1 DEF FinishedCallsAreOver, Running, TypeOK
<1>4. AboutToRename'
  <2>1. CASE WriteTemp(w) \/ FlushTemp(w)
    <3>1. /\ pc'[w] \notin {"close", "rename"} /\ hist' = hist
          /\ \A t \in Temps : t # tmp[w] => file'[t] = file[t]
      BY <1>1, <2>1 DEF WriteTemp, FlushTemp, TypeOK, Goto
    <3>2. \A v \in Writers : pc[v] # "idle" => tmp[v] \in Temps
      BY DEF OwnTemps, Running
    <3> QED
      BY <1>1, <3>1, <3>2 DEF AboutToRename, Installed
  <2>2. CASE SyncTemp(w)
    BY <1>1, <2>2 DEF SyncTemp, AboutToRename, Installed, TypeOK, Goto, Progress,
       OnlyWholeFilesInstalled
  <2>3. CASE RenameTemp(w)
    <3>1. CASE hist' = Append(hist, tmp[w])
      <4>1. /\ Len(hist') = Len(hist) + 1
            /\ \A i \in 1..Len(hist) : hist'[i] = hist[i]
            /\ hist'[Len(hist')] = tmp[w]
        BY <1>1, <3>1, RenameExtendsHist
      <4>2. \A i \in 1..Len(hist') : i \in 1..Len(hist) \/ i = Len(hist')
        BY <4>1 DEF TypeOK
      <4>3. \A v \in Writers : v # w /\ Installed(tmp[v])' => Installed(tmp[v])
        BY <1>1, <4>1, <4>2 DEF Installed
      <4>4. pc'[w] \notin {"close", "rename"} /\ file' = file
        BY <2>3, <3>1 DEF RenameTemp, Goto, TypeOK
      <4> QED
        BY <1>1, <4>3, <4>4 DEF AboutToRename
    <3>2. CASE hist' # Append(hist, tmp[w])
      BY <1>1, <2>3, <3>2 DEF RenameTemp, AboutToRename, Installed, TypeOK, Goto
    <3> QED
      BY <3>1, <3>2
  <2>4. CASE OpenTemp(w) \/ CloseTemp(w) \/ SyncDir(w) \/ RemoveTemp(w) \/ ProcessDies(w)
    <3>1. hist' = hist /\ file' = file /\ (pc'[w] \in {"close", "rename"} => pc[w] = "close")
      BY <1>1, <2>4 DEF OpenTemp, CloseTemp, SyncDir, RemoveTemp, ProcessDies, Return, Goto, disk,
         TypeOK
    <3> QED
      BY <1>1, <3>1 DEF AboutToRename, Installed
  <2> QED
    BY <2>1, <2>2, <2>3, <2>4 DEF Step
<1> QED
  BY <1>2, <1>3, <1>4

\* A power loss ends every call.
LEMMA PowerLossCallInv == Inv /\ CallInv /\ PowerLoss => CallInv'
  BY DEF Inv, CallInv, PowerLoss, TypeOK, OneCallPerTemp, FinishedCallsAreOver, AboutToRename,
     Running

\* Every step keeps what is known of calls.
LEMMA NextCallInv == Inv /\ CallInv /\ [Next]_vars => CallInv'
<1> SUFFICES ASSUME Inv, CallInv, [Next]_vars PROVE CallInv'
  OBVIOUS
<1>1. ASSUME NEW r \in Readers, ReaderOpen(r) \/ ReaderRead(r) PROVE CallInv'
  BY <1>1 DEF ReaderOpen, ReaderRead, disk, caller, CallInv, OneCallPerTemp,
     FinishedCallsAreOver, AboutToRename, Running, Installed
<1>2. CASE UNCHANGED vars
  BY <1>2 DEF vars, disk, caller, CallInv, OneCallPerTemp,
     FinishedCallsAreOver, AboutToRename, Running, Installed
<1> QED
  BY <1>1, <1>2, BeginCallInv, StepCallInv, PowerLossCallInv DEF Next

\* The refinement mapping.
Log    == [i \in 1..Len(hist) |-> file[hist[i]]]
Phase  == [w \in Writers |->
             IF pc[w] = "idle" THEN "idle"
             ELSE IF Installed(tmp[w]) THEN "applied" ELSE "called"]
Kept   == dir = "kept"
Ended  == [w \in Writers |-> IF tmp[w] = NoTemp THEN "none" ELSE Result(tmp[w])]

\* At the start no call was made and the target is as it was.
LEMMA InitImplements == Init => Abstract!Init
<1> SUFFICES ASSUME Init PROVE Abstract!Init
  OBVIOUS
<1>1. Log = <<>>
  BY DEF Init, Log
<1>2. Phase = [w \in Writers |-> "idle"] /\ Ended = [w \in Writers |-> "none"]
  BY DEF Init, Phase, Ended
<1> QED
  BY <1>1, <1>2 DEF Init, Abstract!Init, Log, Kept, Phase, Ended

\* The log is a sequence as long as the history.
LEMMA LogFacts ==
    ASSUME Inv
    PROVE  /\ Log \in Seq(Contents) /\ Len(Log) = Len(hist)
           /\ \A i \in 1..Len(hist) : Log[i] = file[hist[i]]
<1>1. Len(hist) \in Nat /\ \A i \in 1..Len(hist) : file[hist[i]] \in Contents
  BY DEF Inv, TypeOK, OnlyWholeFilesInstalled
<1> QED
  BY <1>1 DEF Log

\* What is in the history is not written to any more.
LEMMA LogStays ==
    ASSUME Inv, hist' = hist, \A t \in flushed : file'[t] = file[t]
    PROVE  Log' = Log
  BY DEF Inv, OnlyWholeFilesInstalled, Log

\* A call that starts, or is refused.
LEMMA BeginImplements ==
    ASSUME Inv, CallInv, NEW w \in Writers, NEW v \in Contents, Begin(w, v)
    PROVE  Abstract!Call(w, v) \/ Abstract!RefuseCall(w, v)
<1> USE ConstantsAssumption
<1>1. PICK t \in Temps :
         /\ outcome[t] = "unused"
         /\ tmp' = [tmp EXCEPT ![w] = t]
         /\ \/ /\ pc' = [pc EXCEPT ![w] = "open"]
               /\ outcome' = [outcome EXCEPT ![t] = "busy"]
            \/ /\ UNCHANGED pc
               /\ outcome' = [outcome EXCEPT ![t] = "failed"]
  BY DEF Begin, FreshTemp, Goto
<1>2. /\ pc[w] = "idle" /\ arg' = [arg EXCEPT ![w] = v]
      /\ UNCHANGED <<syncsDirs, hist, file, synced>>
  BY DEF Begin
<1>3. Log' = Log /\ Kept' = Kept
  BY <1>2 DEF Log, Kept, Begin, MakeDirectory
<1>4. \A u \in Writers : tmp[u] \in Temps => tmp[u] # t
  BY <1>1 DEF Inv, OwnTemps, Running
<1>5. ~Installed(t)
  BY <1>1 DEF Inv, UnusedTemps, OnlyWholeFilesInstalled, Installed
<1>6. tmp \in [Writers -> Temps \cup {NoTemp}] /\ outcome \in [Temps -> Outcomes]
      /\ pc \in [Writers -> Pcs]
  BY DEF Inv, TypeOK
<1>7. \A u \in Temps : u # t => Result(u)' = Result(u)
  BY <1>1, <1>6 DEF Result
<1>8. CASE pc' = [pc EXCEPT ![w] = "open"] /\ outcome' = [outcome EXCEPT ![t] = "busy"]
  <2>1. Result(t)' = "none"
    BY <1>6, <1>8 DEF Result
  <2>2. Ended' = [Ended EXCEPT ![w] = "none"]
    BY <1>1, <1>4, <1>6, <1>7, <2>1 DEF Ended
  <2>3. Phase[w] = "idle" /\ Phase' = [Phase EXCEPT ![w] = "called"]
    BY <1>1, <1>2, <1>4, <1>5, <1>6, <1>8 DEF Phase, Installed
  <2> QED
    BY <1>2, <1>3, <2>2, <2>3 DEF Abstract!Call, Log, Kept, Phase, Ended
<1>9. CASE pc' = pc /\ outcome' = [outcome EXCEPT ![t] = "failed"]
  <2>1. Result(t)' = "failed"
    BY <1>6, <1>9 DEF Result
  <2>2. Ended' = [Ended EXCEPT ![w] = "failed"]
    BY <1>1, <1>4, <1>6, <1>7, <2>1 DEF Ended
  <2>3. Phase[w] = "idle" /\ Phase' = Phase
    BY <1>1, <1>2, <1>4, <1>5, <1>6, <1>9 DEF Phase, Installed
  <2> QED
    BY <1>2, <1>3, <2>2, <2>3 DEF Abstract!RefuseCall, Log, Kept, Phase, Ended
<1> QED
  BY <1>1, <1>8, <1>9

\* A call that goes on.
LEMMA GoingOn ==
    ASSUME Inv, NEW w \in Writers, Running(w), NEW l \in Pcs \ {"idle"}, Goto(w, l),
           UNCHANGED <<tmp, outcome, hist>>
    PROVE  Phase' = Phase /\ Ended' = Ended
<1>1. pc \in [Writers -> Pcs] /\ pc[w] # "idle" /\ pc' = [pc EXCEPT ![w] = l]
  BY DEF Inv, TypeOK, Running, Goto
<1>2. Phase' = Phase
  BY <1>1 DEF Phase, Installed
<1>3. Ended' = Ended
  BY DEF Ended, Result
<1> QED
  BY <1>2, <1>3

\* A call that returns, or dies.
LEMMA Returning ==
    ASSUME Inv, CallInv, NEW w \in Writers, Running(w),
           NEW result \in {"ok", "failed", "dirty", "died"}, Return(w, result),
           UNCHANGED <<tmp, hist>>
    PROVE  /\ Phase[w] # "idle" /\ Phase' = [Phase EXCEPT ![w] = "idle"]
           /\ Ended' = [Ended EXCEPT ![w] = IF result = "dirty" THEN "failed" ELSE result]
<1> USE ConstantsAssumption
<1>1. /\ pc \in [Writers -> Pcs] /\ pc[w] # "idle" /\ pc' = [pc EXCEPT ![w] = "idle"]
      /\ tmp \in [Writers -> Temps \cup {NoTemp}] /\ outcome \in [Temps -> Outcomes]
      /\ tmp[w] \in Temps /\ outcome' = [outcome EXCEPT ![tmp[w]] = result]
      /\ \A v \in Writers : v # w => tmp[v] # tmp[w]
  BY DEF Inv, CallInv, TypeOK, Running, Goto, Return, OwnTemps, OneCallPerTemp
<1>2. Phase[w] # "idle" /\ Phase' = [Phase EXCEPT ![w] = "idle"]
  BY <1>1 DEF Phase, Installed
<1>3. Result(tmp[w])' = IF result = "dirty" THEN "failed" ELSE result
  BY <1>1 DEF Result
<1>4. \A u \in Temps : u # tmp[w] => Result(u)' = Result(u)
  BY <1>1 DEF Result
<1>5. Ended' = [Ended EXCEPT ![w] = IF result = "dirty" THEN "failed" ELSE result]
  BY <1>1, <1>3, <1>4 DEF Ended
<1> QED
  BY <1>2, <1>5

\* A call that fails before the rename returns false with nothing done.
LEMMA ReturnsFalse ==
    ASSUME Inv, CallInv, NEW w \in Writers, Running(w), Log' = Log,
           NEW result \in {"failed", "dirty"}, Return(w, result),
           UNCHANGED <<syncsDirs, dir, tmp, hist, arg, synced>>
    PROVE  Abstract!ReturnFalse(w)
  BY Returning DEF Abstract!ReturnFalse, Log, Kept, Phase, Ended

\* A step that neither installs nor returns is none of the abstract file's.
LEMMA Stutters ==
    ASSUME Log' = Log, Phase' = Phase, Ended' = Ended, UNCHANGED <<syncsDirs, dir, arg, synced>>
    PROVE  UNCHANGED Abstract!vars
  BY DEF Abstract!vars, Log, Kept, Phase, Ended

\* Writing, flushing and syncing the temp file shows nowhere.
LEMMA PrepareImplements ==
    ASSUME Inv, CallInv, NEW w \in Writers,
           WriteTemp(w) \/ FlushTemp(w) \/ SyncTemp(w) \/ CloseTemp(w)
    PROVE  UNCHANGED Abstract!vars
<1>1. /\ Running(w) /\ UNCHANGED <<syncsDirs, dir, hist, synced, tmp, arg, outcome>>
      /\ \E l \in Pcs \ {"idle"} : Goto(w, l)
  BY DEF WriteTemp, FlushTemp, SyncTemp, CloseTemp, Running, Pcs, disk, place
<1>2. \A t \in flushed : file'[t] = file[t]
  BY DEF Inv, WriteTemp, FlushTemp, SyncTemp, CloseTemp, Progress, TypeOK, OwnTemps, Running, disk
<1>3. Log' = Log
  BY <1>1, <1>2, LogStays
<1>4. Phase' = Phase /\ Ended' = Ended
  BY <1>1, GoingOn
<1> QED
  BY <1>1, <1>3, <1>4, Stutters

\* Opening the temp file shows nowhere; if that fails, so does the call.
LEMMA OpenTempImplements ==
    ASSUME Inv, CallInv, NEW w \in Writers, OpenTemp(w)
    PROVE  UNCHANGED Abstract!vars \/ Abstract!ReturnFalse(w)
<1>1. /\ Running(w) /\ UNCHANGED <<syncsDirs, dir, file, hist, synced, tmp, arg>> /\ "write" \in Pcs
      /\ (Goto(w, "write") /\ UNCHANGED outcome) \/ Return(w, "failed")
  BY DEF place, OpenTemp, Running, Pcs
<1>2. Log' = Log
  BY <1>1, LogStays
<1>3. CASE Goto(w, "write") /\ UNCHANGED outcome
  BY <1>1, <1>2, <1>3, GoingOn, Stutters
<1>4. CASE Return(w, "failed")
  BY <1>1, <1>2, <1>4, ReturnsFalse
<1> QED
  BY <1>1, <1>3, <1>4

\* A failed call removes its temp file and returns.
LEMMA RemoveTempImplements ==
    ASSUME Inv, CallInv, NEW w \in Writers, RemoveTemp(w)
    PROVE  Abstract!ReturnFalse(w)
<1>1. /\ Running(w) /\ UNCHANGED <<syncsDirs, dir, file, hist, synced, tmp, arg>>
      /\ Return(w, "failed") \/ Return(w, "dirty")
  BY DEF place, RemoveTemp, Running
<1>2. Log' = Log
  BY <1>1, LogStays
<1> QED
  BY <1>1, <1>2, ReturnsFalse

\* A writer that dies ends its call, done or not.
LEMMA ProcessDiesImplements ==
    ASSUME Inv, CallInv, NEW w \in Writers, ProcessDies(w)
    PROVE  Abstract!Die(w)
<1>1. /\ Running(w) /\ UNCHANGED <<syncsDirs, dir, file, hist, synced, tmp, arg>>
      /\ Return(w, "died")
  BY DEF ProcessDies, Running, disk, place
<1>2. Log' = Log
  BY <1>1, LogStays
<1> QED
  BY <1>1, <1>2, Returning DEF Abstract!Die, Log, Kept, Phase, Ended

\* The rename is the instant at which the new contents appear.
LEMMA RenameTempImplements ==
    ASSUME Inv, CallInv, NEW w \in Writers, RenameTemp(w)
    PROVE  UNCHANGED Abstract!vars \/ Abstract!Apply(w)
<1>1. /\ Running(w) /\ UNCHANGED <<syncsDirs, dir, file, synced, tmp, arg, outcome>>
      /\ pc[w] = "rename" /\ {"remove", "syncDir"} \subseteq Pcs \ {"idle"}
      /\ tmp[w] \in Temps /\ file[tmp[w]] = arg[w] /\ ~Installed(tmp[w])
      /\ pc \in [Writers -> Pcs] /\ arg[w] \in Contents /\ hist \in Seq(Temps)
      /\ \A v \in Writers : v # w => tmp[v] # tmp[w]
  BY DEF place, RenameTemp, Running, Pcs, Inv, CallInv, AboutToRename, OwnTemps, TypeOK,
     OneCallPerTemp
<1>2. CASE hist' = hist /\ Goto(w, "remove")
  <2>1. Log' = Log
    BY <1>1, <1>2, LogStays
  <2> QED
    BY <1>1, <1>2, <2>1, GoingOn, Stutters
<1>3. CASE hist' = Append(hist, tmp[w]) /\ Goto(w, "syncDir")
  <2>1. /\ Len(hist) \in Nat /\ Len(hist') = Len(hist) + 1
        /\ \A i \in 1..Len(hist) : hist'[i] = hist[i]
        /\ hist'[Len(hist')] = tmp[w]
    BY <1>1, <1>3, RenameExtendsHist DEF Inv
  <2>2. Log' = Append(Log, arg[w])
    <3>1. /\ Log \in Seq(Contents) /\ Len(Log) = Len(hist)
          /\ \A i \in 1..Len(hist) : Log[i] = file[hist[i]]
      BY LogFacts
    <3>2. Append(Log, arg[w]) =
            [i \in 1..Len(hist) + 1 |-> IF i <= Len(hist) THEN Log[i] ELSE arg[w]]
      BY <1>1, <2>1, <3>1
    <3> QED
      BY <1>1, <2>1, <3>1, <3>2 DEF Log
  <2>3. Installed(tmp[w])' /\ (\A v \in Writers : v # w =>
            (Installed(tmp[v])' <=> Installed(tmp[v])))
    BY <1>1, <2>1 DEF Installed
  <2>4. Phase[w] = "called" /\ Phase' = [Phase EXCEPT ![w] = "applied"]
    BY <1>1, <1>3, <2>3 DEF Phase, Goto
  <2>5. Ended' = Ended
    BY <1>1 DEF Ended, Result
  <2> QED
    BY <1>1, <2>2, <2>4, <2>5 DEF Abstract!Apply, Log, Kept, Phase, Ended
<1> QED
  BY <1>2, <1>3 DEF RenameTemp

\* The sync of the directory makes the rename last and the call returns true,
\* or it fails.
LEMMA SyncDirImplements ==
    ASSUME Inv, CallInv, NEW w \in Writers, SyncDir(w)
    PROVE  UNCHANGED Abstract!vars \/ Abstract!Persist \/ Abstract!ReturnTrue(w)
<1>1. /\ Running(w) /\ UNCHANGED <<syncsDirs, dir, file, hist, tmp, arg>> /\ Installed(tmp[w])
      /\ "remove" \in Pcs \ {"idle"}
  BY DEF place, SyncDir, Running, Inv, Progress, Pcs
<1>2. Log' = Log /\ Len(Log) = Len(hist)
  BY <1>1, LogStays, LogFacts
<1>3. CASE Return(w, "ok") /\ synced' = IF syncsDirs THEN Len(hist) ELSE synced
  <2>1. Phase[w] = "applied"
    BY <1>1 DEF Phase, Running
  <2>2. Phase' = [Phase EXCEPT ![w] = "idle"] /\ Ended' = [Ended EXCEPT ![w] = "ok"]
    BY <1>1, <1>3, Returning
  <2> QED
    BY <1>1, <1>2, <1>3, <2>1, <2>2 DEF Abstract!ReturnTrue, Log, Kept, Phase, Ended
<1>4. CASE Goto(w, "remove") /\ outcome' = outcome /\ synced' \in {synced, Len(hist)}
  <2>1. Phase' = Phase /\ Ended' = Ended
    BY <1>1, <1>4, GoingOn
  <2> QED
    BY <1>1, <1>2, <1>4, <2>1, Stutters DEF Abstract!Persist, Log, Kept, Phase, Ended
<1> QED
  BY <1>3, <1>4 DEF SyncDir

\* A power loss takes back what came after the last sync of the directory, or
\* all of it with a fresh directory, and none of the contents that stay: they
\* were synced before the rename.
LEMMA PowerLossImplements ==
    ASSUME Inv, CallInv, PowerLoss
    PROVE  Abstract!PowerLoss
<1> USE ConstantsAssumption
<1>2. /\ hist \in Seq(Temps) /\ Len(hist) \in Nat /\ synced \in Nat
      /\ \A t \in flushed : file'[t] = file[t]
      /\ \A i \in 1..Len(hist) : hist[i] \in flushed /\ hist[i] \in Temps
  BY DEF Inv, TypeOK, OnlyWholeFilesInstalled, PowerLoss
<1>3. ASSUME DirectoryStays
      PROVE  \E k \in synced..Len(Log) : Log' = SubSeq(Log, 1, k) /\ synced' = k
  <2>1. PICK k \in synced..Len(hist) : hist' = SubSeq(hist, 1, k) /\ synced' = k
    BY <1>3 DEF DirectoryStays
  <2>2. k \in 0..Len(hist)
    BY <1>2
  <2>3. /\ Len(hist') = k
        /\ \A i \in 1..k : hist'[i] = hist[i]
    BY <1>2, <2>1, <2>2
  <2>4. Log' = [i \in 1..k |-> file[hist[i]]]
    BY <1>2, <2>2, <2>3 DEF Log
  <2>5. SubSeq(Log, 1, k) = [i \in 1..k |-> file[hist[i]]]
    <3>1. SubSeq(Log, 1, k) = [i \in 1..k |-> Log[i]]
      BY <1>2, <2>2, LogFacts
    <3> QED
      BY <1>2, <2>2, <3>1, LogFacts
  <2> QED
    BY <2>1, <2>4, <2>5, LogFacts
<1>4. DirectoryStays => Kept' \in {Kept, TRUE}
  BY DEF DirectoryStays, Kept
<1>5. ASSUME DirectoryVanishes
      PROVE  ~Kept /\ Log' = <<>> /\ synced' = 0 /\ Kept' = Kept
  BY <1>5 DEF DirectoryVanishes, Log, Kept
<1>6. Phase' = [w \in Writers |-> "idle"]
  BY DEF PowerLoss, Phase
<1>7. Ended' = [w \in Writers |-> IF Phase[w] = "idle" THEN Ended[w] ELSE "died"]
  <2>1. ASSUME NEW w \in Writers
        PROVE  (IF tmp[w] = NoTemp THEN "none" ELSE Result(tmp[w]))'
                 = IF Phase[w] = "idle" THEN Ended[w] ELSE "died"
    <3>1. /\ tmp' = tmp /\ tmp[w] \in Temps \cup {NoTemp}
          /\ \A t \in Temps : outcome'[t] = IF outcome[t] = "busy" THEN "died" ELSE outcome[t]
      BY DEF PowerLoss, Inv, TypeOK
    <3>2. CASE pc[w] = "idle"
      <4>1. tmp[w] \in Temps => outcome'[tmp[w]] = outcome[tmp[w]]
        BY <3>1, <3>2 DEF CallInv, FinishedCallsAreOver, Running
      <4>2. tmp[w] \in Temps => Result(tmp[w])' = Result(tmp[w])
        BY <3>1, <4>1 DEF Result
      <4>3. (IF tmp[w] = NoTemp THEN "none" ELSE Result(tmp[w]))'
               = IF tmp[w] = NoTemp THEN "none" ELSE Result(tmp[w])
        BY <3>1, <4>2
      <4>4. Phase[w] = "idle"
        BY <3>2 DEF Phase
      <4> QED
        BY <4>3, <4>4 DEF Ended
    <3>3. CASE pc[w] # "idle"
      <4>1. tmp[w] \in Temps /\ tmp[w] # NoTemp /\ outcome'[tmp[w]] = "died"
        BY <3>1, <3>3 DEF Inv, OwnTemps, Running
      <4> QED
        BY <3>1, <3>3, <4>1 DEF Phase, Result
    <3> QED
      BY <3>2, <3>3
  <2> QED
    BY <2>1 DEF Ended
<1> QED
  BY <1>3, <1>4, <1>5, <1>6, <1>7 DEF PowerLoss, Abstract!PowerLoss, Log, Kept, Phase, Ended

\* Every step is one of the abstract file's, or none.
LEMMA StepImplements == Inv /\ CallInv /\ [Next]_vars => [Abstract!Next]_(Abstract!vars)
<1> SUFFICES ASSUME Inv, CallInv, [Next]_vars
             PROVE  Abstract!Next \/ UNCHANGED Abstract!vars
  OBVIOUS
<1>1. ASSUME NEW w \in Writers, NEW v \in Contents, Begin(w, v) PROVE Abstract!Next
  BY <1>1, BeginImplements DEF Abstract!Next
<1>2. ASSUME NEW w \in Writers, Step(w) PROVE Abstract!Next \/ UNCHANGED Abstract!vars
  BY <1>2, OpenTempImplements, PrepareImplements, RenameTempImplements, SyncDirImplements,
     RemoveTempImplements DEF Step, Abstract!Next
<1>3. ASSUME NEW w \in Writers, ProcessDies(w) PROVE Abstract!Next
  BY <1>3, ProcessDiesImplements DEF Abstract!Next
<1>4. CASE PowerLoss
  BY <1>4, PowerLossImplements DEF Abstract!Next
<1>5. CASE UNCHANGED <<disk, caller>>
  <2>1. Log' = Log /\ Phase' = Phase /\ Ended' = Ended
        /\ UNCHANGED <<syncsDirs, dir, arg, synced>>
    BY <1>5 DEF place, disk, caller, Log, Phase, Ended, Result, Installed
  <2> QED
    BY <2>1, Stutters
<1>6. ASSUME NEW r \in Readers, ReaderOpen(r) \/ ReaderRead(r) PROVE UNCHANGED <<disk, caller>>
  BY <1>6 DEF ReaderOpen, ReaderRead
<1> QED
  BY <1>1, <1>2, <1>3, <1>4, <1>5, <1>6 DEF Next, vars

\* AtomicReplaceFile is atomic: seen by its callers and by who reads the target
\* it does all of its work in one instant, or none, whatever fails or dies.
THEOREM Implementation == Spec => ImplementsAtomicFile
<1>1. Init => Inv /\ CallInv /\ Abstract!Init
  BY InitInv, InitCallInv, InitImplements
<1>2. Inv /\ CallInv /\ [Next]_vars => Inv' /\ CallInv'
  BY StepInv, NextCallInv
<1>3. Inv /\ CallInv /\ [Next]_vars => [Abstract!Next]_(Abstract!vars)
  BY StepImplements
<1> QED
  BY <1>1, <1>2, <1>3, PTL DEF Spec, ImplementsAtomicFile, Abstract!Spec
================================================================================
