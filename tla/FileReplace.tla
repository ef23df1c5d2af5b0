------------------------------ MODULE FileReplace ------------------------------
(***************************************************************************)
(* Platform::AtomicReplaceFile (src/src/platform/file_replace.cpp), POSIX  *)
(* branch, one action per system call, over a file system with a page      *)
(* cache, with processes that die and a machine that loses power.          *)
(*                                                                         *)
(* A temp file is identified by its (unique) name, a member of Temps; the  *)
(* same value stands for the file after it was renamed to the target.      *)
(* Contents are opaque; Torn stands for every proper part of a content,    *)
(* the empty file of a fresh fopen included.                               *)
(***************************************************************************)
EXTENDS Naturals, Sequences

CONSTANTS Writers,      \* processes that call AtomicReplaceFile on one target
          Readers,      \* processes that read the target with ReadTextFile
          Temps,        \* temp file names; each is used for one call
          Contents,     \* whole contents a caller passes
          Torn,         \* what an incompletely written file holds
          NoTemp        \* no temp file, no file

ASSUME ConstantsAssumption ==
    /\ Torn \notin Contents \cup {NoTemp}
    /\ NoTemp \notin Temps

VARIABLES
    syncsDirs,  \* whether this file system supports fsync on a directory
    dir,        \* the target's directory: "none", "fresh" (made since, and not
                \* durable where it is entered) or "kept" (there to stay)
    pc,         \* per writer: the next step of its call, "idle" between calls
    tmp,        \* per writer: temp_path of its current or last call
    arg,        \* per writer: the contents of its current or last call
    outcome,    \* per temp file: how the call that used it ended
    file,       \* per temp file: what a read of it returns now
    flushed,    \* temp files whose contents an fsync made durable
    linked,     \* temp names that exist beside the target
    hist,       \* temp files renamed to the target, oldest first: the target
                \* is the last one, and does not exist while hist is empty
    synced,     \* length of the prefix of hist that an fsync of the directory
                \* made durable
    vanished,   \* files once renamed to the target that a power loss took away
                \* with a fresh directory; only properties read it
    fd,         \* per reader: the file it has open, NoTemp if none
    got         \* per reader: what its last read of this boot returned

place  == <<syncsDirs, dir, vanished>>
disk   == <<place, file, flushed, linked, hist, synced>>
caller == <<pc, tmp, arg, outcome>>
reader == <<fd, got>>
vars   == <<disk, caller, reader>>

Dirs == {"none", "fresh", "kept"}
Pcs == {"idle", "open", "write", "fflush", "fsync", "close", "closeFailed",
        "rename", "syncDir", "remove"}
Outcomes == {"unused", "busy", "ok", "failed", "dirty", "died"}

Installed(t) == \E i \in 1..Len(hist) : hist[i] = t
Target       == IF hist = <<>> THEN NoTemp ELSE hist[Len(hist)]

Init ==
    /\ syncsDirs \in BOOLEAN
    /\ dir \in {"none", "kept"}
    /\ vanished = {}
    /\ pc = [w \in Writers |-> "idle"]
    /\ tmp = [w \in Writers |-> NoTemp]
    /\ arg \in [Writers -> Contents]
    /\ outcome = [t \in Temps |-> "unused"]
    /\ file = [t \in Temps |-> Torn]
    /\ flushed = {}
    /\ linked = {}
    /\ hist = <<>>
    /\ synced = 0
    /\ fd = [r \in Readers |-> NoTemp]
    /\ got = [r \in Readers |-> NoTemp]

Goto(w, l) == pc' = [pc EXCEPT ![w] = l]

Return(w, result) ==
    /\ Goto(w, "idle")
    /\ outcome' = [outcome EXCEPT ![tmp[w]] = result]

-------------------------------------------------------------------------------
(* The call.                                                               *)

(* An operator named Bug... is a mistake a later edit could make in the     *)
(* action after it; substituted for that action it breaks a property.       *)

\* BuildTempPath: process id, counter, clock tick and thread id make a name
\* nobody has used.
FreshTemp(t) == outcome[t] = "unused"

\* create_directories.  SyncParentDirectory syncs this directory, and nothing
\* syncs the one it is entered in.
MakeDirectory == dir' = IF dir = "none" THEN "fresh" ELSE dir

\* The temp path is never computed.
BugBeginWithoutName(w, v) ==
    /\ pc[w] = "idle"
    /\ \E t \in Temps : FreshTemp(t) /\ outcome' = [outcome EXCEPT ![t] = "busy"]
    /\ MakeDirectory
    /\ Goto(w, "open")
    /\ arg' = [arg EXCEPT ![w] = v]
    /\ UNCHANGED <<syncsDirs, vanished, file, flushed, linked, hist, synced, reader, tmp>>

\* create_directories, then the temp path is made up.
Begin(w, v) ==
    /\ pc[w] = "idle"
    /\ \E t \in Temps :
         /\ FreshTemp(t)
         /\ tmp' = [tmp EXCEPT ![w] = t]
         /\ \/ /\ MakeDirectory
               /\ Goto(w, "open")
               /\ outcome' = [outcome EXCEPT ![t] = "busy"]
            \/ /\ UNCHANGED <<dir, pc>>               \* no parent directory
               /\ outcome' = [outcome EXCEPT ![t] = "failed"]
    /\ arg' = [arg EXCEPT ![w] = v]
    /\ UNCHANGED <<syncsDirs, vanished, file, flushed, linked, hist, synced, reader>>

\* The target itself is opened and written in place.
BugOpenInPlace(w) ==
    /\ pc[w] = "open"
    /\ hist' = Append(hist, tmp[w])
    /\ Goto(w, "write")
    /\ UNCHANGED <<place, file, flushed, linked, synced, tmp, arg, outcome, reader>>

\* fopen(temp, "wb"); on failure there is nothing to remove.
OpenTemp(w) ==
    /\ pc[w] = "open"
    /\ \/ /\ linked' = linked \cup {tmp[w]}
          /\ Goto(w, "write")
          /\ UNCHANGED outcome
       \/ /\ Return(w, "failed")
          /\ UNCHANGED linked
    /\ UNCHANGED <<place, file, flushed, hist, synced, tmp, arg, reader>>

\* fwrite: the C library may pass all, some or none of the bytes on.
WriteTemp(w) ==
    /\ pc[w] = "write"
    /\ Goto(w, "fflush") \/ Goto(w, "closeFailed")
    /\ \E c \in {Torn, arg[w]} : file' = [file EXCEPT ![tmp[w]] = c]
    /\ UNCHANGED <<place, flushed, linked, hist, synced, tmp, arg, outcome, reader>>

FlushTemp(w) ==
    /\ pc[w] = "fflush"
    /\ \/ /\ file' = [file EXCEPT ![tmp[w]] = arg[w]]
          /\ Goto(w, "fsync")
       \/ /\ UNCHANGED file
          /\ Goto(w, "closeFailed")
    /\ UNCHANGED <<place, flushed, linked, hist, synced, tmp, arg, outcome, reader>>

\* The data is left in the page cache.
BugNoFsync(w) ==
    /\ pc[w] = "fsync"
    /\ Goto(w, "close")
    /\ UNCHANGED <<disk, tmp, arg, outcome, reader>>

SyncTemp(w) ==
    /\ pc[w] = "fsync"
    /\ \/ /\ flushed' = flushed \cup {tmp[w]}
          /\ Goto(w, "close")
       \/ /\ UNCHANGED flushed
          /\ Goto(w, "closeFailed")
    /\ UNCHANGED <<place, file, linked, hist, synced, tmp, arg, outcome, reader>>

\* The result of the earlier steps is overwritten by that of fclose.
BugCloseForgetsErrors(w) ==
    /\ pc[w] \in {"close", "closeFailed"}
    /\ Goto(w, "rename") \/ Goto(w, "remove")
    /\ UNCHANGED <<disk, tmp, arg, outcome, reader>>

\* fclose; only a call that was fine until now and closes well goes on.
CloseTemp(w) ==
    /\ \/ pc[w] = "close" /\ (Goto(w, "rename") \/ Goto(w, "remove"))
       \/ pc[w] = "closeFailed" /\ Goto(w, "remove")
    /\ UNCHANGED <<disk, tmp, arg, outcome, reader>>

\* A failed rename returns without removing the temp file.
BugRenameLeavesTemp(w) ==
    /\ pc[w] = "rename"
    /\ \/ /\ hist' = Append(hist, tmp[w])
          /\ linked' = linked \ {tmp[w]}
          /\ Goto(w, "syncDir")
          /\ UNCHANGED outcome
       \/ /\ UNCHANGED <<hist, linked>>
          /\ Return(w, "failed")
    /\ UNCHANGED <<place, file, flushed, synced, tmp, arg, reader>>

RenameTemp(w) ==
    /\ pc[w] = "rename"
    /\ \/ /\ hist' = Append(hist, tmp[w])
          /\ linked' = linked \ {tmp[w]}
          /\ Goto(w, "syncDir")
       \/ /\ UNCHANGED <<hist, linked>>
          /\ Goto(w, "remove")
    /\ UNCHANGED <<place, file, flushed, synced, tmp, arg, outcome, reader>>

\* The directory is never synced.
BugNoDirectoryFsync(w) ==
    /\ pc[w] = "syncDir"
    /\ Return(w, "ok")
    /\ UNCHANGED <<disk, tmp, arg, reader>>

\* SyncParentDirectory: open, fsync, close.  EINVAL, from a file system that
\* does not sync directories, counts as success.
SyncDir(w) ==
    /\ pc[w] = "syncDir"
    /\ \/ /\ synced' = IF syncsDirs THEN Len(hist) ELSE synced
          /\ Return(w, "ok")
       \/ /\ synced' \in {synced, IF syncsDirs THEN Len(hist) ELSE synced}
          /\ Goto(w, "remove")
          /\ UNCHANGED outcome
    /\ UNCHANGED <<place, file, flushed, linked, hist, tmp, arg, reader>>

\* The removal both error paths end in; its own error is ignored.
RemoveTemp(w) ==
    /\ pc[w] = "remove"
    /\ \/ /\ linked' = linked \ {tmp[w]}
          /\ Return(w, "failed")
       \/ /\ tmp[w] \in linked
          /\ UNCHANGED linked
          /\ Return(w, "dirty")
    /\ UNCHANGED <<place, file, flushed, hist, synced, tmp, arg, reader>>

-------------------------------------------------------------------------------
(* Readers of the target: ReadTextFile opens it, then reads.               *)

ReaderOpen(r) ==
    /\ fd[r] = NoTemp
    /\ Target # NoTemp
    /\ fd' = [fd EXCEPT ![r] = Target]
    /\ got' = [got EXCEPT ![r] = NoTemp]
    /\ UNCHANGED <<disk, caller>>

ReaderRead(r) ==
    /\ fd[r] # NoTemp
    /\ got' = [got EXCEPT ![r] = file[fd[r]]]
    /\ fd' = [fd EXCEPT ![r] = NoTemp]
    /\ UNCHANGED <<disk, caller>>

-------------------------------------------------------------------------------
(* The environment.                                                        *)

ProcessDies(w) ==
    /\ pc[w] # "idle"
    /\ Return(w, "died")
    /\ UNCHANGED <<disk, tmp, arg, reader>>

\* The directory falls back to any of its states since the last fsync of it.
DirectoryStays ==
    /\ \E k \in synced..Len(hist) :
         /\ hist' = SubSeq(hist, 1, k)
         /\ synced' = k
    /\ dir' = IF dir = "none" THEN "none" ELSE "kept"
    /\ UNCHANGED vanished

\* A fresh directory is gone with all it holds, synced or not.
DirectoryVanishes ==
    /\ dir = "fresh"
    /\ dir' = "none"
    /\ hist' = <<>>
    /\ synced' = 0
    /\ vanished' = vanished \cup {t \in Temps : Installed(t)}

\* The page cache is gone: files that were not fsynced may lose their
\* contents.  linked starts again: it counts the names of this boot.
PowerLoss ==
    /\ DirectoryStays \/ DirectoryVanishes
    /\ file' \in [Temps -> Contents \cup {Torn}]
    /\ \A t \in Temps :
         file'[t] = file[t] \/ (t \notin flushed /\ file'[t] = Torn)
    /\ linked' = {}
    /\ pc' = [w \in Writers |-> "idle"]
    /\ outcome' = [t \in Temps |->
                     IF outcome[t] = "busy" THEN "died" ELSE outcome[t]]
    /\ fd' = [r \in Readers |-> NoTemp]
    /\ got' = [r \in Readers |-> NoTemp]
    /\ UNCHANGED <<syncsDirs, flushed, tmp, arg>>

Step(w) ==
    \/ OpenTemp(w)  \/ WriteTemp(w)  \/ FlushTemp(w) \/ SyncTemp(w)
    \/ CloseTemp(w) \/ RenameTemp(w) \/ SyncDir(w)   \/ RemoveTemp(w)

Next ==
    \/ \E w \in Writers, v \in Contents : Begin(w, v)
    \/ \E w \in Writers : Step(w) \/ ProcessDies(w)
    \/ \E r \in Readers : ReaderOpen(r) \/ ReaderRead(r)
    \/ PowerLoss

Spec == Init /\ [][Next]_vars

-------------------------------------------------------------------------------
(* Properties.                                                             *)

\* Every variable has the type its comment says.
TypeOK ==
    /\ syncsDirs \in BOOLEAN
    /\ dir \in Dirs
    /\ vanished \in SUBSET Temps
    /\ pc \in [Writers -> Pcs]
    /\ tmp \in [Writers -> Temps \cup {NoTemp}]
    /\ arg \in [Writers -> Contents]
    /\ outcome \in [Temps -> Outcomes]
    /\ file \in [Temps -> Contents \cup {Torn}]
    /\ flushed \in SUBSET Temps
    /\ linked \in SUBSET Temps
    /\ hist \in Seq(Temps)
    /\ synced \in 0..Len(hist)
    /\ fd \in [Readers -> Temps \cup {NoTemp}]
    /\ got \in [Readers -> Contents \cup {Torn, NoTemp}]

\* The target holds the whole contents of one call, whatever failed or died,
\* and also right after a power loss: the data is synced before the rename.
TargetIsWhole == Target # NoTemp => file[Target] \in Contents

\* A reader that opened the target before a replacement and reads after it
\* still gets whole contents.
ReadersSeeWholeFiles == \A r \in Readers : got[r] # Torn

\* A call that returned true is undone by one thing only, the loss of a
\* directory create_directories made after the machine last came up: otherwise
\* its file is the target or was replaced by a later one.  EINVAL from the fsync
\* of the directory forfeits this.
SuccessIsDurable ==
    syncsDirs => \A t \in Temps :
        outcome[t] = "ok" => Installed(t) \/ t \in vanished

\* A temp name left beside the target belongs to a call still running, to a
\* process that died, or to a removal that itself failed.
TempsAreCleanedUp ==
    \A t \in linked : outcome[t] \in {"busy", "died", "dirty"}

\* The abstract specification, the file as its callers and readers see it.
Result(t) == CASE outcome[t] \in {"unused", "busy"} -> "none"
               [] outcome[t] = "ok"                 -> "ok"
               [] outcome[t] \in {"failed", "dirty"} -> "failed"
               [] outcome[t] = "died"               -> "died"

Abstract == INSTANCE AtomicFile WITH
    log    <- [i \in 1..Len(hist) |-> file[hist[i]]],
    floor  <- synced,
    kept   <- (dir = "kept"),
    phase  <- [w \in Writers |->
                 IF pc[w] = "idle" THEN "idle"
                 ELSE IF Installed(tmp[w]) THEN "applied" ELSE "called"],
    result <- [w \in Writers |->
                 IF tmp[w] = NoTemp THEN "none" ELSE Result(tmp[w])]

\* Every behaviour of the code is one the abstract file allows.
ImplementsAtomicFile == Abstract!Spec
================================================================================
