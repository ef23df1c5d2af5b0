------------------------------ MODULE AtomicFile ------------------------------
(***************************************************************************)
(* What Platform::AtomicReplaceFile promises to the code that calls it     *)
(* (WriteActionJobRecord, Status::WriteSnapshotEnvelope) and to everybody  *)
(* who reads the target path:                                              *)
(*                                                                         *)
(*   - the target only ever holds the whole contents of some call;         *)
(*   - a call that returned true took effect before it returned, and on a  *)
(*     file system that can sync directories a power loss does not undo it,*)
(*     unless it takes away the whole directory of the target, which the   *)
(*     calls may have had to make first;                                   *)
(*   - a call that returned false, or whose process died, took effect once *)
(*     or not at all.                                                      *)
(*                                                                         *)
(* log is the sequence of contents the target has had, oldest first; the   *)
(* target holds the last one.  floor is the length of the prefix of log    *)
(* that a power loss which leaves the directory cannot take back.          *)
(***************************************************************************)
EXTENDS Naturals, Sequences

CONSTANTS Writers,      \* callers of AtomicReplaceFile on this target
          Contents      \* whole file contents

VARIABLES syncsDirs,    \* whether the file system supports fsync on a directory
          log, floor,
          kept,         \* whether the target's directory is there to stay
          phase,        \* per writer: "idle", "called" or "applied"
          arg,          \* per writer: the contents it passed
          result        \* per writer: how its last call ended

vars == <<syncsDirs, log, floor, kept, phase, arg, result>>

Phases  == {"idle", "called", "applied"}
Results == {"none", "ok", "failed", "died"}

Init ==
    /\ syncsDirs \in BOOLEAN
    /\ log = <<>>
    /\ floor = 0
    /\ kept \in BOOLEAN
    /\ phase = [w \in Writers |-> "idle"]
    /\ arg \in [Writers -> Contents]
    /\ result = [w \in Writers |-> "none"]

Call(w, v) ==
    /\ phase[w] = "idle"
    /\ phase' = [phase EXCEPT ![w] = "called"]
    /\ arg' = [arg EXCEPT ![w] = v]
    /\ result' = [result EXCEPT ![w] = "none"]
    /\ UNCHANGED <<syncsDirs, kept, log, floor>>

\* The one instant at which readers start to see the new contents.
Apply(w) ==
    /\ phase[w] = "called"
    /\ phase' = [phase EXCEPT ![w] = "applied"]
    /\ log' = Append(log, arg[w])
    /\ UNCHANGED <<syncsDirs, kept, floor, arg, result>>

Persist ==
    /\ floor' = Len(log)
    /\ UNCHANGED <<syncsDirs, kept, log, phase, arg, result>>

ReturnTrue(w) ==
    /\ phase[w] = "applied"
    /\ phase' = [phase EXCEPT ![w] = "idle"]
    /\ result' = [result EXCEPT ![w] = "ok"]
    /\ floor' = IF syncsDirs THEN Len(log) ELSE floor
    /\ UNCHANGED <<syncsDirs, kept, log, arg>>

ReturnFalse(w) ==
    /\ phase[w] # "idle"
    /\ phase' = [phase EXCEPT ![w] = "idle"]
    /\ result' = [result EXCEPT ![w] = "failed"]
    /\ UNCHANGED <<syncsDirs, kept, log, floor, arg>>

\* create_directories can fail before anything else happens.
RefuseCall(w, v) ==
    /\ phase[w] = "idle"
    /\ arg' = [arg EXCEPT ![w] = v]
    /\ result' = [result EXCEPT ![w] = "failed"]
    /\ UNCHANGED <<syncsDirs, kept, log, floor, phase>>

Die(w) ==
    /\ phase[w] # "idle"
    /\ phase' = [phase EXCEPT ![w] = "idle"]
    /\ result' = [result EXCEPT ![w] = "died"]
    /\ UNCHANGED <<syncsDirs, kept, log, floor, arg>>

PowerLoss ==
    /\ \/ /\ \E k \in floor..Len(log) :
               /\ log' = SubSeq(log, 1, k)
               /\ floor' = k
          /\ kept' \in {kept, TRUE}
       \/ /\ ~kept
          /\ log' = <<>>
          /\ floor' = 0
          /\ UNCHANGED kept
    /\ phase' = [w \in Writers |-> "idle"]
    /\ result' = [w \in Writers |->
                    IF phase[w] = "idle" THEN result[w] ELSE "died"]
    /\ UNCHANGED <<syncsDirs, arg>>

Next ==
    \/ \E w \in Writers, v \in Contents : Call(w, v) \/ RefuseCall(w, v)
    \/ \E w \in Writers :
         Apply(w) \/ ReturnTrue(w) \/ ReturnFalse(w) \/ Die(w)
    \/ Persist
    \/ PowerLoss

Spec == Init /\ [][Next]_vars
================================================================================
