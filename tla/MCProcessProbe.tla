---------------------------- MODULE MCProcessProbe ----------------------------
(* Two programs with a process each.  The pattern selects both; the full name *)
(* of the second is longer than what the kernel keeps of it and selects none. *)
EXTENDS ProcessProbe

CONSTANTS bridge, cut,              \* programs
          pattern, full             \* names

MCPids == 1..2
MCProgramOf == [pid \in MCPids |-> IF pid < 2 THEN bridge ELSE cut]
MCSelects == [n \in Names |-> IF n = pattern THEN Programs ELSE {}]
================================================================================
