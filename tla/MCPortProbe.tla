----------------------------- MODULE MCPortProbe -----------------------------
(* A name with up to three addresses, timeouts on both sides of the clamp and *)
(* ports on both sides of the limits, which are scaled down.                 *)
EXTENDS PortProbe

MCTimeouts == {-1, 0, 1, 2, 3, 4}
MCPorts    == {-1, 0, 1, 5, 6}
================================================================================
