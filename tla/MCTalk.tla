-------------------------------- MODULE MCTalk ---------------------------------
(* A server whose quota is what its clients ask for together. *)
EXTENDS Talk
================================================================================
