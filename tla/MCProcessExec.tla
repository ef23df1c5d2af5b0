---------------------------- MODULE MCProcessExec ----------------------------
(* Two catalog entries, one directory beside the host's and the repository. *)
EXTENDS ProcessExec
================================================================================
