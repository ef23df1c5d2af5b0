---------------------------- MODULE MCFileReplace ----------------------------
(* Two processes replace one file while a third reads it. *)
EXTENDS FileReplace, TLC

Symmetry == Permutations(Writers) \cup Permutations(Temps)
            \cup Permutations(Contents)
================================================================================
