---------------------------- MODULE MCRecycleBin ------------------------------
(* Instances of RecycleBin for TLC: resources with a file, and a note without one. *)
EXTENDS RecycleBin

CONSTANTS film, book, song, note

MCSize == [d \in Docs |-> IF d = note THEN 0 ELSE 1]
=============================================================================
