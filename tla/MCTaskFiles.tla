------------------------------ MODULE MCTaskFiles ------------------------------
(* Chunks of two characters cut a text of five, and files of three, in ways that
   overlap. *)
EXTENDS TaskFiles
================================================================================
