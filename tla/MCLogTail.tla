------------------------------ MODULE MCLogTail ------------------------------
(* A tail over two weeks, the first two milliseconds long. *)
EXTENDS LogTail

MCWeek == 0..1
===============================================================================
