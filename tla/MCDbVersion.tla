------------------------------ MODULE MCDbVersion ------------------------------
(* Small instances of DbVersion for TLC: three builds, of which the second
   changes one database, and the third that one and another. *)
EXTENDS DbVersion

MCVersion == 1..3
MCBuilds ==
  {[metadata |-> 1, logs |-> 1, metrics |-> 1],
   [metadata |-> 1, logs |-> 1, metrics |-> 2],
   [metadata |-> 2, logs |-> 1, metrics |-> 3]}
================================================================================
