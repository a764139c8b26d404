--------------------------- MODULE MCMetricsRollup ---------------------------
(* Small instances of MetricsRollup for TLC. *)
EXTENDS MetricsRollup

\* The host, and two containers.
MCSources == {{1}, {1, 2}}
Containers == {{1, 2}}
\* A "minute" of two 10 s buckets in a "five minutes" of four.
MCWidths == {2, 4}
==============================================================================
