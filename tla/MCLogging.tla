------------------------------ MODULE MCLogging ------------------------------
(* Logging for TLC: two interchangeable threads.  Without init() lines go to *)
(* the console only; init() names a file, and may rotate it at once.         *)
EXTENDS Logging

MCDefaultOptions == [level |-> 1, flush_level |-> 2, file |-> FALSE, truncate |-> FALSE]
MCOptions == {[level |-> 2, flush_level |-> 2, file |-> TRUE, truncate |-> FALSE],
              [level |-> 1, flush_level |-> 2, file |-> TRUE, truncate |-> TRUE]}

Symmetry == Permutations(Threads)
=============================================================================
