---------------------------- MODULE MCOhlcvCache ---------------------------
(* Small instances of OhlcvCache for TLC. *)
EXTENDS OhlcvCache, TLC

CONSTANTS t1, t2

TwoThreads == {t1, t2}

\* Nothing tells the threads apart.
ThreadSymmetry == Permutations(TwoThreads)

=============================================================================
