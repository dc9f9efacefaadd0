-------------------------- MODULE MCSimPortfolio ---------------------------
(* Small instances of SimPortfolio for TLC. *)
EXTENDS SimRefinement, TLC

CONSTANTS t1, t2, aa, bb

OneThread == {t1}
TwoThreads == {t1, t2}
OneSymbol == {aa}

\* A symbol priced in the account's currency, and one in another worth two of it.
OneFx == [s \in OneSymbol |-> 1]
ForeignFx == [s \in OneSymbol |-> 2]

At(d, ph) == [day |-> d, phase |-> ph]
ThursdayEarly == At(3, "EARLY")
FridayOpen == At(4, "OPEN")
MondayOpen == At(7, "OPEN")

\* The requests are interchangeable.
ThreadSymmetry == Permutations(TwoThreads)

=============================================================================
