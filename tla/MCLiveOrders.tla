----------------------------- MODULE MCLiveOrders -----------------------------
(* Small instances of the live order paths. *)
EXTENDS LiveOrders

\* Orders that differ in the price only, by more and by less than %g keeps.
MCOrders == {[symbol |-> "A", side |-> "BUY", type |-> "LIMIT", quantity |-> 1, price |-> p] : p \in {8, 12, 13}}

\* No links, or one.
MCLinked == {{}, {[id |-> 1, user |-> "u1", broker |-> "MOOMOO"]}}

\* A holiday in the second week, a long weekend, and none.
MCHolidaySets == {{}, {9}, {7, 8}, {11, 14}}

\* Threads and symbols are interchangeable.
MCSymmetry == Permutations(Threads) \cup Permutations(Names) \cup Permutations(Symbols)

===============================================================================
