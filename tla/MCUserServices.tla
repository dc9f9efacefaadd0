---------------------------- MODULE MCUserServices ----------------------------
(* Small instances of the user services. *)
EXTENDS UserServices

\* An empty table, or one account whose user signed in just before.
MCEarlier == {<<>>, <<[provider |-> "EMAIL", email |-> "e1", password |-> "p1", subject |-> ""]>>}

\* One condition of a signal that keeps no history; the others differ in name only.
MCAlerts == {[phase |-> "radar", what |-> "BUY"]}

\* "A" leads; "B" is found by the multibagger scan only.
MCOffers == {[market |-> "US", symbol |-> "A", score |-> 9, liquidity |-> 5, buy |-> TRUE, multi |-> FALSE],
             [market |-> "US", symbol |-> "B", score |-> 7, liquidity |-> 2, buy |-> TRUE, multi |-> TRUE]}

===============================================================================
