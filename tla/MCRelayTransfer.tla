--------------------------- MODULE MCRelayTransfer ---------------------------
(* A small instance of RelayTransfer for TLC.  Payloads are interchangeable, so *)
(* that they are taken in one order stands for every order; a symmetry set       *)
(* would not do, because it is unsound for liveness.                             *)
EXTENDS RelayTransfer

CONSTANTS d1, d2, d3

Order == <<d1, d2, d3>>
First(n) == {Order[i] : i \in 1 .. n}

\* Calls of send() begin with the next payload, the first to call is the first to
\* find room, and the last is the one to give up.
TakenInOrder ==
  /\ accepted' = SubSeq(Order, 1, Len(accepted'))
  /\ Elements(accepted') \cup sending' = First(Len(accepted') + Cardinality(sending'))

\* The third payload, which finds the window full, is sent where the handlers of
\* AtLeastOnce do not multiply the states; the sender is the same.
ThirdIsReliable == d3 \in sending' => mode # "AtLeastOnce"

MCSpec == Init /\ [][Next /\ TakenInOrder /\ ThirdIsReliable]_vars /\ Fairness
=============================================================================
