----------------------------- MODULE MCHttpApi -----------------------------
(* A small instance of HttpApi: numbers around 0 and the ends of the limits. *)
EXTENDS HttpApi, TLC

SmallNumbers == -1..1
LimitEdges == {-1, 0, 1000, 1001}
SmallDecimal ==
  (-1 :> "-1") @@ (0 :> "0") @@ (1 :> "1") @@ (1000 :> "1000") @@ (1001 :> "1001")
=============================================================================
