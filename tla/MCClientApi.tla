---------------------------- MODULE MCClientApi ----------------------------
(* Two small instances of ClientApi in one run: one call that may make any  *)
(* request, or two calls, one making an accepted request of each method and *)
(* the other one whose answer it could be given by mistake.                 *)
EXTENDS ClientApi

CONSTANTS c1, c2

VARIABLE shape

SmallNumbers == -1..1
LimitEdges == {-1, 0, 1000, 1001}

Common == {r \in Requests : r.method = "get_user" /\ Accepts(r)}
AnyAndCommon == [c \in {c1, c2} |-> IF c = c1 THEN Requests ELSE Common]

Samples == {CHOOSE r \in Requests : r.method = m /\ Accepts(r) : m \in {q.method : q \in Requests}}

ShapedInit == Init /\ shape \in {"any", "two"}
ShapedNext ==
  /\ Next /\ UNCHANGED shape
  /\ shape = "any" => pc'[c2] = "idle"
  /\ shape = "two" => args'[c1] \subseteq Samples
ShapedSpec == ShapedInit /\ [][ShapedNext]_<<vars, shape>> /\ Fairness
=============================================================================
