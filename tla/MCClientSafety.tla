-------------------------- MODULE MCClientSafety ---------------------------
(* Two instances of ClientSession in one run: several calls of connect()    *)
(* without requests, pings and acknowledgements, or one call of connect()   *)
(* with them.  All at once are too many states, and what writes meets       *)
(* connect() only through close() and the tasks.                            *)
EXTENDS MCClientSession

VARIABLE shape

OneConnect == Cardinality({c \in Connectors : connectPc[c] # "idle"}) <= 1
NoWrite == /\ \A r \in Rpcs : rpcPc[r] = "idle"
           /\ \A t \in Tasks : runPc[t] # "ack"

ShapedInit == Init /\ shape \in {"connects", "requests"}
ShapedNext ==
  /\ Next /\ UNCHANGED shape
  /\ shape = "connects" => NoWrite'
  /\ shape = "requests" => OneConnect'
ShapedSpec == ShapedInit /\ [][ShapedNext]_<<vars, shape>>
=============================================================================
