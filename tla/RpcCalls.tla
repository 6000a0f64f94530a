------------------------------ MODULE RpcCalls ------------------------------
(***************************************************************************)
(* What a call of an RPC method promises its caller, whoever else uses the *)
(* connection: it ends at most once, and its outcome never changes; a      *)
(* refusal comes before anything is sent; an outcome of the server's needs *)
(* an answer of the server; and no answer is mistaken for a timeout or a   *)
(* lost connection.  ClientApi and ClientSession both implement it.        *)
(***************************************************************************)
CONSTANT Calls

VARIABLES
  phase,    \* "new", "open", "answered" (the server's answer is decoded), "broken"
            \* (its connection failed), "ended"
  outcome   \* the set of what the call returned: empty, or one outcome

vars == <<phase, outcome>>

\* Outcomes that say what the server did, and those of the client alone.
OfServer == {"ok", "server", "protocol", "store"}
OfClient == {"closed", "notconnected", "disconnected", "connection", "unauthorized",
             "timeout", "dropped"}

Init == /\ phase = [c \in Calls |-> "new"]
        /\ outcome = [c \in Calls |-> {}]

Becomes(c, from, to) == phase[c] = from /\ phase' = [phase EXCEPT ![c] = to]
Returns(c, o) == outcome' = [outcome EXCEPT ![c] = {o}]

Refuse(c) == Becomes(c, "new", "ended") /\ Returns(c, "invalid")
Begin(c) == Becomes(c, "new", "open") /\ UNCHANGED outcome
Hear(c) == Becomes(c, "open", "answered") /\ UNCHANGED outcome
GiveUp(c) == Becomes(c, "open", "ended") /\ \E o \in OfClient : Returns(c, o)

\* The write may still fail, and the caller may go, after the answer came.
Deliver(c) == /\ Becomes(c, "answered", "ended")
              /\ \E o \in OfServer \cup {"connection", "dropped"} : Returns(c, o)

\* A failed write is known before the call returns.
Break(c) == /\ \E from \in {"open", "answered"} : Becomes(c, from, "broken")
            /\ UNCHANGED outcome
Report(c) == /\ Becomes(c, "broken", "ended")
             /\ \E o \in {"connection", "dropped"} : Returns(c, o)

Next == \E c \in Calls : \/ Refuse(c) \/ Begin(c) \/ Hear(c) \/ GiveUp(c)
                         \/ Deliver(c) \/ Break(c) \/ Report(c)

Spec == Init /\ [][Next]_vars
=============================================================================
