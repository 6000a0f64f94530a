---------------------------- MODULE HttpApi_proofs --------------------------
(***************************************************************************)
(* The results of the REST client tell what the server did, for all the     *)
(* requests and replies of HttpApi; and its type invariant.                 *)
(***************************************************************************)
EXTENDS HttpMeaning_proofs

\* The invariant holds at the start: nothing was sent.
LEMMA InitIInv == Init => IInv
BY DEF Init, IInv, TypeOK, OneRequest, FlightIsWire, FateIsTold

\* A refused call sends nothing.
LEMMA RefuseKeeps ==
  ASSUME IInv, NEW r \in HttpRequests, pc = "idle", Refuse(r)
  PROVE  IInv'
BY DEF Refuse, Returns, IInv, TypeOK, OneRequest, FlightIsWire, FateIsTold

\* An accepted call sends one request.
LEMMA SendKeeps ==
  ASSUME IInv, NEW r \in HttpRequests, pc = "idle", Send(r)
  PROVE  IInv'
BY DEF Send, IInv, TypeOK, OneRequest, FlightIsWire, FateIsTold

\* The server does what it reads at most once: the request is the only one, and the
\* first to be answered.
LEMMA ServeKeeps ==
  ASSUME IInv, NEW w \in flight, NEW r \in Replies, Serve(w, r)
  PROVE  IInv'
<1>1. done = 0 /\ reply = {} BY DEF IInv, OneRequest
<1>2. flight' = {} /\ reply' = {r} BY DEF Serve, IInv, OneRequest
<1>3. done' = IF r.status < 400 THEN 1 ELSE 0 BY <1>1 DEF Serve
<1>4. pc # "idle" /\ call # {} BY DEF IInv, OneRequest
<1>5. \A o \in result : o.is = "connection"
  BY <1>1 DEF IInv, OneRequest, FlightIsWire, FateIsTold
<1>6. TypeOK' BY <1>2, <1>3 DEF Serve, IInv, TypeOK
<1>7. OneRequest' BY <1>2, <1>3, <1>4 DEF Serve, OneRequest
<1>8. FateIsTold' BY <1>3, <1>5 DEF Serve, FateIsTold
<1>9. FlightIsWire' BY <1>2 DEF FlightIsWire
<1> QED BY <1>6, <1>7, <1>8, <1>9 DEF IInv

\* A failed call tells nothing.
LEMMA FailKeeps ==
  ASSUME IInv, Fail
  PROVE  IInv'
BY DEF Fail, Returns, IInv, TypeOK, OneRequest, FlightIsWire, FateIsTold

\* The statuses a method expects are no errors.
LEMMA ExpectedSucceeds ==
  ASSUME NEW m, NEW s \in Expected(m)
  PROVE  s < 400
BY DEF Expected

\* A code is that of an error status, unless the server gave it or the status has none.
LEMMA CodesAreErrors ==
  ASSUME NEW a, a.status \in Nat, CodeOf(a) \notin {"given", "http_error"}
  PROVE  a.status >= 400
<1>1. CodeOf(a) = StatusCode(a.status) BY Zenon DEF CodeOf
<1> QED BY <1>1 DEF StatusCode

\* What a method returns after an answer agrees with what the server did.
LEMMA ReceiveKeeps ==
  ASSUME IInv, Receive
  PROVE  IInv'
<1>1. PICK r \in call, a \in reply : Returns(Outcome(r.method, a))
  BY DEF Receive
<1> DEFINE o == Outcome(r.method, a)
<1>2. result' = {o} /\ pc' = "done" BY <1>1 DEF Returns
<1>3. UNCHANGED <<call, flight, done, reply>> BY DEF Receive
<1>4. \/ o = [is |-> "server", code |-> CodeOf(a)]
      \/ a.status \in Expected(r.method) /\ o.is \in {"ok", "protocol"}
  <2>1. CASE a.status \notin Expected(r.method) BY <2>1 DEF Outcome
  <2>2. CASE a.status \in Expected(r.method) /\ Decoded(r.method, a.payload) = {}
    <3>1. o = [is |-> "protocol"] BY <2>2 DEF Outcome
    <3> QED BY <3>1, <2>2
  <2>3. CASE a.status \in Expected(r.method) /\ Decoded(r.method, a.payload) # {}
    <3>1. o = [is |-> "ok", value |-> CHOOSE v \in Decoded(r.method, a.payload) : TRUE]
      BY <2>3 DEF Outcome
    <3> QED BY <3>1, <2>3
  <2> QED BY <2>1, <2>2, <2>3
<1>5. done = IF a.status < 400 THEN 1 ELSE 0 BY DEF IInv, OneRequest
<1>6. a.status \in Nat BY DEF IInv, TypeOK, Replies, Statuses
<1>7. o.is \in {"ok", "protocol"} => done = 1
  BY <1>4, <1>5, ExpectedSucceeds
<1>8. o.is = "server" /\ o.code \notin {"given", "http_error"} => done = 0
  <2>1. CodeOf(a) \notin {"given", "http_error"} => a.status >= 400
    BY <1>6, CodesAreErrors
  <2> QED BY <1>4, <1>5, <1>6, <2>1
<1>9. o.is # "invalid" /\ o.is # "connection" BY <1>4
<1> HIDE DEF o
<1>10. TypeOK' BY <1>2, <1>3 DEF IInv, TypeOK
<1>11. OneRequest' BY <1>2, <1>3 DEF IInv, OneRequest
<1>12. FateIsTold' BY <1>2, <1>3, <1>7, <1>8, <1>9 DEF IInv, FateIsTold
<1>13. FlightIsWire' BY <1>3 DEF IInv, FlightIsWire
<1> QED BY <1>10, <1>11, <1>12, <1>13 DEF IInv

\* The invariant of the REST client, its type invariant with it, is inductive.
THEOREM Invariance == Spec => []IInv
<1>1. Init => IInv BY InitIInv
<1>2. IInv /\ [Next]_vars => IInv'
  <2> SUFFICES ASSUME IInv, [Next]_vars PROVE IInv' OBVIOUS
  <2>1. CASE pc = "idle" /\ \E r \in HttpRequests : Refuse(r) \/ Send(r)
    BY <2>1, RefuseKeeps, SendKeeps
  <2>2. CASE \E w \in flight, r \in Replies : Serve(w, r)
    BY <2>2, ServeKeeps
  <2>3. CASE Fail BY <2>3, FailKeeps
  <2>4. CASE Receive BY <2>4, ReceiveKeeps
  <2>5. CASE UNCHANGED vars
    BY <2>5 DEF vars, IInv, TypeOK, OneRequest, FlightIsWire, FateIsTold
  <2> QED BY <2>1, <2>2, <2>3, <2>4, <2>5 DEF Next
<1> QED BY <1>1, <1>2, PTL DEF Spec

\* A result tells whether the server did what it was asked: not at all after Validation or
\* the code of an error status, once after Ok or Protocol, and never twice.
THEOREM FateTold == Spec => []FateIsTold
<1>1. IInv => FateIsTold BY DEF IInv
<1> QED BY <1>1, Invariance, PTL

\* What the server reads in a request is what the same call of the WebSocket client asks
\* for: no argument is lost, moved to another field or garbled by path, query or JSON, but
\* in the calls of Differs(), each of which is an exception.
THEOREM MeaningSame == Spec => []SameMeaning
<1>1. IInv => SameMeaning
  <2> SUFFICES ASSUME IInv, NEW w \in flight, NEW r \in call
               PROVE  (Route(w) = Meaning(r)) <=> ~Differs(r)
    BY DEF SameMeaning
  <2>1. w = Wire(r) /\ r \in HttpRequests /\ HttpAccepts(r)
    BY DEF IInv, FlightIsWire, TypeOK
  <2> QED BY <2>1, MeaningKept, MeaningLost
<1> QED BY <1>1, Invariance, PTL
=============================================================================
