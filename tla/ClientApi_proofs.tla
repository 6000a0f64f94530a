-------------------------- MODULE ClientApi_proofs --------------------------
(* That the answers of the server reach the calls they answer, for any      *)
(* number of calls and of answers.                                          *)
EXTENDS ClientApi, Requests_proofs, TLAPS

USE ArgsAssumption, BoundAssumption

\* The first state satisfies the invariant.
LEMMA Start == Init => IInv
  <1> SUFFICES ASSUME Init PROVE IInv
    OBVIOUS
  <1> USE DEF Init
  <1>1. TypeOK
    BY DEF TypeOK
  <1>2. OwnIds /\ OwnEntries /\ OwnFrames
    BY DEF OwnIds, OwnEntries, OwnFrames
  <1>3. Reachable /\ Unfinished /\ OwnBoxes /\ Accepted
    BY DEF Reachable, Unfinished, OwnBoxes, Accepted
  <1>4. OkIsOwnAnswer /\ TimeoutIsFounded
    BY DEF OkIsOwnAnswer, TimeoutIsFounded
  <1> QED
    BY <1>1, <1>2, <1>3, <1>4 DEF IInv

\* What the handler makes of a frame is no timeout, and an Ok is that of its call.
LEMMA OutcomesSound ==
  ASSUME NEW f \in Frames, NEW o \in OutcomesOf(f)
  PROVE  o \in Outcomes /\ o.is \in FromServer /\ (o.is = "ok" => o.of = f.of)
  BY DEF Frames, OutcomesOf, Outcomes, Failures, FromServer

\* The frame that is handled came from the queue, and the rest keeps its order.
LEMMA QueueStep ==
  ASSUME TypeOK, inbox # <<>>
  PROVE  /\ Head(inbox) \in Frames /\ Head(inbox) = inbox[1] /\ Len(inbox) >= 1
         /\ Tail(inbox) \in Seq(Frames)
         /\ \A i \in 1..Len(Tail(inbox)) :
              i + 1 \in 1..Len(inbox) /\ Tail(inbox)[i] = inbox[i + 1]
  BY DEF TypeOK

\* What a step of the read loop does: nothing, or one sound outcome for the entry of the
\* request_id of the frame.
LEMMA HandleStep ==
  ASSUME TypeOK, Handle
  PROVE  \/ UNCHANGED <<pending, box, heard>>
         \/ \E f \in Frames, o \in Outcomes :
              /\ inbox # <<>> /\ f = inbox[1] /\ Len(inbox) >= 1
              /\ o.is \in FromServer /\ (o.is = "ok" => o.of = f.of)
              /\ pending' = {e \in pending : e.id # f.id}
              /\ box' = [c \in Calls |->
                          IF \E e \in pending : e.id = f.id /\ e.call = c THEN {o} ELSE box[c]]
              /\ heard' = heard \cup {c \in Calls : c = f.of /\ pc[c] \in {"send", "wait"}}
  <1> DEFINE f == Head(inbox)
             entry == {e \in pending : e.id = f.id}
  <1>1. inbox # <<>> /\ f \in Frames /\ f = inbox[1] /\ Len(inbox) >= 1
    BY QueueStep DEF Handle
  <1>2. CASE ~f.whole
    BY <1>2 DEF Handle
  <1>3. CASE f.whole
    <2>1. PICK o \in OutcomesOf(f) :
            box' = [c \in Calls |-> IF \E e \in entry : e.call = c THEN {o} ELSE box[c]]
      BY <1>3 DEF Handle
    <2>2. pending' = pending \ entry
          /\ heard' = heard \cup {c \in Calls : c = f.of /\ pc[c] \in {"send", "wait"}}
      BY <1>3 DEF Handle
    <2>3. o \in Outcomes /\ o.is \in FromServer /\ (o.is = "ok" => o.of = f.of)
      BY <1>1, OutcomesSound
    <2>4. \A c \in Calls : (\E e \in entry : e.call = c)
                             <=> \E e \in pending : e.id = f.id /\ e.call = c
      OBVIOUS
    <2>5. box' = [c \in Calls |->
                    IF \E e \in pending : e.id = f.id /\ e.call = c THEN {o} ELSE box[c]]
      BY <2>1, <2>4
    <2>6. pending' = {e \in pending : e.id # f.id}
      BY <2>2
    <2> HIDE DEF f, entry
    <2> QED
      BY <1>1, <2>2, <2>3, <2>5, <2>6
  <1> QED
    BY <1>2, <1>3

\* The rest of a step of the read loop.
LEMMA HandleRest ==
  ASSUME TypeOK, Handle
  PROVE  /\ UNCHANGED <<args, pc, id, nextId, result, asked, answers>>
         /\ inbox' \in Seq(Frames)
         /\ \A i \in 1..Len(inbox') : i + 1 \in 1..Len(inbox) /\ inbox'[i] = inbox[i + 1]
  BY QueueStep DEF Handle

\* Every step keeps the types.
LEMMA TypeStep == ASSUME IInv, [Next]_vars PROVE TypeOK'
  <1> USE DEF IInv, TypeOK
  <1>1. ASSUME NEW c \in Calls, NEW r \in ArgsOf[c], pc[c] = "idle", Refuse(c, r)
        PROVE TypeOK'
    BY <1>1 DEF Refuse, Outcomes, Failures
  <1>2. ASSUME NEW c \in Calls, NEW r \in ArgsOf[c], pc[c] = "idle", Register(c, r)
        PROVE TypeOK'
    BY <1>2 DEF Register
  <1>3. ASSUME NEW c \in Calls, Reach(c) PROVE TypeOK'
    BY <1>3 DEF Reach
  <1>4. ASSUME NEW c \in Calls, Sent(c) PROVE TypeOK'
    BY <1>4 DEF Sent
  <1>5. ASSUME NEW c \in Calls, SendFails(c) PROVE TypeOK'
    BY <1>5 DEF SendFails, GivesUp, Outcomes, Failures
  <1>6. ASSUME NEW c \in Calls, Return(c) PROVE TypeOK'
    <2>1. PICK o \in box[c], r \in args[c] :
            result' = [result EXCEPT ![c] =
              {IF o.is = "ok" /\ o.value # Takes(r.method) THEN [is |-> "protocol"] ELSE o}]
      BY <1>6 DEF Return
    <2>2. o \in Outcomes /\ [is |-> "protocol"] \in Outcomes
      BY DEF Outcomes, Failures
    <2> QED
      BY <1>6, <2>1, <2>2 DEF Return
  <1>7. ASSUME NEW c \in Calls, Timeout(c) PROVE TypeOK'
    BY <1>7 DEF Timeout, GivesUp, Outcomes, Failures
  <1>8. ASSUME NEW c \in Calls, Leave(c) PROVE TypeOK'
    BY <1>8 DEF Leave, Unregistered
  <1>9. ASSUME NEW q \in asked, NEW body \in Bodies, NEW whole \in BOOLEAN,
               Answer(q, body, whole)
        PROVE TypeOK'
    <2>1. [id |-> q.id, of |-> q.of, body |-> body, whole |-> whole] \in Frames
      BY DEF Frames
    <2> QED
      BY <1>9, <2>1 DEF Answer
  <1>10. ASSUME Handle PROVE TypeOK'
    <2>1. CASE UNCHANGED <<pending, box, heard>>
      BY <1>10, <2>1, HandleRest
    <2>2. ASSUME NEW f \in Frames, NEW o \in Outcomes,
                 inbox # <<>>, f = inbox[1], Len(inbox) >= 1,
                 o.is \in FromServer, o.is = "ok" => o.of = f.of,
                 pending' = {e \in pending : e.id # f.id},
                 box' = [c \in Calls |->
                           IF \E e \in pending : e.id = f.id /\ e.call = c THEN {o} ELSE box[c]],
                 heard' = heard \cup {c \in Calls : c = f.of /\ pc[c] \in {"send", "wait"}}
          PROVE  TypeOK'
      <3>1. box' \in [Calls -> SUBSET Outcomes]
        BY <2>2
      <3>2. pending' \subseteq [id : Nat, call : Calls] /\ heard' \subseteq Calls
        BY <2>2
      <3> QED
        BY <1>10, <3>1, <3>2, HandleRest
    <2>3. TypeOK
      OBVIOUS
    <2> HIDE DEF IInv, TypeOK, OwnIds, OwnEntries, OwnFrames, Reachable, Unfinished, OwnBoxes
    <2> QED
      BY <1>10, <2>1, <2>2, <2>3, HandleStep
  <1>11. ASSUME UNCHANGED vars PROVE TypeOK'
    BY <1>11 DEF vars
  <1> HIDE DEF IInv, TypeOK
  <1> QED
    BY <1>1, <1>2, <1>3, <1>4, <1>5, <1>6, <1>7, <1>8, <1>9, <1>10, <1>11
       DEF Next, Begin, CallStep

\* Request_ids stay those of one call each.
LEMMA IdsStep == ASSUME IInv, [Next]_vars PROVE OwnIds'
  <1> USE DEF IInv, TypeOK, OwnIds
  <1>1. ASSUME NEW c \in Calls, NEW r \in ArgsOf[c], pc[c] = "idle", Refuse(c, r)
        PROVE OwnIds'
    BY <1>1 DEF Refuse
  <1>2. ASSUME NEW c \in Calls, NEW r \in ArgsOf[c], pc[c] = "idle", Register(c, r)
        PROVE OwnIds'
    BY <1>2 DEF Register
  <1>3. ASSUME NEW c \in Calls, Reach(c) PROVE OwnIds'
    BY <1>3 DEF Reach
  <1>4. ASSUME NEW c \in Calls, Sent(c) PROVE OwnIds'
    BY <1>4 DEF Sent
  <1>5. ASSUME NEW c \in Calls, SendFails(c) PROVE OwnIds'
    BY <1>5 DEF SendFails, GivesUp
  <1>6. ASSUME NEW c \in Calls, Return(c) PROVE OwnIds'
    BY <1>6 DEF Return
  <1>7. ASSUME NEW c \in Calls, Timeout(c) PROVE OwnIds'
    BY <1>7 DEF Timeout, GivesUp
  <1>8. ASSUME NEW c \in Calls, Leave(c) PROVE OwnIds'
    BY <1>8 DEF Leave, Unregistered
  <1>9. ASSUME NEW q \in asked, NEW body \in Bodies, NEW whole \in BOOLEAN,
               Answer(q, body, whole)
        PROVE OwnIds'
    BY <1>9 DEF Answer
  <1>10. ASSUME Handle PROVE OwnIds'
    BY <1>10 DEF Handle
  <1>11. ASSUME UNCHANGED vars PROVE OwnIds'
    BY <1>11 DEF vars
  <1> HIDE DEF IInv, TypeOK, OwnIds
  <1> QED
    BY <1>1, <1>2, <1>3, <1>4, <1>5, <1>6, <1>7, <1>8, <1>9, <1>10, <1>11
       DEF Next, Begin, CallStep

\* The table stays that of the calls that have not returned.
LEMMA EntriesStep == ASSUME IInv, [Next]_vars PROVE OwnEntries'
  <1> USE DEF IInv, TypeOK, OwnIds, OwnEntries
  <1>1. ASSUME NEW c \in Calls, NEW r \in ArgsOf[c], pc[c] = "idle", Refuse(c, r)
        PROVE OwnEntries'
    BY <1>1 DEF Refuse
  <1>2. ASSUME NEW c \in Calls, NEW r \in ArgsOf[c], pc[c] = "idle", Register(c, r)
        PROVE OwnEntries'
    BY <1>2 DEF Register
  <1>3. ASSUME NEW c \in Calls, Reach(c) PROVE OwnEntries'
    BY <1>3 DEF Reach
  <1>4. ASSUME NEW c \in Calls, Sent(c) PROVE OwnEntries'
    BY <1>4 DEF Sent
  <1>5. ASSUME NEW c \in Calls, SendFails(c) PROVE OwnEntries'
    BY <1>5 DEF SendFails, GivesUp
  <1>6. ASSUME NEW c \in Calls, Return(c) PROVE OwnEntries'
    BY <1>6 DEF Return
  <1>7. ASSUME NEW c \in Calls, Timeout(c) PROVE OwnEntries'
    BY <1>7 DEF Timeout, GivesUp
  <1>8. ASSUME NEW c \in Calls, Leave(c) PROVE OwnEntries'
    BY <1>8 DEF Leave, Unregistered
  <1>9. ASSUME NEW q \in asked, NEW body \in Bodies, NEW whole \in BOOLEAN,
               Answer(q, body, whole)
        PROVE OwnEntries'
    BY <1>9 DEF Answer
  <1>10. ASSUME Handle PROVE OwnEntries'
    BY <1>10, HandleStep, HandleRest
  <1>11. ASSUME UNCHANGED vars PROVE OwnEntries'
    BY <1>11 DEF vars
  <1> HIDE DEF IInv, TypeOK, OwnIds, OwnEntries
  <1> QED
    BY <1>1, <1>2, <1>3, <1>4, <1>5, <1>6, <1>7, <1>8, <1>9, <1>10, <1>11
       DEF Next, Begin, CallStep

\* Requests and answers stay under the request_id of their call.
LEMMA FramesStep == ASSUME IInv, [Next]_vars PROVE OwnFrames'
  <1> USE DEF IInv, TypeOK, OwnIds, OwnFrames
  <1>1. ASSUME NEW c \in Calls, NEW r \in ArgsOf[c], pc[c] = "idle", Refuse(c, r)
        PROVE OwnFrames'
    BY <1>1 DEF Refuse
  <1>2. ASSUME NEW c \in Calls, NEW r \in ArgsOf[c], pc[c] = "idle", Register(c, r)
        PROVE OwnFrames'
    BY <1>2 DEF Register
  <1>3. ASSUME NEW c \in Calls, Reach(c) PROVE OwnFrames'
    BY <1>3 DEF Reach
  <1>4. ASSUME NEW c \in Calls, Sent(c) PROVE OwnFrames'
    BY <1>4 DEF Sent
  <1>5. ASSUME NEW c \in Calls, SendFails(c) PROVE OwnFrames'
    BY <1>5 DEF SendFails, GivesUp
  <1>6. ASSUME NEW c \in Calls, Return(c) PROVE OwnFrames'
    BY <1>6 DEF Return
  <1>7. ASSUME NEW c \in Calls, Timeout(c) PROVE OwnFrames'
    BY <1>7 DEF Timeout, GivesUp
  <1>8. ASSUME NEW c \in Calls, Leave(c) PROVE OwnFrames'
    BY <1>8 DEF Leave, Unregistered
  <1>9. ASSUME NEW q \in asked, NEW body \in Bodies, NEW whole \in BOOLEAN,
               Answer(q, body, whole)
        PROVE OwnFrames'
    BY <1>9 DEF Answer
  <1>10. ASSUME Handle PROVE OwnFrames'
    <2>1. ASSUME NEW i \in 1..Len(inbox')
          PROVE  inbox'[i].id = id'[inbox'[i].of] /\ inbox'[i].id # 0
      <3>1. i + 1 \in 1..Len(inbox) /\ inbox'[i] = inbox[i + 1]
        BY <1>10, HandleRest
      <3>2. inbox[i + 1].id = id[inbox[i + 1].of] /\ inbox[i + 1].id # 0
        BY <3>1
      <3> QED
        BY <1>10, <3>1, <3>2, HandleRest
    <2>2. asked' = asked /\ id' = id
      BY <1>10, HandleRest
    <2> QED
      BY <2>1, <2>2
  <1>11. ASSUME UNCHANGED vars PROVE OwnFrames'
    BY <1>11 DEF vars
  <1> HIDE DEF IInv, TypeOK, OwnIds, OwnFrames
  <1> QED
    BY <1>1, <1>2, <1>3, <1>4, <1>5, <1>6, <1>7, <1>8, <1>9, <1>10, <1>11
       DEF Next, Begin, CallStep

\* A call that may wait stays within reach of its answer.
LEMMA ReachableStep == ASSUME IInv, [Next]_vars PROVE Reachable'
  <1> USE DEF IInv, TypeOK, OwnIds, OwnEntries, OwnFrames, Reachable, Unfinished
  <1>1. ASSUME NEW c \in Calls, NEW r \in ArgsOf[c], pc[c] = "idle", Refuse(c, r)
        PROVE Reachable'
    BY <1>1 DEF Refuse
  <1>2. ASSUME NEW c \in Calls, NEW r \in ArgsOf[c], pc[c] = "idle", Register(c, r)
        PROVE Reachable'
    BY <1>2 DEF Register
  <1>3. ASSUME NEW c \in Calls, Reach(c) PROVE Reachable'
    BY <1>3 DEF Reach
  <1>4. ASSUME NEW c \in Calls, Sent(c) PROVE Reachable'
    BY <1>4 DEF Sent
  <1>5. ASSUME NEW c \in Calls, SendFails(c) PROVE Reachable'
    BY <1>5 DEF SendFails, GivesUp
  <1>6. ASSUME NEW c \in Calls, Return(c) PROVE Reachable'
    BY <1>6 DEF Return
  <1>7. ASSUME NEW c \in Calls, Timeout(c) PROVE Reachable'
    BY <1>7 DEF Timeout, GivesUp
  <1>8. ASSUME NEW c \in Calls, Leave(c) PROVE Reachable'
    BY <1>8 DEF Leave, Unregistered
  <1>9. ASSUME NEW q \in asked, NEW body \in Bodies, NEW whole \in BOOLEAN,
               Answer(q, body, whole)
        PROVE Reachable'
    BY <1>9 DEF Answer
  <1>10. ASSUME Handle PROVE Reachable'
    <2>1. CASE UNCHANGED <<pending, box, heard>>
      BY <1>10, <2>1, HandleRest
    <2>2. ASSUME NEW f \in Frames, NEW o \in Outcomes,
                 inbox # <<>>, f = inbox[1], Len(inbox) >= 1,
                 o.is \in FromServer, o.is = "ok" => o.of = f.of,
                 pending' = {e \in pending : e.id # f.id},
                 box' = [c \in Calls |->
                           IF \E e \in pending : e.id = f.id /\ e.call = c THEN {o} ELSE box[c]],
                 heard' = heard \cup {c \in Calls : c = f.of /\ pc[c] \in {"send", "wait"}}
          PROVE  Reachable'
      <3>1. f.of \in Calls /\ f.id = id[f.of] /\ f.id # 0
        BY <2>2 DEF Frames
      <3>2. ASSUME NEW c \in Calls, pc'[c] \in {"send", "wait"}, box'[c] = {}
            PROVE  [id |-> id'[c], call |-> c] \in pending'
        <4>1. box[c] = {} /\ ~ \E e \in pending : e.id = f.id /\ e.call = c
          BY <2>2, <3>2
        <4>2. [id |-> id[c], call |-> c] \in pending
          BY <1>10, <3>2, <4>1, HandleRest
        <4>3. id[c] # f.id
          BY <4>1, <4>2
        <4> QED
          BY <1>10, <2>2, <4>2, <4>3, HandleRest
      <3>4. ASSUME NEW c \in Calls, pc'[c] \in {"send", "wait"}, box'[c] # {} PROVE c \in heard'
        <4>1. pc[c] \in {"send", "wait"}
          BY <1>10, <3>4, HandleRest
        <4>2. CASE box[c] # {}
          BY <2>2, <4>1, <4>2
        <4>3. CASE box[c] = {}
          <5>1. id[c] = f.id
            BY <2>2, <3>4, <4>3
          <5>2. c = f.of
            BY <3>1, <5>1
          <5> QED
            BY <2>2, <4>1, <5>2
        <4> QED
          BY <4>2, <4>3
      <3>3. ASSUME NEW c \in heard', pc'[c] \in {"send", "wait"} PROVE box'[c] # {}
        <4>1. c \in Calls /\ pc[c] \in {"send", "wait"}
          BY <1>10, <2>2, <3>3, HandleRest
        <4>2. CASE c \in heard
          BY <1>10, <2>2, <3>3, <4>1, <4>2, HandleRest
        <4>3. CASE c = f.of
          <5>1. CASE box[c] = {}
            <6>1. [id |-> id[c], call |-> c] \in pending
              BY <4>1, <5>1
            <6>2. \E e \in pending : e.id = f.id /\ e.call = c
              BY <3>1, <4>3, <6>1
            <6> QED
              BY <2>2, <4>1, <6>2
          <5>2. CASE box[c] # {}
            BY <2>2, <4>1, <5>2
          <5> QED
            BY <5>1, <5>2
        <4> QED
          BY <2>2, <3>3, <4>2, <4>3
      <3>5. heard' \subseteq Calls
        BY <2>2
      <3> QED
        BY <3>2, <3>3, <3>4, <3>5
    <2>3. TypeOK
      OBVIOUS
    <2> HIDE DEF IInv, TypeOK, OwnIds, OwnEntries, OwnFrames, Reachable, Unfinished, OwnBoxes
    <2> QED
      BY <1>10, <2>1, <2>2, <2>3, HandleStep
  <1>11. ASSUME UNCHANGED vars PROVE Reachable'
    BY <1>11 DEF vars
  <1> HIDE DEF IInv, TypeOK, OwnIds, OwnEntries, OwnFrames, Reachable, Unfinished
  <1> QED
    BY <1>1, <1>2, <1>3, <1>4, <1>5, <1>6, <1>7, <1>8, <1>9, <1>10, <1>11
       DEF Next, Begin, CallStep

\* Until it gives up, a call has returned nothing.
LEMMA UnfinishedStep == ASSUME IInv, [Next]_vars PROVE Unfinished'
  <1> USE DEF IInv, TypeOK, Unfinished, OwnEntries
  <1>1. ASSUME NEW c \in Calls, NEW r \in ArgsOf[c], pc[c] = "idle", Refuse(c, r)
        PROVE Unfinished'
    BY <1>1 DEF Refuse
  <1>2. ASSUME NEW c \in Calls, NEW r \in ArgsOf[c], pc[c] = "idle", Register(c, r)
        PROVE Unfinished'
    BY <1>2 DEF Register
  <1>3. ASSUME NEW c \in Calls, Reach(c) PROVE Unfinished'
    BY <1>3 DEF Reach
  <1>4. ASSUME NEW c \in Calls, Sent(c) PROVE Unfinished'
    BY <1>4 DEF Sent
  <1>5. ASSUME NEW c \in Calls, SendFails(c) PROVE Unfinished'
    BY <1>5 DEF SendFails, GivesUp
  <1>6. ASSUME NEW c \in Calls, Return(c) PROVE Unfinished'
    BY <1>6 DEF Return
  <1>7. ASSUME NEW c \in Calls, Timeout(c) PROVE Unfinished'
    BY <1>7 DEF Timeout, GivesUp
  <1>8. ASSUME NEW c \in Calls, Leave(c) PROVE Unfinished'
    BY <1>8 DEF Leave, Unregistered
  <1>9. ASSUME NEW q \in asked, NEW body \in Bodies, NEW whole \in BOOLEAN,
               Answer(q, body, whole)
        PROVE Unfinished'
    BY <1>9 DEF Answer
  <1>10. ASSUME Handle PROVE Unfinished'
    <2>1. ASSUME NEW c \in Calls, pc[c] = "idle" PROVE c \notin heard' /\ box'[c] = {}
      <3>1. box[c] = {} /\ c \notin heard /\ ~ \E e \in pending : e.call = c
        BY <2>1
      <3>2. TypeOK
        OBVIOUS
      <3> HIDE DEF IInv, TypeOK, Unfinished, OwnEntries
      <3> QED
        BY <1>10, <2>1, <3>1, <3>2, HandleStep
    <2>2. UNCHANGED <<pc, args, result>>
      BY <1>10, HandleRest
    <2> QED
      BY <2>1, <2>2
  <1>11. ASSUME UNCHANGED vars PROVE Unfinished'
    BY <1>11 DEF vars
  <1> HIDE DEF IInv, TypeOK, Unfinished, OwnEntries
  <1> QED
    BY <1>1, <1>2, <1>3, <1>4, <1>5, <1>6, <1>7, <1>8, <1>9, <1>10, <1>11
       DEF Next, Begin, CallStep

\* What is put into the oneshot of a call answers its request.
LEMMA BoxesStep == ASSUME IInv, [Next]_vars PROVE OwnBoxes'
  <1> USE DEF IInv, TypeOK, OwnIds, OwnEntries, OwnFrames, OwnBoxes
  <1>1. ASSUME NEW c \in Calls, NEW r \in ArgsOf[c], pc[c] = "idle", Refuse(c, r)
        PROVE OwnBoxes'
    BY <1>1 DEF Refuse
  <1>2. ASSUME NEW c \in Calls, NEW r \in ArgsOf[c], pc[c] = "idle", Register(c, r)
        PROVE OwnBoxes'
    BY <1>2 DEF Register
  <1>3. ASSUME NEW c \in Calls, Reach(c) PROVE OwnBoxes'
    BY <1>3 DEF Reach
  <1>4. ASSUME NEW c \in Calls, Sent(c) PROVE OwnBoxes'
    BY <1>4 DEF Sent
  <1>5. ASSUME NEW c \in Calls, SendFails(c) PROVE OwnBoxes'
    BY <1>5 DEF SendFails, GivesUp
  <1>6. ASSUME NEW c \in Calls, Return(c) PROVE OwnBoxes'
    BY <1>6 DEF Return
  <1>7. ASSUME NEW c \in Calls, Timeout(c) PROVE OwnBoxes'
    BY <1>7 DEF Timeout, GivesUp
  <1>8. ASSUME NEW c \in Calls, Leave(c) PROVE OwnBoxes'
    BY <1>8 DEF Leave, Unregistered
  <1>9. ASSUME NEW q \in asked, NEW body \in Bodies, NEW whole \in BOOLEAN,
               Answer(q, body, whole)
        PROVE OwnBoxes'
    BY <1>9 DEF Answer
  <1>10. ASSUME Handle PROVE OwnBoxes'
    <2>1. CASE UNCHANGED <<pending, box, heard>>
      BY <1>10, <2>1, HandleRest
    <2>2. ASSUME NEW f \in Frames, NEW o \in Outcomes,
                 inbox # <<>>, f = inbox[1], Len(inbox) >= 1,
                 o.is \in FromServer, o.is = "ok" => o.of = f.of,
                 pending' = {e \in pending : e.id # f.id},
                 box' = [c \in Calls |->
                           IF \E e \in pending : e.id = f.id /\ e.call = c THEN {o} ELSE box[c]],
                 heard' = heard \cup {c \in Calls : c = f.of /\ pc[c] \in {"send", "wait"}}
          PROVE  OwnBoxes'
      <3>1. f.of \in Calls /\ f.id = id[f.of] /\ f.id # 0
        BY <2>2 DEF Frames
      <3>2. ASSUME NEW c \in Calls, NEW p \in box'[c]
            PROVE  p.is \in FromServer /\ (p.is = "ok" => p.of = c)
        <4>1. CASE \E e \in pending : e.id = f.id /\ e.call = c
          <5>1. id[c] = f.id /\ p = o
            BY <2>2, <3>2, <4>1
          <5>2. c = f.of
            BY <3>1, <5>1
          <5> QED
            BY <2>2, <5>1, <5>2
        <4>2. CASE ~ \E e \in pending : e.id = f.id /\ e.call = c
          BY <2>2, <3>2, <4>2
        <4> QED
          BY <4>1, <4>2
      <3> QED
        BY <3>2
    <2>3. TypeOK
      OBVIOUS
    <2> HIDE DEF IInv, TypeOK, OwnIds, OwnEntries, OwnFrames, Reachable, Unfinished, OwnBoxes
    <2> QED
      BY <1>10, <2>1, <2>2, <2>3, HandleStep
  <1>11. ASSUME UNCHANGED vars PROVE OwnBoxes'
    BY <1>11 DEF vars
  <1> HIDE DEF IInv, TypeOK, OwnIds, OwnEntries, OwnFrames, OwnBoxes
  <1> QED
    BY <1>1, <1>2, <1>3, <1>4, <1>5, <1>6, <1>7, <1>8, <1>9, <1>10, <1>11
       DEF Next, Begin, CallStep

\* An Ok stays the answer to the own request.
LEMMA OkStep == ASSUME IInv, [Next]_vars PROVE OkIsOwnAnswer'
  <1> USE DEF IInv, TypeOK, Unfinished, OwnBoxes, OkIsOwnAnswer
  <1>1. ASSUME NEW c \in Calls, NEW r \in ArgsOf[c], pc[c] = "idle", Refuse(c, r)
        PROVE OkIsOwnAnswer'
    BY <1>1 DEF Refuse
  <1>2. ASSUME NEW c \in Calls, NEW r \in ArgsOf[c], pc[c] = "idle", Register(c, r)
        PROVE OkIsOwnAnswer'
    BY <1>2 DEF Register
  <1>3. ASSUME NEW c \in Calls, Reach(c) PROVE OkIsOwnAnswer'
    BY <1>3 DEF Reach
  <1>4. ASSUME NEW c \in Calls, Sent(c) PROVE OkIsOwnAnswer'
    BY <1>4 DEF Sent
  <1>5. ASSUME NEW c \in Calls, SendFails(c) PROVE OkIsOwnAnswer'
    BY <1>5 DEF SendFails, GivesUp
  <1>6. ASSUME NEW c \in Calls, Return(c) PROVE OkIsOwnAnswer'
    BY <1>6 DEF Return
  <1>7. ASSUME NEW c \in Calls, Timeout(c) PROVE OkIsOwnAnswer'
    BY <1>7 DEF Timeout, GivesUp
  <1>8. ASSUME NEW c \in Calls, Leave(c) PROVE OkIsOwnAnswer'
    BY <1>8 DEF Leave, Unregistered
  <1>9. ASSUME NEW q \in asked, NEW body \in Bodies, NEW whole \in BOOLEAN,
               Answer(q, body, whole)
        PROVE OkIsOwnAnswer'
    BY <1>9 DEF Answer
  <1>10. ASSUME Handle PROVE OkIsOwnAnswer'
    BY <1>10, HandleStep, HandleRest
  <1>11. ASSUME UNCHANGED vars PROVE OkIsOwnAnswer'
    BY <1>11 DEF vars
  <1> HIDE DEF IInv, TypeOK, Unfinished, OwnBoxes, OkIsOwnAnswer
  <1> QED
    BY <1>1, <1>2, <1>3, <1>4, <1>5, <1>6, <1>7, <1>8, <1>9, <1>10, <1>11
       DEF Next, Begin, CallStep

\* A timeout stays without an answer.
LEMMA TimeoutStep == ASSUME IInv, [Next]_vars PROVE TimeoutIsFounded'
  <1> USE DEF IInv, TypeOK, Reachable, Unfinished, OwnBoxes, FromServer, TimeoutIsFounded
  <1>1. ASSUME NEW c \in Calls, NEW r \in ArgsOf[c], pc[c] = "idle", Refuse(c, r)
        PROVE TimeoutIsFounded'
    BY <1>1 DEF Refuse
  <1>2. ASSUME NEW c \in Calls, NEW r \in ArgsOf[c], pc[c] = "idle", Register(c, r)
        PROVE TimeoutIsFounded'
    BY <1>2 DEF Register
  <1>3. ASSUME NEW c \in Calls, Reach(c) PROVE TimeoutIsFounded'
    BY <1>3 DEF Reach
  <1>4. ASSUME NEW c \in Calls, Sent(c) PROVE TimeoutIsFounded'
    BY <1>4 DEF Sent
  <1>5. ASSUME NEW c \in Calls, SendFails(c) PROVE TimeoutIsFounded'
    BY <1>5 DEF SendFails, GivesUp
  <1>6. ASSUME NEW c \in Calls, Return(c) PROVE TimeoutIsFounded'
    BY <1>6 DEF Return
  <1>7. ASSUME NEW c \in Calls, Timeout(c) PROVE TimeoutIsFounded'
    BY <1>7 DEF Timeout, GivesUp
  <1>8. ASSUME NEW c \in Calls, Leave(c) PROVE TimeoutIsFounded'
    BY <1>8 DEF Leave, Unregistered
  <1>9. ASSUME NEW q \in asked, NEW body \in Bodies, NEW whole \in BOOLEAN,
               Answer(q, body, whole)
        PROVE TimeoutIsFounded'
    BY <1>9 DEF Answer
  <1>10. ASSUME Handle PROVE TimeoutIsFounded'
    BY <1>10, HandleStep, HandleRest
  <1>11. ASSUME UNCHANGED vars PROVE TimeoutIsFounded'
    BY <1>11 DEF vars
  <1> HIDE DEF IInv, TypeOK, Reachable, Unfinished, OwnBoxes, FromServer, TimeoutIsFounded
  <1> QED
    BY <1>1, <1>2, <1>3, <1>4, <1>5, <1>6, <1>7, <1>8, <1>9, <1>10, <1>11
       DEF Next, Begin, CallStep

\* A call takes its arguments from what it may ask, past the checks.
LEMMA AcceptedStep == ASSUME IInv, [Next]_vars PROVE Accepted'
  <1>1. ASSUME NEW c \in Calls, NEW r \in ArgsOf[c], Register(c, r) PROVE Accepted'
    <2>1. Accepts(r) /\ \A d \in Calls : args'[d] = IF d = c THEN {r} ELSE args[d]
      BY <1>1 DEF Register, IInv, TypeOK
    <2> QED
      BY <2>1 DEF Accepted, IInv
  <1>2. (\E c \in Calls : \E r \in ArgsOf[c] : Register(c, r)) \/ UNCHANGED args
    BY DEF Next, Begin, CallStep, Refuse, Reach, Sent, SendFails, Return, Timeout, Leave,
           Answer, Handle, vars
  <1> QED
    BY <1>1, <1>2 DEF Accepted, IInv

\* The invariant holds in every reachable state.
THEOREM Invariance == Spec => []IInv
  <1>1. IInv /\ [Next]_vars => IInv'
    <2> SUFFICES ASSUME IInv, [Next]_vars PROVE IInv'
      OBVIOUS
    <2>1. TypeOK' /\ OwnIds' /\ OwnEntries' /\ OwnFrames'
      BY TypeStep, IdsStep, EntriesStep, FramesStep
    <2>2. Reachable' /\ Unfinished' /\ OwnBoxes' /\ OkIsOwnAnswer' /\ TimeoutIsFounded'
      BY ReachableStep, UnfinishedStep, BoxesStep, OkStep, TimeoutStep
    <2>3. Accepted'
      BY AcceptedStep
    <2> QED
      BY <2>1, <2>2, <2>3 DEF IInv
  <1> QED
    BY Start, <1>1, PTL DEF Spec

\* For any number of calls and answers, late and repeated ones among them, a method that
\* returns Ok returns the answer to its own request, of the kind it asked for.
THEOREM AnswersMatch == Spec => []OkIsOwnAnswer
  <1>1. IInv => OkIsOwnAnswer
    BY DEF IInv
  <1> QED
    BY Invariance, <1>1, PTL

\* What a step adds to the requests that reached the server passed the checks.
LEMMA SentStep == ASSUME IInv, SentIsSound, [Next]_vars PROVE SentIsSound'
  <1>1. ASSUME NEW c \in Calls, Reach(c) PROVE SentIsSound'
    <2>1. ASSUME NEW r \in args[c] PROVE Sound(Normal(r))
      <3>1. r \in Requests /\ Accepts(r)
        BY <2>1, ArgsAssumption DEF IInv, Accepted
      <3> QED
        BY <3>1, NormalIsSound
    <2>2. ASSUME NEW q \in asked', q \notin asked PROVE Sound(q.args)
      <3>1. PICK r \in args[c] : q = [id |-> id[c], of |-> c, args |-> Normal(r)]
        BY <1>1, <2>2 DEF Reach
      <3>2. q.args = Normal(r)
        BY <3>1
      <3> QED
        BY <2>1, <3>2
    <2> QED
      BY <2>2 DEF SentIsSound
  <1>2. (\E c \in Calls : Reach(c)) \/ UNCHANGED asked
    BY DEF Next, Begin, CallStep, Refuse, Register, Sent, SendFails, Return, Timeout, Leave,
           Answer, Handle, vars
  <1> QED
    BY <1>1, <1>2 DEF SentIsSound

\* Whatever the calls ask for, what reached the server is whole: users and sessions in
\* full, no login for a channel, a visibility that is a boolean
\* (src/src/validation.rs:7-221, src/src/client.rs:645-1566).
THEOREM RequestsSound == Spec => []SentIsSound
  <1>1. Init => SentIsSound
    BY DEF Init, SentIsSound
  <1>2. IInv /\ SentIsSound /\ [Next]_vars => SentIsSound'
    BY SentStep
  <1> QED
    BY Invariance, <1>1, <1>2, PTL DEF Spec

\* A method reports a timeout only when no answer to it was decoded while it waited.
THEOREM TimeoutsAreFounded == Spec => []TimeoutIsFounded
  <1>1. IInv => TimeoutIsFounded
    BY DEF IInv
  <1> QED
    BY Invariance, <1>1, PTL

\* Every entry of `pending` is that of a call that has not returned, under its own number:
\* no call leaves one behind.
THEOREM EntriesHaveOwners == Spec => []OwnEntries
  <1>1. IInv => OwnEntries
    BY DEF IInv
  <1> QED
    BY Invariance, <1>1, PTL

\* A step that changes the position of one call or hears for it only changes its phase only.
LEMMA PhaseMoves ==
  ASSUME NEW c \in Calls, NEW from, NEW to,
         Phase(c) = from, Phase(c)' = to,
         \A d \in Calls \ {c} : pc'[d] = pc[d] /\ (d \in heard' <=> d \in heard)
  PROVE  Rpc!Becomes(c, from, to)
  <1>1. \A d \in Calls \ {c} : Phase(d)' = Phase(d)
    BY DEF Phase
  <1>2. [d \in Calls |-> Phase(d)]' = [[d \in Calls |-> Phase(d)] EXCEPT ![c] = to]
    BY <1>1
  <1> QED
    BY <1>2 DEF Rpc!Becomes

\* A call that is given one result returns its kind.
LEMMA ReturnsKind ==
  ASSUME TypeOK, NEW c \in Calls, NEW o, result' = [result EXCEPT ![c] = {o}]
  PROVE  Rpc!Returns(c, o.is)
  <1>1. \A d \in Calls : result'[d] = IF d = c THEN {o} ELSE result[d]
    BY DEF TypeOK
  <1>2. {p.is : p \in result'[c]} = {o.is}
    BY <1>1
  <1>3. \A d \in Calls \ {c} : {p.is : p \in result'[d]} = {p.is : p \in result[d]}
    BY <1>1
  <1> QED
    BY <1>2, <1>3 DEF Rpc!Returns

LEMMA ReturnsError ==
  ASSUME TypeOK, NEW c \in Calls, NEW e, result' = [result EXCEPT ![c] = {[is |-> e]}]
  PROVE  Rpc!Returns(c, e)
  <1> DEFINE o == [is |-> e]
  <1>1. o.is = e /\ result' = [result EXCEPT ![c] = {o}]
    OBVIOUS
  <1> HIDE DEF o
  <1> QED
    BY <1>1, ReturnsKind

\* Every step of the methods and of the read loop is a step of RpcCalls or changes nothing
\* that RpcCalls sees.
LEMMA CallsStep == ASSUME IInv, IInv', Next PROVE Rpc!Next \/ UNCHANGED Rpc!vars
  <1> DEFINE Goal == Rpc!Next \/ UNCHANGED Rpc!vars
  <1> USE DEF TypeOK
  <1>0. TypeOK /\ TypeOK' /\ Unfinished /\ OwnBoxes /\ Reachable
    BY DEF IInv
  <1>a. UNCHANGED <<pc, heard, result>> => Goal
    BY DEF Rpc!vars, Phase
  <1>1. ASSUME NEW c \in Calls, NEW r \in ArgsOf[c], pc[c] = "idle", Refuse(c, r) PROVE Goal
    <2>1. Phase(c) = "new" /\ Phase(c)' = "ended"
      BY <1>0, <1>1 DEF Refuse, Phase
    <2>2. Rpc!Becomes(c, "new", "ended")
      BY <1>0, <1>1, <2>1, PhaseMoves DEF Refuse
    <2>3. Rpc!Returns(c, "invalid")
      <3>1. result' = [result EXCEPT ![c] = {[is |-> "invalid"]}]
        BY <1>1 DEF Refuse
      <3> QED
        BY <1>0, <3>1, ReturnsError
    <2> QED
      BY <2>2, <2>3 DEF Rpc!Next, Rpc!Refuse
  <1>2. ASSUME NEW c \in Calls, NEW r \in ArgsOf[c], pc[c] = "idle", Register(c, r) PROVE Goal
    <2>1. Phase(c) = "new" /\ Phase(c)' = "open"
      BY <1>0, <1>2 DEF Register, Phase, Unfinished
    <2>2. Rpc!Becomes(c, "new", "open")
      BY <1>0, <1>2, <2>1, PhaseMoves DEF Register
    <2> QED
      BY <1>2, <2>2 DEF Register, Rpc!Next, Rpc!Begin
  <1>3. ASSUME NEW c \in Calls, Reach(c) PROVE Goal
    BY <1>a, <1>3 DEF Reach
  <1>4. ASSUME NEW c \in Calls, Sent(c) PROVE Goal
    <2>1. \A d \in Calls : Phase(d)' = Phase(d)
      BY <1>0, <1>4 DEF Sent, Phase
    <2> QED
      BY <1>4, <2>1 DEF Sent, Rpc!vars
  <1>5. ASSUME NEW c \in Calls, SendFails(c) PROVE Goal
    <2>1. Phase(c) \in {"open", "answered"} /\ Phase(c)' = "ended"
      BY <1>0, <1>5 DEF SendFails, GivesUp, Phase
    <2>2. Rpc!Becomes(c, Phase(c), "ended")
      BY <1>0, <1>5, <2>1, PhaseMoves DEF SendFails, GivesUp
    <2>3. Rpc!Returns(c, "connection")
      <3>1. result' = [result EXCEPT ![c] = {[is |-> "connection"]}]
        BY <1>5 DEF SendFails, GivesUp
      <3> QED
        BY <1>0, <3>1, ReturnsError
    <2>4. "connection" \in Rpc!OfClient
      BY DEF Rpc!OfClient
    <2> QED
      BY <2>1, <2>2, <2>3, <2>4 DEF Rpc!Next, Rpc!GiveUp, Rpc!Deliver
  <1>6. ASSUME NEW c \in Calls, Return(c) PROVE Goal
    <2>1. PICK o \in box[c], r \in args[c] :
            result' = [result EXCEPT ![c] =
              {IF o.is = "ok" /\ o.value # Takes(r.method) THEN [is |-> "protocol"] ELSE o}]
      BY <1>6 DEF Return
    <2>2. Phase(c) = "answered" /\ Phase(c)' = "ended"
      BY <1>0, <1>6, <2>1 DEF Return, Phase, Reachable
    <2>3. Rpc!Becomes(c, "answered", "ended")
      BY <1>0, <1>6, <2>2, PhaseMoves DEF Return
    <2>4. o.is \in Rpc!OfServer /\ "protocol" \in Rpc!OfServer
      BY <1>0 DEF OwnBoxes, FromServer, Rpc!OfServer
    <2>5. Rpc!Returns(c, o.is) \/ Rpc!Returns(c, "protocol")
      <3>1. CASE result' = [result EXCEPT ![c] = {o}]
        BY <1>0, <3>1, ReturnsKind
      <3>2. CASE result' = [result EXCEPT ![c] = {[is |-> "protocol"]}]
        BY <1>0, <3>2, ReturnsError
      <3> QED
        BY <2>1, <3>1, <3>2
    <2> QED
      BY <2>3, <2>4, <2>5 DEF Rpc!Next, Rpc!Deliver
  <1>7. ASSUME NEW c \in Calls, Timeout(c) PROVE Goal
    <2>1. Phase(c) = "open" /\ Phase(c)' = "ended"
      BY <1>0, <1>7 DEF Timeout, GivesUp, Phase, Reachable
    <2>2. Rpc!Becomes(c, "open", "ended")
      BY <1>0, <1>7, <2>1, PhaseMoves DEF Timeout, GivesUp
    <2>3. Rpc!Returns(c, "timeout")
      <3>1. result' = [result EXCEPT ![c] = {[is |-> "timeout"]}]
        BY <1>7 DEF Timeout, GivesUp
      <3> QED
        BY <1>0, <3>1, ReturnsError
    <2>4. "timeout" \in Rpc!OfClient
      BY DEF Rpc!OfClient
    <2> QED
      BY <2>2, <2>3, <2>4 DEF Rpc!Next, Rpc!GiveUp
  <1>8. ASSUME NEW c \in Calls, Leave(c) PROVE Goal
    <2>1. \A d \in Calls : Phase(d)' = Phase(d)
      BY <1>0, <1>8 DEF Leave, Unregistered, Phase
    <2> QED
      BY <1>8, <2>1 DEF Leave, Rpc!vars
  <1>9. ASSUME NEW q \in asked, NEW body \in Bodies, NEW whole \in BOOLEAN,
               Answer(q, body, whole)
        PROVE Goal
    BY <1>a, <1>9 DEF Answer
  <1>10. ASSUME Handle PROVE Goal
    <2>1. CASE UNCHANGED <<pending, box, heard>>
      BY <1>a, <1>10, <2>1, HandleRest, <1>0
    <2>2. ASSUME NEW f \in Frames,
                 heard' = heard \cup {c \in Calls : c = f.of /\ pc[c] \in {"send", "wait"}}
          PROVE  Goal
      <3> DEFINE c == f.of
      <3>1. c \in Calls /\ UNCHANGED <<pc, result>>
        BY <1>0, <1>10, HandleRest DEF Frames
      <3>2. \A d \in Calls \ {c} : d \in heard' <=> d \in heard
        BY <2>2
      <3>3. CASE pc[c] \in {"send", "wait"} /\ c \notin heard
        <4>1. Phase(c) = "open" /\ Phase(c)' = "answered"
          BY <2>2, <3>1, <3>3 DEF Phase
        <4>2. Rpc!Becomes(c, "open", "answered")
          BY <3>1, <3>2, <4>1, PhaseMoves
        <4> QED
          BY <3>1, <4>2 DEF Rpc!Next, Rpc!Hear
      <3>4. CASE ~ (pc[c] \in {"send", "wait"} /\ c \notin heard)
        <4>1. heard' = heard
          BY <1>0, <2>2, <3>1, <3>4
        <4> QED
          BY <1>a, <3>1, <4>1
      <3> QED
        BY <3>3, <3>4
    <2> QED
      BY <1>0, <1>10, <2>1, <2>2, HandleStep
  <1> QED
    BY <1>1, <1>2, <1>3, <1>4, <1>5, <1>6, <1>7, <1>8, <1>9, <1>10
       DEF Next, Begin, CallStep

\* The methods implement RpcCalls, for any number of calls, of answers and of arguments:
\* each call ends once, by what the client met before an answer or by the answer
\* (src/src/client.rs:2027-2057).
THEOREM CallsImplemented == Spec => ImplementsCalls
  <1>1. Init => Rpc!Init
    BY DEF Init, Rpc!Init, Phase
  <1>2. IInv /\ IInv' /\ [Next]_vars => [Rpc!Next]_Rpc!vars
    <2>1. UNCHANGED vars => UNCHANGED Rpc!vars
      BY DEF vars, Rpc!vars, Phase
    <2> QED
      BY <2>1, CallsStep
  <1> QED
    BY Invariance, <1>1, <1>2, PTL DEF Spec, ImplementsCalls, Rpc!Spec
=============================================================================
