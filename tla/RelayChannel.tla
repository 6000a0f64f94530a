---------------------------- MODULE RelayChannel ----------------------------
(***************************************************************************)
(* What a relay connection promises in one direction: the receiver is given *)
(* nothing that was not sent, and on an ordered connection a prefix of what *)
(* was sent, in order and once.  RelayTransfer implements it in each mode.  *)
(***************************************************************************)
EXTENDS Naturals, Sequences

CONSTANT Data

VARIABLES
  ordered,  \* whether the connection keeps the order
  sent,     \* what send() accepted
  got       \* what the subscribers of the other end were given, each once

vars == <<ordered, sent, got>>

Init == ordered \in BOOLEAN /\ sent = <<>> /\ got = <<>>

Send == /\ \E d \in Data : sent' = Append(sent, d)
        /\ UNCHANGED <<ordered, got>>

\* One frame may complete a run of frames that had come before it.
DeliverRun == /\ ordered
              /\ \E n \in Len(got) + 1 .. Len(sent) : got' = SubSeq(sent, 1, n)
              /\ UNCHANGED <<ordered, sent>>

DeliverAny == /\ ~ordered
              /\ \E i \in DOMAIN sent : /\ \A j \in DOMAIN got : got[j] # sent[i]
                                        /\ got' = Append(got, sent[i])
              /\ UNCHANGED <<ordered, sent>>

Next == Send \/ DeliverRun \/ DeliverAny

Spec == Init /\ [][Next]_vars
=============================================================================
