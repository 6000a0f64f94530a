---------------------------- MODULE RelayTransfer ----------------------------
(***************************************************************************)
(* One direction of an open relay connection (src/src/relay.rs): send() and *)
(* the send loop with its window, its retransmissions and its closing, and  *)
(* the receiver's handle_data(), over a network that loses, delays and      *)
(* reorders packets.  Both ends run this code with the same configuration.  *)
(* An end made by accept_incoming() is not such an end: it takes the        *)
(* default configuration, and its remote_peer is not a valid user, so none  *)
(* of its frames leaves the client.  The receiver here stands for an end    *)
(* made by connect(), or for a peer of another make.                        *)
(***************************************************************************)
EXTENDS Naturals, Sequences, FiniteSets

CONSTANTS
  Data,            \* payloads, each sent at most once
  Modes,           \* RelayConfig.reliability: the values considered
  Window,          \* RelayConfig.window_size
  MaxRetransmits   \* RelayConfig.max_retransmits

Reliabilities == {"BestEffort", "AtLeastOnce", "ReliableOrdered"}

ASSUME ModesAssumption == Modes \subseteq Reliabilities
ASSUME WindowAssumption == Window \in Nat \ {0}
ASSUME RetransmitsAssumption == MaxRetransmits \in Nat

VARIABLES
  mode,        \* RelayConfig.reliability of this connection
  \* RelayConnectionInner of the sender; why it was closed (a history)
  state, reason, sendBase, nextSeq, retransCnt, unacked,
  \* the payloads of send() calls past their checks; send_ch: what was put into it,
  \* in order, and how much the loop took out
  sending, accepted, taken,
  \* the send loop: its position, the frame to transmit, the sequence numbers
  \* still to retransmit, where to go then, a wakeup of close_notify
  loopPc, frame, resend, back, woken,
  \* packets under way: DATA, ACK, and whether a CLOSE was sent
  net, acks, closeSent,
  \* the receiver; frames that it acknowledges before it delivers them
  peerOpen, expectedSeq, recvBuf, handling, delivered

config == <<mode>>
connVars == <<state, reason>>
sendVars == <<sendBase, nextSeq, retransCnt, unacked>>
queueVars == <<sending, accepted, taken>>
loopVars == <<loopPc, frame, resend, back, woken>>
netVars == <<net, acks, closeSent>>
peerVars == <<peerOpen, expectedSeq, recvBuf, handling, delivered>>
vars == <<config, connVars, sendVars, queueVars, loopVars, netVars, peerVars>>

Elements(s) == {s[i] : i \in DOMAIN s}
SeqsOf(frames) == {f.seq : f \in frames}

\* A BestEffort frame has the sequence number 0.
Frames == [seq : Nat, data : Data]
NoFrame == [seq |-> 0, data |-> "none"]
LoopPcs == {"top", "check", "full", "select", "transmit", "resend", "done"}
Reasons == {"none", "local", "remote", "send", "retransmits"}

SenderType ==
  /\ mode \in Modes
  /\ state \in {"open", "closing", "closed"} /\ reason \in Reasons
  /\ sendBase \in Nat /\ nextSeq \in Nat /\ retransCnt \in 0..MaxRetransmits + 1
  /\ unacked \subseteq Frames
  /\ sending \subseteq Data /\ accepted \in Seq(Data) /\ taken \in 0..Len(accepted)

LoopType ==
  /\ loopPc \in LoopPcs /\ frame \in Frames \cup {NoFrame}
  /\ loopPc = "transmit" => frame \in Frames
  /\ resend \subseteq Nat /\ back \in {"top", "check"} /\ woken \in BOOLEAN

NetType == net \subseteq Frames /\ acks \subseteq Nat /\ closeSent \in BOOLEAN

PeerType ==
  /\ peerOpen \in BOOLEAN /\ expectedSeq \in Nat /\ recvBuf \subseteq Frames
  /\ handling \subseteq Frames /\ delivered \in Seq(Data)

\* The type invariant.
TypeOK == SenderType /\ LoopType /\ NetType /\ PeerType

\* An open connection, as connect() leaves it; the ticks before the OPEN_ACK are
\* like those of an idle connection.
Init ==
  /\ mode \in Modes
  /\ state = "open" /\ reason = "none"
  /\ sendBase = 1 /\ nextSeq = 1 /\ retransCnt = 0 /\ unacked = {}
  /\ sending = {} /\ accepted = <<>> /\ taken = 0
  /\ loopPc = "top" /\ frame = NoFrame /\ resend = {} /\ back = "top" /\ woken = FALSE
  /\ net = {} /\ acks = {} /\ closeSent = FALSE
  /\ peerOpen = TRUE /\ expectedSeq = 1 /\ recvBuf = {} /\ handling = {}
  /\ delivered = <<>>

-----------------------------------------------------------------------------
(* send() and closing.                                                     *)

\* The checks of send().
Send(d) ==
  /\ state = "open" /\ d \notin sending \cup Elements(accepted)
  /\ sending' = sending \cup {d}
  /\ UNCHANGED <<config, connVars, sendVars, accepted, taken, loopVars, netVars,
                 peerVars>>

\* send_ch.send(), which the state no longer bars but the end of the loop does.
Enqueue(d) ==
  /\ d \in sending /\ sending' = sending \ {d}
  /\ loopPc # "done" /\ accepted' = Append(accepted, d)
  /\ UNCHANGED <<config, connVars, sendVars, taken, loopVars, netVars, peerVars>>

\* The wait for room ends with a timeout, the closing or the caller.
SendGivesUp(d) ==
  /\ d \in sending /\ sending' = sending \ {d}
  /\ UNCHANGED <<config, connVars, sendVars, accepted, taken, loopVars, netVars,
                 peerVars>>

\* handle_close(): only the first one counts, and its notification reaches the
\* send loop only where it waits.
HandleClose(why) ==
  IF state = "closed"
    THEN UNCHANGED <<connVars, woken>>
    ELSE /\ state' = "closed" /\ reason' = why
         /\ woken' = (loopPc \in {"full", "select"})

\* close() of the application: the state, then the CLOSE frame, which may fail.
Close ==
  /\ state = "open" /\ state' = "closing"
  /\ UNCHANGED <<config, reason, sendVars, queueVars, loopVars, netVars, peerVars>>

FinishClose ==
  /\ state = "closing"
  /\ closeSent' \in BOOLEAN
  /\ HandleClose("local")
  /\ UNCHANGED <<config, sendVars, queueVars, loopPc, frame, resend, back, net, acks,
                 peerVars>>

\* abort(), or a CLOSE or ERROR frame of the peer.
RemoteClose ==
  /\ state # "closed"
  /\ HandleClose("remote")
  /\ UNCHANGED <<config, sendVars, queueVars, loopPc, frame, resend, back, netVars,
                 peerVars>>

-----------------------------------------------------------------------------
(* The send loop.                                                          *)

Goto(from, to) == loopPc = from /\ loopPc' = to

\* Fault: the loop relies on close_notify alone.
LoopTopUnchecked ==
  /\ Goto("top", "check")
  /\ UNCHANGED <<config, connVars, sendVars, queueVars, frame, resend, back, woken,
                 netVars, peerVars>>

\* The only place where the loop reads closed while it has nothing to send.
LoopTop ==
  /\ Goto("top", IF state = "closed" THEN "done" ELSE "check")
  /\ UNCHANGED <<config, connVars, sendVars, queueVars, frame, resend, back, woken,
                 netVars, peerVars>>

WindowIsOpen == nextSeq - sendBase < Window

\* The wait is entered in a step of its own: a close_notify sent before it is
\* missed.  Only the loop changes next_seq, so that the two reads are worth one at
\* the time of that of send_base.  BestEffort has no window; nothing is numbered
\* there.
CheckWindow ==
  /\ Goto("check", IF WindowIsOpen THEN "select" ELSE "full")
  /\ UNCHANGED <<config, connVars, sendVars, queueVars, frame, resend, back, woken,
                 netVars, peerVars>>

\* close_notify.notified()
CloseWakes ==
  /\ loopPc \in {"full", "select"} /\ woken
  /\ loopPc' = "done" /\ woken' = FALSE
  /\ UNCHANGED <<config, connVars, sendVars, queueVars, frame, resend, back, netVars,
                 peerVars>>

\* A payload is numbered, kept for retransmission and then transmitted; the
\* closed flag is read once more before.  BestEffort does none of this.
TakeData ==
  /\ taken < Len(accepted) /\ taken' = taken + 1
  /\ woken' = FALSE
  /\ \/ /\ mode = "BestEffort"
        /\ Goto("select", "transmit")
        /\ frame' = [seq |-> 0, data |-> accepted[taken + 1]]
        /\ UNCHANGED <<nextSeq, unacked>>
     \/ /\ mode # "BestEffort" /\ state = "closed"
        /\ Goto("select", "done")
        /\ UNCHANGED <<frame, nextSeq, unacked>>
     \/ /\ mode # "BestEffort" /\ state # "closed"
        /\ Goto("select", "transmit")
        /\ frame' = [seq |-> nextSeq, data |-> accepted[taken + 1]]
        /\ nextSeq' = nextSeq + 1
        /\ unacked' = unacked \cup {frame'}
  /\ UNCHANGED <<config, connVars, sendBase, retransCnt, sending, accepted, resend, back,
                 netVars, peerVars>>

\* send_relay_envelope(): a failure, after which the packet may be under way all
\* the same, closes the connection.
Transmit ==
  /\ \/ /\ Goto("transmit", "top")
        /\ net' = net \cup {frame}
        /\ UNCHANGED <<connVars, woken>>
     \/ /\ Goto("transmit", "done")
        /\ net' \in {net, net \cup {frame}}
        /\ HandleClose("send")
  /\ UNCHANGED <<config, sendVars, queueVars, frame, resend, back, acks, closeSent,
                 peerVars>>

\* Fault: a tick does not count as a retransmission.
TickUncounted ==
  /\ loopPc \in {"full", "select"} /\ mode # "BestEffort"
  /\ back' = IF loopPc = "full" THEN "check" ELSE "top"
  /\ resend' = SeqsOf(unacked) /\ loopPc' = "resend"
  /\ woken' = FALSE
  /\ UNCHANGED <<config, connVars, retransCnt, sendBase, nextSeq, unacked, queueVars,
                 frame, netVars, peerVars>>

\* retransmit() on a tick of ack_interval: every tick counts.  The count is not
\* followed beyond the one that closes the connection.
Tick ==
  /\ loopPc \in {"full", "select"} /\ mode # "BestEffort"
  /\ back' = IF loopPc = "full" THEN "check" ELSE "top"
  /\ IF retransCnt >= MaxRetransmits
       THEN /\ retransCnt' = MaxRetransmits + 1
            /\ IF state = "closed"
                 THEN UNCHANGED connVars
                 ELSE state' = "closed" /\ reason' = "retransmits"
            /\ loopPc' = back' /\ UNCHANGED resend
       ELSE /\ retransCnt' = retransCnt + 1
            /\ resend' = SeqsOf(unacked) /\ loopPc' = "resend"
            /\ UNCHANGED connVars
  /\ woken' = FALSE
  /\ UNCHANGED <<config, sendBase, nextSeq, unacked, queueVars, frame, netVars, peerVars>>

\* A frame still unacknowledged is transmitted again; a failure is ignored.
Resend(s) ==
  /\ loopPc = "resend" /\ s \in resend
  /\ resend' = resend \ {s}
  /\ net' \in {net, net \cup {f \in unacked : f.seq = s}}
  /\ UNCHANGED <<config, connVars, sendVars, queueVars, loopPc, frame, back, woken, acks,
                 closeSent, peerVars>>

ResendDone ==
  /\ Goto("resend", back) /\ resend = {}
  /\ UNCHANGED <<config, connVars, sendVars, queueVars, frame, resend, back, woken,
                 netVars, peerVars>>

-----------------------------------------------------------------------------
(* The packets.                                                            *)

\* handle_ack(): an acknowledgement stands for every frame up to it.  A closed
\* connection may no longer be found.
HandleAck(a) ==
  /\ a \in acks /\ acks' = acks \ {a}
  /\ \/ /\ a >= sendBase
        /\ unacked' = {f \in unacked : f.seq > a}
        /\ sendBase' = a + 1
        /\ retransCnt' = 0
     \/ /\ a < sendBase \/ state = "closed"
        /\ UNCHANGED <<unacked, sendBase, retransCnt>>
  /\ UNCHANGED <<config, connVars, nextSeq, queueVars, loopVars, net, closeSent, peerVars>>

\* An ACK is sent for the frame that came, whatever became of it.  Its RPC is waited
\* for, but not minded: it may fail.
Acknowledge(f) == acks' \in {acks, acks \cup {f.seq}}

DataOf(frames, s) == (CHOOSE f \in frames : f.seq = s).data

\* Fault: the buffer is not looked at.
DeliverOne(f) ==
  /\ expectedSeq' = f.seq + 1
  /\ delivered' = Append(delivered, f.data)
  /\ UNCHANGED recvBuf

\* The frame expected, and the run of buffered ones that follows it.
DeliverRun(f) ==
  \E last \in {f.seq} \cup SeqsOf(recvBuf) :
    /\ \A s \in f.seq + 1 .. last : s \in SeqsOf(recvBuf)
    /\ last + 1 \notin SeqsOf(recvBuf)
    /\ expectedSeq' = last + 1
    /\ recvBuf' = {g \in recvBuf : g.seq > last}
    /\ delivered' = delivered \o
         [i \in 1 .. last - f.seq + 1 |-> DataOf(recvBuf \cup {f}, f.seq + i - 1)]

\* Fault: a frame ahead is delivered as well as buffered.
BufferDelivers(f) ==
  /\ recvBuf' = {g \in recvBuf : g.seq # f.seq} \cup {f}
  /\ delivered' = Append(delivered, f.data)
  /\ UNCHANGED expectedSeq

\* A frame ahead of the one expected, within the window.
Buffer(f) ==
  /\ recvBuf' = {g \in recvBuf : g.seq # f.seq} \cup {f}
  /\ UNCHANGED <<expectedSeq, delivered>>

Receive(f) == f \in net /\ net' = net \ {f}

\* The frames are delivered before the ACK, and the next frame waits for its RPC.
HandleOrdered(f) ==
  /\ mode = "ReliableOrdered" /\ peerOpen /\ Receive(f)
  /\ \/ f.seq = expectedSeq /\ DeliverRun(f)
     \/ /\ f.seq > expectedSeq /\ f.seq - expectedSeq < Window
        /\ Buffer(f)
     \/ /\ f.seq < expectedSeq \/ f.seq - expectedSeq >= Window
        /\ UNCHANGED <<expectedSeq, recvBuf, delivered>>
  /\ Acknowledge(f)
  /\ UNCHANGED <<config, connVars, sendVars, queueVars, loopVars, closeSent, peerOpen,
                 handling>>

\* Without an order every frame is delivered as it comes; a repeated delivery is
\* not recorded.
DeliverOnce(f) ==
  delivered' = IF f.data \in Elements(delivered) THEN delivered
               ELSE Append(delivered, f.data)

HandleDirect(f) ==
  /\ mode = "BestEffort" /\ peerOpen /\ Receive(f)
  /\ DeliverOnce(f)
  /\ UNCHANGED <<config, connVars, sendVars, queueVars, loopVars, acks, closeSent, peerOpen,
                 expectedSeq, recvBuf, handling>>

\* AtLeastOnce sends the ACK and waits for its RPC, which may take long; the frames
\* that come meanwhile are handled beside it.
AcknowledgeFirst(f) ==
  /\ mode = "AtLeastOnce" /\ peerOpen /\ Receive(f)
  /\ Acknowledge(f)
  /\ handling' = handling \cup {f}
  /\ UNCHANGED <<config, connVars, sendVars, queueVars, loopVars, closeSent, peerOpen,
                 expectedSeq, recvBuf, delivered>>

\* Fault: a handler whose connection was closed meanwhile drops its frame.
DeliverHandledOpen(f) ==
  /\ f \in handling /\ handling' = handling \ {f}
  /\ IF peerOpen THEN DeliverOnce(f) ELSE UNCHANGED delivered
  /\ UNCHANGED <<config, connVars, sendVars, queueVars, loopVars, netVars, peerOpen,
                 expectedSeq, recvBuf>>

\* Then it delivers, whatever became of the ACK and of the connection.
DeliverHandled(f) ==
  /\ f \in handling /\ handling' = handling \ {f}
  /\ DeliverOnce(f)
  /\ UNCHANGED <<config, connVars, sendVars, queueVars, loopVars, netVars, peerOpen,
                 expectedSeq, recvBuf>>

\* The CLOSE may overtake frames; they are dropped then.
ReceiveClose ==
  /\ closeSent /\ peerOpen /\ peerOpen' = FALSE
  /\ UNCHANGED <<config, connVars, sendVars, queueVars, loopVars, netVars, expectedSeq,
                 recvBuf, handling, delivered>>

Lose ==
  /\ \/ \E f \in net : net' = net \ {f} /\ UNCHANGED acks
     \/ \E a \in acks : acks' = acks \ {a} /\ UNCHANGED net
  /\ UNCHANGED <<config, connVars, sendVars, queueVars, loopVars, closeSent, peerVars>>

-----------------------------------------------------------------------------
(* The next-state relation.                                                *)

SendLoop == \/ LoopTop \/ CheckWindow \/ CloseWakes \/ TakeData \/ Transmit \/ Tick
            \/ \E s \in resend : Resend(s)
            \/ ResendDone
Next == \/ \E d \in Data : Send(d)
        \/ \E d \in sending : Enqueue(d) \/ SendGivesUp(d)
        \/ Close \/ FinishClose \/ RemoteClose \/ SendLoop
        \/ \E a \in acks : HandleAck(a)
        \/ \E f \in net : HandleOrdered(f) \/ HandleDirect(f) \/ AcknowledgeFirst(f)
        \/ \E f \in handling : DeliverHandled(f)
        \/ ReceiveClose \/ Lose

Spec == Init /\ [][Next]_vars

\* The send loop is a task of its own, and its interval ticks; a write ends, well or
\* badly.  The receiver's handlers are tasks too, and the RPC of an ACK ends with its
\* timeout.  Nothing is asked of the network or the application.
Fairness == WF_vars(SendLoop) /\ WF_vars(\E f \in handling : DeliverHandled(f))
FairSpec == Spec /\ Fairness

-----------------------------------------------------------------------------
(* Safety.                                                                 *)

\* A reliable sender keeps for retransmission exactly the frames numbered since
\* the last acknowledgement, each once.
UnackedAreKept ==
  /\ SeqsOf(unacked) = sendBase .. nextSeq - 1
  /\ \A f, g \in unacked : f.seq = g.seq => f = g

\* The receiver buffers only frames that the window allows, none that it has
\* delivered, and none that it could deliver.
BufferIsAhead ==
  \A f \in recvBuf : f.seq > expectedSeq /\ f.seq - expectedSeq < Window

\* A connection implements RelayChannel, an ordered one if it is ReliableOrdered.
Channel == INSTANCE RelayChannel
  WITH ordered <- mode = "ReliableOrdered", sent <- accepted, got <- delivered
ImplementsChannel == Channel!Spec

-----------------------------------------------------------------------------
(* The inductive invariant behind the safety properties.                   *)

\* The loop numbers payloads in the order in which it takes them out.
Numbered ==
  /\ nextSeq <= taken + 1
  /\ mode # "BestEffort" /\ loopPc # "done" => nextSeq = taken + 1

\* Without reliability nothing is numbered, kept or acknowledged, and without an
\* order nothing is buffered.
ModeParts ==
  /\ mode = "BestEffort" => nextSeq = 1 /\ acks = {}
  /\ mode # "ReliableOrdered" => expectedSeq = 1 /\ recvBuf = {}
  /\ mode # "AtLeastOnce" => handling = {}

\* Every copy of a numbered frame carries the payload of its number, and only
\* numbers given are acknowledged.
Genuine(f) == f.seq \in 1 .. nextSeq - 1 /\ f.data = accepted[f.seq]
FramesGenuine ==
  mode # "BestEffort" =>
    /\ \A f \in unacked \cup net \cup recvBuf \cup handling : Genuine(f)
    /\ loopPc = "transmit" => Genuine(frame)
AcksGiven == \A a \in acks : a \in 1 .. nextSeq - 1

\* The loop takes a payload only past the check of the window.
WindowKept ==
  /\ sendBase \in 1 .. nextSeq /\ nextSeq - sendBase <= Window
  /\ loopPc = "select" /\ mode # "BestEffort" => nextSeq - sendBase < Window

\* What was delivered are the payloads numbered before the one expected.
DeliveredInOrder ==
  mode = "ReliableOrdered" =>
    /\ expectedSeq \in 1 .. nextSeq
    /\ delivered = SubSeq(accepted, 1, expectedSeq - 1)

\* A BestEffort frame carries a payload that was accepted.
OnlyAccepted ==
  mode = "BestEffort" =>
    /\ \A f \in net : f.data \in Elements(accepted)
    /\ loopPc = "transmit" => frame.data \in Elements(accepted)

\* An AtLeastOnce receiver has delivered what it acknowledges, or its handler is
\* about to.
AcksAreHandled ==
  mode = "AtLeastOnce" =>
    \A a \in acks : \/ accepted[a] \in Elements(delivered)
                    \/ \E f \in handling : f.data = accepted[a]

\* The invariant the proofs use: each part holds in every reachable state.
IInv == TypeOK /\ Numbered /\ ModeParts /\ FramesGenuine /\ AcksGiven /\ WindowKept
        /\ UnackedAreKept /\ BufferIsAhead /\ DeliveredInOrder /\ OnlyAccepted
        /\ AcksAreHandled

-----------------------------------------------------------------------------
(* Liveness.                                                               *)

\* A reliable connection leaves nothing accepted in the dark: it is acknowledged or
\* the connection is closed, whatever the network loses and however often the window
\* is full.
Settled ==
  \A i \in 1 .. Cardinality(Data) :
    mode # "BestEffort" /\ Len(accepted) >= i ~> sendBase > i \/ state = "closed"

\* An AtLeastOnce frame is acknowledged before it is delivered; once its ACK is under
\* way it is delivered, although the connection may close at either end meanwhile.
AckedIsDelivered ==
  \A i \in 1 .. Cardinality(Data) :
    mode = "AtLeastOnce" /\ i \in acks ~>
      i \in DOMAIN accepted /\ accepted[i] \in Elements(delivered)

\* The loop of a closed connection ends although it may miss close_notify, because a
\* tick takes it back to its check.  Without ticks (BestEffort), and with a window
\* that no acknowledgement opens any more, it may wait for ever.
LoopEnds ==
  mode # "BestEffort" /\ state = "closed" /\ WindowIsOpen ~> loopPc = "done"

-----------------------------------------------------------------------------
(* What the documentation says and the code does not do.                   *)

\* ReliableOrdered means acknowledgement and retransmission
\* (src/src/types.rs:865): a frame the sender no longer keeps was received.
AckedIsReceived ==
  mode = "ReliableOrdered" =>
    \A s \in 1 .. sendBase - 1 : s < expectedSeq \/ s \in SeqsOf(recvBuf)

\* idle_timeout_ms = 0 means that a connection without data stays open
\* (src/src/types.rs:924): running out of retransmissions takes a frame to
\* retransmit.
IdleStaysOpen == reason = "retransmits" => unacked # {}
=============================================================================
