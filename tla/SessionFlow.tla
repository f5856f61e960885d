---------------------------- MODULE SessionFlow ----------------------------
(***************************************************************************)
(* The data path of an AMQP 1.0 session: the two session endpoints of      *)
(* session/mod.rs, driven by the event loop of session/engine.rs, joined   *)
(* by the two FIFO directions of the connection.                           *)
(*                                                                         *)
(* Links hand frames to their session over a bounded channel; the session  *)
(* numbers them, holds them back while the peer's incoming-window is used  *)
(* up, and re-advertises its own window.  The model starts when the Begin  *)
(* frames have been exchanged and follows the session through its End.     *)
(* Transfer numbers are Modulus wide, u32 in the code.                     *)
(***************************************************************************)
EXTENDS Integers, Sequences, FiniteSets

CONSTANTS
  A, B,             \* the two session endpoints
  Modulus,          \* transfer-ids and delivery-ids wrap here (2^32)
  InitialId,        \* initial_outgoing_id of each endpoint
  IncomingWindow,   \* incoming_window of each endpoint
  ChannelCap,       \* capacity of the link-to-session channel
  Ending,           \* the endpoints whose application ends the session
  Pipelined,        \* the endpoints whose Begin was followed by a flow sent
                    \* before they had seen the peer's Begin
  MaxTransfers,     \* bound: transfer frames an endpoint's links hand over
  MaxFlows          \* bound: link flows an endpoint's links hand over

Peer == {A, B}
Other(p) == IF p = A THEN B ELSE A
Id == 0 .. Modulus - 1

ASSUME PeersDistinct == A # B
ASSUME ModulusAssumption == Modulus \in Nat \ {0, 1}
ASSUME IdAssumption == InitialId \in [Peer -> Id]
ASSUME WindowAssumption == IncomingWindow \in [Peer -> Id]
ASSUME CapAssumption == ChannelCap \in Nat \ {0}
ASSUME PeerSets == Ending \subseteq Peer /\ Pipelined \subseteq Peer
ASSUME BoundAssumption == MaxTransfers \in [Peer -> Nat] /\ MaxFlows \in [Peer -> Nat]

VARIABLES
  state,                      \* local_state, from Mapped on
  closing,                    \* the engine is emptying the link channel before End
  next_outgoing_id,
  next_outgoing_delivery_id,
  next_incoming_id,
  remote_incoming_window,
  need_flow_count,
  exhausted_buffer,           \* remote_incoming_window_exhausted_buffer
  link_frames,                \* the link-to-session channel
  wire,                       \* wire[p]: frames sent by p, not yet handled by Other(p)
  handed, deliveries, flows,  \* transfers, deliveries and flows links handed over
  sent, received              \* transfers put on and taken off the wire, unwrapped

vars == <<state, closing, next_outgoing_id, next_outgoing_delivery_id,
          next_incoming_id, remote_incoming_window, need_flow_count,
          exhausted_buffer, link_frames, wire, handed, deliveries, flows,
          sent, received>>

NoId == -1
States == {"Mapped", "EndSent", "Unmapped"}

\* What a link hands over.  "seq" is the number of transfers the links of the
\* endpoint handed over before it, "delivery" the number of deliveries begun by
\* then; the session reads neither.
LinkTransfer == [type : {"transfer"}, first : BOOLEAN, seq : Nat, delivery : Nat]
LinkFlow == [type : {"flow"}, echo : BOOLEAN, seq : Nat]

\* What goes over the wire.  "seq" is the number of transfers sent before the
\* frame and "no" the links' number of a transfer; no receiver reads these or
\* "delivery".
Transfer == [type : {"transfer"}, delivery_id : Id \cup {NoId}, first : BOOLEAN,
             no : Nat, delivery : Nat, seq : Nat]
Flow == [type : {"flow"}, next_incoming_id : Id \cup {NoId}, incoming_window : Id,
         next_outgoing_id : Id, echo : BOOLEAN, seq : Nat]
End == [type : {"end"}, seq : Nat]
Frame == Transfer \cup Flow \cup End

-----------------------------------------------------------------------------
(* Arithmetic of u32.                                                      *)

\* Fault: the carry is kept.
UncheckedAdd(a, b) == a + b

WrappingAdd(a, b) == (a + b) % Modulus
SaturatingAdd(a, b) == IF a + b < Modulus THEN a + b ELSE Modulus - 1
SaturatingSub(a, b) == IF a < b THEN 0 ELSE a - b
Least(a, b) == IF a < b THEN a ELSE b

-----------------------------------------------------------------------------
(* Operations of one endpoint.                                             *)

\* Fault: the flow announces the transfers that are held back as if they had gone out.
FlowFrameCountingHeld(p, nii, echo) ==
  [type |-> "flow", next_incoming_id |-> nii,
   incoming_window |-> IncomingWindow[p],
   next_outgoing_id |-> WrappingAdd(next_outgoing_id[p], Len(exhausted_buffer[p])),
   echo |-> echo, seq |-> sent[p]]

\* The flow frame an endpoint sends; nii is its next_incoming_id at that moment.
FlowFrame(p, nii, echo) ==
  [type |-> "flow", next_incoming_id |-> nii,
   incoming_window |-> IncomingWindow[p],
   next_outgoing_id |-> next_outgoing_id[p], echo |-> echo, seq |-> sent[p]]

\* Fault: the advertised window is used as it is, whatever is still in flight.
WindowIgnoringInFlight(p, flow) == flow.incoming_window

\* The remote-incoming-window an incoming flow leaves at p.
RemoteIncomingWindow(p, flow) ==
  LET base == IF flow.next_incoming_id = NoId THEN InitialId[p]
                                              ELSE flow.next_incoming_id
  IN SaturatingSub(SaturatingAdd(base, flow.incoming_window), next_outgoing_id[p])

\* Deliveries that start in the first k frames of s.
FirstsIn(s, k) == Cardinality({j \in 1 .. k : s[j].first})

\* Fault: the delivery-id is taken from the transfer-id, so that it skips after a
\* delivery of several frames.
TransferIdAsDeliveryId(p, pending, n) ==
  [i \in 1 .. n |->
     [type |-> "transfer",
      delivery_id |-> IF pending[i].first THEN WrappingAdd(next_outgoing_id[p], i - 1)
                                          ELSE NoId,
      first |-> pending[i].first, no |-> pending[i].seq + 1,
      delivery |-> pending[i].delivery, seq |-> sent[p] + (i - 1)]]

\* The frames put on the wire for the first n of the pending transfers: only the
\* first frame of a delivery is given a delivery-id.
TransferFrames(p, pending, n) ==
  [i \in 1 .. n |->
     [type |-> "transfer",
      delivery_id |-> IF pending[i].first
                      THEN WrappingAdd(next_outgoing_delivery_id[p], FirstsIn(pending, i - 1))
                      ELSE NoId,
      first |-> pending[i].first, no |-> pending[i].seq + 1,
      delivery |-> pending[i].delivery, seq |-> sent[p] + (i - 1)]]

\* Fault: sending does not use up the window.
ReleaseKeepingWindow(p, frames, w, pending) ==
  LET n == Least(w, Len(pending)) IN
  /\ wire' = [frames EXCEPT ![p] = @ \o TransferFrames(p, pending, n)]
  /\ exhausted_buffer' = [exhausted_buffer EXCEPT ![p] = SubSeq(pending, n + 1, Len(pending))]
  /\ remote_incoming_window' = [remote_incoming_window EXCEPT ![p] = w]
  /\ next_outgoing_id' = [next_outgoing_id EXCEPT ![p] = WrappingAdd(@, n)]
  /\ next_outgoing_delivery_id' =
       [next_outgoing_delivery_id EXCEPT ![p] = WrappingAdd(@, FirstsIn(pending, n))]
  /\ sent' = [sent EXCEPT ![p] = @ + n]

\* Send as many of the pending transfers as the window w allows, behind the frames
\* already in "frames", and keep the rest in the buffer.
Release(p, frames, w, pending) ==
  LET n == Least(w, Len(pending)) IN
  /\ wire' = [frames EXCEPT ![p] = @ \o TransferFrames(p, pending, n)]
  /\ exhausted_buffer' = [exhausted_buffer EXCEPT ![p] = SubSeq(pending, n + 1, Len(pending))]
  /\ remote_incoming_window' = [remote_incoming_window EXCEPT ![p] = w - n]
  /\ next_outgoing_id' = [next_outgoing_id EXCEPT ![p] = WrappingAdd(@, n)]
  /\ next_outgoing_delivery_id' =
       [next_outgoing_delivery_id EXCEPT ![p] = WrappingAdd(@, FirstsIn(pending, n))]
  /\ sent' = [sent EXCEPT ![p] = @ + n]

\* The engine's event loop is at its select.
Running(p) == state[p] # "Unmapped" /\ ~closing[p]

-----------------------------------------------------------------------------
(* Links.                                                                  *)

\* A link hands over a transfer frame: the first of a delivery, or the next one
\* of a delivery that some link has begun.
LinkSendTransfer(p, first) ==
  /\ state[p] = "Mapped" /\ ~closing[p]
  /\ Len(link_frames[p]) < ChannelCap
  /\ handed[p] < MaxTransfers[p]
  /\ first \/ deliveries[p] > 0
  /\ handed' = [handed EXCEPT ![p] = @ + 1]
  /\ deliveries' = [deliveries EXCEPT ![p] = IF first THEN @ + 1 ELSE @]
  /\ link_frames' = [link_frames EXCEPT ![p] =
       Append(@, [type |-> "transfer", first |-> first, seq |-> handed[p],
                  delivery |-> deliveries'[p]])]
  /\ UNCHANGED <<state, closing, next_outgoing_id, next_outgoing_delivery_id,
                 next_incoming_id, remote_incoming_window, need_flow_count,
                 exhausted_buffer, wire, flows, sent, received>>

\* A link hands over a flow (new credit, a drain, or a request for an echo).
LinkSendFlow(p, echo) ==
  /\ state[p] = "Mapped" /\ ~closing[p]
  /\ Len(link_frames[p]) < ChannelCap
  /\ flows[p] < MaxFlows[p]
  /\ flows' = [flows EXCEPT ![p] = @ + 1]
  /\ link_frames' = [link_frames EXCEPT ![p] = 
       Append(@, [type |-> "flow", echo |-> echo, seq |-> handed[p]])]
  /\ UNCHANGED <<state, closing, next_outgoing_id, next_outgoing_delivery_id,
                 next_incoming_id, remote_incoming_window, need_flow_count,
                 exhausted_buffer, wire, handed, deliveries, sent, received>>

-----------------------------------------------------------------------------
(* The session engine.                                                     *)

\* Fault: a transfer is queued in front of those held back before it.
OnOutgoingTransferOvertaking(p) ==
  /\ state[p] = "Mapped"
  /\ link_frames[p] # <<>> /\ Head(link_frames[p]).type = "transfer"
  /\ link_frames' = [link_frames EXCEPT ![p] = Tail(@)]
  /\ Release(p, wire, remote_incoming_window[p],
             <<Head(link_frames[p])>> \o exhausted_buffer[p])
  /\ UNCHANGED <<state, closing, next_incoming_id, need_flow_count,
                 handed, deliveries, flows, received>>

\* on_outgoing_link_frames with a transfer: on_outgoing_transfer queues it behind
\* the transfers already held back.
OnOutgoingTransfer(p) ==
  /\ state[p] = "Mapped"
  /\ link_frames[p] # <<>> /\ Head(link_frames[p]).type = "transfer"
  /\ link_frames' = [link_frames EXCEPT ![p] = Tail(@)]
  /\ Release(p, wire, remote_incoming_window[p],
             Append(exhausted_buffer[p], Head(link_frames[p])))
  /\ UNCHANGED <<state, closing, next_incoming_id, need_flow_count,
                 handed, deliveries, flows, received>>

\* on_outgoing_link_frames with a flow: never held back.
OnOutgoingFlow(p) ==
  /\ state[p] = "Mapped"
  /\ link_frames[p] # <<>> /\ Head(link_frames[p]).type = "flow"
  /\ link_frames' = [link_frames EXCEPT ![p] = Tail(@)]
  /\ wire' = [wire EXCEPT ![p] =
                Append(@, FlowFrame(p, next_incoming_id[p], Head(link_frames[p]).echo))]
  /\ UNCHANGED <<state, closing, next_outgoing_id, next_outgoing_delivery_id,
                 next_incoming_id, remote_incoming_window, need_flow_count,
                 exhausted_buffer, handed, deliveries, flows, sent, received>>

\* The next frame for p is of this type.
Arrives(p, type) ==
  /\ Running(p)
  /\ wire[Other(p)] # <<>>
  /\ Head(wire[Other(p)]).type = type

Rest(p) == [wire EXCEPT ![Other(p)] = Tail(@)]

\* Fault: what was held back is not released.
OnIncomingFlowHolding(p) ==
  /\ Arrives(p, "flow")
  /\ LET flow == Head(wire[Other(p)])
         nii == flow.next_outgoing_id
         echo == IF flow.echo THEN <<FlowFrame(p, nii, FALSE)>> ELSE <<>>
     IN /\ next_incoming_id' = [next_incoming_id EXCEPT ![p] = nii]
        /\ wire' = [Rest(p) EXCEPT ![p] = @ \o echo]
        /\ remote_incoming_window' =
             [remote_incoming_window EXCEPT ![p] = RemoteIncomingWindow(p, flow)]
  /\ UNCHANGED <<state, closing, need_flow_count, link_frames, handed,
                 deliveries, flows, received, exhausted_buffer, sent,
                 next_outgoing_id, next_outgoing_delivery_id>>

\* on_incoming_flow: take over the peer's view, answer an echo, then release what
\* was held back.
OnIncomingFlow(p) ==
  /\ Arrives(p, "flow")
  /\ LET flow == Head(wire[Other(p)])
         nii == flow.next_outgoing_id
         echo == IF flow.echo THEN <<FlowFrame(p, nii, FALSE)>> ELSE <<>>
     IN /\ next_incoming_id' = [next_incoming_id EXCEPT ![p] = nii]
        /\ Release(p, [Rest(p) EXCEPT ![p] = @ \o echo],
                   RemoteIncomingWindow(p, flow), exhausted_buffer[p])
  /\ UNCHANGED <<state, closing, need_flow_count, link_frames, handed,
                 deliveries, flows, received>>

\* Fault: the top-up waits for more than the window.
NeedsFlowTooLate(p, count) == state[p] = "Mapped" /\ count > IncomingWindow[p]

\* Half of the incoming-window has been used since the last session flow.
NeedsFlow(p, count) == state[p] = "Mapped" /\ count >= IncomingWindow[p] \div 2

\* on_incoming_transfer, then maybe_outgoing_session_flow.
OnIncomingTransfer(p) ==
  /\ Arrives(p, "transfer")
  /\ LET nii == WrappingAdd(next_incoming_id[p], 1)
         count == SaturatingAdd(need_flow_count[p], 1)
         topUp == NeedsFlow(p, count)
         flow == IF topUp THEN <<FlowFrame(p, nii, FALSE)>> ELSE <<>>
     IN /\ next_incoming_id' = [next_incoming_id EXCEPT ![p] = nii]
        /\ need_flow_count' = [need_flow_count EXCEPT ![p] = IF topUp THEN 0 ELSE count]
        /\ wire' = [Rest(p) EXCEPT ![p] = @ \o flow]
        /\ received' = [received EXCEPT ![p] = @ + 1]
  /\ UNCHANGED <<state, closing, next_outgoing_id, next_outgoing_delivery_id,
                 remote_incoming_window, exhausted_buffer, link_frames, handed,
                 deliveries, flows, sent>>

\* SessionControl::End arrives: the engine closes the link channel and first
\* handles the frames already in it.
OnControlEnd(p) ==
  /\ p \in Ending
  /\ state[p] = "Mapped" /\ ~closing[p]
  /\ closing' = [closing EXCEPT ![p] = TRUE]
  /\ UNCHANGED <<state, next_outgoing_id, next_outgoing_delivery_id,
                 next_incoming_id, remote_incoming_window, need_flow_count,
                 exhausted_buffer, link_frames, wire, handed, deliveries, flows,
                 sent, received>>

EndFrame(p) == [type |-> "end", seq |-> sent[p]]

\* The channel is empty: send_end.
SendEnd(p) ==
  /\ closing[p] /\ link_frames[p] = <<>>
  /\ closing' = [closing EXCEPT ![p] = FALSE]
  /\ state' = [state EXCEPT ![p] = "EndSent"]
  /\ wire' = [wire EXCEPT ![p] = Append(@, EndFrame(p))]
  /\ UNCHANGED <<next_outgoing_id, next_outgoing_delivery_id,
                 next_incoming_id, remote_incoming_window, need_flow_count,
                 exhausted_buffer, link_frames, handed, deliveries, flows,
                 sent, received>>

\* on_incoming with an End: answered unless p ended first; the engine stops, and
\* what its links had queued dies with it.
OnIncomingEnd(p) ==
  /\ Arrives(p, "end")
  /\ state' = [state EXCEPT ![p] = "Unmapped"]
  /\ wire' = [Rest(p) EXCEPT ![p] =
                @ \o (IF state[p] = "Mapped" THEN <<EndFrame(p)>> ELSE <<>>)]
  /\ UNCHANGED <<closing, next_outgoing_id, next_outgoing_delivery_id,
                 next_incoming_id, remote_incoming_window, need_flow_count,
                 exhausted_buffer, link_frames, handed, deliveries, flows,
                 sent, received>>

-----------------------------------------------------------------------------

\* The session as the Begin frames left it.
Init ==
  /\ state = [p \in Peer |-> "Mapped"]
  /\ closing = [p \in Peer |-> FALSE]
  /\ next_outgoing_id = InitialId
  /\ next_outgoing_delivery_id = [p \in Peer |-> 0]
  /\ next_incoming_id = [p \in Peer |-> InitialId[Other(p)]]
  /\ remote_incoming_window = [p \in Peer |-> IncomingWindow[Other(p)]]
  /\ need_flow_count = [p \in Peer |-> 0]
  /\ exhausted_buffer = [p \in Peer |-> <<>>]
  /\ link_frames = [p \in Peer |-> <<>>]
  /\ handed = [p \in Peer |-> 0]
  /\ deliveries = [p \in Peer |-> 0]
  /\ flows = [p \in Peer |-> 0]
  /\ sent = [p \in Peer |-> 0]
  /\ received = [p \in Peer |-> 0]
  /\ wire = [p \in Peer |->
       IF p \in Pipelined
       THEN <<[type |-> "flow", next_incoming_id |-> NoId,
               incoming_window |-> IncomingWindow[p],
               next_outgoing_id |-> InitialId[p], echo |-> FALSE, seq |-> 0]>>
       ELSE <<>>]

OnIncoming(p) == OnIncomingFlow(p) \/ OnIncomingTransfer(p) \/ OnIncomingEnd(p)
OnOutgoingLinkFrames(p) == OnOutgoingTransfer(p) \/ OnOutgoingFlow(p)

Next == \E p \in Peer :
          \/ \E first \in BOOLEAN : LinkSendTransfer(p, first)
          \/ \E echo \in BOOLEAN : LinkSendFlow(p, echo)
          \/ OnOutgoingTransfer(p)
          \/ OnOutgoingFlow(p)
          \/ OnIncomingFlow(p)
          \/ OnIncomingTransfer(p)
          \/ OnControlEnd(p)
          \/ SendEnd(p)
          \/ OnIncomingEnd(p)

Spec == Init /\ [][Next]_vars

\* The engine serves each ready branch of its select in the end (tokio picks at
\* random), and finishes the closing it has begun.  Links owe nothing.  The work of a
\* bounded number of transfers and flows is finite, so that one fairness condition for
\* all engine steps is enough.
EngineStep == \E p \in Peer : OnIncoming(p) \/ OnOutgoingLinkFrames(p) \/ SendEnd(p)
FairSpec == Spec /\ WF_vars(EngineStep)
-----------------------------------------------------------------------------
(* Properties.                                                             *)

\* The types of the session's fields and of the frames in flight.
TypeOK ==
  /\ state \in [Peer -> States]
  /\ closing \in [Peer -> BOOLEAN]
  /\ next_outgoing_id \in [Peer -> Id]
  /\ next_outgoing_delivery_id \in [Peer -> Id]
  /\ next_incoming_id \in [Peer -> Id]
  /\ remote_incoming_window \in [Peer -> Id]
  /\ need_flow_count \in [Peer -> Id]
  /\ exhausted_buffer \in [Peer -> Seq(LinkTransfer)]
  /\ link_frames \in [Peer -> Seq(LinkTransfer \cup LinkFlow)]
  /\ wire \in [Peer -> Seq(Frame)]
  /\ handed \in [Peer -> Nat]
  /\ deliveries \in [Peer -> Nat]
  /\ flows \in [Peer -> Nat]
  /\ sent \in [Peer -> Nat]
  /\ received \in [Peer -> Nat]

InFlight(p) == {i \in DOMAIN wire[p] : wire[p][i].type = "transfer"}

\* Window safety: however flows, transfers and echoes cross on the wire, an
\* endpoint never has more transfers in flight than its peer's incoming-window
\* (remote_incoming_window is "the maximum number of outgoing transfers that can
\* be sent without exceeding the remote endpoint's incoming-window").
WindowRespected == \A p \in Peer : Cardinality(InFlight(p)) <= IncomingWindow[Other(p)]

\* Transfer-ids are implicit: the id the receiver computes for the next transfer
\* is the one the sender gave it, whatever flows overwrote next_incoming_id.
IdsInSync ==
  \A p \in Peer :
    (wire[p] # <<>> /\ Head(wire[p]).type = "transfer") =>
      next_incoming_id[Other(p)] = WrappingAdd(InitialId[p], Head(wire[p]).no - 1)

\* The first frames of deliveries carry consecutive delivery-ids in the order the
\* links began them, and other frames none, even when frames of several links
\* interleave and wait in the buffer (peers reject a gap).
DeliveryIdsConsecutive ==
  \A p \in Peer : \A i \in InFlight(p) :
    wire[p][i].delivery_id =
      IF wire[p][i].first THEN (wire[p][i].delivery - 1) % Modulus ELSE NoId

IsTransfer(f) == f.type = "transfer"

\* Transfers are neither lost, duplicated nor reordered between the links' channel,
\* the buffer and the wire: what has not been received is numbered on from there, first
\* what is in flight, then what is held back, then what waits in the channel.
HandedInOrder ==
  \A p \in Peer :
    LET waiting == {i \in DOMAIN link_frames[p] : IsTransfer(link_frames[p][i])}
        taken == received[Other(p)]
        gone == taken + Cardinality(InFlight(p))
        held == gone + Len(exhausted_buffer[p])
    IN /\ handed[p] = held + Cardinality(waiting)
       /\ \A i \in InFlight(p) :
            wire[p][i].no = taken + Cardinality({j \in InFlight(p) : j <= i})
       /\ \A i \in DOMAIN exhausted_buffer[p] : exhausted_buffer[p][i].seq = gone + (i - 1)
       /\ \A i \in waiting :
            link_frames[p][i].seq = held + Cardinality({j \in waiting : j < i})

\* No transfer is held back while the peer's window has room: every handler that
\* opens the window also empties the buffer into it.
NoNeedlessHold ==
  \A p \in Peer : exhausted_buffer[p] # <<>> => remote_incoming_window[p] = 0

\* Each direction implements the sliding window that session flow control stands
\* for: a limit that only advances, by what the receiver has taken.
FromA == INSTANCE SlidingWindow WITH
           Window <- IncomingWindow[B], handed <- handed[A], sent <- sent[A],
           limit <- sent[A] + remote_incoming_window[A], received <- received[B]
FromB == INSTANCE SlidingWindow WITH
           Window <- IncomingWindow[A], handed <- handed[B], sent <- sent[B],
           limit <- sent[B] + remote_incoming_window[B], received <- received[A]
SlidingBothWays == FromA!Spec /\ FromB!Spec

\* Liveness: unless the session is ended, every transfer a link hands over is
\* received ("a peer sending continuously never stalls even when no link-level
\* flow is generated").
AllDelivered ==
  <>[]((\A p \in Peer : state[p] = "Mapped" /\ ~closing[p]) =>
         \A p \in Peer : received[Other(p)] = handed[p])
=============================================================================
