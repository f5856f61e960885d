------------------------- MODULE SessionFlowProofs -------------------------
(***************************************************************************)
(* Proofs about SessionFlow, for every width, window, initial identifier   *)
(* and bound: types, implicit identifiers and held-back transfers first,   *)
(* then the order of transfers, the window, its refinement of              *)
(* SlidingWindow and the numbering of deliveries.                          *)
(*                                                                         *)
(* The inductive invariant says that the numbers the model attaches to     *)
(* frames chain up: from what the receiver has taken, through the wire, to *)
(* what the sender has sent, and on through the buffer and the links'      *)
(* channel to what the links have handed over.                             *)
(*                                                                         *)
(* Order holds for every value of the constants.  The window does as long  *)
(* as the identifiers stay a window away from the wrap: there the code's   *)
(* saturating arithmetic (on_incoming_flow of session/mod.rs) is exact;    *)
(* beyond it remote_incoming_window is not what the peer granted.          *)
(*                                                                         *)
(* Delivery-ids are consecutive for every value of the constants and       *)
(* across the wrap.  The ids are given out when a frame leaves, the        *)
(* deliveries are begun when a link hands its first frame over; in between *)
(* the frames wait in the links' channel and in                            *)
(* remote_incoming_window_exhausted_buffer.  The invariant counts the      *)
(* first frames along that path.                                           *)
(***************************************************************************)
EXTENDS SessionFlow, FiniteSetTheorems, FunctionTheorems, WellFoundedInduction, TLAPS

-----------------------------------------------------------------------------
(* Arithmetic.                                                             *)

\* Division with remainder, as u32 arithmetic uses it.
LEMMA DivMod ==
  ASSUME NEW M \in Nat, M > 0, NEW x \in Nat
  PROVE  x \div M \in Int /\ x % M \in 0 .. M - 1 /\ x % M = x - M * (x \div M)
<1>1. x % M = x - M * (x \div M)
  BY SMTT(30)
<1>2. x \div M \in Int /\ x % M \in 0 .. M - 1
  OBVIOUS
<1> QED
  BY <1>1, <1>2

\* The remainder is determined by any decomposition.
LEMMA ModUnique ==
  ASSUME NEW M \in Nat, M > 0, NEW q \in Int, NEW r \in 0 .. M - 1
  PROVE  (M * q + r) % M = r
OBVIOUS

\* wrapping_add of a wrapped number wraps the sum.
LEMMA ModAdd ==
  ASSUME NEW M \in Nat, M > 0, NEW x \in Nat, NEW n \in Nat
  PROVE  ((x % M) + n) % M = (x + n) % M
<1> DEFINE q == x \div M
           r == x % M
           y == r + n
           q2 == y \div M
           r2 == y % M
<1>1. q \in Int /\ r \in 0 .. M - 1 /\ r = x - M * q
  BY DivMod DEF q, r
<1>2. y \in Nat
  BY <1>1
<1>3. q2 \in Int /\ r2 \in 0 .. M - 1 /\ r2 = y - M * q2
  BY <1>2, DivMod DEF q2, r2
<1> HIDE DEF q, r, q2, r2
<1>4. x + n = M * (q + q2) + r2
  BY <1>1, <1>2, <1>3
<1>5. (M * (q + q2) + r2) % M = r2
  <2>1. q + q2 \in Int
    BY <1>1, <1>3
  <2> HIDE DEF y
  <2> QED
    BY <1>3, <2>1, ModUnique
<1> QED
  BY <1>4, <1>5 DEF r, r2

\* wrapping_add yields an identifier.
LEMMA WrapType ==
  ASSUME NEW a \in Nat, NEW b \in Nat
  PROVE  WrappingAdd(a, b) \in Id
BY ModulusAssumption DEF WrappingAdd, Id

\* The two endpoints.
LEMMA PeerFacts ==
  ASSUME NEW p \in Peer
  PROVE  Other(p) \in Peer /\ Other(p) # p /\ Other(Other(p)) = p
BY PeersDistinct DEF Peer, Other

-----------------------------------------------------------------------------
(* Sequences of frames.                                                    *)

\* Identifiers are numbers.
LEMMA IdNat == Id \subseteq Nat
BY ModulusAssumption DEF Id

\* A prefix of the pending transfers begins a number of deliveries.
LEMMA FirstsInNat ==
  ASSUME NEW s, NEW k \in Nat
  PROVE  FirstsIn(s, k) \in Nat
<1>1. IsFiniteSet(1 .. k)
  BY FS_Interval
<1>2. IsFiniteSet({j \in 1 .. k : s[j].first})
  BY <1>1, FS_Subset
<1> QED
  BY <1>2, FS_CardinalityType DEF FirstsIn

\* A transfer frame from its parts.
LEMMA TransferRecord ==
  ASSUME NEW d \in Id \cup {NoId}, NEW f \in BOOLEAN,
         NEW no \in Nat, NEW delivery \in Nat, NEW seq \in Nat
  PROVE  [type |-> "transfer", delivery_id |-> d, first |-> f, no |-> no,
          delivery |-> delivery, seq |-> seq] \in Transfer
BY DEF Transfer

\* A flow frame from its parts.
LEMMA FlowRecord ==
  ASSUME NEW nii \in Id \cup {NoId}, NEW w \in Id, NEW noi \in Id,
         NEW echo \in BOOLEAN, NEW seq \in Nat
  PROVE  [type |-> "flow", next_incoming_id |-> nii, incoming_window |-> w,
          next_outgoing_id |-> noi, echo |-> echo, seq |-> seq] \in Flow
BY DEF Flow

\* The frames put on the wire are transfers, n of them.
LEMMA TransferFramesType ==
  ASSUME TypeOK, NEW p \in Peer, NEW s \in Seq(LinkTransfer), NEW n \in 0 .. Len(s)
  PROVE  TransferFrames(p, s, n) \in Seq(Transfer) /\ Len(TransferFrames(p, s, n)) = n
<1>1. ASSUME NEW i \in 1 .. n
      PROVE  TransferFrames(p, s, n)[i] \in Transfer
  <2>1. s[i] \in LinkTransfer
    OBVIOUS
  <2>2. next_outgoing_delivery_id[p] \in Nat /\ sent[p] \in Nat
    BY IdNat DEF TypeOK
  <2>3. FirstsIn(s, i - 1) \in Nat
    BY FirstsInNat
  <2>4. WrappingAdd(next_outgoing_delivery_id[p], FirstsIn(s, i - 1)) \in Id
    BY <2>2, <2>3, WrapType
  <2> DEFINE d == IF s[i].first
                  THEN WrappingAdd(next_outgoing_delivery_id[p], FirstsIn(s, i - 1))
                  ELSE NoId
  <2>5. d \in Id \cup {NoId}
    BY <2>4
  <2>6. s[i].first \in BOOLEAN /\ s[i].seq \in Nat /\ s[i].delivery \in Nat
    BY <2>1 DEF LinkTransfer
  <2>7. s[i].seq + 1 \in Nat /\ sent[p] + (i - 1) \in Nat
    BY <2>2, <2>6
  <2>8. TransferFrames(p, s, n)[i] =
          [type |-> "transfer", delivery_id |-> d, first |-> s[i].first,
           no |-> s[i].seq + 1, delivery |-> s[i].delivery, seq |-> sent[p] + (i - 1)]
    BY DEF TransferFrames
  <2> HIDE DEF d
  <2> QED
    <3>1. s[i].first \in BOOLEAN
      BY <2>6
    <3>2. s[i].seq + 1 \in Nat /\ s[i].delivery \in Nat /\ sent[p] + (i - 1) \in Nat
      BY <2>6, <2>7
    <3>3. [type |-> "transfer", delivery_id |-> d, first |-> s[i].first,
           no |-> s[i].seq + 1, delivery |-> s[i].delivery, seq |-> sent[p] + (i - 1)]
            \in Transfer
      BY <2>5, <3>1, <3>2, TransferRecord, Zenon
    <3> QED
      BY <2>8, <3>3
<1> QED
  BY <1>1 DEF TransferFrames

\* The kind of a frame gives its fields.
LEMMA FrameKinds ==
  ASSUME NEW f \in Frame
  PROVE  /\ f.type = "flow" => f \in Flow
         /\ f.type = "transfer" => f \in Transfer
         /\ f.seq \in Nat
BY DEF Frame, Flow, Transfer, End

\* FlowFrame builds a flow.
LEMMA FlowFrameType ==
  ASSUME TypeOK, NEW p \in Peer, NEW nii \in Id, NEW echo \in BOOLEAN
  PROVE  FlowFrame(p, nii, echo) \in Flow
<1>1. IncomingWindow[p] \in Id /\ next_outgoing_id[p] \in Id /\ sent[p] \in Nat
  BY WindowAssumption DEF TypeOK
<1>2. nii \in Id \cup {NoId}
  OBVIOUS
<1> QED
  BY <1>1, <1>2, FlowRecord, Zenon DEF FlowFrame

\* How much Release sends.
LEMMA ReleasedType ==
  ASSUME NEW w \in Nat, NEW k \in Nat
  PROVE  /\ Least(w, k) \in 0 .. k
         /\ w - Least(w, k) \in 0 .. w
         /\ w - Least(w, k) = 0 \/ Least(w, k) = k
BY DEF Least

\* A frame alone, or none, is a sequence of frames.
LEMMA Singleton ==
  ASSUME NEW f \in Frame
  PROVE  <<f>> \in Seq(Frame) /\ <<>> \in Seq(Frame)
OBVIOUS

\* Taking a frame off one direction and appending frames to the other.
LEMMA WireStep ==
  ASSUME TypeOK, NEW p \in Peer, NEW t \in Seq(Frame), wire[Other(p)] # <<>>
  PROVE  [Rest(p) EXCEPT ![p] = @ \o t] \in [Peer -> Seq(Frame)]
<1>1. Other(p) \in Peer /\ Other(p) # p
  BY PeerFacts
<1>2. wire \in [Peer -> Seq(Frame)]
  BY DEF TypeOK
<1>3. Tail(wire[Other(p)]) \in Seq(Frame)
  BY <1>1, <1>2
<1>4. Rest(p) \in [Peer -> Seq(Frame)]
  BY <1>1, <1>2, <1>3 DEF Rest
<1>5. Rest(p)[p] \o t \in Seq(Frame)
  BY <1>4
<1> QED
  BY <1>4, <1>5

\* Release keeps the types of what it changes.
LEMMA ReleaseType ==
  ASSUME TypeOK, NEW p \in Peer, NEW frames \in [Peer -> Seq(Frame)],
         NEW w \in Id, NEW pending \in Seq(LinkTransfer),
         Release(p, frames, w, pending)
  PROVE  /\ wire' \in [Peer -> Seq(Frame)]
         /\ exhausted_buffer' \in [Peer -> Seq(LinkTransfer)]
         /\ remote_incoming_window' \in [Peer -> Id]
         /\ next_outgoing_id' \in [Peer -> Id]
         /\ next_outgoing_delivery_id' \in [Peer -> Id]
         /\ sent' \in [Peer -> Nat]
<1> DEFINE n == Least(w, Len(pending))
<1>1. n \in 0 .. Len(pending) /\ w - n \in 0 .. w /\ w \in Nat
  BY IdNat, ReleasedType, SMTT(30)
<1>2. w - n \in Id
  BY <1>1, ModulusAssumption DEF Id
<1>3. TransferFrames(p, pending, n) \in Seq(Transfer)
  BY <1>1, TransferFramesType
<1>4. frames[p] \o TransferFrames(p, pending, n) \in Seq(Frame)
  <2>1. TransferFrames(p, pending, n) \in Seq(Frame)
    BY <1>3 DEF Frame
  <2> QED
    BY <2>1
<1>5. SubSeq(pending, n + 1, Len(pending)) \in Seq(LinkTransfer)
  BY <1>1
<1>0. next_outgoing_id[p] \in Nat /\ next_outgoing_delivery_id[p] \in Nat /\ n \in Nat
  <2>1. next_outgoing_id[p] \in Id /\ next_outgoing_delivery_id[p] \in Id
    BY DEF TypeOK
  <2>2. next_outgoing_id[p] \in Nat /\ next_outgoing_delivery_id[p] \in Nat
    BY <2>1, IdNat
  <2>3. n \in Nat
    BY <1>1
  <2> QED
    BY <2>2, <2>3
<1>6. WrappingAdd(next_outgoing_id[p], n) \in Id
  BY <1>0, WrapType
<1>7. WrappingAdd(next_outgoing_delivery_id[p], FirstsIn(pending, n)) \in Id
  <2> HIDE DEF n
  <2>1. FirstsIn(pending, n) \in Nat
    BY <1>0, FirstsInNat
  <2> QED
    BY <1>0, <2>1, WrapType
<1>8. sent[p] + n \in Nat
  BY <1>1 DEF TypeOK
<1> HIDE DEF n
<1> QED
  BY <1>2, <1>4, <1>5, <1>6, <1>7, <1>8 DEF Release, n, TypeOK

\* The window an incoming flow leaves is a u32.
LEMMA RemoteIncomingWindowType ==
  ASSUME TypeOK, NEW p \in Peer, NEW flow \in Flow
  PROVE  RemoteIncomingWindow(p, flow) \in Id
<1>1. flow.incoming_window \in Id /\ flow.next_incoming_id \in Id \cup {NoId}
  BY DEF Flow
<1>2. InitialId[p] \in Id /\ next_outgoing_id[p] \in Id
  BY IdAssumption DEF TypeOK
<1> QED
  BY <1>1, <1>2, ModulusAssumption
  DEF RemoteIncomingWindow, SaturatingAdd, SaturatingSub, Id, NoId

-----------------------------------------------------------------------------
(* Type correctness.                                                       *)

\* Initially.
LEMMA InitTypeOK == Init => TypeOK
<1> SUFFICES ASSUME Init PROVE TypeOK
  OBVIOUS
<1>1. ASSUME NEW p \in Peer
      PROVE  [type |-> "flow", next_incoming_id |-> NoId,
              incoming_window |-> IncomingWindow[p],
              next_outgoing_id |-> InitialId[p], echo |-> FALSE, seq |-> 0] \in Flow
  <2>1. IncomingWindow[p] \in Id /\ InitialId[p] \in Id /\ FALSE \in BOOLEAN /\ 0 \in Nat
        /\ NoId \in Id \cup {NoId}
    BY IdAssumption, WindowAssumption
  <2> QED
    BY <2>1, FlowRecord, Zenon
<1>2. wire \in [Peer -> Seq(Frame)]
  <2>1. ASSUME NEW p \in Peer PROVE wire[p] \in Seq(Frame)
    <3> DEFINE f == [type |-> "flow", next_incoming_id |-> NoId,
                     incoming_window |-> IncomingWindow[p],
                     next_outgoing_id |-> InitialId[p], echo |-> FALSE, seq |-> 0]
    <3>1. f \in Frame
      BY <1>1 DEF Frame
    <3>2. wire[p] = <<f>> \/ wire[p] = <<>>
      BY DEF Init
    <3> HIDE DEF f
    <3> QED
      BY <3>1, <3>2, Singleton
  <2> QED
    BY <2>1 DEF Init
<1>3. 0 \in Id /\ "Mapped" \in States
  BY ModulusAssumption DEF Id, States
<1>4. \A p \in Peer : Other(p) \in Peer
  BY PeerFacts
<1> QED
  BY <1>2, <1>3, <1>4, IdAssumption, WindowAssumption DEF Init, TypeOK

\* Every step keeps the types.
LEMMA NextTypeOK == TypeOK /\ [Next]_vars => TypeOK'
<1> SUFFICES ASSUME TypeOK, [Next]_vars PROVE TypeOK'
  OBVIOUS
<1> USE DEF TypeOK
<1>1. ASSUME NEW p \in Peer, NEW first \in BOOLEAN, LinkSendTransfer(p, first)
      PROVE  TypeOK'
  <2> DEFINE d == deliveries'[p]
             f == [type |-> "transfer", first |-> first, seq |-> handed[p], delivery |-> d]
  <2>1. d \in Nat /\ deliveries' \in [Peer -> Nat] /\ handed' \in [Peer -> Nat]
    BY <1>1 DEF LinkSendTransfer
  <2>2. f \in LinkTransfer
    <3> HIDE DEF d
    <3> QED BY <2>1 DEF LinkTransfer
  <2>3. link_frames' = [link_frames EXCEPT ![p] = Append(@, f)]
    BY <1>1 DEF LinkSendTransfer
  <2> HIDE DEF f
  <2>4. link_frames' \in [Peer -> Seq(LinkTransfer \cup LinkFlow)]
    BY <2>2, <2>3, SMTT(30)
  <2> QED
    BY <1>1, <2>1, <2>4 DEF LinkSendTransfer
<1>2. ASSUME NEW p \in Peer, NEW echo \in BOOLEAN, LinkSendFlow(p, echo)
      PROVE  TypeOK'
  <2> DEFINE f == [type |-> "flow", echo |-> echo, seq |-> handed[p]]
  <2>1. f \in LinkFlow
    BY DEF LinkFlow
  <2>2. link_frames' = [link_frames EXCEPT ![p] = Append(@, f)]
    BY <1>2 DEF LinkSendFlow
  <2> HIDE DEF f
  <2>3. link_frames' \in [Peer -> Seq(LinkTransfer \cup LinkFlow)]
    BY <2>1, <2>2, SMTT(30)
  <2>4. /\ flows' = [flows EXCEPT ![p] = @ + 1]
        /\ UNCHANGED <<state, closing, next_outgoing_id, next_outgoing_delivery_id,
                       next_incoming_id, remote_incoming_window, need_flow_count,
                       exhausted_buffer, wire, handed, deliveries, sent, received>>
    BY <1>2, Zenon DEF LinkSendFlow
  <2>5. flows' \in [Peer -> Nat]
    BY <2>4
  <2> QED
    BY <2>3, <2>4, <2>5, Zenon
<1>3. ASSUME NEW p \in Peer, OnOutgoingTransfer(p)
      PROVE  TypeOK'
  <2> DEFINE f == Head(link_frames[p])
             pending == Append(exhausted_buffer[p], f)
  <2>1. f \in LinkTransfer
    BY <1>3 DEF OnOutgoingTransfer, LinkFlow
  <2>2. pending \in Seq(LinkTransfer)
    <3> HIDE DEF f
    <3> QED BY <2>1
  <2>3. Release(p, wire, remote_incoming_window[p], pending)
    BY <1>3 DEF OnOutgoingTransfer
  <2> HIDE DEF pending
  <2>4. link_frames' \in [Peer -> Seq(LinkTransfer \cup LinkFlow)]
    BY <1>3 DEF OnOutgoingTransfer
  <2> QED
    BY <1>3, <2>2, <2>3, <2>4, ReleaseType DEF OnOutgoingTransfer
<1>4. ASSUME NEW p \in Peer, OnOutgoingFlow(p)
      PROVE  TypeOK'
  <2> DEFINE f == Head(link_frames[p])
             frame == FlowFrame(p, next_incoming_id[p], f.echo)
  <2>1. f.echo \in BOOLEAN
    BY <1>4 DEF OnOutgoingFlow, LinkTransfer, LinkFlow
  <2>2. frame \in Frame
    <3> HIDE DEF f
    <3>1. next_incoming_id[p] \in Id
      OBVIOUS
    <3>2. FlowFrame(p, next_incoming_id[p], f.echo) \in Flow
      BY <2>1, <3>1, FlowFrameType, Zenon
    <3> QED
      BY <3>2 DEF Frame
  <2>3. wire' = [wire EXCEPT ![p] = Append(@, frame)]
    BY <1>4 DEF OnOutgoingFlow
  <2> HIDE DEF frame
  <2>4. wire' \in [Peer -> Seq(Frame)]
    BY <2>2, <2>3
  <2>5. link_frames' \in [Peer -> Seq(LinkTransfer \cup LinkFlow)]
    BY <1>4, SMTT(30) DEF OnOutgoingFlow
  <2> QED
    BY <1>4, <2>4, <2>5 DEF OnOutgoingFlow
<1>5. ASSUME NEW p \in Peer, OnIncomingFlow(p)
      PROVE  TypeOK'
  <2> DEFINE flow == Head(wire[Other(p)])
             nii == flow.next_outgoing_id
             echo == IF flow.echo THEN <<FlowFrame(p, nii, FALSE)>> ELSE <<>>
             frames == [Rest(p) EXCEPT ![p] = @ \o echo]
             w == RemoteIncomingWindow(p, flow)
  <2>1. Other(p) \in Peer /\ Other(p) # p /\ wire[Other(p)] # <<>>
    BY <1>5, PeerFacts DEF OnIncomingFlow, Arrives
  <2>2. flow \in Flow
    <3>1. flow \in Frame /\ flow.type = "flow"
      BY <1>5, <2>1, SMTT(30) DEF OnIncomingFlow, Arrives
    <3> HIDE DEF flow
    <3> QED BY <3>1, FrameKinds
  <2> HIDE DEF flow
  <2>3. nii \in Id
    BY <2>2 DEF Flow
  <2>4. echo \in Seq(Frame)
    <3>1. FlowFrame(p, nii, FALSE) \in Flow
      BY <2>3, FlowFrameType, Zenon
    <3>2. FlowFrame(p, nii, FALSE) \in Frame
      BY <3>1 DEF Frame
    <3> QED
      BY <3>2, Singleton, Zenon
  <2>5. frames \in [Peer -> Seq(Frame)]
    <3> HIDE DEF echo
    <3> QED BY <2>1, <2>4, WireStep
  <2>6. w \in Id
    BY <2>2, RemoteIncomingWindowType
  <2>7. Release(p, frames, w, exhausted_buffer[p])
        /\ next_incoming_id' = [next_incoming_id EXCEPT ![p] = nii]
    BY <1>5 DEF OnIncomingFlow, flow
  <2>8. exhausted_buffer[p] \in Seq(LinkTransfer)
    OBVIOUS
  <2> HIDE DEF frames, w, nii
  <2>9. UNCHANGED <<state, closing, need_flow_count, link_frames, handed,
                    deliveries, flows, received>>
    BY <1>5 DEF OnIncomingFlow
  <2>10. /\ wire' \in [Peer -> Seq(Frame)]
         /\ exhausted_buffer' \in [Peer -> Seq(LinkTransfer)]
         /\ remote_incoming_window' \in [Peer -> Id]
         /\ next_outgoing_id' \in [Peer -> Id]
         /\ next_outgoing_delivery_id' \in [Peer -> Id]
         /\ sent' \in [Peer -> Nat]
    BY <2>5, <2>6, <2>7, <2>8, ReleaseType
  <2> QED
    BY <2>3, <2>7, <2>9, <2>10
<1>6. ASSUME NEW p \in Peer, OnIncomingTransfer(p)
      PROVE  TypeOK'
  <2> DEFINE nii == WrappingAdd(next_incoming_id[p], 1)
             count == SaturatingAdd(need_flow_count[p], 1)
             topUp == NeedsFlow(p, count)
             flow == IF topUp THEN <<FlowFrame(p, nii, FALSE)>> ELSE <<>>
  <2>1. Other(p) \in Peer /\ Other(p) # p /\ wire[Other(p)] # <<>>
    BY <1>6, PeerFacts DEF OnIncomingTransfer, Arrives
  <2>2. nii \in Id
    <3>1. next_incoming_id[p] \in Nat
      BY IdNat
    <3> QED
      BY <3>1, WrapType
  <2>3. count \in Id /\ 0 \in Id
    BY ModulusAssumption, SMTT(30) DEF SaturatingAdd, Id
  <2> HIDE DEF nii, count
  <2>4. flow \in Seq(Frame)
    <3>1. FlowFrame(p, nii, FALSE) \in Flow
      BY <2>2, FlowFrameType, Zenon
    <3>2. FlowFrame(p, nii, FALSE) \in Frame
      BY <3>1 DEF Frame
    <3> QED
      BY <3>2, Singleton, Zenon
  <2>5. /\ wire' = [Rest(p) EXCEPT ![p] = @ \o flow]
        /\ next_incoming_id' = [next_incoming_id EXCEPT ![p] = nii]
        /\ need_flow_count' = [need_flow_count EXCEPT ![p] = IF topUp THEN 0 ELSE count]
        /\ received' = [received EXCEPT ![p] = @ + 1]
    BY <1>6 DEF OnIncomingTransfer, nii, count
  <2> HIDE DEF flow, topUp
  <2>6. wire' \in [Peer -> Seq(Frame)]
    BY <2>1, <2>4, <2>5, WireStep
  <2>7. UNCHANGED <<state, closing, next_outgoing_id, next_outgoing_delivery_id,
                    remote_incoming_window, exhausted_buffer, link_frames, handed,
                    deliveries, flows, sent>>
    BY <1>6 DEF OnIncomingTransfer
  <2>8. /\ next_incoming_id' \in [Peer -> Id]
        /\ need_flow_count' \in [Peer -> Id]
        /\ received' \in [Peer -> Nat]
    BY <2>2, <2>3, <2>5
  <2> QED
    BY <2>6, <2>7, <2>8, Zenon
<1>7. ASSUME NEW p \in Peer, OnControlEnd(p)
      PROVE  TypeOK'
  BY <1>7 DEF OnControlEnd
<1>8. ASSUME NEW p \in Peer
      PROVE  EndFrame(p) \in Frame
  BY <1>8 DEF EndFrame, Frame, End
<1>9. ASSUME NEW p \in Peer, SendEnd(p)
      PROVE  TypeOK'
  <2>1. wire' \in [Peer -> Seq(Frame)]
    BY <1>8, <1>9 DEF SendEnd
  <2>2. state' \in [Peer -> States] /\ closing' \in [Peer -> BOOLEAN]
    BY <1>9 DEF SendEnd, States
  <2> QED
    BY <1>9, <2>1, <2>2 DEF SendEnd
<1>10. ASSUME NEW p \in Peer, OnIncomingEnd(p)
       PROVE  TypeOK'
  <2>1. Other(p) \in Peer /\ Other(p) # p /\ wire[Other(p)] # <<>>
    BY <1>10, PeerFacts DEF OnIncomingEnd, Arrives
  <2>2. wire' \in [Peer -> Seq(Frame)]
    <3> DEFINE t == IF state[p] = "Mapped" THEN <<EndFrame(p)>> ELSE <<>>
    <3>1. t \in Seq(Frame)
      BY <1>8, Singleton, Zenon
    <3>2. wire' = [Rest(p) EXCEPT ![p] = @ \o t]
      BY <1>10 DEF OnIncomingEnd
    <3> HIDE DEF t
    <3> QED
      BY <2>1, <3>1, <3>2, WireStep
  <2>3. state' \in [Peer -> States]
    BY <1>10 DEF OnIncomingEnd, States
  <2> QED
    BY <1>10, <2>2, <2>3 DEF OnIncomingEnd
<1>11. CASE UNCHANGED vars
  BY <1>11 DEF vars
<1> QED
  BY <1>1, <1>2, <1>3, <1>4, <1>5, <1>6, <1>7, <1>9, <1>10, <1>11 DEF Next

\* Every field of both endpoints keeps its width and every frame its shape, for
\* any window, identifier width and bound.
THEOREM TypeCorrect == Spec => []TypeOK
BY InitTypeOK, NextTypeOK, PTL DEF Spec

-----------------------------------------------------------------------------
(* Chains of frames.                                                       *)

\* What a frame adds to the count of transfers.
Step(f) == IF f.type = "transfer" THEN 1 ELSE 0

\* The numbers of the frames of s lead from lo to hi without a gap.
Chained(s, lo, hi) ==
  /\ lo <= hi
  /\ Len(s) = 0 => lo = hi
  /\ Len(s) > 0 => s[1].seq = lo /\ s[Len(s)].seq + Step(s[Len(s)]) = hi
  /\ \A i \in 1 .. Len(s) - 1 : s[i + 1].seq = s[i].seq + Step(s[i])
  /\ \A i \in 1 .. Len(s) : lo <= s[i].seq /\ s[i].seq + Step(s[i]) <= hi
  /\ \A i, j \in 1 .. Len(s) : i < j => s[i].seq + Step(s[i]) <= s[j].seq

\* Nothing.
LEMMA ChainedEmpty ==
  ASSUME NEW lo \in Nat
  PROVE  Chained(<<>>, lo, lo)
BY DEF Chained

\* One frame.
LEMMA ChainedOne ==
  ASSUME NEW f, f.seq \in Nat
  PROVE  Chained(<<f>>, f.seq, f.seq + Step(f))
BY DEF Chained, Step

\* One chain after another.
LEMMA ChainedConcat ==
  ASSUME NEW S, \A f \in S : f.seq \in Nat, NEW s \in Seq(S), NEW t \in Seq(S),
         NEW lo \in Nat, NEW mid \in Nat, NEW hi \in Nat,
         Chained(s, lo, mid), Chained(t, mid, hi)
  PROVE  Chained(s \o t, lo, hi)
<1> DEFINE u == s \o t
           m == Len(s)
           n == Len(t)
<1>1. /\ m \in Nat /\ n \in Nat /\ Len(u) = m + n
      /\ \A i \in 1 .. m : u[i] = s[i]
      /\ \A i \in 1 .. n : u[m + i] = t[i]
  OBVIOUS
<1>2. /\ \A i \in 1 .. m : s[i].seq \in Nat /\ Step(s[i]) \in 0 .. 1
      /\ \A i \in 1 .. n : t[i].seq \in Nat /\ Step(t[i]) \in 0 .. 1
  BY DEF Step
<1>3. \A i \in 1 .. m + n : i \in 1 .. m \/ \E k \in 1 .. n : i = m + k
  <2> SUFFICES ASSUME NEW i \in 1 .. m + n, i \notin 1 .. m
               PROVE  \E k \in 1 .. n : i = m + k
    OBVIOUS
  <2>1. i - m \in 1 .. n /\ i = m + (i - m)
    BY <1>1
  <2> QED
    BY <2>1
<1>4. /\ lo <= mid /\ (m = 0 => lo = mid)
      /\ m > 0 => s[1].seq = lo /\ s[m].seq + Step(s[m]) = mid
      /\ \A i \in 1 .. m - 1 : s[i + 1].seq = s[i].seq + Step(s[i])
      /\ \A i \in 1 .. m : lo <= s[i].seq /\ s[i].seq + Step(s[i]) <= mid
      /\ \A i, j \in 1 .. m : i < j => s[i].seq + Step(s[i]) <= s[j].seq
  BY DEF Chained
<1>5. /\ mid <= hi /\ (n = 0 => mid = hi)
      /\ n > 0 => t[1].seq = mid /\ t[n].seq + Step(t[n]) = hi
      /\ \A i \in 1 .. n - 1 : t[i + 1].seq = t[i].seq + Step(t[i])
      /\ \A i \in 1 .. n : mid <= t[i].seq /\ t[i].seq + Step(t[i]) <= hi
      /\ \A i, j \in 1 .. n : i < j => t[i].seq + Step(t[i]) <= t[j].seq
  BY DEF Chained
<1> HIDE DEF u, m, n
<1>6. m + n > 0 => u[1].seq = lo /\ u[m + n].seq + Step(u[m + n]) = hi
  <2>1. CASE m = 0
    <3>1. n > 0 => u[1] = t[1] /\ u[m + n] = t[n]
      BY <1>1, <2>1
    <3> QED
      BY <1>1, <1>4, <1>5, <2>1, <3>1
  <2>2. CASE n = 0
    BY <1>1, <1>4, <1>5, <2>2
  <2>3. CASE m > 0 /\ n > 0
    <3>1. u[1] = s[1] /\ u[m + n] = t[n]
      BY <1>1, <2>3
    <3> QED
      BY <1>4, <1>5, <2>3, <3>1
  <2> QED
    BY <1>1, <2>1, <2>2, <2>3
<1>7. \A i \in 1 .. (m + n) - 1 : u[i + 1].seq = u[i].seq + Step(u[i])
  <2> SUFFICES ASSUME NEW i \in 1 .. (m + n) - 1
               PROVE  u[i + 1].seq = u[i].seq + Step(u[i])
    OBVIOUS
  <2>1. CASE i < m
    <3>1. u[i] = s[i] /\ u[i + 1] = s[i + 1] /\ i \in 1 .. m - 1
      BY <1>1, <2>1
    <3> QED
      BY <1>4, <3>1
  <2>2. CASE i = m
    <3>1. u[i] = s[m] /\ u[i + 1] = t[1] /\ m > 0 /\ n > 0
      BY <1>1, <2>2
    <3> QED
      BY <1>4, <1>5, <3>1
  <2>3. CASE i > m
    <3>1. i - m \in 1 .. n - 1 /\ u[i] = t[i - m] /\ u[i + 1] = t[(i - m) + 1]
      <4>1. i - m \in 1 .. n /\ (i - m) + 1 \in 1 .. n
        BY <1>1, <2>3
      <4>2. u[m + (i - m)] = t[i - m] /\ u[m + ((i - m) + 1)] = t[(i - m) + 1]
        BY <1>1, <4>1
      <4> QED
        BY <1>1, <4>1, <4>2
    <3> QED
      BY <1>5, <3>1
  <2> QED
    BY <1>1, <2>1, <2>2, <2>3
<1>8. \A i \in 1 .. m + n : lo <= u[i].seq /\ u[i].seq + Step(u[i]) <= hi
  <2> SUFFICES ASSUME NEW i \in 1 .. m + n
               PROVE  lo <= u[i].seq /\ u[i].seq + Step(u[i]) <= hi
    OBVIOUS
  <2>1. CASE i \in 1 .. m
    <3>1. lo <= s[i].seq /\ s[i].seq + Step(s[i]) <= mid /\ mid <= hi
          /\ s[i].seq \in Nat /\ Step(s[i]) \in 0 .. 1
      BY <1>2, <1>4, <1>5, <2>1
    <3>2. u[i] = s[i]
      BY <1>1, <2>1
    <3> QED
      BY <3>1, <3>2
  <2>2. CASE \E k \in 1 .. n : i = m + k
    <3> PICK k \in 1 .. n : i = m + k
      BY <2>2
    <3>1. mid <= t[k].seq /\ t[k].seq + Step(t[k]) <= hi /\ lo <= mid /\ t[k].seq \in Nat
      BY <1>2, <1>4, <1>5
    <3>2. u[i] = t[k]
      BY <1>1
    <3> QED
      BY <3>1, <3>2
  <2> QED
    BY <1>3, <2>1, <2>2
<1>9. \A i, j \in 1 .. m + n : i < j => u[i].seq + Step(u[i]) <= u[j].seq
  <2> SUFFICES ASSUME NEW i \in 1 .. m + n, NEW j \in 1 .. m + n, i < j
               PROVE  u[i].seq + Step(u[i]) <= u[j].seq
    OBVIOUS
  <2>1. CASE i \in 1 .. m /\ j \in 1 .. m
    <3>1. u[i] = s[i] /\ u[j] = s[j]
      BY <1>1, <2>1
    <3> QED
      BY <1>4, <2>1, <3>1
  <2>2. CASE i \in 1 .. m /\ \E k \in 1 .. n : j = m + k
    <3> PICK k \in 1 .. n : j = m + k
      BY <2>2
    <3>1. u[i] = s[i] /\ u[j] = t[k]
      BY <1>1, <2>2
    <3>2. s[i].seq + Step(s[i]) <= mid /\ mid <= t[k].seq
      BY <1>4, <1>5, <2>2
    <3>3. s[i].seq \in Nat /\ Step(s[i]) \in 0 .. 1 /\ t[k].seq \in Nat
      BY <1>2, <2>2
    <3> QED
      BY <3>1, <3>2, <3>3, SMTT(30)
  <2>3. CASE (\E k \in 1 .. n : i = m + k) /\ (\E k \in 1 .. n : j = m + k)
    <3> PICK k \in 1 .. n : i = m + k
      BY <2>3
    <3> PICK l \in 1 .. n : j = m + l
      BY <2>3
    <3>1. u[m + k] = t[k] /\ u[m + l] = t[l]
      BY <1>1
    <3>2. k < l
      BY <1>1
    <3>3. t[k].seq + Step(t[k]) <= t[l].seq
      BY <1>5, <3>2
    <3> QED
      BY <3>1, <3>3
  <2>4. ~(j \in 1 .. m /\ \E k \in 1 .. n : i = m + k)
    BY <1>1
  <2> QED
    BY <1>3, <2>1, <2>2, <2>3, <2>4
<1>10. lo <= hi /\ (m + n = 0 => lo = hi)
  BY <1>1, <1>4, <1>5
<1> QED
  BY <1>1, <1>6, <1>7, <1>8, <1>9, <1>10 DEF Chained, u

\* The rest of a chain.
LEMMA ChainedTail ==
  ASSUME NEW S, \A f \in S : f.seq \in Nat, NEW s \in Seq(S), s # <<>>,
         NEW lo \in Nat, NEW hi \in Nat, Chained(s, lo, hi)
  PROVE  Head(s).seq = lo /\ Chained(Tail(s), lo + Step(Head(s)), hi)
<1> DEFINE u == Tail(s)
           n == Len(s) - 1
           next == lo + Step(Head(s))
<1>1. /\ n \in Nat /\ Len(s) = n + 1 /\ Len(u) = n
      /\ \A i \in 1 .. n : u[i] = s[i + 1]
      /\ Head(s) = s[1]
  OBVIOUS
<1>2. \A i \in 1 .. n + 1 : s[i].seq \in Nat /\ Step(s[i]) \in 0 .. 1
  BY <1>1 DEF Step
<1>3. /\ s[1].seq = lo /\ s[n + 1].seq + Step(s[n + 1]) = hi
      /\ \A i \in 1 .. n : s[i + 1].seq = s[i].seq + Step(s[i])
      /\ \A i \in 1 .. n + 1 : s[i].seq + Step(s[i]) <= hi
      /\ \A i, j \in 1 .. n + 1 : i < j => s[i].seq + Step(s[i]) <= s[j].seq
  BY <1>1 DEF Chained
<1> HIDE DEF u, n
<1>4. 1 \in 1 .. n + 1
  BY <1>1
<1>5. next <= hi /\ next = s[1].seq + Step(s[1])
  BY <1>1, <1>3, <1>4
<1>6. n = 0 => next = hi
  BY <1>1, <1>3, <1>5
<1>7. n > 0 => u[1].seq = next /\ u[n].seq + Step(u[n]) = hi
  <2> SUFFICES ASSUME n > 0 PROVE u[1].seq = next /\ u[n].seq + Step(u[n]) = hi
    OBVIOUS
  <2>1. u[1] = s[1 + 1] /\ u[n] = s[n + 1] /\ 1 \in 1 .. n
    BY <1>1
  <2> QED
    BY <1>3, <1>5, <2>1
<1>8. \A i \in 1 .. n - 1 : u[i + 1].seq = u[i].seq + Step(u[i])
  <2> SUFFICES ASSUME NEW i \in 1 .. n - 1 PROVE u[i + 1].seq = u[i].seq + Step(u[i])
    OBVIOUS
  <2>1. u[i + 1] = s[(i + 1) + 1] /\ u[i] = s[i + 1] /\ i + 1 \in 1 .. n
    BY <1>1
  <2> QED
    BY <1>3, <2>1
<1>9. \A i \in 1 .. n : next <= u[i].seq /\ u[i].seq + Step(u[i]) <= hi
  <2> SUFFICES ASSUME NEW i \in 1 .. n
               PROVE  next <= u[i].seq /\ u[i].seq + Step(u[i]) <= hi
    OBVIOUS
  <2>1. u[i] = s[i + 1] /\ i + 1 \in 1 .. n + 1 /\ 1 < i + 1
    BY <1>1
  <2> QED
    BY <1>3, <1>4, <1>5, <2>1
<1>10. \A i, j \in 1 .. n : i < j => u[i].seq + Step(u[i]) <= u[j].seq
  <2> SUFFICES ASSUME NEW i \in 1 .. n, NEW j \in 1 .. n, i < j
               PROVE  u[i].seq + Step(u[i]) <= u[j].seq
    OBVIOUS
  <2>1. u[i] = s[i + 1] /\ u[j] = s[j + 1] /\ i + 1 < j + 1
        /\ i + 1 \in 1 .. n + 1 /\ j + 1 \in 1 .. n + 1
    BY <1>1
  <2> QED
    BY <1>3, <2>1
<1>11. Head(s).seq = lo
  BY <1>1, <1>3
<1> QED
  BY <1>1, <1>5, <1>6, <1>7, <1>8, <1>9, <1>10, <1>11 DEF Chained, u

-----------------------------------------------------------------------------
(* The direction from p to its peer.                                       *)

\* What a frame of p says of its place in the sequence of transfers.
Announced(p, f) ==
  /\ f.type = "flow" => f.next_outgoing_id = WrappingAdd(InitialId[p], f.seq)
  /\ f.type = "transfer" => f.no = f.seq + 1

AllAnnounced(p, s) == \A i \in 1 .. Len(s) : Announced(p, s[i])

\* The transfers s are the ones handed over from number n on.
Numbered(s, n) == \A i \in 1 .. Len(s) : s[i].seq = n + (i - 1)

\* Both ends count alike, and the transfers chain up: those received, those on the
\* wire, those held back and those in the links' channel are numbered without a gap.
Sync(p) ==
  /\ next_outgoing_id[p] = WrappingAdd(InitialId[p], sent[p])
  /\ next_incoming_id[Other(p)] = WrappingAdd(InitialId[p], received[Other(p)])
  /\ Chained(wire[p], received[Other(p)], sent[p])
  /\ AllAnnounced(p, wire[p])
  /\ Numbered(exhausted_buffer[p], sent[p])
  /\ Chained(link_frames[p], sent[p] + Len(exhausted_buffer[p]), handed[p])

SyncInv == \A p \in Peer : Sync(p)

\* Every frame has a number.
LEMMA FrameSeqs ==
  /\ \A f \in Frame : f.seq \in Nat
  /\ \A f \in LinkTransfer \cup LinkFlow : f.seq \in Nat
BY FrameKinds DEF LinkTransfer, LinkFlow

\* Frames appended to a wire continue its chain.
LEMMA WireAppend ==
  ASSUME NEW p, NEW s \in Seq(Frame), NEW t \in Seq(Frame),
         NEW lo \in Nat, NEW mid \in Nat, NEW hi \in Nat,
         Chained(s, lo, mid), AllAnnounced(p, s), Chained(t, mid, hi), AllAnnounced(p, t)
  PROVE  Chained(s \o t, lo, hi) /\ AllAnnounced(p, s \o t)
<1>1. Chained(s \o t, lo, hi)
  BY FrameSeqs, ChainedConcat
<1>2. AllAnnounced(p, s \o t)
  <2> SUFFICES ASSUME NEW i \in 1 .. Len(s \o t) PROVE Announced(p, (s \o t)[i])
    BY DEF AllAnnounced
  <2>1. Len(s) \in Nat /\ Len(t) \in Nat /\ Len(s \o t) = Len(s) + Len(t)
    OBVIOUS
  <2>2. CASE i <= Len(s)
    <3>1. (s \o t)[i] = s[i] /\ i \in 1 .. Len(s)
      BY <2>1, <2>2
    <3> QED
      BY <3>1 DEF AllAnnounced
  <2>3. CASE i > Len(s)
    <3>1. (s \o t)[i] = t[i - Len(s)] /\ i - Len(s) \in 1 .. Len(t)
      BY <2>1, <2>3
    <3> QED
      BY <3>1 DEF AllAnnounced
  <2> QED
    BY <2>1, <2>2, <2>3
<1> QED
  BY <1>1, <1>2

\* Taking the first frame off a wire.
LEMMA WireTail ==
  ASSUME NEW p, NEW s \in Seq(Frame), s # <<>>, NEW lo \in Nat, NEW hi \in Nat,
         Chained(s, lo, hi), AllAnnounced(p, s)
  PROVE  /\ Head(s).seq = lo /\ Announced(p, Head(s))
         /\ Chained(Tail(s), lo + Step(Head(s)), hi) /\ AllAnnounced(p, Tail(s))
<1>1. Head(s).seq = lo /\ Chained(Tail(s), lo + Step(Head(s)), hi)
  BY FrameSeqs, ChainedTail
<1>2. /\ Len(s) \in Nat /\ Len(s) > 0 /\ Len(Tail(s)) = Len(s) - 1
      /\ \A i \in 1 .. Len(s) - 1 : Tail(s)[i] = s[i + 1]
      /\ Head(s) = s[1]
  OBVIOUS
<1>3. Announced(p, Head(s))
  BY <1>2 DEF AllAnnounced
<1>4. AllAnnounced(p, Tail(s))
  <2> SUFFICES ASSUME NEW i \in 1 .. Len(Tail(s)) PROVE Announced(p, Tail(s)[i])
    BY DEF AllAnnounced
  <2>1. Tail(s)[i] = s[i + 1] /\ i + 1 \in 1 .. Len(s)
    BY <1>2
  <2> QED
    BY <2>1 DEF AllAnnounced
<1> QED
  BY <1>1, <1>3, <1>4

\* The transfers put on the wire continue the chain.
LEMMA TransferFramesChained ==
  ASSUME TypeOK, NEW p \in Peer, NEW s \in Seq(LinkTransfer), NEW n \in 0 .. Len(s),
         Numbered(s, sent[p])
  PROVE  /\ Chained(TransferFrames(p, s, n), sent[p], sent[p] + n)
         /\ AllAnnounced(p, TransferFrames(p, s, n))
<1> DEFINE t == TransferFrames(p, s, n)
<1>0. Len(t) = n
  BY TransferFramesType
<1>1. Len(t) = n /\ n \in Nat /\ sent[p] \in Nat /\ Len(s) \in Nat
  <2> HIDE DEF t
  <2> QED BY <1>0 DEF TypeOK
<1>2. \A i \in 1 .. n : t[i].type = "transfer" /\ t[i].seq = sent[p] + (i - 1)
                        /\ t[i].no = s[i].seq + 1
  <2> SUFFICES ASSUME NEW i \in 1 .. n
               PROVE  t[i].type = "transfer" /\ t[i].seq = sent[p] + (i - 1)
                      /\ t[i].no = s[i].seq + 1
    OBVIOUS
  <2> DEFINE d == IF s[i].first
                  THEN WrappingAdd(next_outgoing_delivery_id[p], FirstsIn(s, i - 1))
                  ELSE NoId
  <2>1. t[i] = [type |-> "transfer", delivery_id |-> d, first |-> s[i].first,
                no |-> s[i].seq + 1, delivery |-> s[i].delivery, seq |-> sent[p] + (i - 1)]
    BY DEF TransferFrames
  <2> HIDE DEF d, t
  <2> QED
    BY <2>1
<1>3. \A i \in 1 .. n : Step(t[i]) = 1
  BY <1>2 DEF Step
<1>4. \A i \in 1 .. n : s[i].seq = sent[p] + (i - 1)
  BY <1>1 DEF Numbered
<1> HIDE DEF t
<1>5. Chained(t, sent[p], sent[p] + n)
  BY <1>1, <1>2, <1>3 DEF Chained
<1>6. AllAnnounced(p, t)
  BY <1>1, <1>2, <1>4 DEF AllAnnounced, Announced
<1> QED
  BY <1>5, <1>6 DEF t

\* A flow or an End sits at its place in the chain.
LEMMA MarkChained ==
  ASSUME TypeOK, NEW p \in Peer, NEW f \in Frame, f.seq = sent[p],
         f.type # "transfer", Announced(p, f)
  PROVE  <<f>> \in Seq(Frame) /\ Chained(<<f>>, sent[p], sent[p]) /\ AllAnnounced(p, <<f>>)
<1>1. f.seq \in Nat /\ Step(f) = 0
  BY FrameSeqs DEF Step
<1>2. Chained(<<f>>, f.seq, f.seq + Step(f))
  BY <1>1, ChainedOne
<1>3. f.seq + Step(f) = sent[p]
  BY <1>1
<1>4. AllAnnounced(p, <<f>>)
  BY DEF AllAnnounced
<1> QED
  BY <1>2, <1>3, <1>4

\* What Release does to the direction from p, and that it leaves the other alone.
LEMMA ReleaseSync ==
  ASSUME TypeOK, NEW p \in Peer, NEW frames \in [Peer -> Seq(Frame)],
         NEW w \in Id, NEW pending \in Seq(LinkTransfer), NEW lo \in Nat,
         Release(p, frames, w, pending),
         next_outgoing_id[p] = WrappingAdd(InitialId[p], sent[p]),
         Chained(frames[p], lo, sent[p]), AllAnnounced(p, frames[p]),
         Numbered(pending, sent[p])
  PROVE  /\ next_outgoing_id'[p] = WrappingAdd(InitialId[p], sent'[p])
         /\ Chained(wire'[p], lo, sent'[p]) /\ AllAnnounced(p, wire'[p])
         /\ Numbered(exhausted_buffer'[p], sent'[p])
         /\ sent'[p] + Len(exhausted_buffer'[p]) = sent[p] + Len(pending)
         /\ \A q \in Peer \ {p} :
              /\ wire'[q] = frames[q] /\ exhausted_buffer'[q] = exhausted_buffer[q]
              /\ next_outgoing_id'[q] = next_outgoing_id[q] /\ sent'[q] = sent[q]
<1> DEFINE n == Least(w, Len(pending))
           t == TransferFrames(p, pending, n)
<1>1. n \in 0 .. Len(pending) /\ Len(pending) \in Nat
  <2>1. w \in Nat /\ Len(pending) \in Nat
    BY IdNat
  <2> QED
    BY <2>1, ReleasedType, Zenon
<1>2. t \in Seq(Frame)
  <2>1. t \in Seq(Transfer)
    BY <1>1, TransferFramesType
  <2> HIDE DEF t
  <2> QED
    BY <2>1 DEF Frame
<1>3. Chained(t, sent[p], sent[p] + n) /\ AllAnnounced(p, t)
  BY <1>1, TransferFramesChained
<1>4. sent[p] \in Nat /\ sent[p] + n \in Nat /\ n \in Nat
  BY <1>1 DEF TypeOK
<1>5. /\ wire' = [frames EXCEPT ![p] = @ \o t]
      /\ exhausted_buffer' = [exhausted_buffer EXCEPT ![p] = SubSeq(pending, n + 1, Len(pending))]
      /\ next_outgoing_id' = [next_outgoing_id EXCEPT ![p] = WrappingAdd(@, n)]
      /\ sent' = [sent EXCEPT ![p] = @ + n]
  BY DEF Release
<1> HIDE DEF t, n
<1>6. /\ wire'[p] = frames[p] \o t
      /\ exhausted_buffer'[p] = SubSeq(pending, n + 1, Len(pending))
      /\ next_outgoing_id'[p] = WrappingAdd(next_outgoing_id[p], n)
      /\ sent'[p] = sent[p] + n
  BY <1>5 DEF TypeOK
<1>7. Chained(wire'[p], lo, sent'[p]) /\ AllAnnounced(p, wire'[p])
  <2>1. frames[p] \in Seq(Frame)
    OBVIOUS
  <2> QED
    BY <1>2, <1>3, <1>4, <1>6, <2>1, WireAppend
<1>8. next_outgoing_id'[p] = WrappingAdd(InitialId[p], sent'[p])
  <2>0. InitialId[p] \in Nat
    BY IdAssumption, ModulusAssumption DEF Id
  <2>1. InitialId[p] + sent[p] \in Nat
    BY <1>4, <2>0
  <2>2. Modulus \in Nat /\ Modulus > 0
    BY ModulusAssumption
  <2>3. (((InitialId[p] + sent[p]) % Modulus) + n) % Modulus
          = ((InitialId[p] + sent[p]) + n) % Modulus
    BY <1>4, <2>1, <2>2, ModAdd
  <2>4. (InitialId[p] + sent[p]) + n = InitialId[p] + (sent[p] + n)
    BY <1>4, <2>0
  <2> QED
    BY <1>6, <2>3, <2>4 DEF WrappingAdd
<1>9. /\ Len(exhausted_buffer'[p]) = Len(pending) - n
      /\ \A i \in 1 .. Len(pending) - n : exhausted_buffer'[p][i] = pending[n + i]
  BY <1>1, <1>6
<1>10. Numbered(exhausted_buffer'[p], sent'[p])
  <2> SUFFICES ASSUME NEW i \in 1 .. Len(pending) - n
               PROVE  exhausted_buffer'[p][i].seq = sent'[p] + (i - 1)
    BY <1>9 DEF Numbered
  <2>1. n + i \in 1 .. Len(pending)
    BY <1>1
  <2>2. pending[n + i].seq = sent[p] + ((n + i) - 1)
    BY <2>1 DEF Numbered
  <2>3. exhausted_buffer'[p][i] = pending[n + i] /\ sent'[p] = sent[p] + n
    BY <1>6, <1>9
  <2>4. i \in Nat
    BY <1>1
  <2>5. sent[p] + ((n + i) - 1) = (sent[p] + n) + (i - 1)
    BY <1>4, <2>4
  <2> QED
    BY <2>2, <2>3, <2>5
<1>11. sent'[p] + Len(exhausted_buffer'[p]) = sent[p] + Len(pending)
  BY <1>1, <1>4, <1>6, <1>9
<1>12. ASSUME NEW q \in Peer \ {p}
       PROVE  /\ wire'[q] = frames[q] /\ exhausted_buffer'[q] = exhausted_buffer[q]
              /\ next_outgoing_id'[q] = next_outgoing_id[q] /\ sent'[q] = sent[q]
  BY <1>5, <1>12 DEF TypeOK
<1> QED
  BY <1>7, <1>8, <1>10, <1>11, <1>12

\* The parts of Sync after a step.
LEMMA SyncBuild ==
  ASSUME NEW q \in Peer,
         next_outgoing_id'[q] = WrappingAdd(InitialId[q], sent'[q]),
         next_incoming_id'[Other(q)] = WrappingAdd(InitialId[q], received'[Other(q)]),
         Chained(wire'[q], received'[Other(q)], sent'[q]),
         AllAnnounced(q, wire'[q]),
         Numbered(exhausted_buffer'[q], sent'[q]),
         Chained(link_frames'[q], sent'[q] + Len(exhausted_buffer'[q]), handed'[q])
  PROVE  Sync(q)'
<1>1. Chained(wire[q], received[Other(q)], sent[q])'
  BY DEF Chained, Step, Other
<1>2. AllAnnounced(q, wire[q])'
  BY DEF AllAnnounced, Announced, WrappingAdd
<1>3. Numbered(exhausted_buffer[q], sent[q])'
  BY DEF Numbered
<1>4. Chained(link_frames[q], sent[q] + Len(exhausted_buffer[q]), handed[q])'
  BY DEF Chained, Step
<1>5. (next_outgoing_id[q] = WrappingAdd(InitialId[q], sent[q]))'
      /\ (next_incoming_id[Other(q)] = WrappingAdd(InitialId[q], received[Other(q)]))'
  BY DEF WrappingAdd, Other
<1> QED
  BY <1>1, <1>2, <1>3, <1>4, <1>5 DEF Sync

\* A direction nothing happens in.
LEMMA SyncKept ==
  ASSUME NEW q \in Peer, Sync(q),
         next_outgoing_id'[q] = next_outgoing_id[q],
         next_incoming_id'[Other(q)] = next_incoming_id[Other(q)],
         received'[Other(q)] = received[Other(q)],
         sent'[q] = sent[q], wire'[q] = wire[q],
         exhausted_buffer'[q] = exhausted_buffer[q],
         link_frames'[q] = link_frames[q], handed'[q] = handed[q]
  PROVE  Sync(q)'
BY SyncBuild DEF Sync

\* A direction in which p only puts flows or an End on the wire.
LEMMA SyncMark ==
  ASSUME TypeOK, NEW p \in Peer, Sync(p), NEW t \in Seq(Frame),
         Chained(t, sent[p], sent[p]), AllAnnounced(p, t), wire'[p] = wire[p] \o t,
         next_outgoing_id'[p] = next_outgoing_id[p],
         next_incoming_id'[Other(p)] = next_incoming_id[Other(p)],
         received'[Other(p)] = received[Other(p)],
         sent'[p] = sent[p], exhausted_buffer'[p] = exhausted_buffer[p],
         Chained(link_frames'[p], sent[p] + Len(exhausted_buffer[p]), handed'[p])
  PROVE  Sync(p)'
<1>1. wire[p] \in Seq(Frame) /\ sent[p] \in Nat /\ received[Other(p)] \in Nat
  BY PeerFacts DEF TypeOK
<1>2. Chained(wire'[p], received[Other(p)], sent[p]) /\ AllAnnounced(p, wire'[p])
  BY <1>1, WireAppend DEF Sync
<1> QED
  BY <1>2, SyncBuild DEF Sync

\* The direction to p, when p takes a frame and counts it.
LEMMA SyncTake ==
  ASSUME TypeOK, NEW p \in Peer, Sync(Other(p)), wire[Other(p)] # <<>>,
         wire'[Other(p)] = Tail(wire[Other(p)]),
         received'[p] = received[p] + Step(Head(wire[Other(p)])),
         next_incoming_id'[p] = WrappingAdd(InitialId[Other(p)], received'[p]),
         next_outgoing_id'[Other(p)] = next_outgoing_id[Other(p)],
         sent'[Other(p)] = sent[Other(p)],
         exhausted_buffer'[Other(p)] = exhausted_buffer[Other(p)],
         link_frames'[Other(p)] = link_frames[Other(p)],
         handed'[Other(p)] = handed[Other(p)]
  PROVE  Sync(Other(p))'
<1> DEFINE q == Other(p)
<1>1. q \in Peer /\ Other(q) = p
  BY PeerFacts
<1>2. wire[q] \in Seq(Frame) /\ sent[q] \in Nat /\ received[p] \in Nat
  BY <1>1 DEF TypeOK
<1>3. Chained(wire[q], received[p], sent[q]) /\ AllAnnounced(q, wire[q])
  BY <1>1 DEF Sync
<1> HIDE DEF q
<1>4. Chained(wire'[q], received'[p], sent'[q]) /\ AllAnnounced(q, wire'[q])
  BY <1>2, <1>3, WireTail, SMTT(30) DEF q
<1>5. Sync(q)
  BY DEF q
<1>6. Sync(q)'
  <2>1. next_outgoing_id'[q] = WrappingAdd(InitialId[q], sent'[q])
        /\ Numbered(exhausted_buffer'[q], sent'[q])
        /\ Chained(link_frames'[q], sent'[q] + Len(exhausted_buffer'[q]), handed'[q])
    BY <1>5 DEF Sync, q
  <2>2. next_incoming_id'[p] = WrappingAdd(InitialId[q], received'[p])
    BY DEF q
  <2> QED
    BY <1>1, <1>4, <2>1, <2>2, SyncBuild
<1> QED
  BY <1>6 DEF q

-----------------------------------------------------------------------------
(* Every step keeps both directions in step.                               *)

\* Append is concatenation.
LEMMA AppendConcat ==
  ASSUME NEW S, NEW s \in Seq(S), NEW e \in S
  PROVE  /\ Append(s, e) = s \o <<e>> /\ Append(s, e) \in Seq(S)
         /\ Len(Append(s, e)) = Len(s) + 1 /\ Append(s, e)[Len(s) + 1] = e
         /\ \A i \in 1 .. Len(s) : Append(s, e)[i] = s[i]
OBVIOUS

\* A link appends a frame to its channel.
LEMMA SyncHandOver ==
  ASSUME TypeOK, SyncInv, NEW p \in Peer, NEW f \in LinkTransfer \cup LinkFlow,
         f.seq = handed[p], handed' = [handed EXCEPT ![p] = @ + Step(f)],
         link_frames' = [link_frames EXCEPT ![p] = Append(@, f)],
         UNCHANGED <<next_outgoing_id, next_incoming_id, exhausted_buffer, wire, sent,
                     received>>
  PROVE  SyncInv'
<1>1. Step(f) \in 0 .. 1 /\ handed[p] \in Nat /\ sent[p] + Len(exhausted_buffer[p]) \in Nat
  BY DEF Step, TypeOK
<1>2. /\ link_frames[p] \in Seq(LinkTransfer \cup LinkFlow)
      /\ link_frames'[p] = link_frames[p] \o <<f>>
      /\ handed'[p] = handed[p] + Step(f) /\ handed[p] + Step(f) \in Nat
  <2>1. link_frames[p] \in Seq(LinkTransfer \cup LinkFlow)
        /\ link_frames'[p] = Append(link_frames[p], f)
    BY DEF TypeOK
  <2>2. handed'[p] = handed[p] + Step(f) /\ handed[p] + Step(f) \in Nat
    BY <1>1 DEF TypeOK
  <2> QED
    BY <2>1, <2>2, AppendConcat
<1>3. Chained(link_frames'[p], sent[p] + Len(exhausted_buffer[p]), handed'[p])
  <2>1. Chained(<<f>>, handed[p], handed[p] + Step(f))
    BY <1>1, ChainedOne
  <2>2. Chained(link_frames[p], sent[p] + Len(exhausted_buffer[p]), handed[p])
    BY DEF SyncInv, Sync
  <2>3. <<f>> \in Seq(LinkTransfer \cup LinkFlow)
    OBVIOUS
  <2>4. Chained(link_frames[p] \o <<f>>, sent[p] + Len(exhausted_buffer[p]),
                handed[p] + Step(f))
    BY <1>1, <1>2, <2>1, <2>2, <2>3, FrameSeqs, ChainedConcat, ZenonT(30)
  <2> QED
    BY <1>2, <2>4
<1>4. Sync(p)'
  BY <1>3, SyncBuild DEF SyncInv, Sync
<1>5. ASSUME NEW q \in Peer, q # p PROVE Sync(q)'
  BY <1>5, SyncKept DEF SyncInv, TypeOK
<1> QED
  BY <1>4, <1>5 DEF SyncInv

\* A link's transfer is sent or joins those held back.
LEMMA SyncOutgoingTransfer ==
  ASSUME TypeOK, SyncInv, NEW p \in Peer, OnOutgoingTransfer(p)
  PROVE  SyncInv'
<1> DEFINE f == Head(link_frames[p])
           pending == Append(exhausted_buffer[p], f)
           n == Len(exhausted_buffer[p])
<1>0. link_frames[p] # <<>> /\ f.type = "transfer"
  BY DEF OnOutgoingTransfer
<1>1. /\ link_frames[p] \in Seq(LinkTransfer \cup LinkFlow)
      /\ exhausted_buffer[p] \in Seq(LinkTransfer)
      /\ sent[p] \in Nat /\ n \in Nat /\ handed[p] \in Nat /\ received[Other(p)] \in Nat
      /\ wire \in [Peer -> Seq(Frame)] /\ remote_incoming_window[p] \in Id
  <2> HIDE DEF f, pending
  <2> QED BY PeerFacts, SMTT(30) DEF TypeOK
<1>2. f \in LinkTransfer
  BY <1>0, <1>1 DEF LinkFlow
<1> HIDE DEF n
<1>3. f.seq = sent[p] + n /\ Chained(Tail(link_frames[p]), (sent[p] + n) + 1, handed[p])
  <2>1. Chained(link_frames[p], sent[p] + n, handed[p])
    BY DEF SyncInv, Sync, n
  <2>2. sent[p] + n \in Nat
    BY <1>1
  <2>3. Step(f) = 1
    BY <1>0 DEF Step
  <2>4. Head(link_frames[p]).seq = sent[p] + n
        /\ Chained(Tail(link_frames[p]), (sent[p] + n) + Step(Head(link_frames[p])), handed[p])
    BY <1>0, <1>1, <2>1, <2>2, FrameSeqs, ChainedTail
  <2> QED
    BY <2>3, <2>4
<1> HIDE DEF f
<1>4. pending \in Seq(LinkTransfer) /\ Len(pending) = n + 1
  BY <1>1, <1>2, AppendConcat DEF n
<1>5. Numbered(pending, sent[p])
  <2>1. \A i \in 1 .. n : pending[i] = exhausted_buffer[p][i]
    BY <1>1, <1>2, AppendConcat DEF n
  <2>2. pending[n + 1] = f
    BY <1>1, <1>2, AppendConcat DEF n
  <2>3. \A i \in 1 .. n : exhausted_buffer[p][i].seq = sent[p] + (i - 1)
    BY DEF SyncInv, Sync, Numbered, n
  <2> HIDE DEF pending
  <2> SUFFICES ASSUME NEW i \in 1 .. n + 1 PROVE pending[i].seq = sent[p] + (i - 1)
    BY <1>4 DEF Numbered
  <2>4. CASE i \in 1 .. n
    BY <2>1, <2>3, <2>4
  <2>5. CASE i = n + 1
    <3>1. i - 1 = n
      BY <1>1, <2>5
    <3> QED
      BY <1>3, <2>2, <2>5, <3>1
  <2> QED
    BY <1>1, <2>4, <2>5
<1>6. Release(p, wire, remote_incoming_window[p], pending)
  BY DEF OnOutgoingTransfer, f
<1>7. UNCHANGED <<next_incoming_id, handed, received>>
      /\ link_frames' = [link_frames EXCEPT ![p] = Tail(@)]
  BY DEF OnOutgoingTransfer
<1> HIDE DEF pending
<1>8. next_outgoing_id[p] = WrappingAdd(InitialId[p], sent[p])
      /\ Chained(wire[p], received[Other(p)], sent[p]) /\ AllAnnounced(p, wire[p])
      /\ next_incoming_id[Other(p)] = WrappingAdd(InitialId[p], received[Other(p)])
  BY DEF SyncInv, Sync
<1>9. /\ next_outgoing_id'[p] = WrappingAdd(InitialId[p], sent'[p])
      /\ Chained(wire'[p], received[Other(p)], sent'[p]) /\ AllAnnounced(p, wire'[p])
      /\ Numbered(exhausted_buffer'[p], sent'[p])
      /\ sent'[p] + Len(exhausted_buffer'[p]) = sent[p] + Len(pending)
      /\ \A q \in Peer \ {p} :
           /\ wire'[q] = wire[q] /\ exhausted_buffer'[q] = exhausted_buffer[q]
           /\ next_outgoing_id'[q] = next_outgoing_id[q] /\ sent'[q] = sent[q]
  BY <1>1, <1>4, <1>5, <1>6, <1>8, ReleaseSync
<1>10. Sync(p)'
  <2>1. link_frames'[p] = Tail(link_frames[p]) /\ handed'[p] = handed[p]
        /\ received' = received /\ next_incoming_id' = next_incoming_id
    BY <1>7 DEF TypeOK
  <2>2. sent'[p] + Len(exhausted_buffer'[p]) = (sent[p] + n) + 1
    <3>1. sent'[p] + Len(exhausted_buffer'[p]) = sent[p] + Len(pending)
      BY <1>9
    <3>2. sent[p] + Len(pending) = (sent[p] + n) + 1
      <4>1. sent[p] \in Nat /\ n \in Nat
        BY <1>1
      <4>2. Len(pending) = n + 1
        BY <1>4
      <4> QED
        BY <4>1, <4>2
    <3> QED
      BY <3>1, <3>2
  <2> QED
    BY <1>3, <1>8, <1>9, <2>1, <2>2, SyncBuild
<1>11. ASSUME NEW q \in Peer, q # p PROVE Sync(q)'
  BY <1>7, <1>9, <1>11, SyncKept DEF SyncInv, TypeOK
<1> QED
  BY <1>10, <1>11 DEF SyncInv

\* A flow that p builds is at its place in the chain, and says so.
LEMMA FlowMark ==
  ASSUME TypeOK, NEW p \in Peer, Sync(p), NEW nii \in Id, NEW echo \in BOOLEAN
  PROVE  /\ FlowFrame(p, nii, echo) \in Frame
         /\ <<FlowFrame(p, nii, echo)>> \in Seq(Frame)
         /\ Chained(<<FlowFrame(p, nii, echo)>>, sent[p], sent[p])
         /\ AllAnnounced(p, <<FlowFrame(p, nii, echo)>>)
<1> DEFINE f == FlowFrame(p, nii, echo)
<1>1. f \in Frame
  <2>1. f \in Flow
    BY FlowFrameType, Zenon
  <2> HIDE DEF f
  <2> QED
    BY <2>1 DEF Frame
<1>2. f.seq = sent[p] /\ f.type = "flow" /\ f.next_outgoing_id = next_outgoing_id[p]
  BY DEF FlowFrame
<1> HIDE DEF f
<1>3. Announced(p, f)
  BY <1>2 DEF Announced, Sync
<1>4. <<f>> \in Seq(Frame) /\ Chained(<<f>>, sent[p], sent[p]) /\ AllAnnounced(p, <<f>>)
  <2>1. f.type # "transfer"
    BY <1>2
  <2> QED
    BY <1>1, <1>2, <1>3, <2>1, MarkChained
<1> QED
  BY <1>1, <1>4 DEF f

\* So is an End.
LEMMA EndMark ==
  ASSUME TypeOK, NEW p \in Peer
  PROVE  /\ EndFrame(p) \in Frame /\ <<EndFrame(p)>> \in Seq(Frame)
         /\ Chained(<<EndFrame(p)>>, sent[p], sent[p])
         /\ AllAnnounced(p, <<EndFrame(p)>>)
<1> DEFINE f == EndFrame(p)
<1>1. f \in Frame
  BY DEF EndFrame, Frame, End, TypeOK
<1>2. f.seq = sent[p] /\ f.type = "end"
  BY DEF EndFrame
<1> HIDE DEF f
<1>3. f.type # "transfer" /\ Announced(p, f)
  BY <1>2 DEF Announced
<1>4. <<f>> \in Seq(Frame) /\ Chained(<<f>>, sent[p], sent[p]) /\ AllAnnounced(p, <<f>>)
  BY <1>1, <1>2, <1>3, MarkChained
<1> QED
  BY <1>1, <1>4 DEF f

\* Nothing is a chain from anywhere to the same place.
LEMMA NoMark ==
  ASSUME TypeOK, NEW p \in Peer
  PROVE  <<>> \in Seq(Frame) /\ Chained(<<>>, sent[p], sent[p]) /\ AllAnnounced(p, <<>>)
<1>1. sent[p] \in Nat
  BY DEF TypeOK
<1> QED
  BY <1>1, ChainedEmpty DEF AllAnnounced

\* A link's flow goes out.
LEMMA SyncOutgoingFlow ==
  ASSUME TypeOK, SyncInv, NEW p \in Peer, OnOutgoingFlow(p)
  PROVE  SyncInv'
<1> DEFINE f == Head(link_frames[p])
           t == <<FlowFrame(p, next_incoming_id[p], f.echo)>>
           base == sent[p] + Len(exhausted_buffer[p])
<1>1. link_frames[p] # <<>> /\ f.type = "flow"
  BY DEF OnOutgoingFlow
<1>2. /\ link_frames[p] \in Seq(LinkTransfer \cup LinkFlow) /\ wire[p] \in Seq(Frame)
      /\ base \in Nat /\ handed[p] \in Nat /\ next_incoming_id[p] \in Id
  BY DEF TypeOK
<1>3. f.echo \in BOOLEAN
  BY <1>1, <1>2 DEF LinkTransfer, LinkFlow
<1> HIDE DEF f, base
<1>4. /\ FlowFrame(p, next_incoming_id[p], f.echo) \in Frame
      /\ t \in Seq(Frame) /\ Chained(t, sent[p], sent[p]) /\ AllAnnounced(p, t)
  BY <1>2, <1>3, FlowMark, Zenon DEF SyncInv
<1>5. Chained(Tail(link_frames[p]), base, handed[p])
  <2>1. Chained(link_frames[p], base, handed[p])
    BY DEF SyncInv, Sync, base
  <2>2. Step(Head(link_frames[p])) = 0
    BY <1>1 DEF Step, f
  <2>3. Chained(Tail(link_frames[p]), base + Step(Head(link_frames[p])), handed[p])
    BY <1>1, <1>2, <2>1, FrameSeqs, ChainedTail
  <2>4. base + 0 = base
    BY <1>2
  <2> QED
    BY <2>2, <2>3, <2>4
<1>6. /\ wire' = [wire EXCEPT ![p] = Append(@, FlowFrame(p, next_incoming_id[p], f.echo))]
      /\ link_frames' = [link_frames EXCEPT ![p] = Tail(@)]
      /\ UNCHANGED <<next_outgoing_id, next_incoming_id, exhausted_buffer, handed, sent,
                     received>>
  BY DEF OnOutgoingFlow, f
<1> DEFINE frame == FlowFrame(p, next_incoming_id[p], f.echo)
<1> HIDE DEF frame
<1>7. wire'[p] = wire[p] \o t /\ link_frames'[p] = Tail(link_frames[p])
  <2>1. wire'[p] = Append(wire[p], frame)
    BY <1>6 DEF TypeOK, frame
  <2>2. frame \in Frame /\ t = <<frame>>
    BY <1>4 DEF frame
  <2>3. link_frames'[p] = Tail(link_frames[p])
    BY <1>6 DEF TypeOK
  <2> HIDE DEF t
  <2> QED
    BY <1>2, <2>1, <2>2, <2>3, AppendConcat
<1> HIDE DEF t
<1>8. Sync(p)'
  BY <1>4, <1>5, <1>6, <1>7, SyncMark DEF SyncInv, base
<1>9. ASSUME NEW q \in Peer, q # p PROVE Sync(q)'
  BY <1>6, <1>9, SyncKept DEF SyncInv, TypeOK
<1> QED
  BY <1>8, <1>9 DEF SyncInv

\* The wires after a frame is taken off one and others are put on the other.
LEMMA WireSplit ==
  ASSUME TypeOK, NEW p \in Peer, NEW t
  PROVE  /\ [Rest(p) EXCEPT ![p] = @ \o t][p] = wire[p] \o t
         /\ [Rest(p) EXCEPT ![p] = @ \o t][Other(p)] = Tail(wire[Other(p)])
BY PeerFacts DEF TypeOK, Rest

\* Two endpoints are all.
LEMMA BothPeers ==
  ASSUME NEW p \in Peer, Sync(p)', Sync(Other(p))'
  PROVE  SyncInv'
<1> SUFFICES ASSUME NEW q \in Peer PROVE Sync(q)'
  BY DEF SyncInv
<1>1. q = p \/ q = Other(p)
  BY DEF Peer, Other
<1> QED
  BY <1>1

\* A flow of the peer is taken, echoed, and lets transfers go.
LEMMA SyncIncomingFlow ==
  ASSUME TypeOK, SyncInv, NEW p \in Peer, OnIncomingFlow(p)
  PROVE  SyncInv'
<1> DEFINE o == Other(p)
           flow == Head(wire[o])
           nii == flow.next_outgoing_id
           echo == IF flow.echo THEN <<FlowFrame(p, nii, FALSE)>> ELSE <<>>
           frames == [Rest(p) EXCEPT ![p] = @ \o echo]
           w == RemoteIncomingWindow(p, flow)
<1>1. o \in Peer /\ o # p /\ Other(o) = p /\ wire[o] # <<>> /\ flow.type = "flow"
  BY PeerFacts DEF OnIncomingFlow, Arrives
<1>2. wire[o] \in Seq(Frame) /\ sent[o] \in Nat /\ received[p] \in Nat /\ sent[p] \in Nat
      /\ wire[p] \in Seq(Frame) /\ received[o] \in Nat
      /\ exhausted_buffer[p] \in Seq(LinkTransfer)
  <2> HIDE DEF o
  <2> QED BY <1>1 DEF TypeOK
<1>3. flow.seq = received[p] /\ Announced(o, flow)
  <2>1. Chained(wire[o], received[p], sent[o]) /\ AllAnnounced(o, wire[o])
    BY <1>1 DEF SyncInv, Sync
  <2> QED
    BY <1>1, <1>2, <2>1, WireTail, ZenonT(30)
<1>4. nii = WrappingAdd(InitialId[o], received[p])
  BY <1>1, <1>3 DEF Announced
<1>5. flow \in Flow
  <2>1. flow \in Frame
    BY <1>1, <1>2
  <2> HIDE DEF flow
  <2> QED
    BY <1>1, <2>1, FrameKinds
<1>6. Release(p, frames, w, exhausted_buffer[p])
      /\ next_incoming_id' = [next_incoming_id EXCEPT ![p] = nii]
      /\ UNCHANGED <<link_frames, handed, received>>
  BY DEF OnIncomingFlow
<1>7. Step(flow) = 0
  BY <1>1 DEF Step
<1> HIDE DEF flow
<1>8. nii \in Id /\ w \in Id
  BY <1>5, RemoteIncomingWindowType DEF Flow
<1>9. echo \in Seq(Frame) /\ Chained(echo, sent[p], sent[p]) /\ AllAnnounced(p, echo)
  <2>1. Sync(p) /\ FALSE \in BOOLEAN
    BY DEF SyncInv
  <2>2. <<FlowFrame(p, nii, FALSE)>> \in Seq(Frame)
        /\ Chained(<<FlowFrame(p, nii, FALSE)>>, sent[p], sent[p])
        /\ AllAnnounced(p, <<FlowFrame(p, nii, FALSE)>>)
    BY <1>8, <2>1, FlowMark, Zenon
  <2>3. CASE flow.echo
    BY <2>2, <2>3, Zenon
  <2>4. CASE ~flow.echo
    BY <2>4, NoMark, Zenon
  <2> QED
    BY <2>3, <2>4
<1> HIDE DEF echo, w, nii
<1>10. /\ frames \in [Peer -> Seq(Frame)]
       /\ frames[p] = wire[p] \o echo /\ frames[o] = Tail(wire[o])
  BY <1>1, <1>9, WireStep, WireSplit
<1> HIDE DEF frames
<1>11. next_outgoing_id[p] = WrappingAdd(InitialId[p], sent[p])
       /\ Chained(wire[p], received[o], sent[p]) /\ AllAnnounced(p, wire[p])
       /\ Numbered(exhausted_buffer[p], sent[p])
       /\ next_incoming_id[o] = WrappingAdd(InitialId[p], received[o])
       /\ Chained(link_frames[p], sent[p] + Len(exhausted_buffer[p]), handed[p])
  BY DEF SyncInv, Sync
<1>12. Chained(frames[p], received[o], sent[p]) /\ AllAnnounced(p, frames[p])
  BY <1>2, <1>9, <1>10, <1>11, WireAppend
<1>13. /\ next_outgoing_id'[p] = WrappingAdd(InitialId[p], sent'[p])
       /\ Chained(wire'[p], received[o], sent'[p]) /\ AllAnnounced(p, wire'[p])
       /\ Numbered(exhausted_buffer'[p], sent'[p])
       /\ sent'[p] + Len(exhausted_buffer'[p]) = sent[p] + Len(exhausted_buffer[p])
       /\ \A q \in Peer \ {p} :
            /\ wire'[q] = frames[q] /\ exhausted_buffer'[q] = exhausted_buffer[q]
            /\ next_outgoing_id'[q] = next_outgoing_id[q] /\ sent'[q] = sent[q]
  BY <1>2, <1>6, <1>8, <1>10, <1>11, <1>12, ReleaseSync
<1>14. next_incoming_id'[p] = nii /\ next_incoming_id'[o] = next_incoming_id[o]
  BY <1>1, <1>6 DEF TypeOK
<1>15. Sync(p)'
  <2>1. received'[o] = received[o] /\ link_frames'[p] = link_frames[p]
        /\ handed'[p] = handed[p]
    BY <1>6
  <2> QED
    BY <1>11, <1>13, <1>14, <2>1, SyncBuild
<1>16. Sync(o)'
  <2>1. received'[p] = received[p] + Step(Head(wire[o]))
    BY <1>2, <1>6, <1>7 DEF flow
  <2>2. next_incoming_id'[p] = WrappingAdd(InitialId[o], received'[p])
    BY <1>4, <1>6, <1>14
  <2>3. wire'[o] = Tail(wire[o]) /\ exhausted_buffer'[o] = exhausted_buffer[o]
        /\ next_outgoing_id'[o] = next_outgoing_id[o] /\ sent'[o] = sent[o]
    BY <1>1, <1>10, <1>13
  <2>4. link_frames'[o] = link_frames[o] /\ handed'[o] = handed[o] /\ Sync(o)
    BY <1>1, <1>6 DEF SyncInv
  <2> QED
    BY <1>1, <2>1, <2>2, <2>3, <2>4, SyncTake
<1> QED
  BY <1>15, <1>16, BothPeers

\* A transfer of the peer is taken and counted, and may be answered by a flow.
LEMMA SyncIncomingTransfer ==
  ASSUME TypeOK, SyncInv, NEW p \in Peer, OnIncomingTransfer(p)
  PROVE  SyncInv'
<1> DEFINE o == Other(p)
           nii == WrappingAdd(next_incoming_id[p], 1)
           topUp == NeedsFlow(p, SaturatingAdd(need_flow_count[p], 1))
           t == IF topUp THEN <<FlowFrame(p, nii, FALSE)>> ELSE <<>>
<1>1. o \in Peer /\ o # p /\ Other(o) = p /\ wire[o] # <<>> /\ Head(wire[o]).type = "transfer"
  BY PeerFacts DEF OnIncomingTransfer, Arrives
<1>2. /\ wire' = [Rest(p) EXCEPT ![p] = @ \o t]
      /\ next_incoming_id' = [next_incoming_id EXCEPT ![p] = nii]
      /\ received' = [received EXCEPT ![p] = @ + 1]
      /\ UNCHANGED <<next_outgoing_id, exhausted_buffer, link_frames, handed, sent>>
  BY DEF OnIncomingTransfer
<1>3. nii \in Id
  <2>1. next_incoming_id[p] \in Nat
    BY IdNat DEF TypeOK
  <2> QED
    BY <2>1, WrapType
<1>4. received[p] \in Nat /\ received'[p] = received[p] + 1 /\ received'[o] = received[o]
      /\ next_incoming_id'[p] = nii /\ next_incoming_id'[o] = next_incoming_id[o]
  BY <1>1, <1>2 DEF TypeOK
<1>5. nii = WrappingAdd(InitialId[o], received[p] + 1)
  <2>1. next_incoming_id[p] = WrappingAdd(InitialId[o], received[p])
    BY <1>1 DEF SyncInv, Sync
  <2>2. InitialId[o] \in Nat /\ Modulus \in Nat /\ Modulus > 0
    BY <1>1, IdAssumption, ModulusAssumption DEF Id
  <2>3. InitialId[o] + received[p] \in Nat /\ 1 \in Nat
    BY <1>4, <2>2
  <2>4. (((InitialId[o] + received[p]) % Modulus) + 1) % Modulus
          = ((InitialId[o] + received[p]) + 1) % Modulus
    BY <2>2, <2>3, ModAdd
  <2>5. (InitialId[o] + received[p]) + 1 = InitialId[o] + (received[p] + 1)
    BY <1>4, <2>2
  <2> QED
    BY <2>1, <2>4, <2>5 DEF WrappingAdd
<1> HIDE DEF nii, topUp
<1>6. t \in Seq(Frame) /\ Chained(t, sent[p], sent[p]) /\ AllAnnounced(p, t)
  <2>1. Sync(p) /\ FALSE \in BOOLEAN
    BY DEF SyncInv
  <2>2. <<FlowFrame(p, nii, FALSE)>> \in Seq(Frame)
        /\ Chained(<<FlowFrame(p, nii, FALSE)>>, sent[p], sent[p])
        /\ AllAnnounced(p, <<FlowFrame(p, nii, FALSE)>>)
    BY <1>3, <2>1, FlowMark, Zenon
  <2>3. CASE topUp
    BY <2>2, <2>3, Zenon
  <2>4. CASE ~topUp
    BY <2>4, NoMark, Zenon
  <2> QED
    BY <2>3, <2>4
<1> HIDE DEF t
<1>7. wire'[p] = wire[p] \o t /\ wire'[o] = Tail(wire[o])
  BY <1>2, WireSplit
<1>8. Sync(p)'
  <2>1. Sync(p)
    BY DEF SyncInv
  <2>2. Chained(link_frames'[p], sent[p] + Len(exhausted_buffer[p]), handed'[p])
    BY <1>2, <2>1 DEF Sync
  <2> QED
    BY <1>2, <1>4, <1>6, <1>7, <2>1, <2>2, SyncMark
<1>9. Sync(o)'
  <2>1. Step(Head(wire[o])) = 1 /\ Sync(o)
    BY <1>1 DEF Step, SyncInv
  <2> QED
    BY <1>1, <1>2, <1>4, <1>5, <1>7, <2>1, SyncTake
<1> QED
  BY <1>8, <1>9, BothPeers

\* The End of the peer is taken, and answered by one.
LEMMA SyncIncomingEnd ==
  ASSUME TypeOK, SyncInv, NEW p \in Peer, OnIncomingEnd(p)
  PROVE  SyncInv'
<1> DEFINE o == Other(p)
           t == IF state[p] = "Mapped" THEN <<EndFrame(p)>> ELSE <<>>
<1>1. o \in Peer /\ o # p /\ Other(o) = p /\ wire[o] # <<>> /\ Head(wire[o]).type = "end"
  BY PeerFacts DEF OnIncomingEnd, Arrives
<1>2. /\ wire' = [Rest(p) EXCEPT ![p] = @ \o t]
      /\ UNCHANGED <<next_outgoing_id, next_incoming_id, exhausted_buffer, link_frames,
                     handed, sent, received>>
  BY DEF OnIncomingEnd
<1>3. t \in Seq(Frame) /\ Chained(t, sent[p], sent[p]) /\ AllAnnounced(p, t)
  <2>1. CASE state[p] = "Mapped"
    BY <2>1, EndMark, Zenon
  <2>2. CASE state[p] # "Mapped"
    BY <2>2, NoMark, Zenon
  <2> QED
    BY <2>1, <2>2
<1> HIDE DEF t
<1>4. wire'[p] = wire[p] \o t /\ wire'[o] = Tail(wire[o])
  BY <1>2, WireSplit
<1>5. Sync(p)'
  <2>1. Sync(p)
    BY DEF SyncInv
  <2>2. Chained(link_frames'[p], sent[p] + Len(exhausted_buffer[p]), handed'[p])
    BY <1>2, <2>1 DEF Sync
  <2> QED
    BY <1>2, <1>3, <1>4, <2>1, <2>2, SyncMark
<1>6. Sync(o)'
  <2>1. Step(Head(wire[o])) = 0 /\ Sync(o)
    BY <1>1 DEF Step, SyncInv
  <2>2. received'[p] = received[p] + Step(Head(wire[o]))
    BY <1>2, <2>1 DEF TypeOK
  <2>3. next_incoming_id'[p] = WrappingAdd(InitialId[o], received'[p])
    BY <1>1, <1>2, <2>1 DEF Sync
  <2> QED
    BY <1>1, <1>2, <1>4, <2>1, <2>2, <2>3, SyncTake
<1> QED
  BY <1>5, <1>6, BothPeers

\* The End of p goes out.
LEMMA SyncSendEnd ==
  ASSUME TypeOK, SyncInv, NEW p \in Peer, SendEnd(p)
  PROVE  SyncInv'
<1>1. /\ wire' = [wire EXCEPT ![p] = Append(@, EndFrame(p))]
      /\ UNCHANGED <<next_outgoing_id, next_incoming_id, exhausted_buffer, link_frames,
                     handed, sent, received>>
  BY DEF SendEnd
<1>2. wire'[p] = wire[p] \o <<EndFrame(p)>>
  <2>1. wire'[p] = Append(wire[p], EndFrame(p)) /\ wire[p] \in Seq(Frame)
    BY <1>1 DEF TypeOK
  <2> QED
    BY <2>1, EndMark, AppendConcat
<1>3. Sync(p)'
  <2>1. Sync(p)
    BY DEF SyncInv
  <2>2. Chained(link_frames'[p], sent[p] + Len(exhausted_buffer[p]), handed'[p])
    BY <1>1, <2>1 DEF Sync
  <2> QED
    BY <1>1, <1>2, <2>1, <2>2, EndMark, SyncMark
<1>4. ASSUME NEW q \in Peer, q # p PROVE Sync(q)'
  BY <1>1, <1>4, SyncKept DEF SyncInv, TypeOK
<1> QED
  BY <1>3, <1>4 DEF SyncInv

\* A step that touches neither counts nor channels.
LEMMA SyncStutter ==
  ASSUME SyncInv,
         UNCHANGED <<next_outgoing_id, next_incoming_id, exhausted_buffer, link_frames,
                     wire, handed, sent, received>>
  PROVE  SyncInv'
<1> SUFFICES ASSUME NEW q \in Peer PROVE Sync(q)'
  BY DEF SyncInv
<1> QED
  BY SyncKept DEF SyncInv

\* Initially.
LEMMA InitSync == Init => SyncInv
<1> SUFFICES ASSUME Init, NEW p \in Peer PROVE Sync(p)
  BY DEF SyncInv
<1>1. Other(p) \in Peer /\ Other(Other(p)) = p
  BY PeerFacts
<1>2. /\ sent[p] = 0 /\ received[Other(p)] = 0 /\ handed[p] = 0
      /\ exhausted_buffer[p] = <<>> /\ link_frames[p] = <<>>
      /\ next_outgoing_id[p] = InitialId[p] /\ next_incoming_id[Other(p)] = InitialId[p]
  BY <1>1 DEF Init
<1>3. WrappingAdd(InitialId[p], 0) = InitialId[p]
  <2>1. InitialId[p] \in 0 .. Modulus - 1 /\ Modulus \in Nat /\ Modulus > 0
    BY IdAssumption, ModulusAssumption DEF Id
  <2>2. (Modulus * 0 + InitialId[p]) % Modulus = InitialId[p]
    BY <2>1, ModUnique
  <2>3. Modulus * 0 + InitialId[p] = InitialId[p] + 0
    BY <2>1
  <2> QED
    BY <2>2, <2>3 DEF WrappingAdd
<1>4. Chained(wire[p], 0, 0) /\ AllAnnounced(p, wire[p])
  <2> DEFINE f == [type |-> "flow", next_incoming_id |-> NoId,
                   incoming_window |-> IncomingWindow[p],
                   next_outgoing_id |-> InitialId[p], echo |-> FALSE, seq |-> 0]
  <2>1. wire[p] = <<f>> \/ wire[p] = <<>>
    BY DEF Init
  <2>2. f.type = "flow" /\ f.seq = 0 /\ f.next_outgoing_id = InitialId[p]
    OBVIOUS
  <2> HIDE DEF f
  <2>3. CASE wire[p] = <<f>>
    <3>1. Step(f) = 0
      BY <2>2 DEF Step
    <3>2. Chained(<<f>>, f.seq, f.seq + Step(f))
      BY <2>2, ChainedOne
    <3>3. Announced(p, f)
      BY <1>3, <2>2 DEF Announced
    <3> QED
      BY <2>2, <2>3, <3>1, <3>2, <3>3 DEF AllAnnounced
  <2>4. CASE wire[p] = <<>>
    BY <2>4, ChainedEmpty DEF AllAnnounced
  <2> QED
    BY <2>1, <2>3, <2>4
<1>5. Chained(<<>>, 0, 0) /\ Numbered(<<>>, 0) /\ 0 + Len(<<>>) = 0
  BY ChainedEmpty DEF Numbered
<1> QED
  BY <1>2, <1>3, <1>4, <1>5 DEF Sync

\* Every step keeps both directions in step.
LEMMA NextSync == TypeOK /\ SyncInv /\ [Next]_vars => SyncInv'
<1> SUFFICES ASSUME TypeOK, SyncInv, [Next]_vars PROVE SyncInv'
  OBVIOUS
<1>1. ASSUME NEW p \in Peer, NEW first \in BOOLEAN, LinkSendTransfer(p, first)
      PROVE  SyncInv'
  <2> DEFINE d == deliveries'[p]
             f == [type |-> "transfer", first |-> first, seq |-> handed[p], delivery |-> d]
  <2>1. d \in Nat /\ handed[p] \in Nat
    BY <1>1 DEF LinkSendTransfer, TypeOK
  <2>2. link_frames' = [link_frames EXCEPT ![p] = Append(@, f)]
        /\ handed' = [handed EXCEPT ![p] = @ + 1]
    BY <1>1 DEF LinkSendTransfer
  <2> HIDE DEF d
  <2>3. f \in LinkTransfer /\ f.seq = handed[p] /\ Step(f) = 1
    BY <2>1 DEF LinkTransfer, Step
  <2> HIDE DEF f
  <2>4. UNCHANGED <<next_outgoing_id, next_incoming_id, exhausted_buffer, wire, sent,
                    received>>
    BY <1>1 DEF LinkSendTransfer
  <2> QED
    BY <2>2, <2>3, <2>4, SyncHandOver
<1>2. ASSUME NEW p \in Peer, NEW echo \in BOOLEAN, LinkSendFlow(p, echo)
      PROVE  SyncInv'
  <2> DEFINE f == [type |-> "flow", echo |-> echo, seq |-> handed[p]]
  <2>1. f \in LinkFlow /\ f.seq = handed[p] /\ Step(f) = 0
    BY DEF LinkFlow, Step, TypeOK
  <2>2. link_frames' = [link_frames EXCEPT ![p] = Append(@, f)]
    BY <1>2 DEF LinkSendFlow
  <2> HIDE DEF f
  <2>3. UNCHANGED <<next_outgoing_id, next_incoming_id, exhausted_buffer, wire, handed,
                    sent, received>>
    BY <1>2 DEF LinkSendFlow
  <2>4. handed' = [handed EXCEPT ![p] = @ + Step(f)]
    BY <2>1, <2>3 DEF TypeOK
  <2> QED
    BY <2>1, <2>2, <2>3, <2>4, SyncHandOver
<1>3. ASSUME NEW p \in Peer, OnControlEnd(p)
      PROVE  SyncInv'
  BY <1>3, SyncStutter DEF OnControlEnd
<1>4. CASE UNCHANGED vars
  BY <1>4, SyncStutter DEF vars
<1> QED
  BY <1>1, <1>2, <1>3, <1>4, SyncOutgoingTransfer, SyncOutgoingFlow, SyncIncomingFlow,
     SyncIncomingTransfer, SyncSendEnd, SyncIncomingEnd DEF Next

\* Transfer-ids need not be sent: the receiver's next_incoming_id is the identifier
\* of the next transfer in every state, across flows that overwrite it, echoes,
\* transfers held back, the end of the session and any number of wraps.
THEOREM ImplicitIds == Spec => []IdsInSync
<1>1. ASSUME TypeOK, SyncInv
      PROVE  IdsInSync
  <2> SUFFICES ASSUME NEW p \in Peer, wire[p] # <<>>, Head(wire[p]).type = "transfer"
               PROVE  next_incoming_id[Other(p)] =
                        WrappingAdd(InitialId[p], Head(wire[p]).no - 1)
    BY DEF IdsInSync
  <2>1. wire[p] \in Seq(Frame) /\ received[Other(p)] \in Nat /\ sent[p] \in Nat
    BY <1>1, PeerFacts DEF TypeOK
  <2>2. Chained(wire[p], received[Other(p)], sent[p]) /\ AllAnnounced(p, wire[p])
        /\ next_incoming_id[Other(p)] = WrappingAdd(InitialId[p], received[Other(p)])
    BY <1>1 DEF SyncInv, Sync
  <2>3. Head(wire[p]).seq = received[Other(p)] /\ Announced(p, Head(wire[p]))
    BY <2>1, <2>2, WireTail
  <2>4. Head(wire[p]).no - 1 = received[Other(p)]
    BY <2>1, <2>3 DEF Announced
  <2> QED
    BY <2>2, <2>4
<1> QED
  BY <1>1, InitTypeOK, NextTypeOK, InitSync, NextSync, PTL DEF Spec

-----------------------------------------------------------------------------
(* Nothing is held back without need.                                      *)

\* Release leaves a buffer only when the window is used up.
LEMMA ReleaseHold ==
  ASSUME TypeOK, NoNeedlessHold, NEW p \in Peer, NEW frames, NEW w \in Id,
         NEW pending \in Seq(LinkTransfer), Release(p, frames, w, pending)
  PROVE  NoNeedlessHold'
<1> DEFINE n == Least(w, Len(pending))
<1>1. n \in 0 .. Len(pending) /\ (w - n = 0 \/ n = Len(pending)) /\ Len(pending) \in Nat
  <2>1. w \in Nat /\ Len(pending) \in Nat
    BY IdNat
  <2> QED
    BY <2>1, ReleasedType
<1>2. /\ exhausted_buffer' = [exhausted_buffer EXCEPT ![p] = SubSeq(pending, n + 1, Len(pending))]
      /\ remote_incoming_window' = [remote_incoming_window EXCEPT ![p] = w - n]
  BY DEF Release
<1> HIDE DEF n
<1>3. n = Len(pending) => SubSeq(pending, n + 1, Len(pending)) = <<>>
  BY <1>1
<1> QED
  BY <1>1, <1>2, <1>3 DEF NoNeedlessHold, TypeOK

\* A transfer waits only while the peer's window is used up: every handler that opens
\* the window releases what it can.
THEOREM ReleasedInTime == Spec => []NoNeedlessHold
<1>1. Init => NoNeedlessHold
  BY DEF Init, NoNeedlessHold
<1>2. TypeOK /\ NoNeedlessHold /\ [Next]_vars => NoNeedlessHold'
  <2> SUFFICES ASSUME TypeOK, NoNeedlessHold, [Next]_vars PROVE NoNeedlessHold'
    OBVIOUS
  <2>1. ASSUME UNCHANGED <<exhausted_buffer, remote_incoming_window>>
        PROVE  NoNeedlessHold'
    BY <2>1 DEF NoNeedlessHold
  <2>2. ASSUME NEW p \in Peer, OnOutgoingTransfer(p)
        PROVE  NoNeedlessHold'
    <3> DEFINE f == Head(link_frames[p])
               pending == Append(exhausted_buffer[p], f)
    <3>1. f \in LinkTransfer
      BY <2>2 DEF OnOutgoingTransfer, LinkFlow, TypeOK
    <3>2. pending \in Seq(LinkTransfer) /\ remote_incoming_window[p] \in Id
      <4> HIDE DEF f
      <4> QED BY <3>1 DEF TypeOK
    <3>3. Release(p, wire, remote_incoming_window[p], pending)
      BY <2>2 DEF OnOutgoingTransfer
    <3> HIDE DEF pending
    <3> QED
      BY <3>2, <3>3, ReleaseHold
  <2>3. ASSUME NEW p \in Peer, OnIncomingFlow(p)
        PROVE  NoNeedlessHold'
    <3> DEFINE flow == Head(wire[Other(p)])
               echo == IF flow.echo THEN <<FlowFrame(p, flow.next_outgoing_id, FALSE)>> ELSE <<>>
               frames == [Rest(p) EXCEPT ![p] = @ \o echo]
               w == RemoteIncomingWindow(p, flow)
    <3>1. flow \in Flow
      <4>1. flow \in Frame /\ flow.type = "flow"
        BY <2>3, PeerFacts, SMTT(30) DEF OnIncomingFlow, Arrives, TypeOK
      <4> HIDE DEF flow
      <4> QED BY <4>1, FrameKinds
    <3>2. w \in Id
      <4> HIDE DEF flow
      <4> QED BY <3>1, RemoteIncomingWindowType
    <3>3. Release(p, frames, w, exhausted_buffer[p])
      BY <2>3 DEF OnIncomingFlow
    <3>4. exhausted_buffer[p] \in Seq(LinkTransfer)
      BY DEF TypeOK
    <3> HIDE DEF frames, w
    <3> QED
      BY <3>2, <3>3, <3>4, ReleaseHold
  <2>4. ASSUME NEW p \in Peer,
               \/ \E first \in BOOLEAN : LinkSendTransfer(p, first)
               \/ \E echo \in BOOLEAN : LinkSendFlow(p, echo)
               \/ OnOutgoingFlow(p) \/ OnIncomingTransfer(p) \/ OnControlEnd(p)
               \/ SendEnd(p) \/ OnIncomingEnd(p)
        PROVE  UNCHANGED <<exhausted_buffer, remote_incoming_window>>
    BY <2>4 DEF LinkSendTransfer, LinkSendFlow, OnOutgoingFlow, OnIncomingTransfer,
                OnControlEnd, SendEnd, OnIncomingEnd
  <2>5. CASE UNCHANGED vars
    BY <2>1, <2>5 DEF vars
  <2> QED
    BY <2>1, <2>2, <2>3, <2>4, <2>5 DEF Next
<1> QED
  BY <1>1, <1>2, InitTypeOK, NextTypeOK, PTL DEF Spec

-----------------------------------------------------------------------------
(* The order of transfers and the window.                                  *)

\* The identifiers of no endpoint come within the peer's window of the wrap.
NoWrap ==
  \A p \in Peer : InitialId[p] + MaxTransfers[p] + IncomingWindow[Other(p)] < Modulus

-----------------------------------------------------------------------------
(* What the flows on the wire grant.                                       *)

\* The number of p's transfers the sender of the flow f had received.
Grant(p, f) == IF f.next_incoming_id = NoId THEN 0 ELSE f.next_incoming_id - InitialId[p]

\* A flow that grants p transfers on from number lo and not beyond hi.
Grants(p, f, lo, hi) ==
  /\ f.incoming_window = IncomingWindow[Other(p)]
  /\ Grant(p, f) \in lo .. hi

\* The flows in s, on their way to p: each one grants at least what p already has
\* (its limit) and what the flows before it grant, and no more than was received.
Granting(p, s, limit, top) ==
  /\ limit <= top + IncomingWindow[Other(p)]
  /\ \A i \in 1 .. Len(s) : s[i].type = "flow" =>
       /\ Grants(p, s[i], 0, top)
       /\ limit <= Grant(p, s[i]) + IncomingWindow[Other(p)]
  /\ \A i, j \in 1 .. Len(s) :
       i < j /\ s[i].type = "flow" /\ s[j].type = "flow" => Grant(p, s[i]) <= Grant(p, s[j])

Limit(p) == sent[p] + remote_incoming_window[p]

\* The window of the direction from p.
Window(p) ==
  /\ handed[p] <= MaxTransfers[p]
  /\ Granting(p, wire[Other(p)], Limit(p), received[Other(p)])

WindowInv == \A p \in Peer : Window(p)

\* A grant is a number.
LEMMA GrantType ==
  ASSUME NEW p \in Peer, NEW f \in Frame, f.type = "flow"
  PROVE  Grant(p, f) \in Int /\ f \in Flow
<1>1. f \in Flow
  BY FrameKinds
<1>2. f.next_incoming_id \in Id \cup {NoId} /\ InitialId[p] \in Nat
  BY <1>1, IdAssumption, IdNat DEF Flow
<1>3. f.next_incoming_id \in Int
  BY <1>2, ModulusAssumption DEF Id, NoId
<1> QED
  BY <1>1, <1>2, <1>3 DEF Grant

\* Windows are numbers.
LEMMA WindowNat == \A p \in Peer : IncomingWindow[p] \in Nat /\ InitialId[p] \in Nat
                                   /\ IncomingWindow[Other(p)] \in Nat
BY WindowAssumption, IdAssumption, IdNat, PeerFacts

\* Nothing on the wire.
LEMMA GrantingNone ==
  ASSUME NEW p \in Peer, NEW limit, NEW top, limit <= top + IncomingWindow[Other(p)]
  PROVE  Granting(p, <<>>, limit, top)
BY DEF Granting

\* Taking the first frame off.
LEMMA GrantingTail ==
  ASSUME NEW p \in Peer, NEW s \in Seq(Frame), s # <<>>, NEW limit, NEW top,
         Granting(p, s, limit, top)
  PROVE  Granting(p, Tail(s), limit, top)
<1> DEFINE u == Tail(s)
<1>1. Len(s) \in Nat /\ Len(s) > 0 /\ Len(u) = Len(s) - 1
      /\ \A i \in 1 .. Len(s) - 1 : u[i] = s[i + 1]
  OBVIOUS
<1> HIDE DEF u
<1>2. \A i \in 1 .. Len(u) : u[i] = s[i + 1] /\ i + 1 \in 1 .. Len(s)
  BY <1>1
<1>3. ASSUME NEW i \in 1 .. Len(u), u[i].type = "flow"
      PROVE  Grants(p, u[i], 0, top) /\ limit <= Grant(p, u[i]) + IncomingWindow[Other(p)]
  BY <1>2, <1>3 DEF Granting
<1>4. ASSUME NEW i \in 1 .. Len(u), NEW j \in 1 .. Len(u), i < j,
             u[i].type = "flow", u[j].type = "flow"
      PROVE  Grant(p, u[i]) <= Grant(p, u[j])
  <2>1. i + 1 < j + 1 /\ u[i] = s[i + 1] /\ u[j] = s[j + 1]
        /\ i + 1 \in 1 .. Len(s) /\ j + 1 \in 1 .. Len(s)
    BY <1>1, <1>2, <1>4
  <2> QED
    BY <1>4, <2>1 DEF Granting
<1>5. limit <= top + IncomingWindow[Other(p)]
  BY DEF Granting
<1> QED
  BY <1>3, <1>4, <1>5 DEF Granting, u

\* Frames put behind the others, of which each flow grants all that was received.
LEMMA GrantingAppend ==
  ASSUME NEW p \in Peer, NEW s \in Seq(Frame), NEW t \in Seq(Frame),
         NEW limit \in Int, NEW top \in Nat, NEW new \in Nat, top <= new,
         Granting(p, s, limit, top),
         \A i \in 1 .. Len(t) : t[i].type = "flow" => Grants(p, t[i], new, new)
  PROVE  Granting(p, s \o t, limit, new)
<1> DEFINE u == s \o t
           m == Len(s)
           W == IncomingWindow[Other(p)]
<1>1. m \in Nat /\ Len(t) \in Nat /\ Len(u) = m + Len(t) /\ W \in Nat
      /\ (\A i \in 1 .. m : u[i] = s[i] /\ s[i] \in Frame)
      /\ (\A i \in 1 .. Len(t) : t[i] \in Frame)
      /\ (\A i \in m + 1 .. m + Len(t) : u[i] = t[i - m])
  BY WindowNat
<1>2. limit <= top + W
  BY DEF Granting
<1>3. \A i \in 1 .. m : s[i].type = "flow" =>
        /\ Grants(p, s[i], 0, top) /\ limit <= Grant(p, s[i]) + W
  BY DEF Granting
<1>4. \A i, j \in 1 .. m : i < j /\ s[i].type = "flow" /\ s[j].type = "flow"
        => Grant(p, s[i]) <= Grant(p, s[j])
  BY DEF Granting
<1> HIDE DEF u, m, W
<1>5. ASSUME NEW i \in 1 .. m, u[i].type = "flow"
      PROVE  Grants(p, u[i], 0, new) /\ limit <= Grant(p, u[i]) + W /\ Grant(p, u[i]) \in 0 .. top
  BY <1>1, <1>3, <1>5, GrantType DEF Grants
<1>6. ASSUME NEW i \in m + 1 .. m + Len(t), u[i].type = "flow"
      PROVE  Grants(p, u[i], 0, new) /\ limit <= Grant(p, u[i]) + W /\ Grant(p, u[i]) = new
  <2>1. u[i] = t[i - m] /\ i - m \in 1 .. Len(t)
    BY <1>1
  <2>2. Grants(p, u[i], new, new)
    BY <1>6, <2>1
  <2> QED
    BY <1>1, <1>2, <2>2 DEF Grants, W
<1>7. ASSUME NEW i \in 1 .. Len(u), u[i].type = "flow"
      PROVE  Grants(p, u[i], 0, new) /\ limit <= Grant(p, u[i]) + W
  <2>1. i \in 1 .. m \/ i \in m + 1 .. m + Len(t)
    BY <1>1
  <2> QED
    BY <1>5, <1>6, <1>7, <2>1
<1>8. ASSUME NEW i \in 1 .. Len(u), NEW j \in 1 .. Len(u), i < j,
             u[i].type = "flow", u[j].type = "flow"
      PROVE  Grant(p, u[i]) <= Grant(p, u[j])
  <2>1. CASE j \in 1 .. m
    <3>1. i \in 1 .. m
      BY <1>1, <1>8, <2>1
    <3> QED
      BY <1>1, <1>4, <1>8, <2>1, <3>1
  <2>2. CASE j \in m + 1 .. m + Len(t)
    <3>1. Grant(p, u[j]) = new
      BY <1>6, <1>8, <2>2
    <3>2. CASE i \in 1 .. m
      <4>1. Grant(p, u[i]) \in 0 .. top
        BY <1>5, <1>8, <3>2
      <4> QED
        BY <3>1, <4>1
    <3>3. CASE i \in m + 1 .. m + Len(t)
      <4>1. Grant(p, u[i]) = new
        BY <1>6, <1>8, <3>3
      <4> QED
        BY <3>1, <4>1
    <3> QED
      BY <1>1, <3>2, <3>3
  <2> QED
    BY <1>1, <2>1, <2>2
<1>9. limit <= new + W
  BY <1>1, <1>2
<1> QED
  BY <1>7, <1>8, <1>9 DEF Granting, u, W

-----------------------------------------------------------------------------
(* Every step keeps the windows.                                           *)

\* Away from the wrap the identifiers are the counts they stand for.
LEMMA ExactId ==
  ASSUME NoWrap, NEW p \in Peer, NEW n \in 0 .. MaxTransfers[p]
  PROVE  WrappingAdd(InitialId[p], n) = InitialId[p] + n
<1>1. InitialId[p] + MaxTransfers[p] + IncomingWindow[Other(p)] < Modulus
      /\ InitialId[p] \in Nat /\ IncomingWindow[Other(p)] \in Nat /\ Modulus \in Nat
      /\ MaxTransfers[p] \in Nat
  BY WindowNat, ModulusAssumption, BoundAssumption DEF NoWrap
<1>2. InitialId[p] + n \in 0 .. Modulus - 1 /\ Modulus > 0 /\ 0 \in Int
  BY <1>1
<1>3. (Modulus * 0 + (InitialId[p] + n)) % Modulus = InitialId[p] + n
  BY <1>1, <1>2, ModUnique
<1> QED
  BY <1>1, <1>2, <1>3 DEF WrappingAdd

\* Without a wrap the identifiers are the counts themselves, offset by the initial id.
LEMMA Exact ==
  ASSUME NoWrap, TypeOK, SyncInv, WindowInv, NEW p \in Peer
  PROVE  /\ next_outgoing_id[p] = InitialId[p] + sent[p]
         /\ next_incoming_id[Other(p)] = InitialId[p] + received[Other(p)]
         /\ received[Other(p)] <= sent[p] /\ sent[p] <= handed[p]
         /\ handed[p] <= MaxTransfers[p]
<1> DEFINE o == Other(p)
<1>1. sent[p] \in Nat /\ received[o] \in Nat /\ handed[p] \in Nat
      /\ Len(exhausted_buffer[p]) \in Nat /\ MaxTransfers[p] \in Nat
  BY PeerFacts, BoundAssumption DEF TypeOK
<1>2. /\ next_outgoing_id[p] = WrappingAdd(InitialId[p], sent[p])
      /\ next_incoming_id[o] = WrappingAdd(InitialId[p], received[o])
      /\ received[o] <= sent[p] /\ sent[p] + Len(exhausted_buffer[p]) <= handed[p]
  BY DEF SyncInv, Sync, Chained
<1>3. handed[p] <= MaxTransfers[p]
  BY DEF WindowInv, Window
<1> HIDE DEF o
<1>4. sent[p] \in 0 .. MaxTransfers[p] /\ received[o] \in 0 .. MaxTransfers[p]
      /\ sent[p] <= handed[p]
  BY <1>1, <1>2, <1>3
<1> QED
  BY <1>2, <1>3, <1>4, ExactId DEF o

\* The same for the direction to p after a step that adds nothing to it.
LEMMA ExactNext ==
  ASSUME NoWrap, TypeOK, SyncInv, WindowInv, TypeOK', SyncInv', NEW p \in Peer,
         sent'[Other(p)] = sent[Other(p)]
  PROVE  next_incoming_id'[p] = InitialId[Other(p)] + received'[p]
<1> DEFINE o == Other(p)
<1>1. o \in Peer /\ Other(o) = p
  BY PeerFacts
<1>2. received'[p] \in Nat /\ sent[o] \in Nat /\ handed[o] \in Nat /\ MaxTransfers[o] \in Nat
  BY <1>1, BoundAssumption DEF TypeOK
<1>3. next_incoming_id'[p] = WrappingAdd(InitialId[o], received'[p])
      /\ received'[p] <= sent'[o]
  <2>1. Sync(o)'
    BY <1>1 DEF SyncInv
  <2>2. (next_incoming_id[Other(o)] = WrappingAdd(InitialId[o], received[Other(o)]))'
        /\ (received[Other(o)] <= sent[o])'
    BY <2>1 DEF Sync, Chained
  <2> QED
    BY <1>1, <2>2 DEF WrappingAdd
<1>4. sent[o] <= handed[o] /\ handed[o] <= MaxTransfers[o]
  BY <1>1, Exact
<1> HIDE DEF o
<1>5. received'[p] \in 0 .. MaxTransfers[o]
  BY <1>2, <1>3, <1>4 DEF o
<1> QED
  BY <1>1, <1>3, <1>5, ExactId DEF o

\* The parts of WindowInv after a step of p, which takes a frame or not, sends the
\* frames t and has the limit its own flows give it.
LEMMA WindowStep ==
  ASSUME TypeOK, WindowInv, NEW p \in Peer, NEW t \in Seq(Frame),
         wire'[p] = wire[p] \o t,
         received'[p] \in Nat, received[p] <= received'[p],
         \A i \in 1 .. Len(t) :
           t[i].type = "flow" => Grants(Other(p), t[i], received'[p], received'[p]),
         Granting(p, wire'[Other(p)], sent'[p] + remote_incoming_window'[p],
                  received[Other(p)]),
         received'[Other(p)] = received[Other(p)],
         sent'[Other(p)] = sent[Other(p)],
         remote_incoming_window'[Other(p)] = remote_incoming_window[Other(p)],
         handed'[p] <= MaxTransfers[p], handed'[Other(p)] = handed[Other(p)]
  PROVE  WindowInv'
<1> DEFINE o == Other(p)
<1>1. o \in Peer /\ Other(o) = p /\ wire[p] \in Seq(Frame) /\ received[p] \in Nat
      /\ sent[o] \in Nat /\ remote_incoming_window[o] \in Nat
  BY PeerFacts, IdNat DEF TypeOK
<1>2. Granting(o, wire[p], Limit(o), received[p]) /\ handed[o] <= MaxTransfers[o]
  BY <1>1 DEF WindowInv, Window
<1> HIDE DEF o
<1>3. Limit(o) \in Int
  BY <1>1 DEF Limit
<1>4. Granting(o, wire'[p], Limit(o), received'[p])
  BY <1>1, <1>2, <1>3, GrantingAppend DEF o
<1>5. Granting(o, wire'[p], sent'[o] + remote_incoming_window'[o], received'[p])
  BY <1>4 DEF o, Limit
<1>6. ASSUME NEW q \in Peer
      PROVE  Window(q)'
  <2>1. CASE q = p
    <3>1. handed'[q] <= MaxTransfers[q]
          /\ Granting(q, wire'[o], sent'[q] + remote_incoming_window'[q], received'[o])
      BY <2>1 DEF o
    <3>2. Granting(q, wire[o], sent[q] + remote_incoming_window[q], received[o])'
      BY <3>1 DEF Granting, Grants, Grant, Other
    <3> QED
      BY <2>1, <3>1, <3>2 DEF Window, Limit, o
  <2>2. CASE q = o
    <3>1. handed'[q] <= MaxTransfers[q]
      BY <1>2, <2>2 DEF o
    <3>2. Granting(q, wire[p], sent[q] + remote_incoming_window[q], received[p])'
      BY <1>5, <2>2 DEF Granting, Grants, Grant, Other
    <3> QED
      BY <1>1, <2>2, <3>1, <3>2 DEF Window, Limit
  <2> QED
    BY <2>1, <2>2 DEF Peer, Other, o
<1> QED
  BY <1>6 DEF WindowInv

\* What Release does to the limit and to the wires.
LEMMA ReleaseLimit ==
  ASSUME TypeOK, NEW p \in Peer, NEW frames \in [Peer -> Seq(Frame)], NEW w \in Id,
         NEW pending \in Seq(LinkTransfer), Release(p, frames, w, pending)
  PROVE  /\ sent'[p] + remote_incoming_window'[p] = sent[p] + w
         /\ sent[p] <= sent'[p]
         /\ \E t \in Seq(Frame) :
              wire'[p] = frames[p] \o t /\ \A i \in 1 .. Len(t) : t[i].type # "flow"
         /\ \A q \in Peer \ {p} :
              /\ wire'[q] = frames[q] /\ sent'[q] = sent[q]
              /\ remote_incoming_window'[q] = remote_incoming_window[q]
<1> DEFINE n == Least(w, Len(pending))
           t == TransferFrames(p, pending, n)
<1>1. n \in 0 .. Len(pending) /\ Len(pending) \in Nat /\ w \in Nat
  <2>1. w \in Nat /\ Len(pending) \in Nat
    BY IdNat
  <2> QED
    BY <2>1, ReleasedType, Zenon
<1>2. t \in Seq(Transfer) /\ Len(t) = n
  BY <1>1, TransferFramesType
<1>3. wire' = [frames EXCEPT ![p] = @ \o t]
      /\ sent' = [sent EXCEPT ![p] = @ + n]
      /\ remote_incoming_window' = [remote_incoming_window EXCEPT ![p] = w - n]
  BY DEF Release
<1> HIDE DEF t, n
<1>4. t \in Seq(Frame) /\ \A i \in 1 .. Len(t) : t[i].type # "flow"
  <2>1. t \in Seq(Frame)
    BY <1>2 DEF Frame
  <2>2. \A f \in Transfer : f.type = "transfer"
    BY DEF Transfer
  <2>3. \A i \in 1 .. Len(t) : t[i] \in Transfer
    BY <1>2
  <2> QED
    BY <2>1, <2>2, <2>3
<1>5. /\ wire'[p] = frames[p] \o t
      /\ sent'[p] = sent[p] + n /\ remote_incoming_window'[p] = w - n
      /\ sent[p] \in Nat /\ n \in Nat
  BY <1>1, <1>3, SMTT(30) DEF TypeOK
<1>6. ASSUME NEW q \in Peer \ {p}
      PROVE  /\ wire'[q] = frames[q] /\ sent'[q] = sent[q]
             /\ remote_incoming_window'[q] = remote_incoming_window[q]
  BY <1>3, <1>6 DEF TypeOK
<1>7. sent'[p] + remote_incoming_window'[p] = sent[p] + w /\ sent[p] <= sent'[p]
  BY <1>1, <1>5
<1> QED
  BY <1>4, <1>5, <1>6, <1>7

\* A flow p sends grants its peer what p has received.
LEMMA FlowFrameGrants ==
  ASSUME NEW p \in Peer, NEW n \in Nat, NEW echo
  PROVE  Grants(Other(p), FlowFrame(p, InitialId[Other(p)] + n, echo), n, n)
<1> DEFINE f == FlowFrame(p, InitialId[Other(p)] + n, echo)
<1>1. f.incoming_window = IncomingWindow[p] /\ f.next_incoming_id = InitialId[Other(p)] + n
  BY DEF FlowFrame
<1>2. InitialId[Other(p)] \in Nat /\ Other(Other(p)) = p
  BY PeerFacts, WindowNat
<1> HIDE DEF f
<1>3. Grant(Other(p), f) = n
  BY <1>1, <1>2 DEF Grant, NoId
<1>4. Grants(Other(p), f, n, n)
  BY <1>1, <1>2, <1>3 DEF Grants
<1> QED
  BY <1>4 DEF f

\* A sequence of at most one frame.
LEMMA OneOrNone ==
  ASSUME NEW f \in Frame
  PROVE  /\ <<f>> \in Seq(Frame) /\ Len(<<f>>) = 1 /\ <<f>>[1] = f
         /\ \A i \in 1 .. Len(<<f>>) : <<f>>[i] = f
         /\ <<>> \in Seq(Frame) /\ Len(<<>>) = 0
OBVIOUS

\* The invariants a step may rely on, and the ones it is known to keep.
Kept ==
  /\ NoWrap /\ TypeOK /\ SyncInv /\ WindowInv
  /\ TypeOK' /\ SyncInv'

\* The facts about p and its peer that every case needs.
LEMMA WindowFacts ==
  ASSUME Kept, NEW p \in Peer
  PROVE  /\ Other(p) \in Peer /\ Other(p) # p /\ Other(Other(p)) = p
         /\ wire[p] \in Seq(Frame) /\ wire[Other(p)] \in Seq(Frame)
         /\ received[p] \in Nat /\ received'[p] \in Nat
         /\ sent[p] \in Nat /\ remote_incoming_window[p] \in Nat
         /\ handed[p] <= MaxTransfers[p]
         /\ Granting(p, wire[Other(p)], sent[p] + remote_incoming_window[p],
                     received[Other(p)])
BY PeerFacts, IdNat DEF Kept, TypeOK, WindowInv, Window, Limit

\* A transfer leaves the links' channel.
LEMMA WindowOutgoingTransfer ==
  ASSUME Kept, NEW p \in Peer, OnOutgoingTransfer(p)
  PROVE  WindowInv'
<1> DEFINE o == Other(p)
           pending == Append(exhausted_buffer[p], Head(link_frames[p]))
<1>1. pending \in Seq(LinkTransfer) /\ remote_incoming_window[p] \in Id
  <2>1. Head(link_frames[p]) \in LinkTransfer
    BY DEF Kept, OnOutgoingTransfer, LinkFlow, TypeOK
  <2> QED
    BY <2>1 DEF Kept, TypeOK
<1>2. Release(p, wire, remote_incoming_window[p], pending)
      /\ UNCHANGED <<handed, received>>
  BY DEF OnOutgoingTransfer
<1>3. wire \in [Peer -> Seq(Frame)] /\ TypeOK
  BY DEF Kept, TypeOK
<1> HIDE DEF pending
<1>4. /\ sent'[p] + remote_incoming_window'[p] = sent[p] + remote_incoming_window[p]
      /\ \E t \in Seq(Frame) :
           wire'[p] = wire[p] \o t /\ \A i \in 1 .. Len(t) : t[i].type # "flow"
      /\ \A q \in Peer \ {p} :
           /\ wire'[q] = wire[q] /\ sent'[q] = sent[q]
           /\ remote_incoming_window'[q] = remote_incoming_window[q]
  BY <1>1, <1>2, <1>3, ReleaseLimit
<1>5. PICK t \in Seq(Frame) :
        wire'[p] = wire[p] \o t /\ \A i \in 1 .. Len(t) : t[i].type # "flow"
  BY <1>4
<1>6. o \in Peer /\ o # p
  BY WindowFacts
<1>7. wire'[o] = wire[o] /\ sent'[o] = sent[o]
      /\ remote_incoming_window'[o] = remote_incoming_window[o]
  BY <1>4, <1>6
<1>8. Granting(p, wire'[o], sent'[p] + remote_incoming_window'[p], received[o])
  BY <1>4, <1>7, WindowFacts
<1>9. received'[p] \in Nat /\ received[p] <= received'[p] /\ received'[o] = received[o]
      /\ handed'[p] <= MaxTransfers[p] /\ handed'[o] = handed[o]
  BY <1>2, WindowFacts
<1> HIDE DEF o
<1> QED
  BY <1>3, <1>5, <1>7, <1>8, <1>9, WindowStep DEF Kept, o

\* A step of p that leaves its own limit alone and sends at most one frame.
LEMMA WindowPlainStep ==
  ASSUME Kept, NEW p \in Peer, NEW t \in Seq(Frame),
         wire'[p] = wire[p] \o t,
         wire'[Other(p)] = wire[Other(p)]
           \/ (wire[Other(p)] # <<>> /\ wire'[Other(p)] = Tail(wire[Other(p)])),
         received[p] <= received'[p], received'[Other(p)] = received[Other(p)],
         \A i \in 1 .. Len(t) :
           t[i].type = "flow" => Grants(Other(p), t[i], received'[p], received'[p]),
         UNCHANGED <<sent, remote_incoming_window>>,
         handed'[p] <= MaxTransfers[p], handed'[Other(p)] = handed[Other(p)]
  PROVE  WindowInv'
<1>1. Granting(p, wire'[Other(p)], sent'[p] + remote_incoming_window'[p],
               received[Other(p)])
  BY WindowFacts, GrantingTail
<1> QED
  BY <1>1, WindowFacts, WindowStep DEF Kept

\* A flow, whether a link's, an echo or a top-up, grants what p has received.
LEMMA WindowFlow ==
  ASSUME Kept, NEW p \in Peer, sent'[Other(p)] = sent[Other(p)], NEW echo \in BOOLEAN
  PROVE  LET f == FlowFrame(p, next_incoming_id'[p], echo)
         IN  f \in Frame /\ Grants(Other(p), f, received'[p], received'[p])
<1> DEFINE f == FlowFrame(p, next_incoming_id'[p], echo)
<1>1. next_incoming_id'[p] = InitialId[Other(p)] + received'[p]
      /\ received'[p] \in Nat
  BY ExactNext, WindowFacts DEF Kept
<1>2. Grants(Other(p), f, received'[p], received'[p])
  BY <1>1, FlowFrameGrants
<1>3. f \in Frame
  <2>1. TypeOK /\ next_incoming_id'[p] \in Id
    BY DEF Kept, TypeOK
  <2> QED
    BY <2>1, FlowFrameType DEF Frame
<1> QED
  BY <1>2, <1>3

\* A frame put on the wire.
LEMMA WireAppended ==
  ASSUME TypeOK, NEW p \in Peer, NEW f \in Frame, wire' = [wire EXCEPT ![p] = Append(@, f)]
  PROVE  wire'[p] = wire[p] \o <<f>> /\ wire'[Other(p)] = wire[Other(p)]
<1>1. wire[p] \in Seq(Frame) /\ wire \in [Peer -> Seq(Frame)]
  BY DEF TypeOK
<1>2. wire'[p] = Append(wire[p], f)
  BY <1>1
<1>3. Append(wire[p], f) = wire[p] \o <<f>>
  BY <1>1, AppendConcat
<1> QED
  BY <1>1, <1>2, <1>3, PeerFacts

\* A flow leaves the links' channel.
LEMMA WindowOutgoingFlow ==
  ASSUME Kept, NEW p \in Peer, OnOutgoingFlow(p)
  PROVE  WindowInv'
<1> DEFINE echo == Head(link_frames[p]).echo
           f == FlowFrame(p, next_incoming_id'[p], echo)
<1>1. echo \in BOOLEAN
  BY DEF Kept, TypeOK, OnOutgoingFlow, LinkTransfer, LinkFlow
<1>2. wire' = [wire EXCEPT ![p] = Append(@, FlowFrame(p, next_incoming_id[p], echo))]
      /\ UNCHANGED <<next_incoming_id, handed, sent, received, remote_incoming_window>>
  BY DEF OnOutgoingFlow
<1> HIDE DEF echo
<1>3. f \in Frame /\ Grants(Other(p), f, received'[p], received'[p])
  BY <1>1, <1>2, WindowFlow
<1>4. wire' = [wire EXCEPT ![p] = Append(@, f)]
  BY <1>2
<1> HIDE DEF f
<1>5. wire'[p] = wire[p] \o <<f>> /\ wire'[Other(p)] = wire[Other(p)]
  BY <1>3, <1>4, WireAppended DEF Kept
<1>6. <<f>> \in Seq(Frame)
      /\ \A i \in 1 .. Len(<<f>>) :
           <<f>>[i].type = "flow" => Grants(Other(p), <<f>>[i], received'[p], received'[p])
  BY <1>3, OneOrNone
<1>7. received[p] <= received'[p] /\ received'[Other(p)] = received[Other(p)]
      /\ handed'[p] <= MaxTransfers[p] /\ handed'[Other(p)] = handed[Other(p)]
  BY <1>2, WindowFacts
<1> QED
  BY <1>2, <1>5, <1>6, <1>7, WindowPlainStep

\* What the head of the wire to p is, when p takes it.
LEMMA TakenFacts ==
  ASSUME Kept, NEW p \in Peer, NEW type, Arrives(p, type)
  PROVE  /\ wire[Other(p)] # <<>> /\ Head(wire[Other(p)]) \in Frame
         /\ Head(wire[Other(p)]) = wire[Other(p)][1] /\ 1 \in 1 .. Len(wire[Other(p)])
         /\ Head(wire[Other(p)]).type = type
BY WindowFacts DEF Arrives

\* A transfer arrives: p has received one more and may grant as much.
LEMMA WindowIncomingTransfer ==
  ASSUME Kept, NEW p \in Peer, OnIncomingTransfer(p)
  PROVE  WindowInv'
<1> DEFINE o == Other(p)
           count == SaturatingAdd(need_flow_count[p], 1)
           f == FlowFrame(p, next_incoming_id'[p], FALSE)
           t == IF NeedsFlow(p, count) THEN <<f>> ELSE <<>>
<1>1. wire[o] # <<>>
  BY TakenFacts DEF OnIncomingTransfer
<1>2. /\ wire' = [Rest(p) EXCEPT ![p] = @ \o
                    (IF NeedsFlow(p, count)
                     THEN <<FlowFrame(p, WrappingAdd(next_incoming_id[p], 1), FALSE)>>
                     ELSE <<>>)]
      /\ received' = [received EXCEPT ![p] = @ + 1]
      /\ next_incoming_id' =
           [next_incoming_id EXCEPT ![p] = WrappingAdd(next_incoming_id[p], 1)]
      /\ UNCHANGED <<handed, sent, remote_incoming_window>>
  BY DEF OnIncomingTransfer
<1> HIDE DEF count
<1>3. next_incoming_id'[p] = WrappingAdd(next_incoming_id[p], 1)
  BY <1>2 DEF Kept, TypeOK
<1>4. f \in Frame /\ Grants(o, f, received'[p], received'[p])
  BY <1>2, WindowFlow
<1>5. wire' = [Rest(p) EXCEPT ![p] = @ \o t]
  BY <1>2, <1>3
<1> HIDE DEF f
<1>6. t \in Seq(Frame)
      /\ \A i \in 1 .. Len(t) : t[i].type = "flow" => Grants(o, t[i], received'[p], received'[p])
  BY <1>4, OneOrNone
<1> HIDE DEF t
<1>7. wire'[p] = wire[p] \o t /\ wire'[o] = Tail(wire[o])
  BY <1>5, WireSplit DEF Kept
<1>8. received[p] <= received'[p] /\ received'[o] = received[o]
  <2>1. received \in [Peer -> Nat] /\ o \in Peer /\ o # p
    BY WindowFacts DEF Kept, TypeOK
  <2> HIDE DEF o
  <2> QED
    BY <1>2, <2>1
<1>9. handed'[p] <= MaxTransfers[p] /\ handed'[o] = handed[o]
  BY <1>2, WindowFacts
<1> QED
  BY <1>1, <1>2, <1>6, <1>7, <1>8, <1>9, WindowPlainStep

\* An End is no flow.
LEMMA EndNoFlow ==
  ASSUME TypeOK, NEW p \in Peer
  PROVE  EndFrame(p) \in Frame /\ EndFrame(p).type # "flow"
<1>1. sent[p] \in Nat
  BY DEF TypeOK
<1> QED
  BY <1>1 DEF EndFrame, Frame, End

\* The End a session sends carries no window: what is granted and used stays.
LEMMA WindowSendEnd ==
  ASSUME Kept, NEW p \in Peer, SendEnd(p)
  PROVE  WindowInv'
<1> DEFINE f == EndFrame(p)
<1>1. f \in Frame /\ f.type # "flow"
  BY EndNoFlow DEF Kept
<1>2. wire' = [wire EXCEPT ![p] = Append(@, f)]
      /\ UNCHANGED <<handed, sent, received, remote_incoming_window>>
  BY DEF SendEnd
<1> HIDE DEF f
<1>3. wire'[p] = wire[p] \o <<f>> /\ wire'[Other(p)] = wire[Other(p)]
  BY <1>1, <1>2, WireAppended DEF Kept
<1>4. <<f>> \in Seq(Frame)
      /\ \A i \in 1 .. Len(<<f>>) :
           <<f>>[i].type = "flow" => Grants(Other(p), <<f>>[i], received'[p], received'[p])
  BY <1>1, OneOrNone
<1>5. received[p] <= received'[p] /\ received'[Other(p)] = received[Other(p)]
      /\ handed'[p] <= MaxTransfers[p] /\ handed'[Other(p)] = handed[Other(p)]
  BY <1>2, WindowFacts
<1> QED
  BY <1>2, <1>3, <1>4, <1>5, WindowPlainStep

\* The End a session receives leaves the wire and grants nothing.
LEMMA WindowIncomingEnd ==
  ASSUME Kept, NEW p \in Peer, OnIncomingEnd(p)
  PROVE  WindowInv'
<1> DEFINE o == Other(p)
           f == EndFrame(p)
           t == IF state[p] = "Mapped" THEN <<f>> ELSE <<>>
<1>1. f \in Frame /\ f.type # "flow"
  BY EndNoFlow DEF Kept
<1>2. wire' = [Rest(p) EXCEPT ![p] = @ \o t] /\ wire[o] # <<>>
      /\ UNCHANGED <<handed, sent, received, remote_incoming_window>>
  BY TakenFacts DEF OnIncomingEnd
<1> HIDE DEF f
<1>3. t \in Seq(Frame)
      /\ \A i \in 1 .. Len(t) : t[i].type = "flow" => Grants(o, t[i], received'[p], received'[p])
  BY <1>1, OneOrNone
<1> HIDE DEF t
<1>4. wire'[p] = wire[p] \o t /\ wire'[o] = Tail(wire[o])
  BY <1>2, WireSplit DEF Kept
<1>5. received[p] <= received'[p] /\ received'[o] = received[o]
      /\ handed'[p] <= MaxTransfers[p] /\ handed'[o] = handed[o]
  BY <1>2, WindowFacts
<1> QED
  BY <1>2, <1>3, <1>4, <1>5, WindowPlainStep

\* The window p computes from a flow leads exactly to what the flow grants.
LEMMA WindowFromFlow ==
  ASSUME Kept, NEW p \in Peer, Arrives(p, "flow")
  PROVE  LET flow == Head(wire[Other(p)])
             limit == Grant(p, flow) + IncomingWindow[Other(p)]
         IN  /\ sent[p] + RemoteIncomingWindow(p, flow) = limit
             /\ Limit(p) <= limit
             /\ Granting(p, Tail(wire[Other(p)]), limit, received[Other(p)])
<1> DEFINE o == Other(p)
           W == IncomingWindow[o]
           s == wire[o]
           flow == Head(wire[o])
           g == Grant(p, flow)
<1>1. s # <<>> /\ flow \in Frame /\ flow = s[1] /\ 1 \in 1 .. Len(s) /\ flow.type = "flow"
  BY TakenFacts
<1>2. Granting(p, s, Limit(p), received[o]) /\ s \in Seq(Frame)
      /\ sent[p] \in Nat /\ remote_incoming_window[p] \in Nat /\ received[o] \in Nat
      /\ o \in Peer
  BY WindowFacts DEF Limit
<1>3. Grants(p, flow, 0, received[o]) /\ Limit(p) <= g + W
  BY <1>1, <1>2 DEF Granting
<1>4. W \in Nat /\ InitialId[p] \in Nat /\ MaxTransfers[p] \in Nat /\ Modulus \in Nat
      /\ InitialId[p] + MaxTransfers[p] + W < Modulus
  BY WindowNat, ModulusAssumption, BoundAssumption DEF Kept, NoWrap
<1>5. flow \in Flow
  BY <1>1, GrantType
<1>6. next_outgoing_id[p] = InitialId[p] + sent[p] /\ received[o] <= MaxTransfers[p]
  <2>1. /\ next_outgoing_id[p] = InitialId[p] + sent[p]
        /\ received[o] <= sent[p] /\ sent[p] <= handed[p] /\ handed[p] <= MaxTransfers[p]
    BY Exact DEF Kept
  <2>2. handed[p] \in Nat
    BY DEF Kept, TypeOK
  <2> HIDE DEF o
  <2> QED
    BY <1>2, <1>4, <2>1, <2>2
<1> HIDE DEF o, s, W
<1>7. g \in 0 .. received[o] /\ flow.incoming_window = W
  BY <1>3 DEF Grants, W, o
<1>8. (IF flow.next_incoming_id = NoId THEN InitialId[p] ELSE flow.next_incoming_id)
        = InitialId[p] + g
  <2>1. flow.next_incoming_id \in Id \cup {NoId}
    BY <1>5 DEF Flow
  <2>2. CASE flow.next_incoming_id = NoId
    BY <1>4, <2>2 DEF Grant
  <2>3. CASE flow.next_incoming_id # NoId
    <3>1. flow.next_incoming_id \in Nat
      BY <2>1, <2>3, IdNat
    <3> QED
      BY <1>4, <2>3, <3>1 DEF Grant
  <2> QED
    BY <2>2, <2>3
<1> HIDE DEF flow, g
<1>9. sent[p] <= g + W
  BY <1>2, <1>3, <1>4, <1>7, SMTT(30) DEF Limit, o
<1>10. RemoteIncomingWindow(p, flow)
         = SaturatingSub(SaturatingAdd(InitialId[p] + g, W), InitialId[p] + sent[p])
  BY <1>6, <1>7, <1>8 DEF RemoteIncomingWindow
<1>11. InitialId[p] + g + W < Modulus
  BY <1>2, <1>4, <1>6, <1>7
<1>12. SaturatingSub(SaturatingAdd(InitialId[p] + g, W), InitialId[p] + sent[p])
         = (g + W) - sent[p]
  BY <1>2, <1>4, <1>7, <1>9, <1>11, SMTT(30) DEF SaturatingSub, SaturatingAdd
<1>13. sent[p] + RemoteIncomingWindow(p, flow) = g + W
  BY <1>2, <1>4, <1>7, <1>10, <1>12
<1>14. Granting(p, s, g + W, received[o])
  <2>1. g + W <= received[o] + W
    BY <1>2, <1>4, <1>7
  <2>2. ASSUME NEW i \in 1 .. Len(s), s[i].type = "flow"
        PROVE  g + W <= Grant(p, s[i]) + W
    <3>1. s[i] \in Frame /\ Len(s) \in Nat
      BY <1>2 DEF s
    <3>2. Grant(p, s[i]) \in Int
      BY <2>2, <3>1, GrantType
    <3>3. g <= Grant(p, s[i])
      <4>1. CASE i = 1
        BY <1>1, <1>7, <3>2, <4>1 DEF g, s
      <4>2. CASE i # 1
        <5>1. 1 < i
          BY <4>2
        <5>2. Grant(p, s[1]) <= Grant(p, s[i])
          BY <1>1, <1>2, <2>2, <5>1 DEF Granting, s
        <5> QED
          BY <1>1, <5>2 DEF g, s
      <4> QED
        BY <4>1, <4>2
    <3> QED
      BY <1>4, <1>7, <3>2, <3>3
  <2> QED
    BY <1>2, <2>1, <2>2 DEF Granting, s, W, o
<1>15. Granting(p, Tail(s), g + W, received[o])
  BY <1>1, <1>2, <1>14, GrantingTail DEF s
<1> QED
  BY <1>3, <1>13, <1>15 DEF flow, g, s, W, o

\* A flow arrives: p moves its limit to what the flow grants and echoes it if asked.
LEMMA WindowIncomingFlow ==
  ASSUME Kept, NEW p \in Peer, OnIncomingFlow(p)
  PROVE  WindowInv' /\ Limit(p) <= sent'[p] + remote_incoming_window'[p]
<1> DEFINE o == Other(p)
           flow == Head(wire[o])
           nii == flow.next_outgoing_id
           e == FlowFrame(p, nii, FALSE)
           echo == IF flow.echo THEN <<e>> ELSE <<>>
           frames == [Rest(p) EXCEPT ![p] = @ \o echo]
           w == RemoteIncomingWindow(p, flow)
           limit == Grant(p, flow) + IncomingWindow[o]
<1>1. Arrives(p, "flow") /\ wire[o] # <<>> /\ flow \in Frame /\ flow.type = "flow"
  BY TakenFacts DEF OnIncomingFlow
<1>2. sent[p] + w = limit /\ Limit(p) <= limit
      /\ Granting(p, Tail(wire[o]), limit, received[o])
  BY <1>1, WindowFromFlow
<1>3. Release(p, frames, w, exhausted_buffer[p])
      /\ next_incoming_id' = [next_incoming_id EXCEPT ![p] = nii]
      /\ UNCHANGED <<handed, received>>
  BY DEF OnIncomingFlow
<1>4. flow \in Flow
  BY <1>1, GrantType
<1> HIDE DEF flow
<1>5. w \in Id
  BY <1>4, RemoteIncomingWindowType DEF Kept
<1> HIDE DEF w, limit
<1>6. next_incoming_id'[p] = nii /\ nii \in Id
  BY <1>3, <1>4 DEF Kept, TypeOK, Flow
<1> HIDE DEF nii
<1>7. o \in Peer /\ o # p /\ TypeOK /\ exhausted_buffer[p] \in Seq(LinkTransfer)
  BY WindowFacts DEF Kept, TypeOK
<1>8. e \in Frame
  BY <1>6, <1>7, FlowFrameType DEF Frame
<1>9. echo \in Seq(Frame)
  <2> HIDE DEF e
  <2> QED BY <1>8, OneOrNone
<1>10. /\ frames \in [Peer -> Seq(Frame)]
       /\ frames[p] = wire[p] \o echo /\ frames[o] = Tail(wire[o])
  <2> HIDE DEF echo
  <2> QED BY <1>1, <1>7, <1>9, WireStep, WireSplit
<1> HIDE DEF frames
<1>11. /\ sent'[p] + remote_incoming_window'[p] = sent[p] + w
       /\ \E t \in Seq(Frame) :
            wire'[p] = frames[p] \o t /\ \A i \in 1 .. Len(t) : t[i].type # "flow"
       /\ \A q \in Peer \ {p} :
            /\ wire'[q] = frames[q] /\ sent'[q] = sent[q]
            /\ remote_incoming_window'[q] = remote_incoming_window[q]
  BY <1>3, <1>5, <1>7, <1>10, ReleaseLimit
<1>12. PICK t \in Seq(Frame) :
         wire'[p] = frames[p] \o t /\ \A i \in 1 .. Len(t) : t[i].type # "flow"
  BY <1>11
<1>13. wire'[o] = Tail(wire[o]) /\ sent'[o] = sent[o]
       /\ remote_incoming_window'[o] = remote_incoming_window[o]
  BY <1>7, <1>10, <1>11
<1>14. Grants(o, e, received'[p], received'[p])
  BY <1>6, <1>13, WindowFlow
<1> HIDE DEF e
<1>15. \A i \in 1 .. Len(echo) : Grants(o, echo[i], received'[p], received'[p])
  BY <1>8, <1>14, OneOrNone
<1> HIDE DEF echo
<1>16. /\ echo \o t \in Seq(Frame) /\ wire'[p] = wire[p] \o (echo \o t)
       /\ \A i \in 1 .. Len(echo \o t) :
            (echo \o t)[i].type = "flow" =>
               Grants(o, (echo \o t)[i], received'[p], received'[p])
  <2>1. echo \o t \in Seq(Frame) /\ wire'[p] = wire[p] \o (echo \o t)
    <3>1. wire[p] \in Seq(Frame) /\ wire'[p] = (wire[p] \o echo) \o t
      BY <1>10, <1>12, WindowFacts
    <3>2. \A a, b, c \in Seq(Frame) : (a \o b) \o c = a \o (b \o c) /\ b \o c \in Seq(Frame)
      OBVIOUS
    <3> QED
      BY <1>9, <3>1, <3>2
  <2>2. ASSUME NEW i \in 1 .. Len(echo \o t), (echo \o t)[i].type = "flow"
        PROVE  Grants(o, (echo \o t)[i], received'[p], received'[p])
    <3>1. Len(echo) \in Nat /\ Len(t) \in Nat /\ Len(echo \o t) = Len(echo) + Len(t)
      BY <1>9
    <3>2. CASE i <= Len(echo)
      <4>1. (echo \o t)[i] = echo[i] /\ i \in 1 .. Len(echo)
        BY <1>9, <3>1, <3>2
      <4> QED
        BY <1>15, <4>1
    <3>3. CASE i > Len(echo)
      <4>1. (echo \o t)[i] = t[i - Len(echo)] /\ i - Len(echo) \in 1 .. Len(t)
        BY <1>9, <3>1, <3>3
      <4> QED
        BY <1>12, <2>2, <4>1
    <3> QED
      BY <3>1, <3>2, <3>3
  <2> QED
    BY <2>1, <2>2
<1>17. Granting(p, wire'[o], sent'[p] + remote_incoming_window'[p], received[o])
  BY <1>2, <1>11, <1>13
<1>18. received'[p] \in Nat /\ received[p] <= received'[p] /\ received'[o] = received[o]
       /\ handed'[p] <= MaxTransfers[p] /\ handed'[o] = handed[o]
  BY <1>3, WindowFacts
<1> DEFINE u == echo \o t
<1> HIDE DEF u, o
<1>19. WindowInv'
  BY <1>7, <1>13, <1>16, <1>17, <1>18, WindowStep DEF Kept, u, o
<1> QED
  BY <1>2, <1>11, <1>19

\* The links hand over within their bound.
LEMMA WindowLinks ==
  ASSUME Kept, NEW p \in Peer,
         \/ \E first \in BOOLEAN : LinkSendTransfer(p, first)
         \/ \E echo \in BOOLEAN : LinkSendFlow(p, echo)
         \/ OnControlEnd(p)
  PROVE  WindowInv'
<1>1. UNCHANGED <<wire, sent, received, remote_incoming_window>>
      /\ handed' \in {handed, [handed EXCEPT ![p] = @ + 1]}
      /\ (handed' # handed => handed[p] < MaxTransfers[p])
  BY DEF LinkSendTransfer, LinkSendFlow, OnControlEnd
<1>2. /\ handed'[p] <= MaxTransfers[p] /\ handed'[Other(p)] = handed[Other(p)]
  <2>1. handed \in [Peer -> Nat] /\ MaxTransfers[p] \in Nat /\ Other(p) \in Peer
        /\ Other(p) # p /\ handed[p] <= MaxTransfers[p]
    BY WindowFacts, BoundAssumption DEF Kept, TypeOK
  <2> QED
    BY <1>1, <2>1
<1> DEFINE t == <<>>
<1>3. /\ wire'[p] = wire[p] \o t /\ t \in Seq(Frame)
      /\ \A i \in 1 .. Len(t) :
           t[i].type = "flow" => Grants(Other(p), t[i], received'[p], received'[p])
  BY <1>1, WindowFacts
<1> HIDE DEF t
<1>4. received[p] <= received'[p] /\ received'[Other(p)] = received[Other(p)]
      /\ wire'[Other(p)] = wire[Other(p)]
  BY <1>1, WindowFacts
<1> QED
  BY <1>1, <1>2, <1>3, <1>4, WindowPlainStep

\* At first the windows are those of the Begins and nothing is on the wire.
LEMMA InitWindow == Init => WindowInv
<1> SUFFICES ASSUME Init, NEW p \in Peer PROVE Window(p)
  BY DEF WindowInv
<1> DEFINE o == Other(p)
           W == IncomingWindow[o]
<1>1. o \in Peer /\ W \in Nat /\ MaxTransfers[p] \in Nat /\ Other(o) = p
  BY PeerFacts, WindowNat, BoundAssumption
<1>2. handed[p] = 0 /\ Limit(p) = W /\ received[o] = 0
  BY <1>1 DEF Init, Limit
<1>3. CASE o \in Pipelined
  <2> DEFINE f == [type |-> "flow", next_incoming_id |-> NoId, incoming_window |-> W,
                   next_outgoing_id |-> InitialId[o], echo |-> FALSE, seq |-> 0]
  <2>1. wire[o] = <<f>> /\ f.next_incoming_id = NoId /\ f.incoming_window = W
    BY <1>1, <1>3 DEF Init
  <2> HIDE DEF f
  <2>2. Grant(p, f) = 0
    BY <2>1 DEF Grant
  <2>3. Len(wire[o]) = 1 /\ wire[o][1] = f
    BY <2>1
  <2> HIDE DEF o, W
  <2>4. Granting(p, wire[o], W, 0)
    BY <1>1, <2>1, <2>2, <2>3 DEF Granting, Grants, W, o
  <2> QED
    BY <1>1, <1>2, <2>4 DEF Window, o
<1>4. CASE o \notin Pipelined
  <2>1. wire[o] = <<>>
    BY <1>1, <1>4 DEF Init
  <2>2. Granting(p, wire[o], W, 0)
    BY <1>1, <2>1, GrantingNone
  <2> QED
    BY <1>1, <1>2, <2>2 DEF Window
<1> QED
  BY <1>3, <1>4

\* Every step of either endpoint keeps the windows respected.
LEMMA NextWindow ==
  ASSUME NoWrap, TypeOK, SyncInv, WindowInv, [Next]_vars
  PROVE  WindowInv'
<1>1. Kept
  BY NextTypeOK, NextSync DEF Kept
<1>2. CASE UNCHANGED vars
  BY <1>2 DEF vars, WindowInv, Window, Granting, Grants, Grant, Limit
<1> QED
  BY <1>1, <1>2, WindowOutgoingTransfer, WindowOutgoingFlow, WindowIncomingFlow,
     WindowIncomingTransfer, WindowSendEnd, WindowIncomingEnd, WindowLinks DEF Next

-----------------------------------------------------------------------------
(* Counting.                                                               *)

\* A set of naturals has a least element: induction over positions and counts.
LEMMA LeastNat ==
  ASSUME NEW T, T \subseteq Nat, T # {}
  PROVE  \E x \in T : \A y \in T : x <= y
<1> DEFINE R == {ss \in Nat \X Nat : ss[1] < ss[2]}
<1>1. IsWellFoundedOn(R, Nat)
  BY NatLessThanWellFounded DEF OpToRel
<1>2. \E x \in T : \A y \in T : ~(<<y, x>> \in R)
  <2> HIDE DEF R
  <2> QED BY <1>1, WFMin
<1>3. PICK x \in T : \A y \in T : ~(<<y, x>> \in R)
  BY <1>2
<1>4. ASSUME NEW y \in T PROVE x <= y
  <2>1. x \in Nat /\ y \in Nat /\ <<y, x>> \in Nat \X Nat
    OBVIOUS
  <2>2. <<y, x>>[1] = y /\ <<y, x>>[2] = x
    OBVIOUS
  <2>3. ~(y < x)
    BY <1>3, <2>1, <2>2
  <2> QED BY <2>1, <2>3
<1> QED
  BY <1>4

\* A set whose members are numbered by the members of T has as many of them.
LEMMA SameCount ==
  ASSUME NEW P, NEW T, IsFiniteSet(T), NEW num,
         \A j \in P : num[j] \in T,
         \A x, y \in P : num[x] = num[y] => x = y,
         \A n \in T : \E x \in P : num[x] = n
  PROVE  IsFiniteSet(P) /\ Cardinality(P) = Cardinality(T)
<1> DEFINE f == [j \in P |-> num[j]]
<1>1. f \in [P -> T]
  OBVIOUS
<1>2. \A x, y \in P : f[x] = f[y] => x = y
  OBVIOUS
<1>3. \A n \in T : \E x \in P : f[x] = n
  OBVIOUS
<1> HIDE DEF f
<1>4. f \in Injection(P, T) /\ f \in Surjection(P, T)
  BY <1>1, <1>2, <1>3, Fun_IsInj, Fun_IsSurj
<1> QED
  BY <1>4, FS_Injection

\* The positions of the transfers among the first k frames of s.
TransfersUpTo(s, k) == {j \in 1 .. k : s[j].type = "transfer"}

\* A chain misses no number.
LEMMA ChainedCovers ==
  ASSUME NEW S, \A f \in S : f.seq \in Nat, NEW s \in Seq(S),
         NEW lo \in Nat, NEW hi \in Nat, Chained(s, lo, hi), NEW n \in lo .. hi - 1
  PROVE  \E i \in 1 .. Len(s) : s[i].type = "transfer" /\ s[i].seq = n
<1> DEFINE m == Len(s)
           T == {i \in 1 .. m : s[i].seq + Step(s[i]) > n}
<1>1. m \in Nat /\ \A i \in 1 .. m : s[i].seq \in Nat /\ Step(s[i]) \in 0 .. 1
  BY DEF Step
<1>2. m > 0 /\ s[1].seq = lo /\ s[m].seq + Step(s[m]) = hi
      /\ \A i \in 1 .. m - 1 : s[i + 1].seq = s[i].seq + Step(s[i])
  BY <1>1 DEF Chained
<1> HIDE DEF m
<1>3. T \subseteq Nat /\ m \in T
  BY <1>1, <1>2
<1>4. PICK i \in T : \A j \in T : i <= j
  BY <1>3, LeastNat
<1>5. i \in 1 .. m /\ s[i].seq + Step(s[i]) > n
  OBVIOUS
<1>6. s[i].seq <= n
  <2>1. CASE i = 1
    BY <1>2, <2>1
  <2>2. CASE i # 1
    <3>1. i - 1 \in 1 .. m - 1 /\ i - 1 \in 1 .. m /\ (i - 1) + 1 = i /\ ~(i <= i - 1)
      BY <1>1, <1>5, <2>2
    <3>2. ~(s[i - 1].seq + Step(s[i - 1]) > n)
      BY <1>4, <3>1
    <3>3. s[i].seq = s[i - 1].seq + Step(s[i - 1])
      BY <1>2, <3>1
    <3> QED
      BY <1>1, <3>1, <3>2, <3>3
  <2> QED
    BY <2>1, <2>2
<1>7. s[i].seq = n /\ Step(s[i]) = 1
  BY <1>1, <1>5, <1>6
<1> QED
  BY <1>5, <1>7 DEF Step, m

\* The transfers up to a frame of a chain are as many as its number says.
LEMMA ChainedCount ==
  ASSUME NEW S, \A f \in S : f.seq \in Nat, NEW s \in Seq(S),
         NEW lo \in Nat, NEW hi \in Nat, Chained(s, lo, hi), NEW k \in 1 .. Len(s)
  PROVE  /\ IsFiniteSet(TransfersUpTo(s, k))
         /\ Cardinality(TransfersUpTo(s, k)) = (s[k].seq + Step(s[k])) - lo
<1> DEFINE m == Len(s)
           P == TransfersUpTo(s, k)
           top == s[k].seq + Step(s[k])
           num == [j \in 1 .. m |-> s[j].seq]
<1>1. m \in Nat /\ \A i \in 1 .. m : s[i].seq \in Nat /\ Step(s[i]) \in 0 .. 1
  BY DEF Step
<1>2. /\ \A i \in 1 .. m : lo <= s[i].seq /\ s[i].seq + Step(s[i]) <= hi
      /\ \A i, j \in 1 .. m : i < j => s[i].seq + Step(s[i]) <= s[j].seq
  BY DEF Chained
<1>3. ASSUME NEW n \in lo .. hi - 1
      PROVE  \E i \in 1 .. m : s[i].type = "transfer" /\ s[i].seq = n
  BY ChainedCovers
<1>4. \A j \in P : j \in 1 .. m /\ j <= k /\ s[j].type = "transfer" /\ Step(s[j]) = 1
  BY <1>1 DEF TransfersUpTo, Step
<1>5. \A j \in 1 .. m : j <= k /\ s[j].type = "transfer" => j \in P
  BY DEF TransfersUpTo
<1> HIDE DEF m, P
<1>6. top \in Nat /\ lo <= top /\ top <= hi
  BY <1>1, <1>2 DEF m
<1>7. \A j \in P : s[j].seq \in lo .. top - 1
  <2> SUFFICES ASSUME NEW j \in P PROVE s[j].seq \in lo .. top - 1
    OBVIOUS
  <2>1. j \in 1 .. m /\ j <= k /\ Step(s[j]) = 1
    BY <1>4
  <2>2. CASE j = k
    BY <1>1, <1>2, <2>1, <2>2
  <2>3. CASE j < k
    <3>1. s[j].seq + Step(s[j]) <= s[k].seq
      BY <1>2, <2>1, <2>3 DEF m
    <3> QED
      BY <1>1, <1>2, <2>1, <3>1 DEF m
  <2> QED
    BY <1>1, <2>1, <2>2, <2>3 DEF m
<1>8. \A x, y \in P : s[x].seq = s[y].seq => x = y
  <2> SUFFICES ASSUME NEW x \in P, NEW y \in P, x < y PROVE s[x].seq # s[y].seq
    BY <1>1, <1>4
  <2>1. s[x].seq + Step(s[x]) <= s[y].seq
    BY <1>2, <1>4
  <2> QED
    BY <1>1, <1>4, <2>1
<1>9. \A n \in lo .. top - 1 : \E x \in P : s[x].seq = n
  <2> SUFFICES ASSUME NEW n \in lo .. top - 1 PROVE \E x \in P : s[x].seq = n
    OBVIOUS
  <2>1. PICK i \in 1 .. m : s[i].type = "transfer" /\ s[i].seq = n
    BY <1>3, <1>6
  <2>2. i <= k
    <3>1. k < i => top <= s[i].seq
      BY <1>2 DEF m
    <3> QED
      BY <1>1, <1>6, <2>1, <3>1 DEF m
  <2>3. i \in P
    BY <1>5, <2>1, <2>2
  <2> QED
    BY <2>1, <2>3
<1>10. /\ \A j \in P : num[j] \in lo .. top - 1
       /\ \A x, y \in P : num[x] = num[y] => x = y
       /\ \A n \in lo .. top - 1 : \E x \in P : num[x] = n
  <2>1. \A j \in P : num[j] = s[j].seq
    BY <1>4
  <2> HIDE DEF num
  <2> QED
    BY <1>7, <1>8, <1>9, <2>1
<1> HIDE DEF top, num
<1> DEFINE T == lo .. top - 1
<1>11. IsFiniteSet(T) /\ Cardinality(T) = top - lo
  <2>1. IsFiniteSet(T) /\ Cardinality(T) = IF lo > top - 1 THEN 0 ELSE ((top - 1) - lo) + 1
    BY <1>6, FS_Interval
  <2> HIDE DEF T
  <2> QED
    BY <1>6, <2>1
<1>12. IsFiniteSet(P) /\ Cardinality(P) = Cardinality(T)
  <2> HIDE DEF T
  <2>1. /\ \A j \in P : num[j] \in T
        /\ \A x, y \in P : num[x] = num[y] => x = y
        /\ \A n \in T : \E x \in P : num[x] = n
    BY <1>10 DEF T
  <2> QED
    BY <1>11, <2>1, SameCount, Zenon
<1> HIDE DEF T
<1> QED
  BY <1>11, <1>12 DEF P, top

\* All the transfers of a chain.
LEMMA ChainedSize ==
  ASSUME NEW S, \A f \in S : f.seq \in Nat, NEW s \in Seq(S),
         NEW lo \in Nat, NEW hi \in Nat, Chained(s, lo, hi)
  PROVE  /\ IsFiniteSet(TransfersUpTo(s, Len(s)))
         /\ Cardinality(TransfersUpTo(s, Len(s))) = hi - lo
<1>1. Len(s) \in Nat
  OBVIOUS
<1>2. CASE Len(s) = 0
  <2>1. TransfersUpTo(s, Len(s)) = {}
    BY <1>2 DEF TransfersUpTo
  <2>2. hi - lo = 0
    BY <1>2 DEF Chained
  <2> QED
    BY <2>1, <2>2, FS_EmptySet
<1>3. CASE Len(s) > 0
  <2>1. Len(s) \in 1 .. Len(s) /\ s[Len(s)].seq + Step(s[Len(s)]) = hi
    BY <1>1, <1>3 DEF Chained
  <2> QED
    BY <2>1, ChainedCount
<1> QED
  BY <1>1, <1>2, <1>3

-----------------------------------------------------------------------------
(* The theorems.                                                           *)

\* What is in flight from p.
LEMMA InFlightCount ==
  ASSUME TypeOK, SyncInv, NEW p \in Peer
  PROVE  /\ InFlight(p) = TransfersUpTo(wire[p], Len(wire[p]))
         /\ IsFiniteSet(InFlight(p))
         /\ Cardinality(InFlight(p)) = sent[p] - received[Other(p)]
<1>1. wire[p] \in Seq(Frame) /\ sent[p] \in Nat /\ received[Other(p)] \in Nat
      /\ Chained(wire[p], received[Other(p)], sent[p])
  BY PeerFacts DEF TypeOK, SyncInv, Sync
<1>2. InFlight(p) = TransfersUpTo(wire[p], Len(wire[p]))
  BY <1>1 DEF InFlight, TransfersUpTo
<1> QED
  BY <1>1, <1>2, FrameSeqs, ChainedSize

\* Window safety: away from the wrap an endpoint never has more transfers in flight
\* than its peer's incoming-window, however flows, echoes and transfers cross
\* (on_incoming_flow's remote_incoming_window).
THEOREM WindowSafety ==
  ASSUME NoWrap
  PROVE  Spec => []WindowRespected
<1>1. ASSUME TypeOK, SyncInv, WindowInv
      PROVE  WindowRespected
  <2> SUFFICES ASSUME NEW p \in Peer
               PROVE  Cardinality(InFlight(p)) <= IncomingWindow[Other(p)]
    BY DEF WindowRespected
  <2>1. Cardinality(InFlight(p)) = sent[p] - received[Other(p)]
    BY <1>1, InFlightCount
  <2>2. sent[p] \in Nat /\ received[Other(p)] \in Nat /\ remote_incoming_window[p] \in Nat
        /\ IncomingWindow[Other(p)] \in Nat
    BY <1>1, PeerFacts, IdNat, WindowNat DEF TypeOK
  <2>3. sent[p] + remote_incoming_window[p] <= received[Other(p)] + IncomingWindow[Other(p)]
    BY <1>1 DEF WindowInv, Window, Granting, Limit
  <2> QED
    BY <2>1, <2>2, <2>3
<1>2. TypeOK /\ SyncInv /\ WindowInv /\ [Next]_vars => WindowInv'
  BY NextWindow
<1> QED
  BY <1>1, <1>2, InitTypeOK, NextTypeOK, InitSync, NextSync, InitWindow, PTL DEF Spec

\* What waits in the links' channel of p.
LEMMA WaitingCount ==
  ASSUME NEW s \in Seq(LinkTransfer \cup LinkFlow), NEW lo \in Nat, NEW hi \in Nat,
         Chained(s, lo, hi)
  PROVE  LET waiting == {i \in DOMAIN s : IsTransfer(s[i])}
         IN /\ IsFiniteSet(waiting) /\ Cardinality(waiting) = hi - lo
            /\ \A i \in waiting : s[i].seq = lo + Cardinality({j \in waiting : j < i})
<1> DEFINE waiting == {i \in DOMAIN s : IsTransfer(s[i])}
           m == Len(s)
<1>1. m \in Nat /\ \A i \in 1 .. m : s[i].seq \in Nat
  BY FrameSeqs
<1>2. waiting = TransfersUpTo(s, m)
  BY DEF TransfersUpTo, IsTransfer
<1>3. IsFiniteSet(waiting) /\ Cardinality(waiting) = hi - lo
  <2> HIDE DEF waiting
  <2> QED BY <1>2, FrameSeqs, ChainedSize
<1>4. ASSUME NEW i \in waiting
      PROVE  s[i].seq = lo + Cardinality({j \in waiting : j < i})
  <2> DEFINE before == {j \in waiting : j < i}
             upTo == TransfersUpTo(s, i)
  <2>1. i \in 1 .. m /\ s[i].type = "transfer" /\ Step(s[i]) = 1
    BY DEF IsTransfer, Step
  <2>2. IsFiniteSet(upTo) /\ Cardinality(upTo) = (s[i].seq + 1) - lo
    BY <2>1, FrameSeqs, ChainedCount
  <2>3. i \in upTo /\ upTo \ {i} = before
    BY <1>1, <2>1 DEF TransfersUpTo, IsTransfer
  <2> HIDE DEF upTo, before
  <2>4. Cardinality(before) = Cardinality(upTo) - 1
    BY <2>2, <2>3, FS_RemoveElement
  <2> QED
    BY <1>1, <2>1, <2>2, <2>4 DEF before
<1> QED
  BY <1>3, <1>4

\* Every transfer a link hands over is in exactly one place, in the order of the
\* hand-over: received, in flight, held back or waiting in the channel
\* (on_outgoing_transfer, on_incoming_flow).
THEOREM InOrder == Spec => []HandedInOrder
<1>1. ASSUME TypeOK, SyncInv
      PROVE  HandedInOrder
  <2> SUFFICES ASSUME NEW p \in Peer
               PROVE  LET waiting == {i \in DOMAIN link_frames[p] : IsTransfer(link_frames[p][i])}
                          taken == received[Other(p)]
                          gone == taken + Cardinality(InFlight(p))
                          held == gone + Len(exhausted_buffer[p])
                      IN /\ handed[p] = held + Cardinality(waiting)
                         /\ \A i \in InFlight(p) :
                              wire[p][i].no = taken + Cardinality({j \in InFlight(p) : j <= i})
                         /\ \A i \in DOMAIN exhausted_buffer[p] :
                              exhausted_buffer[p][i].seq = gone + (i - 1)
                         /\ \A i \in waiting :
                              link_frames[p][i].seq = held + Cardinality({j \in waiting : j < i})
    BY DEF HandedInOrder
  <2> DEFINE s == link_frames[p]
             waiting == {i \in DOMAIN s : IsTransfer(s[i])}
             taken == received[Other(p)]
             gone == taken + Cardinality(InFlight(p))
             held == gone + Len(exhausted_buffer[p])
  <2>1. /\ s \in Seq(LinkTransfer \cup LinkFlow) /\ wire[p] \in Seq(Frame)
        /\ exhausted_buffer[p] \in Seq(LinkTransfer)
        /\ taken \in Nat /\ sent[p] \in Nat /\ handed[p] \in Nat
        /\ Len(exhausted_buffer[p]) \in Nat
    BY <1>1, PeerFacts DEF TypeOK
  <2>2. /\ Chained(wire[p], taken, sent[p]) /\ AllAnnounced(p, wire[p])
        /\ Numbered(exhausted_buffer[p], sent[p])
        /\ Chained(s, sent[p] + Len(exhausted_buffer[p]), handed[p])
    BY <1>1 DEF SyncInv, Sync
  <2>3. gone = sent[p] /\ InFlight(p) = TransfersUpTo(wire[p], Len(wire[p]))
    <3> HIDE DEF taken
    <3> QED
      BY <1>1, <2>1, InFlightCount DEF taken
  <2> HIDE DEF taken, gone
  <2>4. held = sent[p] + Len(exhausted_buffer[p]) /\ held \in Nat
    BY <2>1, <2>3
  <2> HIDE DEF held, s
  <2>5. /\ Cardinality(waiting) = handed[p] - held
        /\ \A i \in waiting : s[i].seq = held + Cardinality({j \in waiting : j < i})
    BY <2>1, <2>2, <2>4, WaitingCount
  <2> HIDE DEF waiting
  <2>6. handed[p] = held + Cardinality(waiting)
    BY <2>1, <2>4, <2>5
  <2>7. ASSUME NEW i \in InFlight(p)
        PROVE  wire[p][i].no = taken + Cardinality({j \in InFlight(p) : j <= i})
    <3>1. i \in 1 .. Len(wire[p]) /\ wire[p][i].type = "transfer" /\ Step(wire[p][i]) = 1
      BY <2>1 DEF InFlight, Step
    <3>2. Cardinality(TransfersUpTo(wire[p], i)) = (wire[p][i].seq + 1) - taken
      BY <2>1, <2>2, <3>1, FrameSeqs, ChainedCount
    <3>3. {j \in InFlight(p) : j <= i} = TransfersUpTo(wire[p], i)
      BY <2>1, <2>3, <3>1 DEF TransfersUpTo
    <3>4. wire[p][i].no = wire[p][i].seq + 1 /\ wire[p][i].seq \in Nat
      BY <2>1, <2>2, <3>1, FrameSeqs DEF AllAnnounced, Announced
    <3> DEFINE n == Cardinality({j \in InFlight(p) : j <= i})
    <3>5. n = (wire[p][i].seq + 1) - taken
      BY <3>2, <3>3
    <3> HIDE DEF n
    <3>6. wire[p][i].no = taken + n
      BY <2>1, <3>4, <3>5
    <3> QED
      BY <3>6 DEF n
  <2>8. \A i \in DOMAIN exhausted_buffer[p] : exhausted_buffer[p][i].seq = gone + (i - 1)
    <3>1. DOMAIN exhausted_buffer[p] = 1 .. Len(exhausted_buffer[p])
      BY <2>1
    <3> QED
      BY <2>2, <2>3, <3>1 DEF Numbered
  <2> QED
    BY <2>5, <2>6, <2>7, <2>8 DEF waiting, held, gone, taken, s
<1> QED
  BY <1>1, InitTypeOK, NextTypeOK, InitSync, NextSync, PTL DEF Spec

-----------------------------------------------------------------------------
(* The refinement.                                                         *)

\* A step of SlidingWindow in the direction from p, or none.
Slides(p) ==
  LET W == IncomingWindow[Other(p)]
      o == Other(p)
      limit == Limit(p)
      next == sent'[p] + remote_incoming_window'[p]
  IN \/ /\ handed'[p] = handed[p] + 1
        /\ sent'[p] = sent[p] /\ next = limit /\ received'[o] = received[o]
     \/ /\ limit <= next /\ next <= received[o] + W
        /\ sent[p] <= sent'[p] /\ sent'[p] <= handed[p] /\ sent'[p] <= next
        /\ handed'[p] = handed[p] /\ received'[o] = received[o]
     \/ /\ received[o] < sent[p] /\ received'[o] = received[o] + 1
        /\ handed'[p] = handed[p] /\ sent'[p] = sent[p] /\ next = limit
     \/ /\ handed'[p] = handed[p] /\ received'[o] = received[o]
        /\ sent'[p] = sent[p] /\ next = limit

\* The sender's counts after a step.
LEMMA CountsNext ==
  ASSUME Kept, WindowInv', NEW p \in Peer
  PROVE  /\ sent'[p] \in Nat /\ remote_incoming_window'[p] \in Nat /\ handed'[p] \in Nat
         /\ sent'[p] <= handed'[p]
         /\ sent'[p] + remote_incoming_window'[p]
              <= received'[Other(p)] + IncomingWindow[Other(p)]
<1>1. sent'[p] \in Nat /\ remote_incoming_window'[p] \in Nat /\ handed'[p] \in Nat
      /\ Len(exhausted_buffer'[p]) \in Nat
  <2>1. sent'[p] \in Nat /\ remote_incoming_window'[p] \in Id /\ handed'[p] \in Nat
        /\ exhausted_buffer'[p] \in Seq(LinkTransfer)
    BY DEF Kept, TypeOK
  <2>2. remote_incoming_window'[p] \in Nat
    BY <2>1, IdNat
  <2>3. \A u \in Seq(LinkTransfer) : Len(u) \in Nat
    OBVIOUS
  <2> QED
    BY <2>1, <2>2, <2>3
<1>2. Sync(p)' /\ Window(p)'
  BY DEF Kept, SyncInv, WindowInv
<1>3. sent'[p] + Len(exhausted_buffer'[p]) <= handed'[p]
  BY <1>2 DEF Sync, Chained
<1>4. sent'[p] + remote_incoming_window'[p] <= received'[Other(p)] + IncomingWindow[Other(p)]
  BY <1>2 DEF Window, Granting, Limit
<1> QED
  BY <1>1, <1>3, <1>4

\* Steps of p that move its limit or what it has sent.
LEMMA SlidesAdvance ==
  ASSUME Kept, WindowInv', NEW p \in Peer,
         Limit(p) <= sent'[p] + remote_incoming_window'[p], sent[p] <= sent'[p],
         handed'[p] = handed[p], received'[Other(p)] = received[Other(p)]
  PROVE  Slides(p)
<1>1. /\ sent'[p] \in Nat /\ remote_incoming_window'[p] \in Nat /\ handed'[p] \in Nat
      /\ sent'[p] <= handed'[p]
      /\ sent'[p] + remote_incoming_window'[p]
              <= received'[Other(p)] + IncomingWindow[Other(p)]
  BY CountsNext
<1>2. sent'[p] <= sent'[p] + remote_incoming_window'[p]
  BY <1>1
<1> QED
  BY <1>1, <1>2 DEF Slides

\* Every step slides both directions.
LEMMA NextSlides ==
  ASSUME NoWrap, TypeOK, SyncInv, WindowInv, [Next]_vars, NEW q \in Peer
  PROVE  Slides(q)
<1>1. Kept /\ WindowInv'
  BY NextTypeOK, NextSync, NextWindow DEF Kept
<1>2. ASSUME sent'[q] = sent[q], remote_incoming_window'[q] = remote_incoming_window[q],
             handed'[q] = handed[q], received'[Other(q)] = received[Other(q)]
      PROVE  Slides(q)
  BY <1>2 DEF Slides, Limit
<1>3. ASSUME NEW p \in Peer, \/ \E echo \in BOOLEAN : LinkSendFlow(p, echo)
                             \/ OnControlEnd(p) \/ OnOutgoingFlow(p)
                             \/ SendEnd(p) \/ OnIncomingEnd(p)
      PROVE  Slides(q)
  <2>1. UNCHANGED <<sent, remote_incoming_window, handed, received>>
    BY <1>3 DEF LinkSendFlow, OnControlEnd, OnOutgoingFlow, SendEnd, OnIncomingEnd
  <2> QED
    BY <1>2, <2>1
<1>4. ASSUME NEW p \in Peer, NEW first \in BOOLEAN, LinkSendTransfer(p, first)
      PROVE  Slides(q)
  <2>1. UNCHANGED <<sent, remote_incoming_window, received>>
        /\ handed' = [handed EXCEPT ![p] = @ + 1]
    BY <1>4 DEF LinkSendTransfer
  <2>2. handed'[q] = handed[q] \/ handed'[q] = handed[q] + 1
    BY <2>1 DEF TypeOK
  <2> QED
    BY <1>2, <2>1, <2>2 DEF Slides, Limit
<1>5. ASSUME NEW p \in Peer, OnIncomingTransfer(p)
      PROVE  Slides(q)
  <2>1. UNCHANGED <<sent, remote_incoming_window, handed>>
        /\ received' = [received EXCEPT ![p] = @ + 1]
    BY <1>5 DEF OnIncomingTransfer
  <2>2. CASE Other(q) = p
    <3>1. received'[p] = received[p] + 1 /\ received[p] \in Nat /\ sent[q] \in Nat
          /\ received'[p] \in Nat
      BY <2>1, SMTT(30) DEF TypeOK
    <3>2. received'[p] <= sent'[q]
      <4>1. Sync(q)'
        BY <1>1 DEF Kept, SyncInv
      <4> QED
        BY <2>2, <4>1 DEF Sync, Chained
    <3>3. received[p] < sent[q]
      BY <2>1, <3>1, <3>2
    <3> QED
      BY <2>1, <2>2, <3>1, <3>3 DEF Slides, Limit
  <2>3. CASE Other(q) # p
    <3>1. received'[Other(q)] = received[Other(q)]
      BY <2>1, <2>3, PeerFacts DEF TypeOK
    <3> QED
      BY <1>2, <2>1, <3>1
  <2> QED
    BY <2>2, <2>3
<1>6. ASSUME NEW p \in Peer, OnOutgoingTransfer(p)
      PROVE  Slides(q)
  <2> DEFINE pending == Append(exhausted_buffer[p], Head(link_frames[p]))
  <2>1. pending \in Seq(LinkTransfer) /\ remote_incoming_window[p] \in Id
    <3>1. Head(link_frames[p]) \in LinkTransfer
      BY <1>6, SMTT(30) DEF OnOutgoingTransfer, LinkFlow, TypeOK
    <3> QED
      BY <3>1 DEF TypeOK
  <2>2. Release(p, wire, remote_incoming_window[p], pending)
        /\ UNCHANGED <<handed, received>>
    BY <1>6 DEF OnOutgoingTransfer
  <2>3. wire \in [Peer -> Seq(Frame)]
    BY DEF TypeOK
  <2> HIDE DEF pending
  <2>4. /\ sent'[p] + remote_incoming_window'[p] = sent[p] + remote_incoming_window[p]
        /\ sent[p] <= sent'[p]
        /\ \A r \in Peer \ {p} :
             sent'[r] = sent[r] /\ remote_incoming_window'[r] = remote_incoming_window[r]
    BY <2>1, <2>2, <2>3, ReleaseLimit
  <2>5. CASE q = p
    <3>1. Limit(q) <= sent'[q] + remote_incoming_window'[q]
      <4>1. sent[p] \in Nat /\ remote_incoming_window[p] \in Nat
        BY IdNat DEF TypeOK
      <4>2. sent[p] + remote_incoming_window[p] <= sent[p] + remote_incoming_window[p]
        BY <4>1
      <4> QED
        BY <2>4, <2>5, <4>2 DEF Limit
    <3> QED
      BY <1>1, <2>2, <2>4, <2>5, <3>1, SlidesAdvance
  <2>6. CASE q # p
    BY <1>2, <2>2, <2>4, <2>6
  <2> QED
    BY <2>5, <2>6
<1>7. ASSUME NEW p \in Peer, OnIncomingFlow(p)
      PROVE  Slides(q)
  <2> DEFINE flow == Head(wire[Other(p)])
             w == RemoteIncomingWindow(p, flow)
             echo == IF flow.echo THEN <<FlowFrame(p, flow.next_outgoing_id, FALSE)>> ELSE <<>>
             frames == [Rest(p) EXCEPT ![p] = @ \o echo]
  <2>1. Release(p, frames, w, exhausted_buffer[p]) /\ UNCHANGED <<handed, received>>
    BY <1>7 DEF OnIncomingFlow
  <2>2. Limit(p) <= sent'[p] + remote_incoming_window'[p]
    BY <1>1, <1>7, WindowIncomingFlow
  <2>3. flow \in Flow
    BY <1>1, <1>7, TakenFacts, GrantType DEF OnIncomingFlow
  <2>4. w \in Nat
    <3> HIDE DEF flow
    <3> QED BY <2>3, RemoteIncomingWindowType, IdNat
  <2> DEFINE n == Least(w, Len(exhausted_buffer[p]))
  <2>5. sent' = [sent EXCEPT ![p] = @ + n]
        /\ remote_incoming_window' = [remote_incoming_window EXCEPT ![p] = w - n]
    BY <2>1 DEF Release
  <2> HIDE DEF w
  <2>6. n \in Nat
    <3>1. Len(exhausted_buffer[p]) \in Nat
      BY DEF TypeOK
    <3> QED
      BY <2>4, <3>1 DEF Least
  <2> HIDE DEF n
  <2>7. sent[p] <= sent'[p]
    BY <2>5, <2>6 DEF TypeOK
  <2>8. CASE q = p
    BY <1>1, <2>1, <2>2, <2>7, <2>8, SlidesAdvance
  <2>9. CASE q # p
    BY <1>2, <2>1, <2>5, <2>9 DEF TypeOK
  <2> QED
    BY <2>8, <2>9
<1>8. CASE UNCHANGED vars
  BY <1>2, <1>8 DEF vars
<1> QED
  BY <1>3, <1>4, <1>5, <1>6, <1>7, <1>8 DEF Next

\* Each direction of a session implements SlidingWindow away from the wrap: the limit an
\* endpoint keeps as remote_incoming_window behind next_outgoing_id never retreats, never
\* lets it send more than was granted, and moves only by what the peer has received.
THEOREM WindowRefinement ==
  ASSUME NoWrap
  PROVE  Spec => SlidingBothWays
<1>1. A \in Peer /\ B \in Peer /\ Other(A) = B /\ Other(B) = A
  BY PeersDistinct DEF Peer, Other
<1>2. Init => FromA!Init /\ FromB!Init
  <2> SUFFICES ASSUME Init PROVE FromA!Init /\ FromB!Init
    OBVIOUS
  <2>1. \A p \in Peer : handed[p] = 0 /\ sent[p] = 0 /\ received[p] = 0
                        /\ remote_incoming_window[p] = IncomingWindow[Other(p)]
    BY DEF Init
  <2>2. IncomingWindow[A] \in Nat /\ IncomingWindow[B] \in Nat
    BY <1>1, WindowNat
  <2> QED
    BY <1>1, <2>1, <2>2 DEF FromA!Init, FromB!Init
<1>3. TypeOK /\ SyncInv /\ WindowInv /\ [Next]_vars
        => [FromA!Next]_(FromA!vars) /\ [FromB!Next]_(FromB!vars)
  <2> SUFFICES ASSUME TypeOK, SyncInv, WindowInv, [Next]_vars
               PROVE  [FromA!Next]_(FromA!vars) /\ [FromB!Next]_(FromB!vars)
    OBVIOUS
  <2>1. Slides(A) /\ Slides(B)
    BY <1>1, NextSlides
  <2>2. [FromA!Next]_(FromA!vars)
    BY <1>1, <2>1 DEF Slides, Limit, FromA!Next, FromA!Hand, FromA!Advance, FromA!Receive,
                      FromA!vars
  <2>3. [FromB!Next]_(FromB!vars)
    BY <1>1, <2>1 DEF Slides, Limit, FromB!Next, FromB!Hand, FromB!Advance, FromB!Receive,
                      FromB!vars
  <2> QED
    BY <2>2, <2>3
<1>4. TypeOK /\ SyncInv /\ WindowInv /\ [Next]_vars => WindowInv'
  BY NextWindow
<1> QED
  BY <1>2, <1>3, <1>4, InitTypeOK, NextTypeOK, InitSync, NextSync, InitWindow, PTL
  DEF Spec, SlidingBothWays, FromA!Spec, FromB!Spec

-----------------------------------------------------------------------------
(* Counting the deliveries that start in a sequence of frames.             *)

\* What a frame adds to the count of deliveries begun.
Start(f) == IF f.type = "transfer" /\ f.first THEN 1 ELSE 0

\* The deliveries that start in the first k frames of s.
Starts(s, k) == Cardinality({j \in 1 .. k : s[j].type = "transfer" /\ s[j].first})

\* One frame more.
LEMMA StartsStep ==
  ASSUME NEW s, NEW k \in Nat
  PROVE  /\ Starts(s, k) \in Nat /\ Starts(s, 0) = 0
         /\ Starts(s, k + 1) = Starts(s, k) + Start(s[k + 1])
<1> DEFINE T(n) == {j \in 1 .. n : s[j].type = "transfer" /\ s[j].first}
<1>1. IsFiniteSet(T(k)) /\ Cardinality(T(k)) \in Nat
  <2>1. IsFiniteSet(1 .. k)
    BY FS_Interval
  <2>2. T(k) \subseteq 1 .. k
    OBVIOUS
  <2> HIDE DEF T
  <2> QED
    BY <2>1, <2>2, FS_Subset, FS_CardinalityType
<1>2. Cardinality(T(0)) = 0
  <2>1. T(0) = {}
    OBVIOUS
  <2> QED
    BY <2>1, FS_EmptySet
<1>3. k + 1 \notin T(k)
  OBVIOUS
<1>4. CASE s[k + 1].type = "transfer" /\ s[k + 1].first
  <2>1. T(k + 1) = T(k) \cup {k + 1}
    BY <1>4
  <2>2. Cardinality(T(k + 1)) = Cardinality(T(k)) + 1
    <3> HIDE DEF T
    <3> QED BY <1>1, <1>3, <2>1, FS_AddElement
  <2> QED
    BY <1>1, <1>2, <1>4, <2>2 DEF Starts, Start
<1>5. CASE ~(s[k + 1].type = "transfer" /\ s[k + 1].first)
  <2>1. T(k + 1) = T(k)
    BY <1>5
  <2>2. Cardinality(T(k + 1)) = Cardinality(T(k)) + 0
    <3> DEFINE c == Cardinality(T(k))
    <3>1. c + 0 = c
      BY <1>1
    <3> QED
      BY <2>1, <3>1
  <2> QED
    BY <1>1, <1>2, <1>5, <2>2 DEF Starts, Start
<1> QED
  BY <1>4, <1>5

\* Only the frames that are counted matter.
LEMMA StartsSame ==
  ASSUME NEW s, NEW t, NEW k \in Nat, \A i \in 1 .. k : s[i] = t[i]
  PROVE  Starts(s, k) = Starts(t, k)
<1>1. {j \in 1 .. k : s[j].type = "transfer" /\ s[j].first}
        = {j \in 1 .. k : t[j].type = "transfer" /\ t[j].first}
  OBVIOUS
<1> QED
  BY <1>1 DEF Starts

\* Counting on behind the first n frames.
LEMMA StartsShift ==
  ASSUME NEW s, NEW t, NEW n \in Nat, NEW m \in Nat, \A i \in 1 .. m : t[i] = s[n + i],
         NEW k \in 0 .. m
  PROVE  Starts(s, n + k) = Starts(s, n) + Starts(t, k)
<1> DEFINE T == {j \in 0 .. m : Starts(s, n + j) # Starts(s, n) + Starts(t, j)}
<1> SUFFICES ASSUME T # {} PROVE FALSE
  OBVIOUS
<1>1. T \subseteq Nat
  OBVIOUS
<1>2. PICK j \in T : \A i \in T : j <= i
  BY <1>1, LeastNat
<1>3. j \in 0 .. m /\ Starts(s, n + j) # Starts(s, n) + Starts(t, j)
  OBVIOUS
<1>4. CASE j = 0
  <2>1. n + j = n /\ Starts(t, j) = 0 /\ Starts(s, n) \in Nat
    BY <1>4, StartsStep
  <2> QED
    BY <1>3, <2>1
<1>5. CASE j # 0
  <2> DEFINE i == j - 1
  <2>1. i \in Nat /\ i \in 0 .. m /\ i + 1 = j /\ j \in 1 .. m /\ ~(j <= i)
        /\ n + i \in Nat /\ (n + i) + 1 = n + j
    BY <1>3, <1>5
  <2> HIDE DEF i
  <2>2. Starts(s, n + i) = Starts(s, n) + Starts(t, i)
    BY <1>2, <2>1
  <2>3. /\ Starts(s, n + j) = Starts(s, n + i) + Start(s[n + j])
        /\ Starts(t, j) = Starts(t, i) + Start(t[j])
    BY <2>1, StartsStep
  <2>4. t[j] = s[n + j] /\ Start(t[j]) \in Nat
        /\ Starts(s, n) \in Nat /\ Starts(t, i) \in Nat
    BY <2>1, StartsStep DEF Start
  <2> QED
    BY <1>3, <2>2, <2>3, <2>4
<1> QED
  BY <1>4, <1>5

\* t is what s has behind its first n frames, m of them: both are counted alike.
Behind(s, t, n, m) == \A i \in 1 .. m : t[i] = s[n + i]
CountsOn(s, t, n, m) == \A k \in 0 .. m : Starts(s, n + k) = Starts(s, n) + Starts(t, k)

\* Counting on, with the ranges hidden.
LEMMA StartsBehind ==
  ASSUME NEW s, NEW t, NEW n \in Nat, NEW m \in Nat, Behind(s, t, n, m)
  PROVE  CountsOn(s, t, n, m)
<1> SUFFICES ASSUME NEW k \in 0 .. m
             PROVE  Starts(s, n + k) = Starts(s, n) + Starts(t, k)
  BY DEF CountsOn
<1>1. \A i \in 1 .. m : t[i] = s[n + i]
  BY DEF Behind
<1> QED
  BY <1>1, StartsShift

\* A sequence of link transfers: what TransferFrames counts.
LEMMA FirstsAreStarts ==
  ASSUME NEW s \in Seq(LinkTransfer), NEW k \in 0 .. Len(s)
  PROVE  FirstsIn(s, k) = Starts(s, k)
<1>1. \A j \in 1 .. k : s[j] \in LinkTransfer
  OBVIOUS
<1>2. \A f \in LinkTransfer : f.type = "transfer"
  BY DEF LinkTransfer
<1>3. {j \in 1 .. k : s[j].first} = {j \in 1 .. k : s[j].type = "transfer" /\ s[j].first}
  BY <1>1, <1>2
<1> QED
  BY <1>3 DEF FirstsIn, Starts

-----------------------------------------------------------------------------
\* The transfers of s belong to the deliveries begun by then, of which lo before s.
Counted(s, lo) ==
  \A i \in 1 .. Len(s) : s[i].type = "transfer" => s[i].delivery = lo + Starts(s, i)

\* D deliveries have begun among the transfers sent, so that the next delivery-id is id;
\* the others are counted on in the buffer buf and the channel lf, "begun" in all.
QueuedIn(id, buf, lf, begun, D) ==
  /\ id = D % Modulus
  /\ Counted(buf, D)
  /\ Counted(lf, D + Starts(buf, Len(buf)))
  /\ begun = D + Starts(buf, Len(buf)) + Starts(lf, Len(lf))

Queued(p, D) == QueuedIn(next_outgoing_delivery_id[p], exhausted_buffer[p], link_frames[p],
                         deliveries[p], D)

\* The delivery-id says which delivery a first frame begins.
Label(f) == IF f.first THEN (f.delivery - 1) % Modulus ELSE NoId

Labelled(s) ==
  \A i \in 1 .. Len(s) : s[i].type = "transfer" => s[i].delivery_id = Label(s[i])

\* Every frame in flight is labelled, and the counts along the path agree.
DeliveryInv == \A p \in Peer : Labelled(wire[p]) /\ \E D \in Nat : Queued(p, D)

\* Labels survive concatenation.
LEMMA LabelledConcat ==
  ASSUME NEW s \in Seq(Frame), NEW t \in Seq(Frame), Labelled(s), Labelled(t)
  PROVE  Labelled(s \o t)
<1> SUFFICES ASSUME NEW i \in 1 .. Len(s \o t), (s \o t)[i].type = "transfer"
             PROVE  (s \o t)[i].delivery_id = Label((s \o t)[i])
  BY DEF Labelled
<1>1. Len(s) \in Nat /\ Len(t) \in Nat /\ Len(s \o t) = Len(s) + Len(t)
  OBVIOUS
<1>2. CASE i <= Len(s)
  <2>1. (s \o t)[i] = s[i] /\ i \in 1 .. Len(s)
    BY <1>1, <1>2
  <2> QED
    BY <2>1 DEF Labelled
<1>3. CASE i > Len(s)
  <2>1. (s \o t)[i] = t[i - Len(s)] /\ i - Len(s) \in 1 .. Len(t)
    BY <1>1, <1>3
  <2> QED
    BY <2>1 DEF Labelled
<1> QED
  BY <1>1, <1>2, <1>3

\* Labels survive taking the first frame.
LEMMA LabelledTail ==
  ASSUME NEW s \in Seq(Frame), s # <<>>, Labelled(s)
  PROVE  Labelled(Tail(s))
<1>1. /\ Len(s) \in Nat /\ Len(s) > 0 /\ Len(Tail(s)) = Len(s) - 1
      /\ \A i \in 1 .. Len(s) - 1 : Tail(s)[i] = s[i + 1]
  OBVIOUS
<1>2. \A i \in 1 .. Len(Tail(s)) : Tail(s)[i] = s[i + 1] /\ i + 1 \in 1 .. Len(s)
  BY <1>1
<1> QED
  BY <1>2 DEF Labelled

\* The direction from p after a step: what it puts on the wire and what it has queued;
\* of the other direction at most a frame is taken.
LEMMA DeliveryStep ==
  ASSUME TypeOK, DeliveryInv, NEW p \in Peer, NEW t \in Seq(Frame), Labelled(t),
         wire'[p] = wire[p] \o t,
         wire'[Other(p)] = wire[Other(p)]
           \/ (wire[Other(p)] # <<>> /\ wire'[Other(p)] = Tail(wire[Other(p)])),
         NEW D \in Nat,
         QueuedIn(next_outgoing_delivery_id'[p], exhausted_buffer'[p], link_frames'[p],
                  deliveries'[p], D),
         next_outgoing_delivery_id'[Other(p)] = next_outgoing_delivery_id[Other(p)],
         exhausted_buffer'[Other(p)] = exhausted_buffer[Other(p)],
         link_frames'[Other(p)] = link_frames[Other(p)],
         deliveries'[Other(p)] = deliveries[Other(p)]
  PROVE  DeliveryInv'
<1> DEFINE o == Other(p)
<1>1. o \in Peer /\ wire[p] \in Seq(Frame) /\ wire[o] \in Seq(Frame)
  BY PeerFacts DEF TypeOK
<1>2. Labelled(wire'[p])
  BY <1>1, LabelledConcat DEF DeliveryInv
<1>3. Labelled(wire'[o])
  BY <1>1, LabelledTail DEF DeliveryInv
<1>4. PICK E \in Nat : Queued(o, E)
  BY <1>1 DEF DeliveryInv
<1>5. QueuedIn(next_outgoing_delivery_id'[o], exhausted_buffer'[o], link_frames'[o],
               deliveries'[o], E)
  BY <1>4 DEF Queued
<1> HIDE DEF o
<1>6. ASSUME NEW q \in Peer
      PROVE  /\ Labelled(wire'[q])
             /\ \E F \in Nat : QueuedIn(next_outgoing_delivery_id'[q], exhausted_buffer'[q],
                                        link_frames'[q], deliveries'[q], F)
  <2>1. q = p \/ q = o
    BY DEF Peer, Other, o
  <2> QED
    BY <1>2, <1>3, <1>5, <2>1
<1> QED
  BY <1>6 DEF DeliveryInv, Queued

\* What Release does to the deliveries queued.
LEMMA ReleaseDelivery ==
  ASSUME TypeOK, NEW p \in Peer, NEW frames \in [Peer -> Seq(Frame)], NEW w \in Id,
         NEW pending \in Seq(LinkTransfer), Release(p, frames, w, pending), NEW D \in Nat,
         next_outgoing_delivery_id[p] = D % Modulus, Counted(pending, D)
  PROVE  /\ \E E \in Nat :
              /\ next_outgoing_delivery_id'[p] = E % Modulus
              /\ Counted(exhausted_buffer'[p], E)
              /\ E + Starts(exhausted_buffer'[p], Len(exhausted_buffer'[p]))
                   = D + Starts(pending, Len(pending))
         /\ \E t \in Seq(Frame) : wire'[p] = frames[p] \o t /\ Labelled(t)
         /\ \A q \in Peer \ {p} :
              /\ wire'[q] = frames[q] /\ exhausted_buffer'[q] = exhausted_buffer[q]
              /\ next_outgoing_delivery_id'[q] = next_outgoing_delivery_id[q]
<1> DEFINE n == Least(w, Len(pending))
           t == TransferFrames(p, pending, n)
           E == D + Starts(pending, n)
<1>1. n \in 0 .. Len(pending) /\ Len(pending) \in Nat /\ n \in Nat
  <2>1. w \in Nat /\ Len(pending) \in Nat
    BY IdNat
  <2> QED
    BY <2>1, ReleasedType
<1>2. /\ wire' = [frames EXCEPT ![p] = @ \o t]
      /\ exhausted_buffer' = [exhausted_buffer EXCEPT ![p] = SubSeq(pending, n + 1, Len(pending))]
      /\ next_outgoing_delivery_id' =
           [next_outgoing_delivery_id EXCEPT ![p] = WrappingAdd(@, FirstsIn(pending, n))]
  BY DEF Release
<1> HIDE DEF n
<1>3. t \in Seq(Frame)
  <2>1. t \in Seq(Transfer)
    BY <1>1, TransferFramesType
  <2> QED
    <3> HIDE DEF t
    <3> QED BY <2>1 DEF Frame
<1>4. /\ next_outgoing_delivery_id \in [Peer -> Id] /\ exhausted_buffer \in [Peer -> Seq(LinkTransfer)]
  BY DEF TypeOK
<1>5. /\ wire'[p] = frames[p] \o t
      /\ exhausted_buffer'[p] = SubSeq(pending, n + 1, Len(pending))
      /\ next_outgoing_delivery_id'[p] = WrappingAdd(D % Modulus, FirstsIn(pending, n))
      /\ \A q \in Peer \ {p} :
           /\ wire'[q] = frames[q] /\ exhausted_buffer'[q] = exhausted_buffer[q]
           /\ next_outgoing_delivery_id'[q] = next_outgoing_delivery_id[q]
  <2> HIDE DEF t
  <2> QED
    BY <1>2, <1>4
<1>6. \A k \in 0 .. Len(pending) : FirstsIn(pending, k) = Starts(pending, k) /\ Starts(pending, k) \in Nat
  <2> SUFFICES ASSUME NEW k \in 0 .. Len(pending)
               PROVE  FirstsIn(pending, k) = Starts(pending, k) /\ Starts(pending, k) \in Nat
    OBVIOUS
  <2>1. k \in Nat
    BY <1>1
  <2> QED
    BY <2>1, FirstsAreStarts, StartsStep
<1>7. Modulus \in Nat /\ Modulus > 0
  BY ModulusAssumption
<1>8. E \in Nat /\ next_outgoing_delivery_id'[p] = E % Modulus
  <2>1. FirstsIn(pending, n) = Starts(pending, n) /\ Starts(pending, n) \in Nat
    BY <1>1, <1>6
  <2> QED
    <3> DEFINE k == Starts(pending, n)
    <3>1. k \in Nat /\ next_outgoing_delivery_id'[p] = ((D % Modulus) + k) % Modulus
      BY <1>5, <2>1 DEF WrappingAdd
    <3> HIDE DEF k
    <3>2. ((D % Modulus) + k) % Modulus = (D + k) % Modulus
      BY <1>7, <3>1, ModAdd
    <3>3. E = D + k
      BY DEF k
    <3> QED
      BY <3>1, <3>2, <3>3
<1>9. /\ Len(exhausted_buffer'[p]) = Len(pending) - n
      /\ \A i \in 1 .. Len(pending) - n : exhausted_buffer'[p][i] = pending[n + i]
  BY <1>1, <1>5
<1>10. \A k \in 0 .. Len(pending) - n :
          Starts(pending, n + k) = Starts(pending, n) + Starts(exhausted_buffer'[p], k)
  <2> DEFINE m == Len(pending) - n
             b == exhausted_buffer'[p]
  <2>1. m \in Nat /\ \A i \in 1 .. m : b[i] = pending[n + i]
    BY <1>1, <1>9
  <2> HIDE DEF m, b
  <2>2. \A k \in 0 .. m : Starts(pending, n + k) = Starts(pending, n) + Starts(b, k)
    <3>1. n \in Nat /\ m \in Nat /\ Behind(pending, b, n, m)
      BY <1>1, <2>1 DEF Behind
    <3>2. CountsOn(pending, b, n, m)
      BY <3>1, StartsBehind, Zenon
    <3> QED
      BY <3>2 DEF CountsOn
  <2> QED
    BY <2>2 DEF m, b
<1>11. Counted(exhausted_buffer'[p], E)
  <2> SUFFICES ASSUME NEW i \in 1 .. Len(pending) - n, exhausted_buffer'[p][i].type = "transfer"
               PROVE  exhausted_buffer'[p][i].delivery = E + Starts(exhausted_buffer'[p], i)
    BY <1>9 DEF Counted
  <2>1. n + i \in 1 .. Len(pending) /\ i \in 0 .. Len(pending) - n /\ i \in Nat
    BY <1>1
  <2>2. exhausted_buffer'[p][i] = pending[n + i]
    BY <1>9
  <2>3. pending[n + i].delivery = D + Starts(pending, n + i)
    BY <2>1, <2>2 DEF Counted
  <2>4. Starts(pending, n + i) = Starts(pending, n) + Starts(exhausted_buffer'[p], i)
    BY <1>10, <2>1
  <2>5. Starts(pending, n) \in Nat /\ Starts(exhausted_buffer'[p], i) \in Nat
    BY <1>1, <2>1, StartsStep
  <2> QED
    BY <2>2, <2>3, <2>4, <2>5
<1>12. E + Starts(exhausted_buffer'[p], Len(exhausted_buffer'[p])) = D + Starts(pending, Len(pending))
  <2> DEFINE k == Len(pending) - n
  <2>1. k \in 0 .. Len(pending) - n /\ k \in Nat /\ n + k = Len(pending)
    BY <1>1
  <2>2. Starts(pending, n + k) = Starts(pending, n) + Starts(exhausted_buffer'[p], k)
    BY <1>10, <2>1
  <2>3. Starts(pending, n) \in Nat /\ Starts(exhausted_buffer'[p], k) \in Nat
    BY <1>1, <2>1, StartsStep
  <2>4. Len(exhausted_buffer'[p]) = k
    BY <1>9
  <2> HIDE DEF k
  <2> QED
    BY <2>1, <2>2, <2>3, <2>4
<1>13. Labelled(t)
  <2> SUFFICES ASSUME NEW i \in 1 .. n
               PROVE  t[i].delivery_id = Label(t[i])
    <3>1. Len(t) = n
      BY <1>1 DEF TransferFrames
    <3> QED
      BY <3>1 DEF Labelled
  <2>1. i \in 1 .. Len(pending) /\ i - 1 \in 0 .. Len(pending) /\ i - 1 \in Nat /\ (i - 1) + 1 = i
    BY <1>1
  <2>2. /\ t[i].first = pending[i].first /\ t[i].delivery = pending[i].delivery
        /\ t[i].delivery_id = IF pending[i].first
                              THEN WrappingAdd(D % Modulus, FirstsIn(pending, i - 1)) ELSE NoId
    BY DEF TransferFrames
  <2>3. pending[i].type = "transfer"
    <3>1. pending[i] \in LinkTransfer
      BY <2>1
    <3> QED
      BY <3>1 DEF LinkTransfer
  <2>4. pending[i].delivery = D + Starts(pending, i)
    BY <2>1, <2>3 DEF Counted
  <2>5. FirstsIn(pending, i - 1) = Starts(pending, i - 1) /\ Starts(pending, i - 1) \in Nat
    BY <1>6, <2>1
  <2>6. CASE pending[i].first
    <3>1. Starts(pending, i) = Starts(pending, i - 1) + 1
      <4>1. Starts(pending, (i - 1) + 1) = Starts(pending, i - 1) + Start(pending[(i - 1) + 1])
        BY <2>1, StartsStep
      <4> QED
        BY <2>1, <2>3, <2>6, <4>1 DEF Start
    <3>2. pending[i].delivery - 1 = D + Starts(pending, i - 1)
      BY <2>4, <2>5, <3>1
    <3>3. WrappingAdd(D % Modulus, FirstsIn(pending, i - 1)) = (D + Starts(pending, i - 1)) % Modulus
      BY <1>7, <2>5, ModAdd, ZenonT(60) DEF WrappingAdd
    <3> HIDE DEF t
    <3> QED
      BY <2>2, <2>6, <3>2, <3>3 DEF Label
  <2>7. CASE ~pending[i].first
    <3> HIDE DEF t
    <3> QED
      BY <2>2, <2>7 DEF Label
  <2> QED
    BY <2>6, <2>7
<1> HIDE DEF t, E
<1> QED
  BY <1>3, <1>5, <1>8, <1>11, <1>12, <1>13

-----------------------------------------------------------------------------
\* A frame behind those counted.
LEMMA CountedAppend ==
  ASSUME NEW S, NEW s \in Seq(S), NEW f \in S, NEW lo \in Nat, Counted(s, lo),
         f.type = "transfer" => f.delivery = lo + Starts(s, Len(s)) + Start(f)
  PROVE  /\ Counted(Append(s, f), lo)
         /\ Starts(Append(s, f), Len(Append(s, f))) = Starts(s, Len(s)) + Start(f)
<1> DEFINE n == Len(s)
           t == Append(s, f)
<1>1. n \in Nat /\ Len(t) = n + 1 /\ t[n + 1] = f /\ \A i \in 1 .. n : t[i] = s[i]
  OBVIOUS
<1> HIDE DEF t, n
<1>2. \A k \in 0 .. n : Starts(t, k) = Starts(s, k)
  <2> SUFFICES ASSUME NEW k \in 0 .. n PROVE Starts(t, k) = Starts(s, k)
    OBVIOUS
  <2>1. k \in Nat /\ \A i \in 1 .. k : t[i] = s[i]
    BY <1>1
  <2> QED
    BY <2>1, StartsSame
<1>3. Starts(t, n + 1) = Starts(s, n) + Start(f)
  <2>1. Starts(t, n + 1) = Starts(t, n) + Start(t[n + 1])
    BY <1>1, StartsStep
  <2> QED
    BY <1>1, <1>2, <2>1
<1>4. Counted(t, lo)
  <2> SUFFICES ASSUME NEW i \in 1 .. n + 1, t[i].type = "transfer"
               PROVE  t[i].delivery = lo + Starts(t, i)
    BY <1>1 DEF Counted
  <2>1. CASE i = n + 1
    <3>1. f.delivery = lo + Starts(s, n) + Start(f)
      BY <1>1, <2>1 DEF n
    <3>2. Starts(s, n) \in Nat /\ Start(f) \in Nat
      BY <1>1, StartsStep DEF Start
    <3> QED
      BY <1>1, <1>3, <2>1, <3>1, <3>2
  <2>2. CASE i # n + 1
    <3>1. i \in 1 .. n /\ i \in 0 .. n
      BY <1>1, <2>2
    <3>2. s[i].type = "transfer" => s[i].delivery = lo + Starts(s, i)
      BY <3>1 DEF Counted, n
    <3> QED
      BY <1>1, <1>2, <3>1, <3>2
  <2> QED
    BY <2>1, <2>2
<1> QED
  BY <1>1, <1>3, <1>4 DEF t, n

\* The first of the frames counted.
LEMMA CountedTail ==
  ASSUME NEW S, NEW s \in Seq(S), s # <<>>, NEW lo \in Nat, Counted(s, lo)
  PROVE  /\ Head(s).type = "transfer" => Head(s).delivery = lo + Start(Head(s))
         /\ Counted(Tail(s), lo + Start(Head(s)))
         /\ Starts(s, Len(s)) = Start(Head(s)) + Starts(Tail(s), Len(Tail(s)))
         /\ Starts(Tail(s), Len(Tail(s))) \in Nat /\ Start(Head(s)) \in Nat
<1> DEFINE n == Len(s)
           t == Tail(s)
           h == Start(Head(s))
           m == n - 1
<1>1. /\ n \in Nat /\ m \in Nat /\ 1 + m = n /\ Len(t) = m /\ Head(s) = s[1]
      /\ \A i \in 1 .. m : t[i] = s[1 + i]
  <2>1. \A i \in 1 .. Len(s) - 1 : Tail(s)[i] = s[i + 1]
    OBVIOUS
  <2> QED
    BY <2>1
<1>2. h \in Nat
  BY DEF Start
<1> HIDE DEF t, n, m, h
<1>3. Behind(s, t, 1, m) /\ 1 \in Nat
  BY <1>1 DEF Behind
<1>4. CountsOn(s, t, 1, m)
  BY <1>1, <1>3, StartsBehind, Zenon
<1>5. Starts(s, 1) = h
  <2>1. Starts(s, 0 + 1) = Starts(s, 0) + Start(s[0 + 1]) /\ Starts(s, 0) = 0
    BY StartsStep
  <2>2. 0 + 1 = 1
    OBVIOUS
  <2>3. Starts(s, 1) = 0 + h
    BY <1>1, <2>1, <2>2, Zenon DEF h
  <2> QED
    BY <1>2, <2>3
<1>6. \A k \in 0 .. m : Starts(s, 1 + k) = h + Starts(t, k) /\ Starts(t, k) \in Nat
  <2> SUFFICES ASSUME NEW k \in 0 .. m
               PROVE  Starts(s, 1 + k) = h + Starts(t, k) /\ Starts(t, k) \in Nat
    OBVIOUS
  <2>1. k \in Nat
    BY <1>1
  <2> QED
    BY <1>4, <1>5, <2>1, StartsStep DEF CountsOn
<1>7. Counted(t, lo + h)
  <2> SUFFICES ASSUME NEW i \in 1 .. m, t[i].type = "transfer"
               PROVE  t[i].delivery = (lo + h) + Starts(t, i)
    BY <1>1 DEF Counted
  <2>1. 1 + i \in 1 .. n /\ i \in 0 .. m /\ t[i] = s[1 + i]
    BY <1>1
  <2>2. s[1 + i].delivery = lo + Starts(s, 1 + i)
    BY <2>1 DEF Counted, n
  <2> QED
    BY <1>2, <1>6, <2>1, <2>2
<1>8. Head(s).type = "transfer" => Head(s).delivery = lo + h
  <2>1. 1 \in 1 .. n
    BY <1>1
  <2> QED
    BY <1>1, <1>5, <2>1 DEF Counted, n
<1>9. Starts(s, n) = h + Starts(t, m) /\ Starts(t, m) \in Nat
  <2>1. m \in 0 .. m
    BY <1>1
  <2> QED
    BY <1>1, <1>6, <2>1
<1> QED
  BY <1>1, <1>2, <1>7, <1>8, <1>9 DEF t, n, h

\* One frame that is no transfer, or none.
LEMMA NoLabel ==
  ASSUME NEW f, f.type # "transfer"
  PROVE  Labelled(<<f>>) /\ Labelled(<<>>)
<1>1. \A i \in 1 .. Len(<<f>>) : <<f>>[i].type # "transfer"
  OBVIOUS
<1>2. 1 .. Len(<<>>) = {}
  OBVIOUS
<1> QED
  BY <1>1, <1>2, Zenon DEF Labelled

\* The types and the counts of one endpoint.
LEMMA QueuedFacts ==
  ASSUME TypeOK, DeliveryInv, NEW p \in Peer
  PROVE  /\ Other(p) \in Peer /\ Other(p) # p
         /\ wire[p] \in Seq(Frame) /\ wire \in [Peer -> Seq(Frame)]
         /\ exhausted_buffer[p] \in Seq(LinkTransfer)
         /\ link_frames[p] \in Seq(LinkTransfer \cup LinkFlow)
         /\ deliveries[p] \in Nat
         /\ \E D \in Nat : QueuedIn(next_outgoing_delivery_id[p], exhausted_buffer[p],
                                    link_frames[p], deliveries[p], D)
<1>1. Other(p) \in Peer /\ Other(p) # p
  BY PeerFacts
<1>2. \E D \in Nat : Queued(p, D)
  BY DEF DeliveryInv
<1> QED
  BY <1>1, <1>2 DEF TypeOK, Queued

\* Frames that carry no delivery leave, another may have been taken: nothing is counted.
LEMMA DeliveryPlainStep ==
  ASSUME TypeOK, DeliveryInv, NEW p \in Peer, NEW t \in Seq(Frame), Labelled(t),
         wire'[p] = wire[p] \o t,
         wire'[Other(p)] = wire[Other(p)]
           \/ (wire[Other(p)] # <<>> /\ wire'[Other(p)] = Tail(wire[Other(p)])),
         UNCHANGED <<next_outgoing_delivery_id, exhausted_buffer, link_frames, deliveries>>
  PROVE  DeliveryInv'
<1>1. PICK D \in Nat : QueuedIn(next_outgoing_delivery_id[p], exhausted_buffer[p],
                                link_frames[p], deliveries[p], D)
  BY QueuedFacts
<1>2. QueuedIn(next_outgoing_delivery_id'[p], exhausted_buffer'[p], link_frames'[p],
               deliveries'[p], D)
  BY <1>1
<1>3. /\ next_outgoing_delivery_id'[Other(p)] = next_outgoing_delivery_id[Other(p)]
      /\ exhausted_buffer'[Other(p)] = exhausted_buffer[Other(p)]
      /\ link_frames'[Other(p)] = link_frames[Other(p)]
      /\ deliveries'[Other(p)] = deliveries[Other(p)]
  OBVIOUS
<1> QED
  BY <1>2, <1>3, DeliveryStep

\* A link hands over a frame.
LEMMA DeliveryHandOver ==
  ASSUME TypeOK, DeliveryInv, NEW p \in Peer, NEW f \in LinkTransfer \cup LinkFlow,
         link_frames' = [link_frames EXCEPT ![p] = Append(@, f)],
         deliveries' = [deliveries EXCEPT ![p] = @ + Start(f)],
         f.type = "transfer" => f.delivery = deliveries[p] + Start(f),
         UNCHANGED <<next_outgoing_delivery_id, exhausted_buffer, wire>>
  PROVE  DeliveryInv'
<1>1. PICK D \in Nat : QueuedIn(next_outgoing_delivery_id[p], exhausted_buffer[p],
                                link_frames[p], deliveries[p], D)
  BY QueuedFacts
<1> DEFINE lf == link_frames[p]
           buf == exhausted_buffer[p]
           lo == D + Starts(buf, Len(buf))
<1>2. /\ lf \in Seq(LinkTransfer \cup LinkFlow) /\ deliveries[p] \in Nat /\ Len(lf) \in Nat
      /\ Len(buf) \in Nat
  <2>1. lf \in Seq(LinkTransfer \cup LinkFlow) /\ buf \in Seq(LinkTransfer) /\ deliveries[p] \in Nat
    BY QueuedFacts
  <2> HIDE DEF lf, buf
  <2> QED
    BY <2>1
<1>3. lo \in Nat /\ Starts(lf, Len(lf)) \in Nat /\ Start(f) \in Nat
  <2>1. Starts(buf, Len(buf)) \in Nat /\ Starts(lf, Len(lf)) \in Nat
    BY <1>2, StartsStep
  <2> QED
    BY <2>1 DEF Start
<1>4. /\ next_outgoing_delivery_id[p] = D % Modulus /\ Counted(buf, D) /\ Counted(lf, lo)
      /\ deliveries[p] = lo + Starts(lf, Len(lf))
  BY <1>1 DEF QueuedIn
<1>5. /\ link_frames'[p] = Append(lf, f) /\ deliveries'[p] = deliveries[p] + Start(f)
      /\ link_frames'[Other(p)] = link_frames[Other(p)]
      /\ deliveries'[Other(p)] = deliveries[Other(p)]
  BY QueuedFacts DEF TypeOK
<1> HIDE DEF lf, lo
<1>6. /\ Counted(Append(lf, f), lo)
      /\ Starts(Append(lf, f), Len(Append(lf, f))) = Starts(lf, Len(lf)) + Start(f)
  <2>1. f.type = "transfer" => f.delivery = lo + Starts(lf, Len(lf)) + Start(f)
    BY <1>4
  <2> QED
    BY <1>2, <1>3, <1>4, <2>1, CountedAppend
<1>7. deliveries'[p] = lo + Starts(Append(lf, f), Len(Append(lf, f)))
  BY <1>3, <1>4, <1>5, <1>6
<1>8. QueuedIn(next_outgoing_delivery_id'[p], exhausted_buffer'[p], link_frames'[p],
               deliveries'[p], D)
  BY <1>4, <1>5, <1>6, <1>7 DEF QueuedIn, lo
<1>9. wire'[p] = wire[p] \o <<>> /\ wire'[Other(p)] = wire[Other(p)] /\ Labelled(<<>>)
      /\ <<>> \in Seq(Frame)
  <2>1. [type |-> "end"].type # "transfer"
    OBVIOUS
  <2>2. Labelled(<<>>)
    BY <2>1, NoLabel
  <2> QED
    BY <2>2, QueuedFacts
<1>10. /\ next_outgoing_delivery_id'[Other(p)] = next_outgoing_delivery_id[Other(p)]
       /\ exhausted_buffer'[Other(p)] = exhausted_buffer[Other(p)]
  OBVIOUS
<1> QED
  BY <1>5, <1>8, <1>9, <1>10, DeliveryStep

\* on_outgoing_transfer: the transfer joins those held back, some are sent.
LEMMA DeliveryOutgoingTransfer ==
  ASSUME TypeOK, DeliveryInv, NEW p \in Peer, OnOutgoingTransfer(p)
  PROVE  DeliveryInv'
<1>1. PICK D \in Nat : QueuedIn(next_outgoing_delivery_id[p], exhausted_buffer[p],
                                link_frames[p], deliveries[p], D)
  BY QueuedFacts
<1> DEFINE lf == link_frames[p]
           buf == exhausted_buffer[p]
           f == Head(lf)
           pending == Append(buf, f)
           lo == D + Starts(buf, Len(buf))
<1>2. /\ lf \in Seq(LinkTransfer \cup LinkFlow) /\ buf \in Seq(LinkTransfer)
      /\ wire \in [Peer -> Seq(Frame)] /\ Other(p) \in Peer /\ Other(p) # p
  BY QueuedFacts
<1>3. remote_incoming_window[p] \in Id /\ link_frames \in [Peer -> Seq(LinkTransfer \cup LinkFlow)]
  BY DEF TypeOK
<1>4. /\ lf # <<>> /\ f.type = "transfer"
      /\ link_frames' = [link_frames EXCEPT ![p] = Tail(@)]
      /\ Release(p, wire, remote_incoming_window[p], pending)
      /\ UNCHANGED deliveries
  BY DEF OnOutgoingTransfer
<1>5. f \in LinkTransfer
  <2>1. f \in LinkTransfer \cup LinkFlow
    <3> HIDE DEF lf
    <3> QED BY <1>2, <1>4
  <2> HIDE DEF f
  <2> QED
    BY <1>4, <2>1 DEF LinkFlow
<1>6. link_frames'[p] = Tail(lf) /\ link_frames'[Other(p)] = link_frames[Other(p)]
  BY <1>2, <1>3, <1>4
<1>7. /\ next_outgoing_delivery_id[p] = D % Modulus /\ Counted(buf, D) /\ Counted(lf, lo)
      /\ deliveries[p] = lo + Starts(lf, Len(lf))
  BY <1>1 DEF QueuedIn
<1> HIDE DEF lf, buf
<1>8. lo \in Nat /\ Starts(buf, Len(buf)) \in Nat
  <2>1. Len(buf) \in Nat
    BY <1>2
  <2>2. Starts(buf, Len(buf)) \in Nat
    BY <2>1, StartsStep
  <2> QED
    BY <2>2
<1> HIDE DEF lo
<1>9. /\ f.delivery = lo + Start(f)
      /\ Counted(Tail(lf), lo + Start(f))
      /\ Starts(lf, Len(lf)) = Start(f) + Starts(Tail(lf), Len(Tail(lf)))
      /\ Starts(Tail(lf), Len(Tail(lf))) \in Nat /\ Start(f) \in Nat
  BY <1>2, <1>4, <1>7, <1>8, CountedTail
<1> HIDE DEF f
<1>10. /\ Counted(pending, D)
       /\ Starts(pending, Len(pending)) = Starts(buf, Len(buf)) + Start(f)
  <2>1. f.delivery = D + Starts(buf, Len(buf)) + Start(f)
    BY <1>9 DEF lo
  <2> QED
    BY <1>2, <1>5, <1>7, <2>1, CountedAppend
<1>11. pending \in Seq(LinkTransfer)
  BY <1>2, <1>5
<1> HIDE DEF pending
<1>12. /\ \E E \in Nat :
            /\ next_outgoing_delivery_id'[p] = E % Modulus
            /\ Counted(exhausted_buffer'[p], E)
            /\ E + Starts(exhausted_buffer'[p], Len(exhausted_buffer'[p]))
                 = D + Starts(pending, Len(pending))
       /\ \E t \in Seq(Frame) : wire'[p] = wire[p] \o t /\ Labelled(t)
       /\ \A q \in Peer \ {p} :
            /\ wire'[q] = wire[q] /\ exhausted_buffer'[q] = exhausted_buffer[q]
            /\ next_outgoing_delivery_id'[q] = next_outgoing_delivery_id[q]
  BY <1>2, <1>3, <1>4, <1>7, <1>10, <1>11, ReleaseDelivery
<1>13. PICK E \in Nat :
            /\ next_outgoing_delivery_id'[p] = E % Modulus
            /\ Counted(exhausted_buffer'[p], E)
            /\ E + Starts(exhausted_buffer'[p], Len(exhausted_buffer'[p]))
                 = D + Starts(pending, Len(pending))
  BY <1>12
<1>14. PICK t \in Seq(Frame) : wire'[p] = wire[p] \o t /\ Labelled(t)
  BY <1>12
<1>15. E + Starts(exhausted_buffer'[p], Len(exhausted_buffer'[p])) = lo + Start(f)
  BY <1>8, <1>9, <1>10, <1>13 DEF lo
<1>16. deliveries'[p] = (lo + Start(f)) + Starts(Tail(lf), Len(Tail(lf)))
  BY <1>4, <1>7, <1>8, <1>9
<1>17. QueuedIn(next_outgoing_delivery_id'[p], exhausted_buffer'[p], link_frames'[p],
                deliveries'[p], E)
  BY <1>6, <1>9, <1>13, <1>15, <1>16 DEF QueuedIn
<1>18. /\ wire'[Other(p)] = wire[Other(p)]
       /\ exhausted_buffer'[Other(p)] = exhausted_buffer[Other(p)]
       /\ next_outgoing_delivery_id'[Other(p)] = next_outgoing_delivery_id[Other(p)]
       /\ deliveries'[Other(p)] = deliveries[Other(p)]
  BY <1>2, <1>4, <1>12
<1> QED
  BY <1>6, <1>14, <1>17, <1>18, DeliveryStep

\* A flow leaves the links' channel.
LEMMA DeliveryOutgoingFlow ==
  ASSUME TypeOK, DeliveryInv, NEW p \in Peer, OnOutgoingFlow(p)
  PROVE  DeliveryInv'
<1>1. PICK D \in Nat : QueuedIn(next_outgoing_delivery_id[p], exhausted_buffer[p],
                                link_frames[p], deliveries[p], D)
  BY QueuedFacts
<1> DEFINE lf == link_frames[p]
           buf == exhausted_buffer[p]
           lo == D + Starts(buf, Len(buf))
           echo == Head(lf).echo
           f == FlowFrame(p, next_incoming_id[p], echo)
<1>2. /\ lf \in Seq(LinkTransfer \cup LinkFlow) /\ buf \in Seq(LinkTransfer)
      /\ Other(p) \in Peer /\ Other(p) # p
  BY QueuedFacts
<1>3. next_incoming_id[p] \in Id /\ link_frames \in [Peer -> Seq(LinkTransfer \cup LinkFlow)]
  BY DEF TypeOK
<1>4. /\ lf # <<>> /\ Head(lf).type = "flow"
      /\ link_frames' = [link_frames EXCEPT ![p] = Tail(@)]
      /\ wire' = [wire EXCEPT ![p] = Append(@, f)]
      /\ UNCHANGED <<deliveries, next_outgoing_delivery_id, exhausted_buffer>>
  BY DEF OnOutgoingFlow
<1>5. echo \in BOOLEAN
  BY <1>4 DEF TypeOK, LinkTransfer, LinkFlow
<1>6. link_frames'[p] = Tail(lf) /\ link_frames'[Other(p)] = link_frames[Other(p)]
  BY <1>2, <1>3, <1>4
<1>7. /\ next_outgoing_delivery_id[p] = D % Modulus /\ Counted(buf, D) /\ Counted(lf, lo)
      /\ deliveries[p] = lo + Starts(lf, Len(lf))
  BY <1>1 DEF QueuedIn
<1> HIDE DEF lf, echo
<1>8. f \in Frame /\ f.type # "transfer"
  <2>1. f \in Flow
    BY <1>3, <1>5, FlowFrameType
  <2> QED
    BY <2>1 DEF FlowFrame, Frame
<1> HIDE DEF f, buf
<1>9. lo \in Nat
  <2>1. Len(buf) \in Nat
    BY <1>2
  <2>2. Starts(buf, Len(buf)) \in Nat
    BY <2>1, StartsStep
  <2> QED
    BY <2>2
<1> HIDE DEF lo
<1>10. Counted(Tail(lf), lo) /\ Starts(lf, Len(lf)) = Starts(Tail(lf), Len(Tail(lf)))
  <2>1. /\ Counted(Tail(lf), lo + Start(Head(lf)))
        /\ Starts(lf, Len(lf)) = Start(Head(lf)) + Starts(Tail(lf), Len(Tail(lf)))
        /\ Starts(Tail(lf), Len(Tail(lf))) \in Nat
    BY <1>2, <1>4, <1>7, <1>9, CountedTail
  <2>2. Start(Head(lf)) = 0
    BY <1>4 DEF Start
  <2>3. lo + 0 = lo /\ \A n \in Nat : 0 + n = n
    BY <1>9
  <2> QED
    BY <2>1, <2>2, <2>3
<1>11. QueuedIn(next_outgoing_delivery_id'[p], exhausted_buffer'[p], link_frames'[p],
                deliveries'[p], D)
  <2>1. link_frames'[p] = Tail(lf) /\ exhausted_buffer'[p] = buf
        /\ deliveries'[p] = lo + Starts(Tail(lf), Len(Tail(lf)))
        /\ next_outgoing_delivery_id'[p] = D % Modulus
    BY <1>4, <1>6, <1>7, <1>10 DEF buf
  <2> QED
    BY <1>7, <1>10, <2>1 DEF QueuedIn, lo
<1>12. wire'[p] = wire[p] \o <<f>> /\ wire'[Other(p)] = wire[Other(p)]
  BY <1>4, <1>8, WireAppended
<1>13. <<f>> \in Seq(Frame) /\ Labelled(<<f>>)
  BY <1>8, NoLabel
<1>14. /\ exhausted_buffer'[Other(p)] = exhausted_buffer[Other(p)]
       /\ next_outgoing_delivery_id'[Other(p)] = next_outgoing_delivery_id[Other(p)]
       /\ deliveries'[Other(p)] = deliveries[Other(p)]
  BY <1>4
<1> QED
  BY <1>6, <1>11, <1>12, <1>13, <1>14, DeliveryStep

\* A flow frame carries no delivery.
LEMMA FlowNoLabel ==
  ASSUME TypeOK, NEW p \in Peer, NEW nii \in Id, NEW echo \in BOOLEAN, NEW c
  PROVE  LET t == IF c THEN <<FlowFrame(p, nii, echo)>> ELSE <<>>
         IN t \in Seq(Frame) /\ Labelled(t)
<1> DEFINE f == FlowFrame(p, nii, echo)
<1>1. f \in Frame /\ f.type # "transfer"
  <2>1. f \in Flow
    BY FlowFrameType
  <2> QED
    BY <2>1 DEF FlowFrame, Frame
<1> HIDE DEF f
<1>2. <<f>> \in Seq(Frame) /\ <<>> \in Seq(Frame) /\ Labelled(<<f>>) /\ Labelled(<<>>)
  BY <1>1, NoLabel, Singleton
<1> QED
  BY <1>2 DEF f

\* A flow of the peer is taken, echoed, and lets transfers go.
LEMMA DeliveryIncomingFlow ==
  ASSUME TypeOK, DeliveryInv, NEW p \in Peer, OnIncomingFlow(p)
  PROVE  DeliveryInv'
<1>1. PICK D \in Nat : QueuedIn(next_outgoing_delivery_id[p], exhausted_buffer[p],
                                link_frames[p], deliveries[p], D)
  BY QueuedFacts
<1> DEFINE o == Other(p)
           flow == Head(wire[o])
           nii == flow.next_outgoing_id
           echo == IF flow.echo THEN <<FlowFrame(p, nii, FALSE)>> ELSE <<>>
           frames == [Rest(p) EXCEPT ![p] = @ \o echo]
           w == RemoteIncomingWindow(p, flow)
           buf == exhausted_buffer[p]
<1>2. o \in Peer /\ o # p /\ wire[o] # <<>> /\ flow.type = "flow"
  BY PeerFacts DEF OnIncomingFlow, Arrives
<1>3. wire[o] \in Seq(Frame) /\ wire[p] \in Seq(Frame) /\ wire \in [Peer -> Seq(Frame)]
      /\ buf \in Seq(LinkTransfer)
  <2> HIDE DEF o
  <2> QED BY <1>2 DEF TypeOK
<1>4. flow \in Flow
  <2>1. flow \in Frame
    BY <1>2, <1>3
  <2> HIDE DEF flow
  <2> QED
    BY <1>2, <2>1, FrameKinds
<1>5. Release(p, frames, w, buf) /\ UNCHANGED <<link_frames, deliveries>>
  BY DEF OnIncomingFlow
<1> HIDE DEF flow
<1>6. nii \in Id /\ w \in Id
  BY <1>4, RemoteIncomingWindowType DEF Flow
<1> HIDE DEF nii, w
<1>7. echo \in Seq(Frame) /\ Labelled(echo)
  BY <1>6, FlowNoLabel
<1> HIDE DEF echo
<1>8. frames[p] = wire[p] \o echo /\ frames[o] = Tail(wire[o])
  BY WireSplit
<1>9. frames \in [Peer -> Seq(Frame)]
  BY <1>2, <1>3, <1>7, WireStep DEF Rest
<1>10. /\ next_outgoing_delivery_id[p] = D % Modulus /\ Counted(buf, D)
       /\ Counted(link_frames[p], D + Starts(buf, Len(buf)))
       /\ deliveries[p] = D + Starts(buf, Len(buf)) + Starts(link_frames[p], Len(link_frames[p]))
  BY <1>1 DEF QueuedIn
<1> HIDE DEF frames, buf
<1>11. /\ \E E \in Nat :
            /\ next_outgoing_delivery_id'[p] = E % Modulus
            /\ Counted(exhausted_buffer'[p], E)
            /\ E + Starts(exhausted_buffer'[p], Len(exhausted_buffer'[p]))
                 = D + Starts(buf, Len(buf))
       /\ \E t \in Seq(Frame) : wire'[p] = frames[p] \o t /\ Labelled(t)
       /\ \A q \in Peer \ {p} :
            /\ wire'[q] = frames[q] /\ exhausted_buffer'[q] = exhausted_buffer[q]
            /\ next_outgoing_delivery_id'[q] = next_outgoing_delivery_id[q]
  BY <1>3, <1>5, <1>6, <1>9, <1>10, ReleaseDelivery
<1>12. PICK E \in Nat :
            /\ next_outgoing_delivery_id'[p] = E % Modulus
            /\ Counted(exhausted_buffer'[p], E)
            /\ E + Starts(exhausted_buffer'[p], Len(exhausted_buffer'[p]))
                 = D + Starts(buf, Len(buf))
  BY <1>11
<1>13. PICK t \in Seq(Frame) : wire'[p] = frames[p] \o t /\ Labelled(t)
  BY <1>11
<1>14. QueuedIn(next_outgoing_delivery_id'[p], exhausted_buffer'[p], link_frames'[p],
                deliveries'[p], E)
  BY <1>5, <1>10, <1>12 DEF QueuedIn
<1>15. echo \o t \in Seq(Frame) /\ Labelled(echo \o t) /\ wire'[p] = wire[p] \o (echo \o t)
  <2>1. echo \o t \in Seq(Frame)
    BY <1>7, <1>13
  <2>2. Labelled(echo \o t)
    BY <1>7, <1>13, LabelledConcat
  <2>3. (wire[p] \o echo) \o t = wire[p] \o (echo \o t)
    BY <1>3, <1>7, <1>13, SMTT(30)
  <2> QED
    BY <1>8, <1>13, <2>1, <2>2, <2>3
<1>16. /\ wire'[o] = Tail(wire[o])
       /\ exhausted_buffer'[o] = exhausted_buffer[o]
       /\ next_outgoing_delivery_id'[o] = next_outgoing_delivery_id[o]
       /\ link_frames'[o] = link_frames[o] /\ deliveries'[o] = deliveries[o]
  BY <1>2, <1>5, <1>8, <1>11
<1> QED
  BY <1>2, <1>14, <1>15, <1>16, DeliveryStep

\* A transfer arrives, and may be answered by a flow.
LEMMA DeliveryIncomingTransfer ==
  ASSUME TypeOK, DeliveryInv, NEW p \in Peer, OnIncomingTransfer(p)
  PROVE  DeliveryInv'
<1> DEFINE o == Other(p)
           nii == WrappingAdd(next_incoming_id[p], 1)
           count == SaturatingAdd(need_flow_count[p], 1)
           t == IF NeedsFlow(p, count) THEN <<FlowFrame(p, nii, FALSE)>> ELSE <<>>
<1>1. wire[o] # <<>>
      /\ wire' = [Rest(p) EXCEPT ![p] = @ \o t]
      /\ UNCHANGED <<next_outgoing_delivery_id, exhausted_buffer, link_frames, deliveries>>
  BY DEF OnIncomingTransfer, Arrives
<1>2. nii \in Id
  <2>1. next_incoming_id[p] \in Nat
    BY IdNat DEF TypeOK
  <2> QED
    BY <2>1, WrapType
<1> HIDE DEF nii, count
<1>3. t \in Seq(Frame) /\ Labelled(t)
  BY <1>2, FlowNoLabel
<1> HIDE DEF t
<1>4. wire'[p] = wire[p] \o t /\ wire'[o] = Tail(wire[o])
  BY <1>1, WireSplit
<1> QED
  BY <1>1, <1>3, <1>4, DeliveryPlainStep

\* The End of the session, sent or taken and answered.
LEMMA DeliveryEnd ==
  ASSUME TypeOK, DeliveryInv, NEW p \in Peer, SendEnd(p) \/ OnIncomingEnd(p)
  PROVE  DeliveryInv'
<1> DEFINE f == EndFrame(p)
           t == IF state[p] = "Mapped" THEN <<f>> ELSE <<>>
<1>1. f \in Frame /\ f.type # "transfer"
  <2>1. sent[p] \in Nat
    BY DEF TypeOK
  <2> QED
    BY <2>1 DEF EndFrame, Frame, End
<1>2. <<f>> \in Seq(Frame) /\ Labelled(<<f>>) /\ <<>> \in Seq(Frame) /\ Labelled(<<>>)
  <2> HIDE DEF f
  <2> QED BY <1>1, NoLabel, Singleton
<1>3. UNCHANGED <<next_outgoing_delivery_id, exhausted_buffer, link_frames, deliveries>>
  BY DEF SendEnd, OnIncomingEnd
<1>4. CASE SendEnd(p)
  <2>1. wire' = [wire EXCEPT ![p] = Append(@, f)]
    BY <1>4 DEF SendEnd
  <2> HIDE DEF f
  <2>2. wire'[p] = wire[p] \o <<f>> /\ wire'[Other(p)] = wire[Other(p)]
    BY <1>1, <2>1, WireAppended
  <2> QED
    BY <1>2, <1>3, <2>2, DeliveryPlainStep
<1>5. CASE OnIncomingEnd(p)
  <2>1. wire[Other(p)] # <<>> /\ wire' = [Rest(p) EXCEPT ![p] = @ \o t]
    BY <1>5 DEF OnIncomingEnd, Arrives
  <2> HIDE DEF f
  <2>2. t \in Seq(Frame) /\ Labelled(t)
    BY <1>2
  <2> HIDE DEF t
  <2>3. wire'[p] = wire[p] \o t /\ wire'[Other(p)] = Tail(wire[Other(p)])
    BY <2>1, WireSplit
  <2> QED
    BY <1>3, <2>1, <2>2, <2>3, DeliveryPlainStep
<1> QED
  BY <1>4, <1>5

\* Nothing on the data path changes.
LEMMA DeliveryStutter ==
  ASSUME DeliveryInv,
         UNCHANGED <<next_outgoing_delivery_id, exhausted_buffer, link_frames, deliveries, wire>>
  PROVE  DeliveryInv'
BY DEF DeliveryInv, Queued

\* Every step keeps the counts.
LEMMA NextDelivery == TypeOK /\ DeliveryInv /\ [Next]_vars => DeliveryInv'
<1> SUFFICES ASSUME TypeOK, DeliveryInv, [Next]_vars PROVE DeliveryInv'
  OBVIOUS
<1>1. ASSUME NEW p \in Peer, NEW first \in BOOLEAN, LinkSendTransfer(p, first)
      PROVE  DeliveryInv'
  <2> DEFINE d == deliveries'[p]
             f == [type |-> "transfer", first |-> first, seq |-> handed[p], delivery |-> d]
  <2>1. d \in Nat /\ handed[p] \in Nat /\ deliveries[p] \in Nat
        /\ deliveries \in [Peer -> Nat]
    BY <1>1 DEF LinkSendTransfer, TypeOK
  <2>2. link_frames' = [link_frames EXCEPT ![p] = Append(@, f)]
        /\ deliveries' = [deliveries EXCEPT ![p] = IF first THEN @ + 1 ELSE @]
    BY <1>1 DEF LinkSendTransfer
  <2>3. d = deliveries[p] + (IF first THEN 1 ELSE 0)
        /\ deliveries' = [deliveries EXCEPT ![p] = @ + (IF first THEN 1 ELSE 0)]
    <3>1. CASE first
      BY <2>1, <2>2, <3>1
    <3>2. CASE ~first
      <4>1. deliveries' = [deliveries EXCEPT ![p] = @] /\ deliveries[p] + 0 = deliveries[p]
        BY <2>1, <2>2, <3>2
      <4> QED
        BY <2>1, <3>2, <4>1
    <3> QED
      BY <3>1, <3>2
  <2> HIDE DEF d
  <2>4. f \in LinkTransfer /\ f.delivery = d /\ Start(f) = IF first THEN 1 ELSE 0
    BY <2>1 DEF LinkTransfer, Start
  <2> HIDE DEF f
  <2>5. UNCHANGED <<next_outgoing_delivery_id, exhausted_buffer, wire>>
    BY <1>1 DEF LinkSendTransfer
  <2> QED
    BY <2>2, <2>3, <2>4, <2>5, DeliveryHandOver
<1>2. ASSUME NEW p \in Peer, NEW echo \in BOOLEAN, LinkSendFlow(p, echo)
      PROVE  DeliveryInv'
  <2> DEFINE f == [type |-> "flow", echo |-> echo, seq |-> handed[p]]
  <2>1. f \in LinkFlow /\ f.type # "transfer" /\ Start(f) = 0
    BY DEF LinkFlow, Start, TypeOK
  <2>2. link_frames' = [link_frames EXCEPT ![p] = Append(@, f)]
    BY <1>2 DEF LinkSendFlow
  <2> HIDE DEF f
  <2>3. UNCHANGED <<next_outgoing_delivery_id, exhausted_buffer, wire, deliveries>>
    BY <1>2 DEF LinkSendFlow
  <2>4. deliveries' = [deliveries EXCEPT ![p] = @ + Start(f)]
    BY <2>1, <2>3 DEF TypeOK
  <2> QED
    BY <2>1, <2>2, <2>3, <2>4, DeliveryHandOver
<1>3. ASSUME NEW p \in Peer, OnControlEnd(p)
      PROVE  DeliveryInv'
  BY <1>3, DeliveryStutter DEF OnControlEnd
<1>4. CASE UNCHANGED vars
  BY <1>4, DeliveryStutter DEF vars
<1> QED
  BY <1>1, <1>2, <1>3, <1>4, DeliveryOutgoingTransfer, DeliveryOutgoingFlow,
     DeliveryIncomingFlow, DeliveryIncomingTransfer, DeliveryEnd DEF Next

\* Nothing is queued and no delivery has begun.
LEMMA InitDelivery == Init => DeliveryInv
<1> SUFFICES ASSUME Init, NEW p \in Peer
             PROVE  Labelled(wire[p]) /\ \E D \in Nat : Queued(p, D)
  BY DEF DeliveryInv
<1> DEFINE f == [type |-> "flow", next_incoming_id |-> NoId,
                 incoming_window |-> IncomingWindow[p],
                 next_outgoing_id |-> InitialId[p], echo |-> FALSE, seq |-> 0]
<1>1. wire[p] = IF p \in Pipelined THEN <<f>> ELSE <<>>
  BY DEF Init
<1>2. f.type # "transfer"
  OBVIOUS
<1> HIDE DEF f
<1>3. Labelled(wire[p])
  BY <1>1, <1>2, NoLabel
<1>4. /\ exhausted_buffer[p] = <<>> /\ link_frames[p] = <<>> /\ deliveries[p] = 0
      /\ next_outgoing_delivery_id[p] = 0
  BY DEF Init
<1>5. Starts(<<>>, 0) = 0 /\ Len(<<>>) = 0 /\ 0 + 0 = 0 /\ 0 \in Nat
  BY StartsStep
<1>6. Counted(<<>>, 0)
  BY DEF Counted
<1>7. 0 % Modulus = 0
  BY ModulusAssumption
<1>8. Queued(p, 0)
  BY <1>4, <1>5, <1>6, <1>7, Zenon DEF Queued, QueuedIn
<1> QED
  BY <1>3, <1>5, <1>8

\* Deliveries are numbered without a gap, whatever links interleave their frames,
\* whatever waits in the buffer while the window is shut, and across the wrap: the first
\* frame of a delivery carries the delivery's number and no other frame carries one.
THEOREM ConsecutiveDeliveries == Spec => []DeliveryIdsConsecutive
<1>1. TypeOK /\ DeliveryInv => DeliveryIdsConsecutive
  <2> SUFFICES ASSUME TypeOK, DeliveryInv, NEW p \in Peer, NEW i \in InFlight(p)
               PROVE  wire[p][i].delivery_id = Label(wire[p][i])
    BY DEF DeliveryIdsConsecutive, Label
  <2>1. wire[p] \in Seq(Frame)
    BY DEF TypeOK
  <2>2. i \in DOMAIN wire[p] /\ wire[p][i].type = "transfer"
    BY DEF InFlight
  <2>3. DOMAIN wire[p] = 1 .. Len(wire[p])
    BY <2>1
  <2> QED
    BY <2>2, <2>3 DEF DeliveryInv, Labelled
<1> QED
  BY <1>1, InitDelivery, NextDelivery, TypeCorrect, PTL DEF Spec

=============================================================================
