-------------------------- MODULE LinkCreditProofs --------------------------
(***************************************************************************)
(* Proofs about LinkCredit, for every width of the delivery-counts, every  *)
(* credit, channel capacity, set of tasks and plan.  The inductive         *)
(* invariant counts deliveries from the credit they consume to the         *)
(* receiver that takes them, and bounds what every flow under way can      *)
(* grant by what the receiver itself still allows.                         *)
(***************************************************************************)
EXTENDS LinkCredit, TLAPS

-----------------------------------------------------------------------------
(* Arithmetic.                                                             *)

\* Division with remainder by the width of the delivery-counts.
LEMMA DivMod ==
  ASSUME NEW M \in Nat, M > 0, NEW x \in Nat
  PROVE  x \div M \in Int /\ x % M \in 0 .. M - 1 /\ x % M = x - M * (x \div M)
<1>1. x % M = x - M * (x \div M)
  BY SMTT(30)
<1>2. x \div M \in Int /\ x % M \in 0 .. M - 1
  OBVIOUS
<1> QED
  BY <1>1, <1>2

\* The remainder is determined by any decomposition.
LEMMA ModUnique ==
  ASSUME NEW M \in Nat, M > 0, NEW q \in Int, NEW r \in 0 .. M - 1
  PROVE  (M * q + r) % M = r
OBVIOUS

\* Adding to a wrapped count wraps the sum.
LEMMA ModAdd ==
  ASSUME NEW M \in Nat, M > 0, NEW x \in Nat, NEW n \in Nat
  PROVE  ((x % M) + n) % M = (x + n) % M
<1> DEFINE q == x \div M
           r == x % M
           y == r + n
           q2 == y \div M
           r2 == y % M
<1>1. q \in Int /\ r \in 0 .. M - 1 /\ r = x - M * q
  BY DivMod DEF q, r
<1>2. y \in Nat
  BY <1>1
<1>3. q2 \in Int /\ r2 \in 0 .. M - 1 /\ r2 = y - M * q2
  BY <1>2, DivMod DEF q2, r2
<1> HIDE DEF q, r, q2, r2
<1>4. x + n = M * (q + q2) + r2
  BY <1>1, <1>2, <1>3
<1>5. (M * (q + q2) + r2) % M = r2
  <2>1. q + q2 \in Int
    BY <1>1, <1>3
  <2> HIDE DEF y
  <2> QED
    BY <1>3, <2>1, ModUnique
<1> QED
  BY <1>4, <1>5 DEF r, r2

\* Counts are numbers, zero and the automatic credit are counts.
LEMMA CountFacts ==
  /\ Modulus \in Nat /\ Modulus > 1
  /\ \A n \in Count : n \in Nat /\ n < Modulus
  /\ 0 \in Count /\ MaxCredit \in Count
BY ModulusAssumption, CountAssumption DEF Count

\* wrapping_add yields a count.
LEMMA WrapType ==
  ASSUME NEW a \in Nat, NEW b \in Nat
  PROVE  WrappingAdd(a, b) \in Count
BY ModulusAssumption DEF WrappingAdd, Count

\* Two wrapping additions in a row are one.
LEMMA WrapTwice ==
  ASSUME NEW a \in Nat, NEW b \in Nat, NEW c \in Nat
  PROVE  WrappingAdd(WrappingAdd(a, b), c) = WrappingAdd(a, b + c)
<1>1. Modulus \in Nat /\ Modulus > 0
  BY CountFacts
<1>2. a + b \in Nat /\ (a + b) + c = a + (b + c)
  OBVIOUS
<1>3. (((a + b) % Modulus) + c) % Modulus = ((a + b) + c) % Modulus
  BY <1>1, <1>2, ModAdd
<1> QED
  BY <1>2, <1>3 DEF WrappingAdd

\* A sum below the width does not wrap.
LEMMA WrapSmall ==
  ASSUME NEW a \in Nat, NEW b \in Nat, a + b < Modulus
  PROVE  WrappingAdd(a, b) = a + b
BY ModulusAssumption DEF WrappingAdd

\* The sender's credit is a count, and a sum that does not saturate gives the later
\* of the granted limit and the sender's own count.
LEMMA GrantType ==
  ASSUME NEW f \in Flow, NEW n \in Count
  PROVE  LET c == SaturatingSub(SaturatingAdd(f.delivery_count, f.link_credit), n)
             sum == f.delivery_count + f.link_credit
         IN  /\ c \in Count
             /\ sum \in Nat
             /\ sum < Modulus => n + c = IF n <= sum THEN sum ELSE n
<1>1. f.delivery_count \in Count /\ f.link_credit \in Count
  BY DEF Flow
<1> QED
  BY <1>1, CountFacts DEF SaturatingSub, SaturatingAdd, Count

-----------------------------------------------------------------------------
(* Types.                                                                  *)

\* A task that has a flow to send has built one.
FlowBuilt == \A t \in plan.tasks : op[t].at = "flowing" => op[t].flow \in Flow

\* The types, with what a task's place says of its flow.
Typed == TypeOK /\ FlowBuilt

\* What PlansAssumption says of the plan explored.
LEMMA PlanFacts ==
  ASSUME plan \in Plans
  PROVE  /\ plan.initial \in Count /\ plan.credits \subseteq Count /\ Owner \in plan.tasks
         /\ plan.sends \in Nat /\ plan.controls \in Nat
BY PlansAssumption

\* The type invariant, part by part.
LEMMA TypeFacts ==
  ASSUME TypeOK
  PROVE  /\ snd_delivery_count \in Count /\ snd_link_credit \in Count
         /\ rcv_delivery_count \in Count /\ rcv_link_credit \in Count
         /\ processed \in Count
         /\ incoming \in Nat /\ held \in Nat /\ started \in Nat /\ taken \in Nat
         /\ handed \in Nat /\ received \in Nat /\ controls \in Nat
BY DEF TypeOK

\* The states of a task.
LEMMA OpStates ==
  ASSUME NEW o \in Op
  PROVE  /\ Idle \in Op
         /\ [o EXCEPT !.at = "disposing"] \in Op
         /\ [Idle EXCEPT !.at = "disposing", !.returns = TRUE] \in Op
         /\ \A n \in Count : [o EXCEPT !.at = "counted", !.count = n] \in Op
         /\ \A f \in Flow : [o EXCEPT !.at = "flowing", !.flow = f] \in Op
BY CountFacts DEF Op, Idle

\* A flow from its parts.
LEMMA FlowRecord ==
  ASSUME NEW d \in Count, NEW c \in Count, NEW b \in BOOLEAN
  PROVE  [type |-> "flow", delivery_count |-> d, link_credit |-> c, drain |-> b] \in Flow
BY DEF Flow

\* The kind of a frame from the receiver.
LEMMA FrameKinds ==
  ASSUME NEW f \in {DispositionFrame} \cup Flow, f.type = "flow"
  PROVE  f \in Flow
BY DEF DispositionFrame

\* Changing the state of one task.
LEMMA OpStep ==
  ASSUME Typed, NEW t \in plan.tasks, NEW o \in Op, o.at = "flowing" => o.flow \in Flow,
         op' = [op EXCEPT ![t] = o], plan' = plan
  PROVE  op' \in [plan'.tasks -> Op] /\ FlowBuilt'
BY DEF Typed, TypeOK, FlowBuilt

\* A flow that is built.
LEMMA BuildFlowType ==
  ASSUME Typed, NEW t \in plan.tasks, NEW credit \in Count, NEW drain \in BOOLEAN,
         BuildFlow(t, credit, drain), plan' = plan
  PROVE  /\ op' \in [plan'.tasks -> Op] /\ FlowBuilt'
         /\ rcv_link_credit' \in Count /\ rcv_delivery_count' \in Count /\ rcv_drain' \in BOOLEAN
<1> DEFINE f == [type |-> "flow", delivery_count |-> rcv_delivery_count,
                 link_credit |-> credit, drain |-> drain]
           o == [op[t] EXCEPT !.at = "flowing", !.flow = f]
<1>1. rcv_delivery_count \in Count /\ op[t] \in Op
  BY TypeFacts DEF Typed, TypeOK
<1>2. f \in Flow
  BY <1>1, FlowRecord
<1>3. op' = [op EXCEPT ![t] = o]
  BY DEF BuildFlow
<1>4. o \in Op /\ o.at = "flowing" /\ o.flow = f
  <2> HIDE DEF f
  <2>1. o \in Op
    BY <1>1, <1>2, OpStates
  <2> QED
    BY <1>1, <2>1 DEF Op
<1>5. op' \in [plan'.tasks -> Op] /\ FlowBuilt'
  <2> HIDE DEF f, o
  <2> QED
    BY <1>2, <1>3, <1>4, OpStep
<1> QED
  BY <1>1, <1>5 DEF BuildFlow


\* The types hold when the link has attached.
LEMMA InitTyped == Init => Typed
<1> SUFFICES ASSUME Init PROVE Typed
  OBVIOUS
<1>1. plan \in Plans /\ plan.initial \in Count
  BY PlanFacts DEF Init
<1>2. Idle \in Op /\ Idle.at = "idle"
  BY CountFacts DEF Op, Idle
<1>3. op \in [plan.tasks -> Op] /\ credit_mode \in [plan.tasks -> Count]
  BY <1>2, CountFacts DEF Init
<1>4. FlowBuilt
  BY <1>2 DEF Init, FlowBuilt
<1>5. rcv_link_credit \in Count /\ rcv_frames \in Seq({DispositionFrame} \cup Flow)
  <2>1. CASE plan.auto
    <3> DEFINE f == [type |-> "flow", delivery_count |-> plan.initial,
                     link_credit |-> MaxCredit, drain |-> FALSE]
    <3>1. f \in Flow
      BY <1>1, CountFacts, FlowRecord
    <3>2. rcv_link_credit = MaxCredit /\ rcv_frames = <<f>>
      BY <2>1 DEF Init
    <3> HIDE DEF f
    <3> QED
      BY <3>1, <3>2, CountFacts
  <2>2. CASE ~plan.auto
    BY <2>2, CountFacts DEF Init
  <2> QED
    BY <2>1, <2>2
<1>6. snd_frames \in Seq({TransferFrame}) /\ to_rcv \in Seq({TransferFrame} \cup Flow)
      /\ to_snd \in Seq(Flow)
  BY DEF Init
<1>7. sending \in Places /\ rcv_drain \in BOOLEAN /\ limit_exceeded \in BOOLEAN
  BY DEF Init, Places
<1>8. {incoming, held, started, taken, handed, received, controls} \subseteq Nat
  BY DEF Init
<1>9. {snd_delivery_count, snd_link_credit, rcv_delivery_count, rcv_link_credit, processed}
        \subseteq Count
  BY <1>1, <1>5, CountFacts DEF Init
<1> QED
  BY <1>1, <1>3, <1>4, <1>5, <1>6, <1>7, <1>8, <1>9 DEF Typed, TypeOK

\* The sending task keeps the types.
LEMMA SendingTyped ==
  ASSUME Typed, StartSend \/ Consume \/ Refuse \/ AwaitNotified \/ Hand \/ CancelSend
  PROVE  Typed'
<1> USE TypeFacts
<1>1. CASE StartSend
  BY <1>1 DEF StartSend, Typed, TypeOK, FlowBuilt, Places, sndVars, rcvVars, recvVars
<1>2. CASE Consume
  <2>1. WrappingAdd(snd_delivery_count, 1) \in Count /\ snd_link_credit - 1 \in Count
    <3>1. snd_delivery_count \in Nat /\ snd_link_credit \in Count /\ snd_link_credit >= 1
      BY <1>2, CountFacts DEF Consume, Typed
    <3>2. WrappingAdd(snd_delivery_count, 1) \in Count
      BY <3>1, WrapType
    <3>3. snd_link_credit - 1 \in Count
      BY <3>1, CountFacts DEF Count
    <3> QED
      BY <3>2, <3>3
  <2>2. TypeOK'
    BY <1>2, <2>1 DEF Consume, Typed, TypeOK, Places, rcvVars, recvVars
  <2> QED
    BY <1>2, <2>2 DEF Consume, Typed, FlowBuilt, rcvVars, recvVars
<1>3. CASE Refuse
  BY <1>3 DEF Refuse, Typed, TypeOK, FlowBuilt, Places, sndVars, rcvVars, recvVars
<1>4. CASE AwaitNotified
  BY <1>4 DEF AwaitNotified, Typed, TypeOK, FlowBuilt, Places, sndVars, rcvVars, recvVars
<1>5. CASE Hand
  BY <1>5 DEF Hand, Typed, TypeOK, FlowBuilt, Places, sndVars, rcvVars, recvVars
<1>6. CASE CancelSend
  BY <1>6 DEF CancelSend, Typed, TypeOK, FlowBuilt, Places, sndVars, rcvVars, recvVars
<1> QED
  BY <1>1, <1>2, <1>3, <1>4, <1>5, <1>6

\* The sender's answer to a drain: a flow, or nothing.
Answer(f, count) ==
  IF f.drain THEN <<[type |-> "flow", delivery_count |-> count, link_credit |-> 0, drain |-> TRUE]>>
  ELSE <<>>

\* The sessions keep the types.
LEMMA SessionsTyped ==
  ASSUME Typed, \/ ForwardTransfer \/ SenderOnIncomingFlow
                \/ ForwardIncoming \/ ReceiverOnIncomingFlow \/ ForwardReceiverFrame
  PROVE  Typed'
<1> USE TypeFacts
<1>1. CASE ForwardTransfer
  <2>1. Head(snd_frames) \in {TransferFrame} /\ Tail(snd_frames) \in Seq({TransferFrame})
    BY <1>1 DEF ForwardTransfer, Typed, TypeOK
  <2>2. Append(to_rcv, Head(snd_frames)) \in Seq({TransferFrame} \cup Flow)
    BY <2>1 DEF Typed, TypeOK
  <2> QED
    BY <1>1, <2>1, <2>2 DEF ForwardTransfer, Typed, TypeOK, FlowBuilt, sndVars, rcvVars, recvVars
<1>2. CASE SenderOnIncomingFlow
  <2> DEFINE f == Head(to_snd)
             c == SenderCredit(f)
             n == WrappingAdd(snd_delivery_count, IF f.drain THEN c ELSE 0)
  <2>1. f \in Flow /\ Tail(to_snd) \in Seq(Flow)
    BY <1>2 DEF SenderOnIncomingFlow, Typed, TypeOK
  <2>2. /\ to_snd' = Tail(to_snd) /\ snd_delivery_count' = n
        /\ snd_link_credit' = IF f.drain THEN 0 ELSE c
        /\ to_rcv' = to_rcv \o Answer(f, n)
    BY <1>2 DEF SenderOnIncomingFlow, Answer
  <2>3. c \in Count
    BY <2>1, GrantType DEF SenderCredit, Typed
  <2>4. n \in Count
    <3>1. (IF f.drain THEN c ELSE 0) \in Nat
      BY <2>3, CountFacts
    <3> QED
      BY <3>1, CountFacts, WrapType DEF Typed
  <2>5. Answer(f, n) \in Seq({TransferFrame} \cup Flow)
    <3> HIDE DEF f, n
    <3> DEFINE a == [type |-> "flow", delivery_count |-> n, link_credit |-> 0, drain |-> TRUE]
    <3>1. a \in Flow
      BY <2>4, CountFacts, FlowRecord
    <3>2. Answer(f, n) = <<a>> \/ Answer(f, n) = <<>>
      BY DEF Answer
    <3> HIDE DEF a
    <3>3. <<a>> \in Seq({TransferFrame} \cup Flow)
      BY <3>1
    <3>4. <<>> \in Seq({TransferFrame} \cup Flow)
      OBVIOUS
    <3> QED
      BY <3>2, <3>3, <3>4
  <2> HIDE DEF f, c, n
  <2>6. to_rcv' \in Seq({TransferFrame} \cup Flow) /\ snd_delivery_count' \in Count
        /\ snd_link_credit' \in Count /\ to_snd' \in Seq(Flow)
    BY <2>1, <2>2, <2>3, <2>4, <2>5, CountFacts DEF Typed, TypeOK
  <2>7. sending' \in Places
    BY <1>2 DEF SenderOnIncomingFlow, Typed, TypeOK, Places
  <2>8. UNCHANGED <<plan, rcvVars, snd_frames, started, taken, handed, recvVars>>
    BY <1>2 DEF SenderOnIncomingFlow
  <2> QED
    BY <2>6, <2>7, <2>8 DEF Typed, TypeOK, FlowBuilt, rcvVars, recvVars
<1>3. CASE ForwardIncoming
  BY <1>3, SMTT(30) DEF ForwardIncoming, Typed, TypeOK, FlowBuilt, sndVars, rcvVars, sendVars
<1>4. CASE ReceiverOnIncomingFlow
  <2>1. Head(to_rcv) \in {TransferFrame} \cup Flow /\ Tail(to_rcv) \in Seq({TransferFrame} \cup Flow)
    BY <1>4 DEF ReceiverOnIncomingFlow, Typed, TypeOK
  <2>2. Head(to_rcv).delivery_count \in Count
    BY <1>4, <2>1 DEF ReceiverOnIncomingFlow, TransferFrame, Flow
  <2> QED
    BY <1>4, <2>1, <2>2 DEF ReceiverOnIncomingFlow, Typed, TypeOK, FlowBuilt, sndVars, sendVars, recvVars
<1>5. CASE ForwardReceiverFrame
  <2> DEFINE h == Head(rcv_frames)
  <2>1. h \in {DispositionFrame} \cup Flow /\ Tail(rcv_frames) \in Seq({DispositionFrame} \cup Flow)
    BY <1>5 DEF ForwardReceiverFrame, Typed, TypeOK
  <2>2. to_snd' = IF h.type = "flow" THEN Append(to_snd, h) ELSE to_snd
    BY <1>5 DEF ForwardReceiverFrame
  <2> HIDE DEF h
  <2>3. to_snd' \in Seq(Flow)
    BY <2>1, <2>2, FrameKinds DEF Typed, TypeOK
  <2> QED
    BY <1>5, <2>1, <2>3 DEF ForwardReceiverFrame, Typed, TypeOK, FlowBuilt, sndVars, rcvVars, sendVars
<1> QED
  BY <1>1, <1>2, <1>3, <1>4, <1>5

\* Receiving keeps the types.
LEMMA ReceivingTyped ==
  ASSUME Typed, Recv \/ RecvExceeds \/ CancelRecv
  PROVE  Typed'
<1> USE TypeFacts
<1>0. Owner \in plan.tasks /\ op[Owner] \in Op
  BY PlanFacts DEF Typed, TypeOK
<1>1. CASE Recv
  <2>1. WrappingAdd(rcv_delivery_count, 1) \in Count /\ rcv_link_credit - 1 \in Count
        /\ incoming - 1 \in Nat
    BY <1>1, CountFacts, WrapType DEF Recv, Typed, Count
  <2>2. op' \in [plan'.tasks -> Op] /\ FlowBuilt' /\ held' \in Nat
    <3>1. CASE op' = [op EXCEPT ![Owner] = [Idle EXCEPT !.at = "disposing", !.returns = TRUE]]
               /\ UNCHANGED held
      <4>1. [Idle EXCEPT !.at = "disposing", !.returns = TRUE] \in Op
            /\ [Idle EXCEPT !.at = "disposing", !.returns = TRUE].at # "flowing"
        BY <1>0, OpStates DEF Idle
      <4> QED
        BY <1>0, <1>1, <3>1, <4>1, OpStep DEF Recv, Typed
    <3>2. CASE held' = held + 1 /\ UNCHANGED op
      BY <1>1, <3>2 DEF Recv, Typed, TypeOK, FlowBuilt
    <3> QED
      BY <1>1, <3>1, <3>2 DEF Recv
  <2> QED
    BY <1>1, <2>1, <2>2, SMTT(30) DEF Recv, Typed, TypeOK, sndVars, sendVars
<1>2. CASE RecvExceeds
  BY <1>2 DEF RecvExceeds, Typed, TypeOK, FlowBuilt, sndVars, rcvVars, sendVars
<1>3. CASE CancelRecv
  <2>1. Idle \in Op /\ Idle.at # "flowing"
    BY <1>0, OpStates DEF Idle
  <2>2. op' \in [plan'.tasks -> Op] /\ FlowBuilt'
    BY <1>0, <1>3, <2>1, OpStep DEF CancelRecv
  <2> QED
    BY <1>3, <2>2 DEF CancelRecv, Typed, TypeOK, sndVars, rcvVars, sendVars
<1> QED
  BY <1>1, <1>2, <1>3

\* Disposing of deliveries keeps the types.
LEMMA DisposingTyped ==
  ASSUME Typed, NEW t \in plan.tasks,
         StartDispose(t) \/ SendDisposition(t) \/ KeepCredit(t) \/ RefillCredit(t) \/ SendFlow(t)
  PROVE  Typed'
<1> USE TypeFacts
<1>0. op[t] \in Op /\ credit_mode[t] \in Count
  BY DEF Typed, TypeOK
<1>a. Idle \in Op /\ Idle.at # "flowing"
  BY <1>0, OpStates DEF Idle
<1>1. CASE StartDispose(t)
  <2>1. [op[t] EXCEPT !.at = "disposing"] \in Op /\ [op[t] EXCEPT !.at = "disposing"].at # "flowing"
    BY <1>0, OpStates DEF Op
  <2>2. op' = [op EXCEPT ![t] = [op[t] EXCEPT !.at = "disposing"]] /\ plan' = plan
    BY <1>1 DEF StartDispose
  <2>3. op' \in [plan'.tasks -> Op] /\ FlowBuilt'
    BY <2>1, <2>2, OpStep
  <2> QED
    BY <1>1, <2>3 DEF StartDispose, Typed, TypeOK, sndVars, rcvVars, sendVars
<1>2. CASE SendDisposition(t)
  <2> DEFINE n == WrappingAdd(processed, 1)
             o == [op[t] EXCEPT !.at = "counted", !.count = n]
  <2>1. n \in Count
    BY CountFacts, WrapType DEF Typed
  <2>2. o \in Op /\ o.at # "flowing"
    <3> HIDE DEF n
    <3> QED
      BY <1>0, <2>1, OpStates DEF Op
  <2>3. op' = [op EXCEPT ![t] = o] /\ plan' = plan /\ processed' = n
    BY <1>2 DEF SendDisposition
  <2> HIDE DEF n, o
  <2>4. op' \in [plan'.tasks -> Op] /\ FlowBuilt'
    BY <2>2, <2>3, OpStep
  <2>5. rcv_frames' \in Seq({DispositionFrame} \cup Flow)
    BY <1>2 DEF SendDisposition, Typed, TypeOK
  <2> QED
    BY <1>2, <2>1, <2>3, <2>4, <2>5 DEF SendDisposition, Typed, TypeOK, sndVars, rcvVars, sendVars
<1>3. CASE KeepCredit(t)
  <2>1. op' \in [plan'.tasks -> Op] /\ FlowBuilt'
    BY <1>a, <1>3, OpStep DEF KeepCredit, Finish
  <2> QED
    BY <1>3, <2>1 DEF KeepCredit, Typed, TypeOK, sndVars, rcvVars, sendVars
<1>4. CASE RefillCredit(t)
  <2>1. BuildFlow(t, credit_mode[t], FALSE) /\ plan' = plan
    BY <1>4 DEF RefillCredit
  <2>2. /\ op' \in [plan'.tasks -> Op] /\ FlowBuilt'
        /\ rcv_link_credit' \in Count /\ rcv_delivery_count' \in Count /\ rcv_drain' \in BOOLEAN
    BY <1>0, <2>1, BuildFlowType
  <2> QED
    BY <1>4, <2>2, CountFacts DEF RefillCredit, Typed, TypeOK, sndVars, sendVars
<1>5. CASE SendFlow(t)
  <2>1. op' \in [plan'.tasks -> Op] /\ FlowBuilt'
    BY <1>a, <1>5, OpStep DEF SendFlow, Finish
  <2>2. rcv_frames' \in Seq({DispositionFrame} \cup Flow)
    BY <1>5 DEF SendFlow, Typed, TypeOK, FlowBuilt
  <2> QED
    BY <1>5, <2>1, <2>2 DEF SendFlow, Typed, TypeOK, sndVars, rcvVars, sendVars
<1> QED
  BY <1>1, <1>2, <1>3, <1>4, <1>5

\* The calls of the application keep the types.
LEMMA ControlsTyped ==
  ASSUME Typed, \/ Drain \/ SendProperties
                \/ \E credit \in plan.credits : SetCredit(credit) \/ SetCreditMode(credit)
  PROVE  Typed'
<1> USE TypeFacts
<1>0. Owner \in plan.tasks /\ plan.credits \subseteq Count
  BY PlanFacts DEF Typed, TypeOK
<1>z. 0 \in Count
  BY CountFacts
<1>1. CASE Drain
  <2>0. plan' = plan
    BY <1>1 DEF Drain
  <2>1. /\ op' \in [plan'.tasks -> Op] /\ FlowBuilt'
        /\ rcv_link_credit' \in Count /\ rcv_delivery_count' \in Count /\ rcv_drain' \in BOOLEAN
    <3>1. CASE rcv_drain
      BY <1>1, <2>0, <3>1 DEF Drain, Typed, TypeOK, FlowBuilt, rcvVars
    <3>2. CASE ~rcv_drain
      <4>1. BuildFlow(Owner, rcv_link_credit, TRUE) /\ rcv_link_credit \in Count
        BY <1>1, <3>2 DEF Drain, Typed
      <4> QED
        BY <1>0, <2>0, <4>1, BuildFlowType
    <3> QED
      BY <3>1, <3>2
  <2> QED
    <3>1. /\ controls' = controls + 1 /\ processed' = 0
          /\ UNCHANGED <<plan, sndVars, sendVars, to_rcv, incoming, held, credit_mode, rcv_frames,
                         received, limit_exceeded, to_snd>>
      BY <1>1 DEF Drain
    <3> QED
      BY <2>1, <3>1, <1>z DEF Typed, TypeOK, sndVars, sendVars
<1>2. CASE SendProperties
  <2>1. BuildFlow(Owner, rcv_link_credit, rcv_drain) /\ plan' = plan
        /\ rcv_link_credit \in Count /\ rcv_drain \in BOOLEAN
    BY <1>2 DEF SendProperties, Typed, TypeOK
  <2>2. /\ op' \in [plan'.tasks -> Op] /\ FlowBuilt'
        /\ rcv_link_credit' \in Count /\ rcv_delivery_count' \in Count /\ rcv_drain' \in BOOLEAN
    BY <1>0, <2>1, BuildFlowType
  <2> QED
    BY <1>2, <2>2 DEF SendProperties, Typed, TypeOK, sndVars, sendVars
<1>3. ASSUME NEW credit \in plan.credits, SetCredit(credit)
      PROVE  Typed'
  <2>0. credit \in Count
    BY <1>0
  <2>1. BuildFlow(Owner, credit, FALSE) /\ plan' = plan
    BY <1>3 DEF SetCredit
  <2>2. /\ op' \in [plan'.tasks -> Op] /\ FlowBuilt'
        /\ rcv_link_credit' \in Count /\ rcv_delivery_count' \in Count /\ rcv_drain' \in BOOLEAN
    BY <1>0, <2>0, <2>1, BuildFlowType
  <2>3. credit_mode' \in [plan'.tasks -> Count]
    BY <1>0, <1>3, <2>0, <2>1 DEF SetCredit, Typed, TypeOK
  <2> QED
    <3>1. /\ controls' = controls + 1 /\ processed' = 0
          /\ UNCHANGED <<plan, sndVars, sendVars, to_rcv, incoming, held, rcv_frames, received,
                         limit_exceeded, to_snd>>
      BY <1>3 DEF SetCredit
    <3> QED
      BY <2>2, <2>3, <3>1, <1>z DEF Typed, TypeOK, sndVars, sendVars
<1>4. ASSUME NEW credit \in plan.credits, SetCreditMode(credit)
      PROVE  Typed'
  <2>1. credit_mode' \in [plan'.tasks -> Count]
    BY <1>0, <1>4 DEF SetCreditMode, Typed, TypeOK
  <2> QED
    BY <1>4, <2>1 DEF SetCreditMode, Typed, TypeOK, FlowBuilt, sndVars, rcvVars, sendVars
<1> QED
  BY <1>1, <1>2, <1>3, <1>4

\* Every step keeps the types.
LEMMA NextTyped == Typed /\ [Next]_vars => Typed'
<1> SUFFICES ASSUME Typed, [Next]_vars PROVE Typed'
  OBVIOUS
<1>1. CASE Next
  BY <1>1, SendingTyped, SessionsTyped, ReceivingTyped, DisposingTyped, ControlsTyped DEF Next
<1>2. CASE UNCHANGED vars
  BY <1>2 DEF vars, sndVars, rcvVars, sendVars, recvVars, Typed, TypeOK, FlowBuilt
<1> QED
  BY <1>1, <1>2

\* Credits, delivery-counts, flows and tasks keep their types: no subtraction of credit
\* underflows and no count leaves its width, whatever the application calls.
THEOREM TypeCorrect == Spec => []TypeOK
<1>1. Typed => TypeOK
  BY DEF Typed
<1> QED
  BY <1>1, InitTyped, NextTyped, PTL DEF Spec

-----------------------------------------------------------------------------
(* The flows under way to the sender.                                      *)

\* Every flow from the receiver that the sender has yet to handle, wherever it is,
\* belongs to S.
UnderWay(S) ==
  /\ \A t \in plan.tasks : op[t].at = "flowing" => op[t].flow \in S
  /\ \A i \in DOMAIN rcv_frames : rcv_frames[i].type = "flow" => rcv_frames[i] \in S
  /\ \A i \in DOMAIN to_snd : to_snd[i] \in S

\* The flow that get_link_flow builds from the state it leaves behind.
BuiltFlow == [type |-> "flow", delivery_count |-> rcv_delivery_count,
              link_credit |-> rcv_link_credit, drain |-> rcv_drain]

\* What a step does to the tasks: none starts to send a flow, or one does, of the
\* flow state as the step leaves it.
Keeps == /\ plan' = plan
         /\ \A t \in plan.tasks : op'[t].at = "flowing" =>
              op[t].at = "flowing" /\ op'[t].flow = op[t].flow
Builds == /\ plan' = plan /\ rcv_delivery_count' = rcv_delivery_count
          /\ UNCHANGED <<rcv_frames, to_snd, sndVars>>
          /\ \E t \in plan.tasks :
               /\ op[t].at # "flowing" /\ op'[t].at = "flowing" /\ op'[t].flow = BuiltFlow'
               /\ \A u \in plan.tasks \ {t} : op'[u] = op[u]

\* A task that changes to a place other than "flowing".
LEMMA KeepsFlows ==
  ASSUME Typed, NEW t \in plan.tasks, NEW o \in Op, o.at # "flowing",
         op' = [op EXCEPT ![t] = o], plan' = plan
  PROVE  Keeps
BY DEF Keeps, Typed, TypeOK

\* BuildFlow builds.
LEMMA BuildFlowBuilds ==
  ASSUME Typed, NEW t \in plan.tasks, op[t].at # "flowing",
         NEW credit \in Count, NEW drain \in BOOLEAN, BuildFlow(t, credit, drain),
         plan' = plan, UNCHANGED <<rcv_frames, to_snd, sndVars>>
  PROVE  Builds
<1> DEFINE f == [type |-> "flow", delivery_count |-> rcv_delivery_count,
                 link_credit |-> credit, drain |-> drain]
<1>1. op \in [plan.tasks -> Op] /\ op[t] \in Op
  BY DEF Typed, TypeOK
<1>2. BuiltFlow' = f /\ rcv_delivery_count' = rcv_delivery_count
  BY DEF BuildFlow, BuiltFlow
<1>3. op' = [op EXCEPT ![t] = [op[t] EXCEPT !.at = "flowing", !.flow = f]]
  BY DEF BuildFlow
<1> HIDE DEF f
<1>4. op'[t].at = "flowing" /\ op'[t].flow = f
  BY <1>1, <1>3 DEF Op
<1>5. \A u \in plan.tasks \ {t} : op'[u] = op[u]
  BY <1>1, <1>3
<1> QED
  BY <1>2, <1>4, <1>5 DEF Builds

\* Every step keeps or builds.
LEMMA KeepsOrBuilds ==
  ASSUME Typed, [Next]_vars
  PROVE  Keeps \/ Builds
<1> USE TypeFacts
<1>0. Owner \in plan.tasks /\ plan.credits \subseteq Count /\ op[Owner] \in Op
  BY PlanFacts DEF Typed, TypeOK
<1>a. Idle \in Op /\ Idle.at # "flowing"
  BY <1>0, OpStates DEF Idle
<1>1. CASE UNCHANGED <<plan, op>>
  BY <1>1 DEF Keeps
<1>2. CASE Recv
  <2> DEFINE o == [Idle EXCEPT !.at = "disposing", !.returns = TRUE]
  <2>1. o \in Op /\ o.at # "flowing"
    BY <1>0, OpStates DEF Idle
  <2>2. op' = [op EXCEPT ![Owner] = o] \/ UNCHANGED op
    BY <1>2 DEF Recv
  <2>3. plan' = plan
    BY <1>2 DEF Recv
  <2> HIDE DEF o
  <2> QED
    BY <1>0, <1>1, <2>1, <2>2, <2>3, KeepsFlows
<1>3. CASE CancelRecv
  BY <1>0, <1>a, <1>3, KeepsFlows DEF CancelRecv
<1>4. ASSUME NEW t \in plan.tasks, StartDispose(t)
      PROVE  Keeps
  <2>1. op[t] \in Op
    BY DEF Typed, TypeOK
  <2>2. [op[t] EXCEPT !.at = "disposing"] \in Op /\ [op[t] EXCEPT !.at = "disposing"].at # "flowing"
    BY <2>1, OpStates DEF Op
  <2>3. op' = [op EXCEPT ![t] = [op[t] EXCEPT !.at = "disposing"]] /\ plan' = plan
    BY <1>4 DEF StartDispose
  <2> QED
    BY <2>2, <2>3, KeepsFlows
<1>5. ASSUME NEW t \in plan.tasks, SendDisposition(t)
      PROVE  Keeps
  <2> DEFINE n == WrappingAdd(processed, 1)
             o == [op[t] EXCEPT !.at = "counted", !.count = n]
  <2>0. op[t] \in Op
    BY DEF Typed, TypeOK
  <2>1. n \in Count
    BY CountFacts, WrapType DEF Typed
  <2>2. o \in Op /\ o.at # "flowing"
    <3> HIDE DEF n
    <3> QED
      BY <2>0, <2>1, OpStates DEF Op
  <2>3. op' = [op EXCEPT ![t] = o] /\ plan' = plan
    BY <1>5 DEF SendDisposition
  <2> HIDE DEF n, o
  <2> QED
    BY <2>2, <2>3, KeepsFlows
<1>6. ASSUME NEW t \in plan.tasks, KeepCredit(t) \/ SendFlow(t)
      PROVE  Keeps
  <2>1. op' = [op EXCEPT ![t] = Idle] /\ plan' = plan
    BY <1>6 DEF KeepCredit, SendFlow, Finish
  <2> QED
    BY <1>a, <2>1, KeepsFlows
<1>7. ASSUME NEW t \in plan.tasks, RefillCredit(t)
      PROVE  Builds
  <2>1. credit_mode[t] \in Count
    BY DEF Typed, TypeOK
  <2>2. /\ BuildFlow(t, credit_mode[t], FALSE) /\ op[t].at # "flowing"
        /\ plan' = plan /\ UNCHANGED <<rcv_frames, to_snd, sndVars>>
    BY <1>7 DEF RefillCredit
  <2> QED
    BY <2>1, <2>2, BuildFlowBuilds
<1>8. ASSUME NEW credit \in plan.credits, SetCredit(credit)
      PROVE  Builds
  <2>1. credit \in Count
    BY <1>0
  <2>2. /\ BuildFlow(Owner, credit, FALSE) /\ op[Owner].at # "flowing"
        /\ plan' = plan /\ UNCHANGED <<rcv_frames, to_snd, sndVars>>
    BY <1>8 DEF SetCredit
  <2> QED
    BY <1>0, <2>1, <2>2, BuildFlowBuilds
<1>9. CASE Drain /\ ~rcv_drain
  <2>2. /\ BuildFlow(Owner, rcv_link_credit, TRUE) /\ op[Owner].at # "flowing"
        /\ plan' = plan /\ UNCHANGED <<rcv_frames, to_snd, sndVars>>
    BY <1>9 DEF Drain
  <2>3. rcv_link_credit \in Count
    BY DEF Typed
  <2> QED
    BY <1>0, <2>2, <2>3, BuildFlowBuilds
<1>10. CASE SendProperties
  <2>2. /\ BuildFlow(Owner, rcv_link_credit, rcv_drain) /\ op[Owner].at # "flowing"
        /\ plan' = plan /\ UNCHANGED <<rcv_frames, to_snd, sndVars>>
    BY <1>10 DEF SendProperties
  <2>3. rcv_link_credit \in Count /\ rcv_drain \in BOOLEAN
    BY DEF Typed, TypeOK
  <2> QED
    BY <1>0, <2>2, <2>3, BuildFlowBuilds
<1>11. CASE Drain /\ rcv_drain
  BY <1>1, <1>11 DEF Drain, rcvVars
<1>12. CASE StartSend \/ Consume \/ Refuse \/ AwaitNotified \/ Hand \/ CancelSend
            \/ ForwardTransfer \/ SenderOnIncomingFlow \/ ReceiverOnIncomingFlow
  BY <1>1, <1>12 DEF StartSend, Consume, Refuse, AwaitNotified, Hand, CancelSend, ForwardTransfer,
                     SenderOnIncomingFlow, ReceiverOnIncomingFlow, recvVars
<1>13. CASE ForwardIncoming \/ ForwardReceiverFrame \/ RecvExceeds
  BY <1>1, <1>13 DEF ForwardIncoming, ForwardReceiverFrame, RecvExceeds
<1>14. ASSUME NEW credit \in plan.credits, SetCreditMode(credit)
       PROVE  Keeps
  BY <1>1, <1>14 DEF SetCreditMode, Keeps
<1>15. CASE UNCHANGED vars
  BY <1>1, <1>15 DEF vars, recvVars
<1> QED
  BY <1>2, <1>3, <1>4, <1>5, <1>6, <1>7, <1>8, <1>9, <1>10, <1>11, <1>12, <1>13, <1>14, <1>15
  DEF Next

\* The steps that touch the channels from the receiver to the sender.
LEMMA ChannelSteps ==
  ASSUME [Next]_vars
  PROVE  \/ UNCHANGED <<rcv_frames, to_snd>>
         \/ SenderOnIncomingFlow
         \/ ForwardReceiverFrame
         \/ \E t \in plan.tasks : SendDisposition(t)
         \/ \E t \in plan.tasks : SendFlow(t)
<1>1. CASE StartSend \/ Consume \/ Refuse \/ AwaitNotified \/ Hand \/ CancelSend
            \/ ForwardTransfer \/ ReceiverOnIncomingFlow
  BY <1>1 DEF StartSend, Consume, Refuse, AwaitNotified, Hand, CancelSend, ForwardTransfer,
              ReceiverOnIncomingFlow, recvVars
<1>2. CASE ForwardIncoming \/ Recv \/ RecvExceeds \/ Drain \/ SendProperties \/ CancelRecv
  BY <1>2 DEF ForwardIncoming, Recv, RecvExceeds, Drain, SendProperties, CancelRecv
<1>3. ASSUME NEW credit \in plan.credits, SetCredit(credit) \/ SetCreditMode(credit)
      PROVE  UNCHANGED <<rcv_frames, to_snd>>
  BY <1>3 DEF SetCredit, SetCreditMode
<1>4. ASSUME NEW t \in plan.tasks, StartDispose(t) \/ KeepCredit(t) \/ RefillCredit(t)
      PROVE  UNCHANGED <<rcv_frames, to_snd>>
  BY <1>4 DEF StartDispose, KeepCredit, RefillCredit
<1>5. CASE UNCHANGED vars
  BY <1>5 DEF vars, recvVars
<1> QED
  BY <1>1, <1>2, <1>3, <1>4, <1>5 DEF Next

\* The elements of a sequence that is shortened.
LEMMA TailElements ==
  ASSUME NEW T, NEW s \in Seq(T), s # <<>>
  PROVE  \A i \in DOMAIN Tail(s) : i + 1 \in DOMAIN s /\ Tail(s)[i] = s[i + 1] /\ i \in Nat
OBVIOUS

\* The elements of a sequence that is extended.
LEMMA AppendElements ==
  ASSUME NEW T, NEW s \in Seq(T), NEW e \in T
  PROVE  /\ Append(s, e) \in Seq(T)
         /\ \A i \in DOMAIN Append(s, e) : \/ i \in DOMAIN s /\ Append(s, e)[i] = s[i]
                                           \/ i = Len(s) + 1 /\ Append(s, e)[i] = e
<1>1. Append(s, e) \in Seq(T) /\ DOMAIN Append(s, e) = 1 .. Len(s) + 1
  OBVIOUS
<1>2. ASSUME NEW i \in 1 .. Len(s) + 1, i # Len(s) + 1
      PROVE  i \in DOMAIN s /\ Append(s, e)[i] = s[i]
  BY <1>2
<1>3. Append(s, e)[Len(s) + 1] = e
  OBVIOUS
<1> QED
  BY <1>1, <1>2, <1>3

\* The head of a sequence.
LEMMA HeadElement ==
  ASSUME NEW T, NEW s \in Seq(T), s # <<>>
  PROVE  1 \in DOMAIN s /\ Head(s) = s[1] /\ Head(s) \in T
OBVIOUS

\* Flows move on towards the sender unchanged: a set that holds all of them loses none
\* of them, as long as it holds the flow a step builds.
LEMMA UnderWayStep ==
  ASSUME Typed, [Next]_vars, NEW S, UnderWay(S), Builds => BuiltFlow' \in S
  PROVE  UnderWay(S)'
<1>0. /\ op \in [plan.tasks -> Op] /\ to_snd \in Seq(Flow)
      /\ rcv_frames \in Seq({DispositionFrame} \cup Flow)
  BY DEF Typed, TypeOK
<1>p. plan' = plan
  BY KeepsOrBuilds DEF Keeps, Builds
<1>1. \A t \in plan'.tasks : op'[t].at = "flowing" => op'[t].flow \in S
  <2>1. CASE Keeps
    BY <2>1, <1>p DEF Keeps, UnderWay
  <2>2. CASE Builds
    BY <2>2, <1>p DEF Builds, UnderWay
  <2> QED
    BY <2>1, <2>2, KeepsOrBuilds
<1>2. /\ \A i \in DOMAIN rcv_frames' : rcv_frames'[i].type = "flow" => rcv_frames'[i] \in S
      /\ \A i \in DOMAIN to_snd' : to_snd'[i] \in S
  <2>1. CASE UNCHANGED <<rcv_frames, to_snd>>
    BY <2>1 DEF UnderWay
  <2>2. CASE SenderOnIncomingFlow
    <3>1. to_snd # <<>> /\ to_snd' = Tail(to_snd) /\ rcv_frames' = rcv_frames
      BY <2>2 DEF SenderOnIncomingFlow, recvVars
    <3> QED
      BY <1>0, <3>1, TailElements DEF UnderWay
  <2>3. CASE ForwardReceiverFrame
    <3> DEFINE h == Head(rcv_frames)
    <3>1. /\ rcv_frames # <<>> /\ rcv_frames' = Tail(rcv_frames)
          /\ to_snd' = IF h.type = "flow" THEN Append(to_snd, h) ELSE to_snd
      BY <2>3 DEF ForwardReceiverFrame
    <3>2. h \in {DispositionFrame} \cup Flow /\ (h.type = "flow" => h \in S)
      BY <1>0, <3>1, HeadElement DEF UnderWay
    <3> HIDE DEF h
    <3>3. \A i \in DOMAIN rcv_frames' : rcv_frames'[i].type = "flow" => rcv_frames'[i] \in S
      BY <1>0, <3>1, TailElements DEF UnderWay
    <3>4. \A i \in DOMAIN to_snd' : to_snd'[i] \in S
      <4>1. CASE h.type = "flow"
        <5>1. h \in Flow /\ h \in S /\ to_snd' = Append(to_snd, h)
          BY <3>1, <3>2, <4>1, FrameKinds
        <5> QED
          BY <1>0, <5>1, AppendElements DEF UnderWay
      <4>2. CASE h.type # "flow"
        BY <3>1, <4>2 DEF UnderWay
      <4> QED
        BY <4>1, <4>2
    <3> QED
      BY <3>3, <3>4
  <2>4. ASSUME NEW t \in plan.tasks, SendDisposition(t)
        PROVE  /\ \A i \in DOMAIN rcv_frames' : rcv_frames'[i].type = "flow" => rcv_frames'[i] \in S
               /\ \A i \in DOMAIN to_snd' : to_snd'[i] \in S
    <3>1. rcv_frames' = Append(rcv_frames, DispositionFrame) /\ to_snd' = to_snd
      BY <2>4 DEF SendDisposition
    <3>2. DispositionFrame.type # "flow"
      BY DEF DispositionFrame
    <3> QED
      BY <1>0, <3>1, <3>2, AppendElements DEF UnderWay
  <2>5. ASSUME NEW t \in plan.tasks, SendFlow(t)
        PROVE  /\ \A i \in DOMAIN rcv_frames' : rcv_frames'[i].type = "flow" => rcv_frames'[i] \in S
               /\ \A i \in DOMAIN to_snd' : to_snd'[i] \in S
    <3>1. rcv_frames' = Append(rcv_frames, op[t].flow) /\ to_snd' = to_snd /\ op[t].at = "flowing"
      BY <2>5 DEF SendFlow
    <3>2. op[t].flow \in S /\ op[t].flow \in Flow
      BY <3>1 DEF UnderWay, Typed, FlowBuilt
    <3> QED
      BY <1>0, <3>1, <3>2, AppendElements DEF UnderWay
  <2> QED
    BY <2>1, <2>2, <2>3, <2>4, <2>5, ChannelSteps
<1> QED
  BY <1>1, <1>2 DEF UnderWay

-----------------------------------------------------------------------------
(* Deliveries are counted.                                                 *)

\* Sends are begun, consume their credit and are handed over in this order.
Counting ==
  /\ handed <= taken /\ (sending = "handing" => handed < taken)
  /\ taken <= started /\ (sending \in {"trying", "refused", "waiting"} => taken < started)
  /\ started <= plan.sends

\* Where both delivery-counts start.
Start == plan.initial

\* The start is a count.
LEMMA StartType ==
  ASSUME plan \in Plans
  PROVE  Start \in Count /\ Start \in Nat /\ Start < Modulus
<1>1. Start \in Count
  BY PlanFacts DEF Start
<1> QED
  BY <1>1, CountFacts

\* Flows that ask for no drain.
Plain == {f \in Flow : f.drain = FALSE}

\* Without drains, both delivery-counts count from the same start, and what was handed
\* over and not yet received is in transit until recv() drops a delivery.
Tracked ==
  ~plan.draining =>
    /\ rcv_drain = FALSE
    /\ UnderWay(Plain)
    /\ to_rcv \in Seq({TransferFrame})
    /\ snd_delivery_count = WrappingAdd(Start, taken)
    /\ rcv_delivery_count = WrappingAdd(Start, received)
    /\ ~limit_exceeded => handed = received + InTransit

\* Nothing has been sent when the link has attached.
LEMMA InitTracked == Init => Counting /\ Tracked
<1> SUFFICES ASSUME Init PROVE Counting /\ Tracked
  OBVIOUS
<1>1. plan \in Plans /\ Start \in Count /\ Start \in Nat /\ Start < Modulus
      /\ plan.sends \in Nat
  BY PlanFacts, StartType DEF Init
<1>2. Counting
  BY <1>1 DEF Init, Counting
<1>3. WrappingAdd(Start, 0) = Start
  BY <1>1, WrapSmall
<1>4. UnderWay(Plain)
  <2> DEFINE f == [type |-> "flow", delivery_count |-> Start,
                   link_credit |-> MaxCredit, drain |-> FALSE]
  <2>1. f \in Plain
    BY <1>1, CountFacts, FlowRecord DEF Plain
  <2>2. rcv_frames = <<f>> \/ rcv_frames = <<>>
    BY DEF Init, Start
  <2> HIDE DEF f
  <2>3. \A i \in DOMAIN rcv_frames : rcv_frames[i] \in Plain
    BY <2>1, <2>2
  <2>4. to_snd = <<>> /\ \A t \in plan.tasks : op[t].at = "idle"
    BY DEF Init, Idle
  <2> QED
    BY <2>3, <2>4 DEF UnderWay
<1>5. Tracked
  <2>1. snd_delivery_count = Start /\ rcv_delivery_count = Start
    BY DEF Init, Start
  <2> QED
    BY <1>3, <1>4, <2>1 DEF Init, Tracked, InTransit
<1> QED
  BY <1>2, <1>5

\* Sends stay in order.
LEMMA NextCounting == Typed /\ Counting /\ [Next]_vars => Counting'
<1> SUFFICES ASSUME Typed, Counting, [Next]_vars PROVE Counting'
  OBVIOUS
<1>0. /\ started \in Nat /\ taken \in Nat /\ handed \in Nat /\ plan.sends \in Nat
      /\ sending \in Places
  BY TypeFacts, PlanFacts DEF Typed, TypeOK
<1>1. CASE UNCHANGED <<plan, sendVars>>
  BY <1>1 DEF Counting, sendVars
<1>2. CASE StartSend
  BY <1>0, <1>2 DEF StartSend, Counting
<1>3. CASE Consume
  BY <1>0, <1>3 DEF Consume, Counting
<1>4. CASE Refuse \/ AwaitNotified \/ CancelSend
  BY <1>0, <1>4 DEF Refuse, AwaitNotified, CancelSend, Counting
<1>5. CASE Hand
  BY <1>0, <1>5 DEF Hand, Counting
<1>6. CASE ForwardTransfer
  BY <1>6 DEF ForwardTransfer, Counting
<1>7. CASE SenderOnIncomingFlow
  <2>1. /\ sending' = IF sending = "waiting" THEN "trying" ELSE sending
        /\ UNCHANGED <<plan, started, taken, handed>>
    BY <1>7 DEF SenderOnIncomingFlow
  <2> QED
    BY <1>0, <2>1 DEF Counting
<1>8. CASE ForwardIncoming \/ ReceiverOnIncomingFlow \/ ForwardReceiverFrame
           \/ Recv \/ RecvExceeds \/ CancelRecv
  BY <1>1, <1>8 DEF ForwardIncoming, ReceiverOnIncomingFlow, ForwardReceiverFrame, Recv,
                    RecvExceeds, CancelRecv
<1>9. CASE Drain \/ SendProperties \/ UNCHANGED vars
  BY <1>1, <1>9 DEF Drain, SendProperties, vars
<1>10. ASSUME NEW credit \in plan.credits, SetCredit(credit) \/ SetCreditMode(credit)
       PROVE  Counting'
  BY <1>1, <1>10 DEF SetCredit, SetCreditMode
<1>11. ASSUME NEW t \in plan.tasks,
              StartDispose(t) \/ SendDisposition(t) \/ KeepCredit(t) \/ RefillCredit(t) \/ SendFlow(t)
       PROVE  Counting'
  BY <1>1, <1>11 DEF StartDispose, SendDisposition, KeepCredit, RefillCredit, SendFlow
<1> QED
  BY <1>2, <1>3, <1>4, <1>5, <1>6, <1>7, <1>8, <1>9, <1>10, <1>11 DEF Next

\* A link that is not drained asks for no drain.
LEMMA NoDrainStep ==
  ASSUME Typed, Tracked, ~plan.draining, [Next]_vars
  PROVE  rcv_drain' = FALSE /\ UnderWay(Plain)'
<1>0. rcv_drain = FALSE /\ UnderWay(Plain)
  BY DEF Tracked
<1>1. rcv_drain' = FALSE
  <2>1. CASE UNCHANGED rcv_drain
    BY <1>0, <2>1
  <2>2. CASE StartSend \/ Consume \/ Refuse \/ AwaitNotified \/ Hand \/ CancelSend
             \/ ForwardTransfer \/ ForwardReceiverFrame
    BY <2>1, <2>2 DEF StartSend, Consume, Refuse, AwaitNotified, Hand, CancelSend, ForwardTransfer,
                      ForwardReceiverFrame, rcvVars
  <2>3. CASE SenderOnIncomingFlow
    BY <2>1, <2>3 DEF SenderOnIncomingFlow, rcvVars
  <2>4. CASE ForwardIncoming \/ ReceiverOnIncomingFlow \/ Recv \/ RecvExceeds \/ CancelRecv
    BY <2>1, <2>4 DEF ForwardIncoming, ReceiverOnIncomingFlow, Recv, RecvExceeds, CancelRecv, rcvVars
  <2>5. CASE Drain
    BY <2>5 DEF Drain
  <2>6. CASE SendProperties
    BY <1>0, <2>6 DEF SendProperties, BuildFlow
  <2>7. ASSUME NEW credit \in plan.credits, SetCredit(credit) \/ SetCreditMode(credit)
        PROVE  rcv_drain' = FALSE
    BY <1>0, <2>7 DEF SetCredit, SetCreditMode, BuildFlow, rcvVars
  <2>8. ASSUME NEW t \in plan.tasks,
               StartDispose(t) \/ SendDisposition(t) \/ KeepCredit(t) \/ RefillCredit(t) \/ SendFlow(t)
        PROVE  rcv_drain' = FALSE
    BY <1>0, <2>8 DEF StartDispose, SendDisposition, KeepCredit, RefillCredit, SendFlow, BuildFlow,
                      rcvVars
  <2>9. CASE UNCHANGED vars
    BY <2>1, <2>9 DEF vars, rcvVars
  <2> QED
    BY <2>2, <2>3, <2>4, <2>5, <2>6, <2>7, <2>8, <2>9 DEF Next
<1>2. BuiltFlow' \in Plain
  <2>1. rcv_delivery_count' \in Count /\ rcv_link_credit' \in Count
    BY NextTyped DEF Typed, TypeOK
  <2>2. BuiltFlow' = [type |-> "flow", delivery_count |-> rcv_delivery_count',
                      link_credit |-> rcv_link_credit', drain |-> FALSE]
    BY <1>1 DEF BuiltFlow
  <2> QED
    BY <2>1, <2>2, FlowRecord DEF Plain
<1> QED
  BY <1>0, <1>1, <1>2, UnderWayStep

\* Appending nothing.
LEMMA AppendNothing ==
  ASSUME NEW T, NEW s \in Seq(T)
  PROVE  s \o <<>> = s
OBVIOUS

\* Without drains, deliveries stay counted.
LEMMA NextTracked == Typed /\ Counting /\ Tracked /\ [Next]_vars => Tracked'
<1> SUFFICES ASSUME Typed, Counting, Tracked, [Next]_vars PROVE Tracked'
  OBVIOUS
<1>p. plan' = plan
  BY KeepsOrBuilds DEF Keeps, Builds
<1> SUFFICES ASSUME ~plan.draining PROVE Tracked'
  BY <1>p DEF Tracked
<1> USE TypeFacts
<1>0. /\ snd_delivery_count \in Nat /\ rcv_delivery_count \in Nat /\ Start \in Nat
      /\ incoming \in Nat /\ taken \in Nat /\ handed \in Nat /\ received \in Nat
      /\ snd_frames \in Seq({TransferFrame})
  BY CountFacts, StartType DEF Typed, TypeOK
<1>t. /\ to_rcv \in Seq({TransferFrame})
      /\ snd_delivery_count = WrappingAdd(Start, taken)
      /\ rcv_delivery_count = WrappingAdd(Start, received)
      /\ ~limit_exceeded => handed = received + (Len(snd_frames) + Len(to_rcv) + incoming)
      /\ UnderWay(Plain)
  BY DEF Tracked, InTransit
<1>d. rcv_drain' = FALSE /\ UnderWay(Plain)'
  BY NoDrainStep
<1>s. SUFFICES /\ to_rcv' \in Seq({TransferFrame})
               /\ snd_delivery_count' = WrappingAdd(Start, taken')
               /\ rcv_delivery_count' = WrappingAdd(Start, received')
               /\ ~limit_exceeded' =>
                    handed' = received' + (Len(snd_frames') + Len(to_rcv') + incoming')
  <2>1. Start' = Start
    BY <1>p DEF Start
  <2> QED
    BY <1>d, <2>1 DEF Tracked, InTransit
<1>1. CASE UNCHANGED <<snd_delivery_count, rcv_delivery_count, taken, received, handed, snd_frames,
                       to_rcv, incoming, limit_exceeded>>
  BY <1>t, <1>1
<1>2. CASE StartSend \/ Refuse \/ AwaitNotified \/ CancelSend \/ ForwardReceiverFrame
  BY <1>1, <1>2 DEF StartSend, Refuse, AwaitNotified, CancelSend, ForwardReceiverFrame, sndVars,
                    rcvVars, sendVars, recvVars
<1>3. CASE Consume
  <2>1. /\ snd_delivery_count' = WrappingAdd(snd_delivery_count, 1) /\ taken' = taken + 1
        /\ UNCHANGED <<rcv_delivery_count, received, handed, snd_frames, to_rcv, incoming,
                       limit_exceeded>>
    BY <1>3 DEF Consume, rcvVars, recvVars
  <2>2. snd_delivery_count' = WrappingAdd(Start, taken + 1)
    <3>1. Start \in Nat /\ taken \in Nat /\ 1 \in Nat
      BY <1>0
    <3>2. WrappingAdd(WrappingAdd(Start, taken), 1) = WrappingAdd(Start, taken + 1)
      BY <3>1, WrapTwice
    <3> QED
      BY <1>t, <2>1, <3>2
  <2> QED
    BY <1>t, <2>1, <2>2
<1>4. CASE Hand
  <2>1. /\ snd_frames' = Append(snd_frames, TransferFrame) /\ handed' = handed + 1
        /\ UNCHANGED <<snd_delivery_count, rcv_delivery_count, taken, received, to_rcv, incoming,
                       limit_exceeded>>
    BY <1>4 DEF Hand, sndVars, rcvVars, recvVars
  <2>2. Len(snd_frames') = Len(snd_frames) + 1
    BY <1>0, <2>1
  <2>3. ASSUME ~limit_exceeded
        PROVE  handed' = received' + (Len(snd_frames') + Len(to_rcv') + incoming')
    <3>1. handed = received + (Len(snd_frames) + Len(to_rcv) + incoming)
      BY <1>t, <2>3
    <3>2. Len(snd_frames) \in Nat /\ Len(to_rcv) \in Nat
      BY <1>0, <1>t
    <3> QED
      BY <1>0, <2>1, <2>2, <3>1, <3>2
  <2> QED
    BY <1>t, <2>1, <2>3
<1>5. CASE ForwardTransfer
  <2>1. /\ snd_frames # <<>> /\ snd_frames' = Tail(snd_frames)
        /\ to_rcv' = Append(to_rcv, Head(snd_frames))
        /\ UNCHANGED <<snd_delivery_count, rcv_delivery_count, taken, received, handed, incoming,
                       limit_exceeded>>
    BY <1>5 DEF ForwardTransfer, sndVars, rcvVars, recvVars
  <2>2. Len(snd_frames') = Len(snd_frames) - 1 /\ Head(snd_frames) \in {TransferFrame}
    BY <1>0, <2>1
  <2>3. to_rcv' \in Seq({TransferFrame}) /\ Len(to_rcv') = Len(to_rcv) + 1
    BY <1>t, <2>1, <2>2
  <2>4. Len(snd_frames) \in Nat /\ Len(to_rcv) \in Nat
    BY <1>0, <1>t
  <2>5. ASSUME ~limit_exceeded
        PROVE  handed' = received' + (Len(snd_frames') + Len(to_rcv') + incoming')
    <3>1. handed = received + (Len(snd_frames) + Len(to_rcv) + incoming)
      BY <1>t, <2>5
    <3> QED
      BY <1>0, <2>1, <2>2, <2>3, <2>4, <3>1
  <2> QED
    BY <1>t, <2>1, <2>2, <2>3, <2>5
<1>6. CASE SenderOnIncomingFlow
  <2> DEFINE f == Head(to_snd)
             c == SenderCredit(f)
             n == WrappingAdd(snd_delivery_count, IF f.drain THEN c ELSE 0)
  <2>1. /\ to_snd # <<>> /\ snd_delivery_count' = n
        /\ to_rcv' = to_rcv \o (IF f.drain THEN <<[type |-> "flow", delivery_count |-> n,
                                    link_credit |-> 0, drain |-> TRUE]>> ELSE <<>>)
        /\ UNCHANGED <<rcv_delivery_count, taken, received, handed, incoming, snd_frames,
                       limit_exceeded>>
    BY <1>6 DEF SenderOnIncomingFlow, rcvVars, recvVars
  <2>2. f.drain = FALSE
    BY <1>t, <2>1, HeadElement DEF Typed, TypeOK, UnderWay, Plain
  <2>3. to_rcv' = to_rcv
    BY <1>t, <2>1, <2>2, AppendNothing
  <2>4. snd_delivery_count' = WrappingAdd(snd_delivery_count, 0)
    BY <2>1, <2>2
  <2>5. snd_delivery_count' = snd_delivery_count
    <3>1. snd_delivery_count < Modulus
      BY CountFacts DEF Typed
    <3> QED
      BY <1>0, <2>4, <3>1, WrapSmall
  <2> QED
    BY <1>1, <2>1, <2>3, <2>5
<1>7. CASE ForwardIncoming
  <2>1. /\ to_rcv # <<>> /\ to_rcv' = Tail(to_rcv) /\ incoming' = incoming + 1
        /\ UNCHANGED <<snd_delivery_count, rcv_delivery_count, taken, received, handed, snd_frames,
                       limit_exceeded>>
    BY <1>7 DEF ForwardIncoming, sndVars, rcvVars, sendVars
  <2>2. to_rcv' \in Seq({TransferFrame}) /\ Len(to_rcv') = Len(to_rcv) - 1
    BY <1>t, <2>1
  <2>3. Len(snd_frames) \in Nat /\ Len(to_rcv) \in Nat
    BY <1>0, <1>t
  <2>4. ASSUME ~limit_exceeded
        PROVE  handed' = received' + (Len(snd_frames') + Len(to_rcv') + incoming')
    <3>1. handed = received + (Len(snd_frames) + Len(to_rcv) + incoming)
      BY <1>t, <2>4
    <3> QED
      BY <1>0, <2>1, <2>2, <2>3, <3>1
  <2> QED
    BY <1>t, <2>1, <2>2, <2>4
<1>8. ~ReceiverOnIncomingFlow
  <2>1. ASSUME to_rcv # <<>> PROVE Head(to_rcv).type # "flow"
    <3>1. Head(to_rcv) \in {TransferFrame}
      BY <1>t, <2>1, HeadElement
    <3> QED
      BY <3>1 DEF TransferFrame
  <2> QED
    BY <2>1 DEF ReceiverOnIncomingFlow
<1>9. CASE Recv
  <2>1. /\ rcv_delivery_count' = WrappingAdd(rcv_delivery_count, 1) /\ received' = received + 1
        /\ incoming > 0 /\ incoming' = incoming - 1
        /\ UNCHANGED <<snd_delivery_count, taken, handed, snd_frames, to_rcv, limit_exceeded>>
    BY <1>9 DEF Recv, sndVars, sendVars
  <2>2. rcv_delivery_count' = WrappingAdd(Start, received + 1)
    <3>1. Start \in Nat /\ received \in Nat /\ 1 \in Nat
      BY <1>0
    <3>2. WrappingAdd(WrappingAdd(Start, received), 1) = WrappingAdd(Start, received + 1)
      BY <3>1, WrapTwice
    <3> QED
      BY <1>t, <2>1, <3>2
  <2>3. Len(snd_frames) \in Nat /\ Len(to_rcv) \in Nat
    BY <1>0, <1>t
  <2> QED
    BY <1>0, <1>t, <2>1, <2>2, <2>3, SMTT(30)
<1>10. CASE RecvExceeds
  BY <1>t, <1>10 DEF RecvExceeds, sndVars, rcvVars, sendVars
<1>11. CASE CancelRecv \/ Drain \/ SendProperties
  BY <1>1, <1>11 DEF CancelRecv, Drain, SendProperties, BuildFlow, sndVars, rcvVars, sendVars
<1>12. ASSUME NEW credit \in plan.credits, SetCredit(credit) \/ SetCreditMode(credit)
       PROVE  UNCHANGED <<snd_delivery_count, rcv_delivery_count, taken, received, handed, snd_frames,
                          to_rcv, incoming, limit_exceeded>>
  BY <1>12 DEF SetCredit, SetCreditMode, BuildFlow, sndVars, rcvVars, sendVars
<1>13. ASSUME NEW t \in plan.tasks,
              StartDispose(t) \/ SendDisposition(t) \/ KeepCredit(t) \/ RefillCredit(t) \/ SendFlow(t)
       PROVE  UNCHANGED <<snd_delivery_count, rcv_delivery_count, taken, received, handed, snd_frames,
                          to_rcv, incoming, limit_exceeded>>
  BY <1>13 DEF StartDispose, SendDisposition, KeepCredit, RefillCredit, SendFlow, BuildFlow,
               sndVars, rcvVars, sendVars
<1>14. CASE UNCHANGED vars
  BY <1>1, <1>14 DEF vars, sndVars, rcvVars, sendVars, recvVars
<1> QED
  BY <1>1, <1>2, <1>3, <1>4, <1>5, <1>6, <1>7, <1>8, <1>9, <1>10, <1>11, <1>12, <1>13, <1>14 DEF Next

\* The count is what the property says.
LEMMA TrackedCount == Typed /\ Counting /\ Tracked => DeliveryCountTracked
<1> SUFFICES ASSUME Typed, Counting, Tracked, ~plan.draining, ~limit_exceeded
             PROVE  snd_delivery_count = WrappingAdd(rcv_delivery_count, InTransit + Unhanded)
  BY DEF DeliveryCountTracked
<1>0. /\ Start \in Nat /\ taken \in Nat /\ handed \in Nat /\ received \in Nat
      /\ incoming \in Nat /\ Len(snd_frames) \in Nat /\ Len(to_rcv) \in Nat
  <2>1. Start \in Nat
    BY StartType DEF Typed, TypeOK
  <2>2. Len(snd_frames) \in Nat /\ Len(to_rcv) \in Nat
    BY DEF Typed, TypeOK
  <2>3. taken \in Nat /\ handed \in Nat /\ received \in Nat /\ incoming \in Nat
    BY TypeFacts DEF Typed
  <2> QED
    BY <2>1, <2>2, <2>3
<1>1. InTransit \in Nat /\ handed = received + InTransit /\ handed <= taken
  BY <1>0 DEF InTransit, Tracked, Counting
<1> DEFINE n == InTransit + Unhanded
<1>2. n \in Nat /\ received + n = taken
  BY <1>0, <1>1 DEF Unhanded
<1> HIDE DEF n
<1>3. WrappingAdd(WrappingAdd(Start, received), n) = WrappingAdd(Start, received + n)
  BY <1>0, <1>2, WrapTwice
<1> QED
  BY <1>2, <1>3 DEF Tracked, n

\* Across wraps, refills, changes of credit, several disposers, dropped sends and dropped
\* receives, the receiver's delivery-count lags behind the sender's by exactly the
\* deliveries under way and the credits consumed for nothing.
THEOREM CountsTracked == Spec => []DeliveryCountTracked
BY InitTyped, NextTyped, InitTracked, NextCounting, NextTracked, TrackedCount, PTL DEF Spec

-----------------------------------------------------------------------------
(* Automatic credit.                                                       *)

\* The hypothesis of the theorems below.  An application that uses automatic credit never
\* drains, only ever sets the credit it started with, and the delivery-count does not come
\* within the credit of its width: on_incoming_flow saturates where the protocol computes
\* with serial numbers.
SpareRoom ==
  \A p \in Plans : p.auto => /\ ~p.draining
                             /\ p.credits \subseteq {MaxCredit}
                             /\ p.initial + p.sends + MaxCredit < Modulus

\* The delivery-limit a flow grants, the one the receiver allows and the one the sender
\* works with.
LimitOf(f) == f.delivery_count + f.link_credit
Allowed == rcv_delivery_count + rcv_link_credit
Reach == snd_delivery_count + snd_link_credit

\* Flows that grant no more than n.
Within(n) == {f \in Flow : LimitOf(f) <= n}

\* With automatic credit, neither the sender nor any flow on its way to it goes beyond what
\* the receiver allows.
Granted ==
  plan.auto =>
    /\ ~limit_exceeded
    /\ \A t \in plan.tasks : credit_mode[t] = MaxCredit
    /\ rcv_link_credit <= MaxCredit
    /\ \A n \in Nat : n = Allowed => UnderWay(Within(n))
    /\ Reach <= Allowed

\* What no step disturbs.
Inv == Typed /\ Counting /\ Tracked /\ Granted

\* A larger set still holds every flow under way.
LEMMA UnderWayLarger ==
  ASSUME NEW S, NEW T, S \subseteq T, UnderWay(S)
  PROVE  UnderWay(T)
BY DEF UnderWay

\* What the hypothesis gives for the plan explored.
LEMMA SpareFacts ==
  ASSUME SpareRoom, plan \in Plans, plan.auto
  PROVE  /\ ~plan.draining /\ plan.credits \subseteq {MaxCredit}
         /\ Start + plan.sends + MaxCredit < Modulus
BY DEF SpareRoom, Start

\* Neither count has wrapped, and the deliveries that wait for recv() were paid for.
LEMMA Unwrapped ==
  ASSUME SpareRoom, Inv, plan.auto
  PROVE  /\ snd_delivery_count = Start + taken /\ rcv_delivery_count = Start + received
         /\ received + incoming <= taken
         /\ Allowed \in Nat /\ Allowed < Modulus /\ Reach \in Nat
<1>1. /\ Start \in Nat /\ plan.sends \in Nat /\ MaxCredit \in Nat
      /\ ~plan.draining /\ Start + plan.sends + MaxCredit < Modulus
  BY SpareFacts, StartType, PlanFacts, CountFacts DEF Inv, Typed, TypeOK
<1>2. /\ taken \in Nat /\ started \in Nat /\ handed \in Nat /\ received \in Nat /\ incoming \in Nat
  BY TypeFacts DEF Inv, Typed
<1>3. Len(snd_frames) \in Nat /\ Len(to_rcv) \in Nat
  BY DEF Inv, Typed, TypeOK
<1>4. handed <= taken /\ taken <= started /\ started <= plan.sends
  BY DEF Inv, Counting
<1>5. handed = received + (Len(snd_frames) + Len(to_rcv) + incoming)
  BY <1>1 DEF Inv, Tracked, Granted, InTransit
<1>6. received + incoming <= taken /\ received <= plan.sends /\ taken <= plan.sends
  BY <1>1, <1>2, <1>3, <1>4, <1>5
<1>7. Start + taken < Modulus /\ Start + received < Modulus
  BY <1>1, <1>2, <1>6, CountFacts
<1>8. snd_delivery_count = Start + taken /\ rcv_delivery_count = Start + received
  BY <1>1, <1>2, <1>7, WrapSmall DEF Inv, Tracked
<1>9. snd_link_credit \in Nat /\ rcv_link_credit \in Nat /\ rcv_link_credit <= MaxCredit
  BY TypeFacts, CountFacts DEF Inv, Typed, Granted
<1>10. Allowed \in Nat /\ Allowed < Modulus /\ Reach \in Nat
  BY <1>1, <1>2, <1>6, <1>8, <1>9, CountFacts DEF Allowed, Reach
<1> QED
  BY <1>6, <1>8, <1>10

\* The first flow grants exactly what the receiver allows.
LEMMA InitGranted == SpareRoom /\ Init => Granted
<1> SUFFICES ASSUME SpareRoom, Init, plan.auto PROVE Granted
  BY DEF Granted
<1>0. plan.initial \in Count /\ plan.initial \in Nat /\ MaxCredit \in Count /\ MaxCredit \in Nat
  BY PlanFacts, CountFacts DEF Init
<1> DEFINE f == [type |-> "flow", delivery_count |-> plan.initial,
                 link_credit |-> MaxCredit, drain |-> FALSE]
<1>1. f \in Flow /\ LimitOf(f) = plan.initial + MaxCredit
  BY <1>0, FlowRecord DEF LimitOf
<1>2. rcv_frames = <<f>> /\ to_snd = <<>> /\ \A t \in plan.tasks : op[t].at = "idle"
  BY DEF Init, Idle
<1> HIDE DEF f
<1>3. Allowed = plan.initial + MaxCredit /\ Reach = plan.initial
  BY <1>0 DEF Init, Allowed, Reach
<1>4. ASSUME NEW n \in Nat, n = Allowed
      PROVE  UnderWay(Within(n))
  <2>1. f \in Within(n)
    BY <1>0, <1>1, <1>3, <1>4 DEF Within
  <2> QED
    BY <1>2, <2>1 DEF UnderWay
<1>5. Reach <= Allowed
  BY <1>0, <1>3
<1> QED
  BY <1>0, <1>4, <1>5 DEF Granted, Init

\* What the sender makes of a flow: the limit it grants, unless the sender is past it.
LEMMA SenderFlowStep ==
  ASSUME SpareRoom, Inv, plan.auto, SenderOnIncomingFlow
  PROVE  LET f == Head(to_snd)
         IN  /\ to_snd # <<>> /\ f \in Within(Allowed) /\ LimitOf(f) \in Nat
             /\ snd_delivery_count' = snd_delivery_count
             /\ Reach' = IF snd_delivery_count <= LimitOf(f) THEN LimitOf(f) ELSE snd_delivery_count
<1> DEFINE f == Head(to_snd)
           c == SenderCredit(f)
           n == WrappingAdd(snd_delivery_count, IF f.drain THEN c ELSE 0)
<1>0. /\ snd_delivery_count \in Count /\ snd_delivery_count \in Nat /\ snd_delivery_count < Modulus
  BY TypeFacts, CountFacts DEF Inv, Typed
<1>1. Allowed \in Nat /\ Allowed < Modulus
  BY Unwrapped
<1>2. /\ to_snd # <<>> /\ snd_delivery_count' = n
      /\ snd_link_credit' = (IF f.drain THEN 0 ELSE c)
  BY DEF SenderOnIncomingFlow
<1>3. UnderWay(Within(Allowed)) /\ UnderWay(Plain)
  <2>1. ~plan.draining
    BY SpareFacts DEF Inv, Typed, TypeOK
  <2> QED
    BY <1>1, <2>1 DEF Inv, Granted, Tracked
<1>4. f.drain = FALSE /\ f \in Within(Allowed)
  BY <1>2, <1>3, HeadElement DEF Inv, Typed, TypeOK, UnderWay, Plain
<1>5. n = WrappingAdd(snd_delivery_count, 0) /\ snd_link_credit' = c
  BY <1>2, <1>4
<1>6. n = snd_delivery_count
  BY <1>0, <1>5, WrapSmall
<1>7. f \in Flow /\ LimitOf(f) <= Allowed
  BY <1>4 DEF Within
<1> HIDE DEF f, n
<1>8. /\ LimitOf(f) \in Nat /\ c \in Nat
      /\ LimitOf(f) < Modulus =>
           snd_delivery_count + c = IF snd_delivery_count <= LimitOf(f) THEN LimitOf(f)
                                    ELSE snd_delivery_count
  BY <1>0, <1>7, GrantType, CountFacts DEF SenderCredit, LimitOf
<1> HIDE DEF c
<1>9. LimitOf(f) < Modulus
  BY <1>1, <1>7, <1>8, CountFacts
<1>10. Reach' = snd_delivery_count + c
  BY <1>2, <1>5, <1>6 DEF Reach
<1> QED
  BY <1>2, <1>4, <1>6, <1>8, <1>9, <1>10 DEF f

\* The receiver never withdraws what it allows, and the sender never goes beyond it.
LEMMA GrantedStep ==
  ASSUME SpareRoom, Inv, plan.auto, [Next]_vars
  PROVE  /\ ~limit_exceeded' /\ \A t \in plan.tasks : credit_mode'[t] = MaxCredit
         /\ rcv_link_credit' <= MaxCredit
         /\ Allowed <= Allowed' /\ Reach' <= Allowed'
<1> USE TypeFacts
<1>0. /\ snd_delivery_count \in Nat /\ rcv_delivery_count \in Nat /\ snd_link_credit \in Nat
      /\ rcv_link_credit \in Nat /\ MaxCredit \in Nat /\ Modulus \in Nat
      /\ snd_delivery_count < Modulus /\ incoming \in Nat
  BY CountFacts DEF Inv, Typed
<1>1. /\ ~plan.draining /\ plan.credits \subseteq {MaxCredit}
  BY SpareFacts DEF Inv, Typed, TypeOK
<1>2. /\ Allowed \in Nat /\ Allowed < Modulus /\ Reach \in Nat
  BY Unwrapped
<1>3. /\ ~limit_exceeded /\ \A t \in plan.tasks : credit_mode[t] = MaxCredit
      /\ rcv_link_credit <= MaxCredit /\ Reach <= Allowed
      /\ UnderWay(Within(Allowed))
  BY <1>2 DEF Inv, Granted
<1>t. /\ op \in [plan.tasks -> Op] /\ credit_mode \in [plan.tasks -> Count] /\ Owner \in plan.tasks
  BY PlanFacts DEF Inv, Typed, TypeOK
<1> DEFINE Goal == /\ ~limit_exceeded' /\ \A t \in plan.tasks : credit_mode'[t] = MaxCredit
                   /\ rcv_link_credit' <= MaxCredit
                   /\ Allowed <= Allowed' /\ Reach' <= Allowed'
<1>4. CASE UNCHANGED <<sndVars, rcvVars, credit_mode, limit_exceeded>>
  BY <1>2, <1>3, <1>4 DEF sndVars, rcvVars, Allowed, Reach
<1>5. ASSUME NEW t \in plan.tasks, NEW credit, credit = MaxCredit \/ credit = rcv_link_credit,
             NEW drain, BuildFlow(t, credit, drain), UNCHANGED <<sndVars, limit_exceeded>>,
             \A u \in plan.tasks : credit_mode'[u] = MaxCredit
      PROVE  Goal
  <2>1. rcv_link_credit' = credit /\ rcv_delivery_count' = rcv_delivery_count
        /\ snd_delivery_count' = snd_delivery_count /\ snd_link_credit' = snd_link_credit
    BY <1>5 DEF BuildFlow, sndVars
  <2>2. rcv_link_credit' <= MaxCredit /\ Allowed <= Allowed' /\ Reach' <= Allowed'
    BY <1>0, <1>3, <1>5, <2>1 DEF Allowed, Reach
  <2> QED
    BY <1>3, <1>5, <2>2
<1>6. CASE StartSend \/ Refuse \/ AwaitNotified \/ Hand \/ CancelSend \/ ForwardTransfer
  BY <1>4, <1>6 DEF StartSend, Refuse, AwaitNotified, Hand, CancelSend, ForwardTransfer, recvVars
<1>7. CASE Consume
  <2>1. /\ snd_link_credit >= 1 /\ snd_link_credit' = snd_link_credit - 1
        /\ snd_delivery_count' = WrappingAdd(snd_delivery_count, 1)
        /\ UNCHANGED <<rcv_delivery_count, rcv_link_credit, credit_mode, limit_exceeded>>
    BY <1>7 DEF Consume, rcvVars, recvVars
  <2>2. snd_delivery_count + 1 < Modulus
    BY <1>0, <1>2, <1>3, <2>1 DEF Reach
  <2>3. snd_delivery_count' = snd_delivery_count + 1
    BY <1>0, <2>1, <2>2, WrapSmall
  <2>4. Allowed' = Allowed /\ Reach' = Reach
    BY <1>0, <2>1, <2>3 DEF Allowed, Reach
  <2> QED
    BY <1>2, <1>3, <2>1, <2>4
<1>8. CASE SenderOnIncomingFlow
  <2> DEFINE f == Head(to_snd)
  <2>1. /\ f \in Within(Allowed) /\ LimitOf(f) \in Nat
        /\ Reach' = IF snd_delivery_count <= LimitOf(f) THEN LimitOf(f) ELSE snd_delivery_count
    BY <1>8, SenderFlowStep
  <2>2. UNCHANGED <<rcv_delivery_count, rcv_link_credit, credit_mode, limit_exceeded>>
    BY <1>8 DEF SenderOnIncomingFlow, rcvVars, recvVars
  <2>3. LimitOf(f) <= Allowed
    BY <2>1 DEF Within
  <2>4. snd_delivery_count <= Allowed
    BY <1>0, <1>2, <1>3 DEF Reach
  <2>5. Allowed' = Allowed
    BY <2>2 DEF Allowed
  <2> HIDE DEF f
  <2> QED
    BY <1>0, <1>2, <1>3, <2>1, <2>2, <2>3, <2>4, <2>5
<1>9. CASE ForwardIncoming \/ ForwardReceiverFrame \/ CancelRecv
  BY <1>4, <1>9 DEF ForwardIncoming, ForwardReceiverFrame, CancelRecv
<1>10. ~ReceiverOnIncomingFlow
  <2>1. to_rcv \in Seq({TransferFrame})
    BY <1>1 DEF Inv, Tracked
  <2>2. ASSUME to_rcv # <<>> PROVE Head(to_rcv).type # "flow"
    <3>1. Head(to_rcv) \in {TransferFrame}
      BY <2>1, <2>2, HeadElement
    <3> QED
      BY <3>1 DEF TransferFrame
  <2> QED
    BY <2>2 DEF ReceiverOnIncomingFlow
<1>11. CASE Recv
  <2>1. /\ rcv_link_credit >= 1 /\ rcv_link_credit' = rcv_link_credit - 1
        /\ rcv_delivery_count' = WrappingAdd(rcv_delivery_count, 1)
        /\ UNCHANGED <<snd_delivery_count, snd_link_credit, credit_mode, limit_exceeded>>
    BY <1>11 DEF Recv, sndVars
  <2>2. rcv_delivery_count + 1 < Modulus
    BY <1>0, <1>2, <2>1 DEF Allowed
  <2>3. rcv_delivery_count' = rcv_delivery_count + 1
    BY <1>0, <2>1, <2>2, WrapSmall
  <2>4. Allowed' = Allowed /\ Reach' = Reach /\ rcv_link_credit' <= MaxCredit
    BY <1>0, <1>3, <2>1, <2>3 DEF Allowed, Reach
  <2> QED
    BY <1>2, <1>3, <2>1, <2>4
<1>12. ~RecvExceeds
  <2> SUFFICES ASSUME RecvExceeds PROVE FALSE
    OBVIOUS
  <2>1. incoming > 0 /\ rcv_link_credit < 1
    BY DEF RecvExceeds
  <2>2. /\ snd_delivery_count = Start + taken /\ rcv_delivery_count = Start + received
        /\ received + incoming <= taken
    BY Unwrapped
  <2>3. Start \in Nat /\ taken \in Nat /\ received \in Nat
    BY StartType DEF Inv, Typed, TypeOK
  <2>4. Start + taken <= Start + received
    BY <1>0, <1>3, <2>1, <2>2, <2>3 DEF Reach, Allowed
  <2> QED
    BY <1>0, <2>1, <2>2, <2>3, <2>4
<1>13. ~Drain
  BY <1>1 DEF Drain
<1>14. CASE SendProperties
  <2>1. BuildFlow(Owner, rcv_link_credit, rcv_drain)
        /\ UNCHANGED <<sndVars, limit_exceeded, credit_mode>>
    BY <1>14 DEF SendProperties
  <2>2. \A u \in plan.tasks : credit_mode'[u] = MaxCredit
    BY <1>3, <2>1
  <2> QED
    BY <1>5, <1>t, <2>1, <2>2
<1>15. ASSUME NEW credit \in plan.credits, SetCredit(credit)
       PROVE  Goal
  <2>1. BuildFlow(Owner, credit, FALSE) /\ credit = MaxCredit
        /\ UNCHANGED <<sndVars, limit_exceeded>> 
        /\ credit_mode' = [credit_mode EXCEPT ![Owner] = credit]
    BY <1>1, <1>15 DEF SetCredit
  <2>2. \A u \in plan.tasks : credit_mode'[u] = MaxCredit
    BY <1>3, <1>t, <2>1
  <2> QED
    BY <1>5, <1>t, <2>1, <2>2
<1>16. ASSUME NEW credit \in plan.credits, SetCreditMode(credit)
       PROVE  Goal
  <2>1. credit_mode' = [credit_mode EXCEPT ![Owner] = credit] /\ credit = MaxCredit
        /\ UNCHANGED <<snd_delivery_count, snd_link_credit, rcv_delivery_count, rcv_link_credit,
                       limit_exceeded>>
    BY <1>1, <1>16 DEF SetCreditMode, sndVars, rcvVars
  <2>2. \A u \in plan.tasks : credit_mode'[u] = MaxCredit
    BY <1>3, <1>t, <2>1
  <2>3. Allowed' = Allowed /\ Reach' = Reach
    BY <2>1 DEF Allowed, Reach
  <2> QED
    BY <1>2, <1>3, <2>1, <2>2, <2>3
<1>17. ASSUME NEW t \in plan.tasks, RefillCredit(t)
       PROVE  Goal
  <2>1. BuildFlow(t, credit_mode[t], FALSE)
        /\ UNCHANGED <<sndVars, limit_exceeded, credit_mode>>
    BY <1>17 DEF RefillCredit
  <2>2. credit_mode[t] = MaxCredit /\ \A u \in plan.tasks : credit_mode'[u] = MaxCredit
    BY <1>3, <2>1
  <2> QED
    BY <1>5, <2>1, <2>2
<1>18. ASSUME NEW t \in plan.tasks,
              StartDispose(t) \/ SendDisposition(t) \/ KeepCredit(t) \/ SendFlow(t)
       PROVE  Goal
  BY <1>4, <1>18 DEF StartDispose, SendDisposition, KeepCredit, SendFlow
<1>19. CASE UNCHANGED vars
  BY <1>4, <1>19 DEF vars, recvVars
<1> QED
  BY <1>6, <1>7, <1>8, <1>9, <1>10, <1>11, <1>12, <1>13, <1>14, <1>15, <1>16, <1>17, <1>18, <1>19
  DEF Next

\* Every step stays within what the receiver allows.
LEMMA NextGranted == SpareRoom /\ Inv /\ [Next]_vars => Granted'
<1> SUFFICES ASSUME SpareRoom, Inv, [Next]_vars PROVE Granted'
  OBVIOUS
<1>1. plan' = plan
  BY KeepsOrBuilds DEF Inv, Keeps, Builds
<1> SUFFICES ASSUME plan.auto PROVE Granted'
  BY <1>1 DEF Granted
<1>2. /\ ~limit_exceeded' /\ \A t \in plan.tasks : credit_mode'[t] = MaxCredit
      /\ rcv_link_credit' <= MaxCredit
      /\ Allowed <= Allowed' /\ Reach' <= Allowed'
  BY GrantedStep
<1>3. ASSUME NEW n \in Nat, n = Allowed'
      PROVE  UnderWay(Within(n))'
  <2>1. Allowed \in Nat /\ Allowed <= n
    BY <1>2, <1>3, Unwrapped
  <2>2. UnderWay(Within(Allowed))
    BY <2>1 DEF Inv, Granted
  <2>3. Within(Allowed) \subseteq Within(n)
    <3> SUFFICES ASSUME NEW f \in Flow, LimitOf(f) <= Allowed PROVE LimitOf(f) <= n
      BY DEF Within
    <3>1. LimitOf(f) \in Nat
      BY CountFacts DEF Flow, LimitOf
    <3> QED
      BY <2>1, <3>1
  <2>4. UnderWay(Within(n))
    BY <2>2, <2>3, UnderWayLarger
  <2>5. BuiltFlow' \in Within(n)
    <3>1. Typed'
      BY NextTyped DEF Inv
    <3>2. rcv_delivery_count' \in Count /\ rcv_link_credit' \in Count /\ rcv_drain' \in BOOLEAN
      BY <3>1 DEF Typed, TypeOK
    <3>3. BuiltFlow' = [type |-> "flow", delivery_count |-> rcv_delivery_count',
                        link_credit |-> rcv_link_credit', drain |-> rcv_drain']
      BY DEF BuiltFlow
    <3>4. BuiltFlow' \in Flow
      BY <3>2, <3>3, FlowRecord
    <3>5. LimitOf(BuiltFlow') = n
      BY <1>3, <3>3 DEF LimitOf, Allowed
    <3> QED
      BY <3>4, <3>5 DEF Within
  <2> HIDE DEF Within
  <2> QED
    BY <2>4, <2>5, UnderWayStep DEF Inv
<1> QED
  BY <1>1, <1>2, <1>3 DEF Granted

\* The invariant holds when the link has attached.
LEMMA InitInv == SpareRoom /\ Init => Inv
BY InitTyped, InitTracked, InitGranted DEF Inv

\* Every step keeps the invariant.
LEMMA NextInv == SpareRoom /\ Inv /\ [Next]_vars => Inv'
BY NextTyped, NextCounting, NextTracked, NextGranted DEF Inv

\* With automatic credit, recv() never fails with TransferLimitExceeded, and so never drops
\* a delivery, however flows, transfers, refills of several tasks and dropped futures cross.
THEOREM CreditSuffices ==
  ASSUME SpareRoom
  PROVE  Spec => []NoSpuriousLimit
<1>1. Inv => NoSpuriousLimit
  BY DEF Inv, Granted, NoSpuriousLimit
<1> QED
  BY <1>1, InitInv, NextInv, PTL DEF Spec

-----------------------------------------------------------------------------
(* Credit is a sliding window.                                             *)

\* Flows that grant at least n.
Beyond(n) == {f \in Flow : n <= LimitOf(f)}

\* A frame that is a flow grants at most what the flow g grants.
NotAfter(f, g) == f.type = "flow" => LimitOf(f) <= LimitOf(g)

\* With one receiving task, flows reach the sender in the order of what they grant: no flow
\* under way falls behind the limit the sender works with.
Sorted ==
  Orderly =>
    /\ \A n \in Nat : n = Reach => UnderWay(Beyond(n))
    /\ \A i, j \in DOMAIN to_snd : i < j => LimitOf(to_snd[i]) <= LimitOf(to_snd[j])
    /\ \A i \in DOMAIN to_snd, j \in DOMAIN rcv_frames :
         rcv_frames[j].type = "flow" => LimitOf(to_snd[i]) <= LimitOf(rcv_frames[j])
    /\ \A i, j \in DOMAIN rcv_frames :
         i < j /\ rcv_frames[j].type = "flow" => NotAfter(rcv_frames[i], rcv_frames[j])
    /\ op[Owner].at = "flowing" =>
         /\ \A i \in DOMAIN to_snd : LimitOf(to_snd[i]) <= LimitOf(op[Owner].flow)
         /\ \A i \in DOMAIN rcv_frames : NotAfter(rcv_frames[i], op[Owner].flow)

\* The first flow is alone.
LEMMA InitSorted == SpareRoom /\ Init => Sorted
<1> SUFFICES ASSUME SpareRoom, Init, plan.auto PROVE Sorted
  BY DEF Sorted, Orderly
<1>0. plan.initial \in Count /\ plan.initial \in Nat /\ MaxCredit \in Count /\ MaxCredit \in Nat
      /\ Owner \in plan.tasks
  BY PlanFacts, CountFacts DEF Init
<1> DEFINE f == [type |-> "flow", delivery_count |-> plan.initial,
                 link_credit |-> MaxCredit, drain |-> FALSE]
<1>1. f \in Flow /\ LimitOf(f) = plan.initial + MaxCredit
  BY <1>0, FlowRecord DEF LimitOf
<1>2. rcv_frames = <<f>> /\ to_snd = <<>> /\ \A t \in plan.tasks : op[t].at = "idle"
  BY DEF Init, Idle
<1> HIDE DEF f
<1>3. Reach = plan.initial
  BY <1>0 DEF Init, Reach
<1>4. ASSUME NEW n \in Nat, n = Reach
      PROVE  UnderWay(Beyond(n))
  <2>1. f \in Beyond(n)
    BY <1>0, <1>1, <1>3, <1>4 DEF Beyond
  <2> QED
    BY <1>2, <2>1 DEF UnderWay
<1> QED
  BY <1>0, <1>2, <1>4 DEF Sorted

\* Only flows change how far the sender reaches.
LEMMA ReachStep ==
  ASSUME SpareRoom, Inv, plan.auto, [Next]_vars, ~SenderOnIncomingFlow
  PROVE  Reach' = Reach
<1>1. CASE Consume
  <2>0. /\ snd_delivery_count \in Nat /\ snd_link_credit \in Nat /\ Modulus \in Nat
    BY TypeFacts, CountFacts DEF Inv, Typed
  <2>1. /\ snd_link_credit >= 1 /\ snd_link_credit' = snd_link_credit - 1
        /\ snd_delivery_count' = WrappingAdd(snd_delivery_count, 1)
    BY <1>1 DEF Consume
  <2>2. Reach \in Nat /\ Allowed \in Nat /\ Reach <= Allowed /\ Allowed < Modulus
    BY Unwrapped DEF Inv, Granted
  <2>3. snd_delivery_count + 1 < Modulus
    BY <2>0, <2>1, <2>2 DEF Reach
  <2>4. snd_delivery_count' = snd_delivery_count + 1
    BY <2>0, <2>1, <2>3, WrapSmall
  <2> QED
    BY <2>0, <2>1, <2>4 DEF Reach
<1>2. CASE UNCHANGED sndVars
  BY <1>2 DEF Reach, sndVars
<1>3. CASE StartSend \/ Refuse \/ AwaitNotified \/ Hand \/ CancelSend
           \/ ForwardTransfer \/ ReceiverOnIncomingFlow
  BY <1>2, <1>3 DEF StartSend, Refuse, AwaitNotified, Hand, CancelSend, ForwardTransfer,
                    ReceiverOnIncomingFlow
<1>4. CASE ForwardIncoming \/ ForwardReceiverFrame \/ Recv \/ RecvExceeds \/ Drain \/ SendProperties
           \/ CancelRecv
  BY <1>2, <1>4 DEF ForwardIncoming, ForwardReceiverFrame, Recv, RecvExceeds, Drain, SendProperties,
                    CancelRecv
<1>5. ASSUME NEW credit \in plan.credits, SetCredit(credit) \/ SetCreditMode(credit)
      PROVE  UNCHANGED sndVars
  BY <1>5 DEF SetCredit, SetCreditMode
<1>6. ASSUME NEW t \in plan.tasks,
             StartDispose(t) \/ SendDisposition(t) \/ KeepCredit(t) \/ RefillCredit(t) \/ SendFlow(t)
      PROVE  UNCHANGED sndVars
  BY <1>6 DEF StartDispose, SendDisposition, KeepCredit, RefillCredit, SendFlow
<1>7. CASE UNCHANGED vars
  BY <1>2, <1>7 DEF vars
<1> QED
  BY <1>1, <1>2, <1>3, <1>4, <1>5, <1>6, <1>7 DEF Next

\* The limit of a flow is a number.
LEMMA LimitType ==
  ASSUME NEW f \in Flow
  PROVE  LimitOf(f) \in Nat
BY CountFacts DEF Flow, LimitOf

\* Orderly plans stay so.
LEMMA OrderlyStep ==
  ASSUME Inv, [Next]_vars
  PROVE  plan' = plan /\ Orderly' = Orderly
BY KeepsOrBuilds DEF Inv, Keeps, Builds, Orderly

\* A flow that is handled leaves the later ones in order.
LEMMA SortedHandled ==
  ASSUME SpareRoom, Inv, Sorted, Orderly, [Next]_vars, SenderOnIncomingFlow
  PROVE  Sorted' /\ Reach <= Reach'
<1> DEFINE f == Head(to_snd)
<1>0. to_snd \in Seq(Flow) /\ Owner \in plan.tasks /\ plan.auto
      /\ rcv_frames \in Seq({DispositionFrame} \cup Flow)
  BY PlanFacts DEF Inv, Typed, TypeOK, Orderly
<1>1. /\ to_snd # <<>> /\ to_snd' = Tail(to_snd) /\ rcv_frames' = rcv_frames /\ op' = op
      /\ plan' = plan
  BY DEF SenderOnIncomingFlow, recvVars
<1>2. /\ LimitOf(f) \in Nat
      /\ Reach' = IF snd_delivery_count <= LimitOf(f) THEN LimitOf(f) ELSE snd_delivery_count
  BY <1>0, SenderFlowStep
<1>3. Reach \in Nat /\ UnderWay(Beyond(Reach))
  BY <1>0, Unwrapped DEF Sorted
<1>4. 1 \in DOMAIN to_snd /\ f = to_snd[1] /\ f \in Flow
  BY <1>0, <1>1, HeadElement
<1>5. Reach <= LimitOf(f)
  BY <1>3, <1>4 DEF UnderWay, Beyond
<1>6. Reach' = LimitOf(f) /\ Reach <= Reach'
  <2>1. snd_delivery_count \in Nat /\ snd_link_credit \in Nat
    BY TypeFacts, CountFacts DEF Inv, Typed
  <2> HIDE DEF f
  <2> QED
    BY <1>2, <1>3, <1>5, <2>1 DEF Reach
<1>7. \A i \in DOMAIN Tail(to_snd) : i + 1 \in DOMAIN to_snd /\ Tail(to_snd)[i] = to_snd[i + 1]
                                     /\ i \in Nat /\ 1 < i + 1
  <2>1. \A i \in DOMAIN Tail(to_snd) : i \in 1 .. Len(Tail(to_snd))
    BY <1>0, <1>1
  <2> QED
    BY <1>0, <1>1, <2>1, TailElements
<1>8. ASSUME NEW n \in Nat, n = Reach'
      PROVE  UnderWay(Beyond(n))'
  <2>1. n = LimitOf(f)
    BY <1>6, <1>8
  <2> HIDE DEF f
  <2>2. \A i \in DOMAIN to_snd' : to_snd'[i] \in Beyond(n)
    <3> SUFFICES ASSUME NEW i \in DOMAIN Tail(to_snd) PROVE Tail(to_snd)[i] \in Beyond(n)
      BY <1>1
    <3>1. i + 1 \in DOMAIN to_snd /\ Tail(to_snd)[i] = to_snd[i + 1] /\ 1 < i + 1
      BY <1>7
    <3>2. LimitOf(to_snd[1]) <= LimitOf(to_snd[i + 1])
      BY <1>4, <3>1 DEF Sorted
    <3>3. to_snd[i + 1] \in Flow
      BY <1>0, <3>1
    <3> QED
      BY <1>4, <2>1, <3>1, <3>2, <3>3 DEF Beyond
  <2>3. \A i \in DOMAIN rcv_frames' : rcv_frames'[i].type = "flow" => rcv_frames'[i] \in Beyond(n)
    <3> SUFFICES ASSUME NEW i \in DOMAIN rcv_frames, rcv_frames[i].type = "flow"
                 PROVE  rcv_frames[i] \in Beyond(n)
      BY <1>1
    <3>1. rcv_frames[i] \in Flow
      BY <1>0, FrameKinds
    <3>2. LimitOf(to_snd[1]) <= LimitOf(rcv_frames[i])
      BY <1>4 DEF Sorted
    <3> QED
      BY <1>4, <2>1, <3>1, <3>2 DEF Beyond
  <2>4. \A t \in plan'.tasks : op'[t].at = "flowing" => op'[t].flow \in Beyond(n)
    <3> SUFFICES ASSUME NEW t \in plan.tasks, op[t].at = "flowing" PROVE op[t].flow \in Beyond(n)
      BY <1>1
    <3>1. t = Owner /\ op[t].flow \in Flow
      BY DEF Orderly, Inv, Typed, FlowBuilt
    <3>2. LimitOf(to_snd[1]) <= LimitOf(op[t].flow)
      BY <1>4, <3>1 DEF Sorted
    <3> QED
      BY <1>4, <2>1, <3>1, <3>2 DEF Beyond
  <2> QED
    BY <2>2, <2>3, <2>4 DEF UnderWay
<1>9. \A i, j \in DOMAIN to_snd' : i < j => LimitOf(to_snd'[i]) <= LimitOf(to_snd'[j])
  <2> SUFFICES ASSUME NEW i \in DOMAIN Tail(to_snd), NEW j \in DOMAIN Tail(to_snd), i < j
               PROVE  LimitOf(Tail(to_snd)[i]) <= LimitOf(Tail(to_snd)[j])
    BY <1>1
  <2>1. /\ i + 1 \in DOMAIN to_snd /\ j + 1 \in DOMAIN to_snd /\ i + 1 < j + 1
        /\ Tail(to_snd)[i] = to_snd[i + 1] /\ Tail(to_snd)[j] = to_snd[j + 1]
    BY <1>7
  <2> QED
    BY <2>1 DEF Sorted
<1>10. \A i \in DOMAIN to_snd', j \in DOMAIN rcv_frames' :
         rcv_frames'[j].type = "flow" => LimitOf(to_snd'[i]) <= LimitOf(rcv_frames'[j])
  BY <1>1, <1>7 DEF Sorted
<1>11. op'[Owner].at = "flowing" =>
         \A i \in DOMAIN to_snd' : LimitOf(to_snd'[i]) <= LimitOf(op'[Owner].flow)
  BY <1>1, <1>7 DEF Sorted
<1> QED
  BY <1>1, <1>6, <1>8, <1>9, <1>10, <1>11 DEF Sorted

\* Every other step leaves the flows under way beyond the sender's limit.
LEMMA BeyondStep ==
  ASSUME SpareRoom, Inv, Sorted, Orderly, [Next]_vars, ~SenderOnIncomingFlow,
         NEW n \in Nat, n = Reach'
  PROVE  UnderWay(Beyond(n))'
<1>0. plan.auto
  BY DEF Orderly
<1>1. n = Reach
  BY <1>0, ReachStep
<1>2. UnderWay(Beyond(n))
  BY <1>1 DEF Sorted
<1>3. BuiltFlow' \in Beyond(n)
  <2>1. Typed'
    BY NextTyped DEF Inv
  <2>2. rcv_delivery_count' \in Count /\ rcv_link_credit' \in Count /\ rcv_drain' \in BOOLEAN
    BY <2>1 DEF Typed, TypeOK
  <2>3. BuiltFlow' = [type |-> "flow", delivery_count |-> rcv_delivery_count',
                      link_credit |-> rcv_link_credit', drain |-> rcv_drain']
    BY DEF BuiltFlow
  <2>4. BuiltFlow' \in Flow
    BY <2>2, <2>3, FlowRecord
  <2>5. LimitOf(BuiltFlow') = Allowed'
    BY <2>3 DEF LimitOf, Allowed
  <2>6. Reach' <= Allowed'
    BY <1>0, GrantedStep
  <2> QED
    BY <2>4, <2>5, <2>6 DEF Beyond
<1> HIDE DEF Beyond
<1> QED
  BY <1>2, <1>3, UnderWayStep DEF Inv

\* Steps that touch neither the channels nor, other than to clear it, the task's flow.
LEMMA SortedKept ==
  ASSUME SpareRoom, Inv, Sorted, Orderly, [Next]_vars, ~SenderOnIncomingFlow,
         Keeps, UNCHANGED <<rcv_frames, to_snd>>
  PROVE  Sorted'
<1>1. Owner \in plan.tasks
  BY PlanFacts DEF Inv, Typed, TypeOK
<1>2. \A n \in Nat : n = Reach' => UnderWay(Beyond(n))'
  BY BeyondStep
<1>3. op'[Owner].at = "flowing" => op[Owner].at = "flowing" /\ op'[Owner].flow = op[Owner].flow
  BY <1>1 DEF Keeps
<1> QED
  BY <1>2, <1>3 DEF Sorted

\* A flow that is built grants at least what every flow ahead of it grants.
LEMMA SortedBuilt ==
  ASSUME SpareRoom, Inv, Sorted, Orderly, [Next]_vars, ~SenderOnIncomingFlow, Builds
  PROVE  Sorted'
<1>0. /\ Owner \in plan.tasks /\ plan.auto /\ to_snd \in Seq(Flow)
      /\ rcv_frames \in Seq({DispositionFrame} \cup Flow)
  BY PlanFacts DEF Inv, Typed, TypeOK, Orderly
<1>1. \A n \in Nat : n = Reach' => UnderWay(Beyond(n))'
  BY BeyondStep
<1>2. UNCHANGED <<rcv_frames, to_snd>> /\ op'[Owner].flow = BuiltFlow'
  BY DEF Builds, Orderly
<1>3. LimitOf(op'[Owner].flow) = Allowed'
  BY <1>2 DEF LimitOf, Allowed, BuiltFlow
<1>4. Allowed \in Nat /\ Allowed <= Allowed' /\ Allowed' \in Nat
  <2>1. Typed'
    BY NextTyped DEF Inv
  <2>2. rcv_delivery_count' \in Nat /\ rcv_link_credit' \in Nat
    BY <2>1, CountFacts DEF Typed, TypeOK
  <2> QED
    BY <1>0, <2>2, Unwrapped, GrantedStep DEF Allowed
<1>5. UnderWay(Within(Allowed))
  BY <1>0, <1>4 DEF Inv, Granted
<1>6. \A f \in Within(Allowed) : LimitOf(f) <= Allowed'
  <2> SUFFICES ASSUME NEW f \in Within(Allowed) PROVE LimitOf(f) <= Allowed'
    OBVIOUS
  <2>1. LimitOf(f) \in Nat /\ LimitOf(f) <= Allowed
    BY LimitType DEF Within
  <2> QED
    BY <1>4, <2>1
<1>7. /\ \A i \in DOMAIN to_snd : LimitOf(to_snd[i]) <= Allowed'
      /\ \A i \in DOMAIN rcv_frames : rcv_frames[i].type = "flow" => LimitOf(rcv_frames[i]) <= Allowed'
  BY <1>5, <1>6 DEF UnderWay
<1> QED
  BY <1>1, <1>2, <1>3, <1>7 DEF Sorted, NotAfter

\* A flow that enters the session of the receiver goes behind those already there.
LEMMA SortedForwarded ==
  ASSUME SpareRoom, Inv, Sorted, Orderly, [Next]_vars, ~SenderOnIncomingFlow, ForwardReceiverFrame
  PROVE  Sorted'
<1> DEFINE h == Head(rcv_frames)
<1>0. to_snd \in Seq(Flow) /\ rcv_frames \in Seq({DispositionFrame} \cup Flow)
  BY DEF Inv, Typed, TypeOK
<1>1. \A n \in Nat : n = Reach' => UnderWay(Beyond(n))'
  BY BeyondStep
<1>2. /\ rcv_frames # <<>> /\ rcv_frames' = Tail(rcv_frames) /\ op' = op
      /\ to_snd' = IF h.type = "flow" THEN Append(to_snd, h) ELSE to_snd
  BY DEF ForwardReceiverFrame
<1>3. 1 \in DOMAIN rcv_frames /\ h = rcv_frames[1] /\ h \in {DispositionFrame} \cup Flow
  BY <1>0, <1>2, HeadElement
<1>4. \A i \in DOMAIN Tail(rcv_frames) :
        i + 1 \in DOMAIN rcv_frames /\ Tail(rcv_frames)[i] = rcv_frames[i + 1]
        /\ i \in Nat /\ 1 < i + 1
  <2>1. \A i \in DOMAIN Tail(rcv_frames) : i \in 1 .. Len(Tail(rcv_frames))
    BY <1>0, <1>2
  <2> QED
    BY <1>0, <1>2, <2>1, TailElements
<1> HIDE DEF h
\* The frames that stay.
<1>5. \A i, j \in DOMAIN rcv_frames' :
        i < j /\ rcv_frames'[j].type = "flow" => NotAfter(rcv_frames'[i], rcv_frames'[j])
  <2> SUFFICES ASSUME NEW i \in DOMAIN Tail(rcv_frames), NEW j \in DOMAIN Tail(rcv_frames), i < j,
                      Tail(rcv_frames)[j].type = "flow"
               PROVE  NotAfter(Tail(rcv_frames)[i], Tail(rcv_frames)[j])
    BY <1>2
  <2>1. /\ i + 1 \in DOMAIN rcv_frames /\ j + 1 \in DOMAIN rcv_frames /\ i + 1 < j + 1
        /\ Tail(rcv_frames)[i] = rcv_frames[i + 1] /\ Tail(rcv_frames)[j] = rcv_frames[j + 1]
    BY <1>4
  <2> QED
    BY <2>1 DEF Sorted
<1>6. op'[Owner].at = "flowing" =>
        \A i \in DOMAIN rcv_frames' : NotAfter(rcv_frames'[i], op'[Owner].flow)
  BY <1>2, <1>4 DEF Sorted
\* What they are compared with.
<1>7. \A i \in DOMAIN to_snd' : \/ i \in DOMAIN to_snd /\ to_snd'[i] = to_snd[i]
                                \/ i = Len(to_snd) + 1 /\ to_snd'[i] = h /\ h.type = "flow"
  <2>1. CASE h.type = "flow"
    <3>1. h \in Flow /\ to_snd' = Append(to_snd, h)
      BY <1>2, <1>3, <2>1, FrameKinds
    <3> QED
      BY <1>0, <2>1, <3>1, AppendElements
  <2>2. CASE h.type # "flow"
    BY <1>2, <2>2
  <2> QED
    BY <2>1, <2>2
<1>8. \A i \in DOMAIN to_snd : i \in Nat /\ i <= Len(to_snd) /\ Len(to_snd) \in Nat
  BY <1>0
<1>9. \A i, j \in DOMAIN to_snd' : i < j => LimitOf(to_snd'[i]) <= LimitOf(to_snd'[j])
  <2> SUFFICES ASSUME NEW i \in DOMAIN to_snd', NEW j \in DOMAIN to_snd', i < j
               PROVE  LimitOf(to_snd'[i]) <= LimitOf(to_snd'[j])
    OBVIOUS
  <2>0. Len(to_snd) \in Nat
    BY <1>0
  <2>1. CASE j \in DOMAIN to_snd /\ to_snd'[j] = to_snd[j]
    <3>1. i \in DOMAIN to_snd /\ to_snd'[i] = to_snd[i]
      BY <1>7, <1>8, <2>0, <2>1
    <3> QED
      BY <2>1, <3>1 DEF Sorted
  <2>2. CASE j = Len(to_snd) + 1 /\ to_snd'[j] = h /\ h.type = "flow"
    <3>1. i \in DOMAIN to_snd /\ to_snd'[i] = to_snd[i]
      BY <1>7, <2>0, <2>2
    <3> QED
      BY <1>3, <2>2, <3>1 DEF Sorted
  <2> QED
    BY <1>7, <2>1, <2>2
<1>10. \A i \in DOMAIN to_snd', j \in DOMAIN rcv_frames' :
         rcv_frames'[j].type = "flow" => LimitOf(to_snd'[i]) <= LimitOf(rcv_frames'[j])
  <2> SUFFICES ASSUME NEW i \in DOMAIN to_snd', NEW j \in DOMAIN Tail(rcv_frames),
                      Tail(rcv_frames)[j].type = "flow"
               PROVE  LimitOf(to_snd'[i]) <= LimitOf(Tail(rcv_frames)[j])
    BY <1>2
  <2>1. j + 1 \in DOMAIN rcv_frames /\ Tail(rcv_frames)[j] = rcv_frames[j + 1] /\ 1 < j + 1
    BY <1>4
  <2>2. CASE i \in DOMAIN to_snd /\ to_snd'[i] = to_snd[i]
    BY <2>1, <2>2 DEF Sorted
  <2>3. CASE to_snd'[i] = h /\ h.type = "flow"
    <3>1. NotAfter(rcv_frames[1], rcv_frames[j + 1])
      BY <1>3, <2>1 DEF Sorted
    <3> QED
      BY <1>3, <2>1, <2>3, <3>1 DEF NotAfter
  <2> QED
    BY <1>7, <2>2, <2>3
<1>11. op'[Owner].at = "flowing" =>
         \A i \in DOMAIN to_snd' : LimitOf(to_snd'[i]) <= LimitOf(op'[Owner].flow)
  <2> SUFFICES ASSUME op[Owner].at = "flowing", NEW i \in DOMAIN to_snd'
               PROVE  LimitOf(to_snd'[i]) <= LimitOf(op[Owner].flow)
    BY <1>2
  <2>1. NotAfter(h, op[Owner].flow)
    BY <1>3 DEF Sorted
  <2> QED
    BY <1>7, <2>1 DEF Sorted, NotAfter
<1> QED
  BY <1>1, <1>5, <1>6, <1>9, <1>10, <1>11 DEF Sorted

\* A frame that enters the channel goes behind those already there.
LEMMA SortedAppended ==
  ASSUME SpareRoom, Inv, Sorted, Orderly, [Next]_vars, ~SenderOnIncomingFlow,
         NEW e \in {DispositionFrame} \cup Flow, rcv_frames' = Append(rcv_frames, e),
         to_snd' = to_snd, op'[Owner].at # "flowing",
         e.type = "flow" => op[Owner].at = "flowing" /\ e = op[Owner].flow
  PROVE  Sorted'
<1>0. rcv_frames \in Seq({DispositionFrame} \cup Flow)
  BY DEF Inv, Typed, TypeOK
<1>1. \A n \in Nat : n = Reach' => UnderWay(Beyond(n))'
  BY BeyondStep
<1>2. \A i \in DOMAIN rcv_frames' : \/ i \in DOMAIN rcv_frames /\ rcv_frames'[i] = rcv_frames[i]
                                    \/ i = Len(rcv_frames) + 1 /\ rcv_frames'[i] = e
  BY <1>0, AppendElements
<1>3. \A i \in DOMAIN rcv_frames : i \in Nat /\ i <= Len(rcv_frames)
  BY <1>0
<1>4. \A i \in DOMAIN to_snd', j \in DOMAIN rcv_frames' :
        rcv_frames'[j].type = "flow" => LimitOf(to_snd'[i]) <= LimitOf(rcv_frames'[j])
  BY <1>2 DEF Sorted
<1>5. \A i, j \in DOMAIN rcv_frames' :
        i < j /\ rcv_frames'[j].type = "flow" => NotAfter(rcv_frames'[i], rcv_frames'[j])
  <2> SUFFICES ASSUME NEW i \in DOMAIN rcv_frames', NEW j \in DOMAIN rcv_frames', i < j,
                      rcv_frames'[j].type = "flow"
               PROVE  NotAfter(rcv_frames'[i], rcv_frames'[j])
    OBVIOUS
  <2>0. Len(rcv_frames) \in Nat
    BY <1>0
  <2>1. i \in DOMAIN rcv_frames /\ rcv_frames'[i] = rcv_frames[i]
    BY <1>2, <1>3, <2>0
  <2>2. CASE j \in DOMAIN rcv_frames /\ rcv_frames'[j] = rcv_frames[j]
    BY <2>1, <2>2 DEF Sorted
  <2>3. CASE rcv_frames'[j] = e
    BY <2>1, <2>3 DEF Sorted
  <2> QED
    BY <1>2, <2>2, <2>3
<1> QED
  BY <1>1, <1>4, <1>5 DEF Sorted

\* Every step keeps the flows in order, and the sender's limit never retreats.
LEMMA NextSorted == SpareRoom /\ Inv /\ Sorted /\ [Next]_vars => Sorted'
<1> SUFFICES ASSUME SpareRoom, Inv, Sorted, [Next]_vars PROVE Sorted'
  OBVIOUS
<1> SUFFICES ASSUME Orderly PROVE Sorted'
  BY OrderlyStep DEF Sorted
<1>0. Owner \in plan.tasks /\ plan.tasks = {Owner} /\ op \in [plan.tasks -> Op]
  BY PlanFacts DEF Inv, Typed, TypeOK, Orderly
<1>1. CASE SenderOnIncomingFlow
  BY <1>1, SortedHandled
<1>2. CASE Builds /\ ~SenderOnIncomingFlow
  BY <1>2, SortedBuilt
<1>3. CASE ForwardReceiverFrame /\ ~SenderOnIncomingFlow
  BY <1>3, SortedForwarded
<1>4. ASSUME NEW t \in plan.tasks, SendDisposition(t), ~SenderOnIncomingFlow
      PROVE  Sorted'
  <2>1. /\ t = Owner /\ rcv_frames' = Append(rcv_frames, DispositionFrame) /\ to_snd' = to_snd
        /\ DispositionFrame.type # "flow" /\ op[Owner].at = "disposing"
    BY <1>0, <1>4 DEF SendDisposition, DispositionFrame
  <2>2. op'[Owner].at # "flowing"
    <3>1. CASE Keeps
      BY <1>0, <2>1, <3>1 DEF Keeps
    <3>2. CASE Builds
      <4>1. rcv_frames' = rcv_frames
        BY <3>2 DEF Builds
      <4>2. rcv_frames \in Seq({DispositionFrame} \cup Flow)
        BY DEF Inv, Typed, TypeOK
      <4>3. Len(Append(rcv_frames, DispositionFrame)) = Len(rcv_frames) + 1 /\ Len(rcv_frames) \in Nat
        BY <4>2
      <4> QED
        BY <2>1, <4>1, <4>3
    <3> QED
      BY <3>1, <3>2, KeepsOrBuilds DEF Inv
  <2> QED
    BY <1>4, <2>1, <2>2, SortedAppended
<1>5. ASSUME NEW t \in plan.tasks, SendFlow(t), ~SenderOnIncomingFlow
      PROVE  Sorted'
  <2>1. /\ t = Owner /\ rcv_frames' = Append(rcv_frames, op[Owner].flow) /\ to_snd' = to_snd
        /\ op[Owner].at = "flowing" /\ op' = [op EXCEPT ![Owner] = Idle]
    BY <1>0, <1>5 DEF SendFlow, Finish
  <2>2. op'[Owner].at # "flowing"
    BY <1>0, <2>1 DEF Idle
  <2>3. op[Owner].flow \in Flow
    BY <1>0, <2>1 DEF Inv, Typed, FlowBuilt
  <2> QED
    BY <1>5, <2>1, <2>2, <2>3, SortedAppended
<1>6. CASE Keeps /\ UNCHANGED <<rcv_frames, to_snd>> /\ ~SenderOnIncomingFlow
  BY <1>6, SortedKept
<1> QED
  BY <1>1, <1>2, <1>3, <1>4, <1>5, <1>6, KeepsOrBuilds, ChannelSteps DEF Inv

\* What a step of an orderly link does to the numbers of the abstract window.
Slides ==
  \/ started' = started + 1 /\ UNCHANGED <<taken, snd_link_credit, received>>
  \/ /\ taken + snd_link_credit <= taken' + snd_link_credit'
     /\ taken' + snd_link_credit' <= received + MaxCredit
     /\ taken <= taken' /\ taken' <= started /\ taken' <= taken' + snd_link_credit'
     /\ UNCHANGED <<started, received>>
  \/ received < taken /\ received' = received + 1 /\ UNCHANGED <<started, taken, snd_link_credit>>
  \/ UNCHANGED <<started, taken, snd_link_credit, received>>

\* The limits of both ends, counted from where the delivery-counts start.
LEMMA WindowArithmetic ==
  ASSUME NEW s \in Nat, NEW t \in Nat, NEW c \in Nat, NEW d \in Nat,
         NEW r \in Nat, NEW k \in Nat, NEW m \in Nat,
         s + t + c <= s + t + d, s + t + d <= s + r + k, k <= m
  PROVE  t + c <= t + d /\ t + d <= r + m
OBVIOUS

\* A limit is not below the deliveries it counts from.
LEMMA SumFacts ==
  ASSUME NEW t \in Nat, NEW d \in Nat
  PROVE  t <= t + d /\ t <= t
OBVIOUS

\* Every step of an orderly link is one of the window.
LEMMA NextSlides ==
  ASSUME SpareRoom, Inv, Sorted, Orderly, [Next]_vars
  PROVE  Slides
<1>0. /\ taken \in Nat /\ started \in Nat /\ received \in Nat /\ incoming \in Nat
      /\ snd_link_credit \in Nat /\ rcv_link_credit \in Nat /\ Start \in Nat /\ MaxCredit \in Nat
      /\ snd_delivery_count \in Nat
  BY TypeFacts, CountFacts, StartType DEF Inv, Typed, TypeOK
<1>a. plan.auto
  BY DEF Orderly
<1>1. /\ snd_delivery_count = Start + taken /\ rcv_delivery_count = Start + received
      /\ received + incoming <= taken
  BY <1>a, Unwrapped
<1>2. Reach <= Allowed /\ rcv_link_credit <= MaxCredit
  BY <1>a DEF Inv, Granted
<1>3. CASE UNCHANGED <<started, taken, snd_link_credit, received>>
  BY <1>3 DEF Slides
<1>4. CASE StartSend
  BY <1>4 DEF StartSend, Slides, sndVars, recvVars
<1>5. CASE Consume
  <2>1. /\ sending = "trying" /\ snd_link_credit >= 1 /\ snd_link_credit' = snd_link_credit - 1
        /\ taken' = taken + 1 /\ UNCHANGED <<started, received>>
    BY <1>5 DEF Consume, recvVars
  <2>2. taken < started
    BY <2>1 DEF Inv, Counting
  <2>3. taken + snd_link_credit <= received + MaxCredit
    BY <1>0, <1>1, <1>2 DEF Reach, Allowed
  <2> QED
    BY <1>0, <2>1, <2>2, <2>3 DEF Slides
<1>6. CASE SenderOnIncomingFlow
  <2>1. UNCHANGED <<started, taken, received, rcv_delivery_count, rcv_link_credit>>
    BY <1>6 DEF SenderOnIncomingFlow, rcvVars, recvVars
  <2>2. snd_delivery_count' = snd_delivery_count
    BY <1>a, <1>6, SenderFlowStep
  <2>3. Reach <= Reach' /\ Reach' <= Allowed'
    BY <1>a, <1>6, SortedHandled, GrantedStep
  <2>4. snd_link_credit' \in Nat
    BY NextTyped, CountFacts DEF Inv, Typed, TypeOK
  <2>5. taken <= started
    BY DEF Inv, Counting
  <2>6. /\ taken + snd_link_credit <= taken + snd_link_credit'
        /\ taken + snd_link_credit' <= received + MaxCredit
    <3>1. Reach = Start + taken + snd_link_credit /\ Reach' = Start + taken + snd_link_credit'
      BY <1>1, <2>2 DEF Reach
    <3>2. Allowed' = Start + received + rcv_link_credit
      BY <1>1, <2>1 DEF Allowed
    <3>3. /\ Start + taken + snd_link_credit <= Start + taken + snd_link_credit'
          /\ Start + taken + snd_link_credit' <= Start + received + rcv_link_credit
      BY <2>3, <3>1, <3>2, Zenon
    <3> QED
      BY <1>0, <1>2, <2>4, <3>3, WindowArithmetic, Zenon
  <2>7. taken <= taken + snd_link_credit' /\ taken <= taken
    BY <1>0, <2>4, SumFacts, Zenon
  <2>8. taken' = taken /\ UNCHANGED <<started, received>>
    BY <2>1
  <2> QED
    BY <2>5, <2>6, <2>7, <2>8 DEF Slides
<1>7. CASE Recv
  <2>1. /\ incoming > 0 /\ received' = received + 1
        /\ UNCHANGED <<started, taken, snd_link_credit>>
    BY <1>7 DEF Recv, sndVars, sendVars
  <2>2. received < taken
    BY <1>0, <1>1, <2>1
  <2> QED
    BY <2>1, <2>2 DEF Slides
<1>8. CASE Refuse \/ AwaitNotified \/ Hand \/ CancelSend \/ ForwardTransfer \/ ReceiverOnIncomingFlow
  BY <1>3, <1>8 DEF Refuse, AwaitNotified, Hand, CancelSend, ForwardTransfer,
                    ReceiverOnIncomingFlow, sndVars, sendVars, recvVars
<1>9. CASE ForwardIncoming \/ ForwardReceiverFrame \/ RecvExceeds \/ Drain \/ SendProperties
           \/ CancelRecv
  BY <1>3, <1>9 DEF ForwardIncoming, ForwardReceiverFrame, RecvExceeds, Drain, SendProperties,
                    CancelRecv, sndVars, sendVars
<1>10. ASSUME NEW credit \in plan.credits, SetCredit(credit) \/ SetCreditMode(credit)
       PROVE  Slides
  BY <1>3, <1>10 DEF SetCredit, SetCreditMode, sndVars, sendVars
<1>11. ASSUME NEW t \in plan.tasks,
              StartDispose(t) \/ SendDisposition(t) \/ KeepCredit(t) \/ RefillCredit(t) \/ SendFlow(t)
       PROVE  Slides
  BY <1>3, <1>11 DEF StartDispose, SendDisposition, KeepCredit, RefillCredit, SendFlow, sndVars,
                     sendVars
<1>12. CASE UNCHANGED vars
  BY <1>3, <1>12 DEF vars, sndVars, sendVars, recvVars
<1> QED
  BY <1>4, <1>5, <1>6, <1>7, <1>8, <1>9, <1>10, <1>11, <1>12 DEF Next

\* The credit of an orderly link implements a sliding window: the delivery-limit the
\* sender works with never retreats, never runs further ahead of the receiver than the
\* credit, and is never exceeded, with any number of flows under way.
THEOREM CreditRefinement ==
  ASSUME SpareRoom
  PROVE  Spec => SlidingCredit
<1>1. Init => Credit!Init
  <2> SUFFICES ASSUME Init PROVE Credit!Init
    OBVIOUS
  <2>1. started = 0 /\ taken = 0 /\ received = 0 /\ snd_link_credit = 0 /\ MaxCredit \in Nat
    BY CountFacts DEF Init
  <2> QED
    BY <2>1 DEF Credit!Init, Mapped
<1>2. Inv /\ Sorted /\ [Next]_vars => [Credit!Next]_(Credit!vars)
  <2> SUFFICES ASSUME Inv, Sorted, [Next]_vars PROVE [Credit!Next]_(Credit!vars)
    OBVIOUS
  <2>1. Orderly' = Orderly
    BY OrderlyStep
  <2>2. CASE Orderly
    <3>1. Slides
      BY <2>2, NextSlides
    <3> QED
      BY <2>1, <2>2, <3>1 DEF Slides, Mapped, Credit!Next, Credit!Hand, Credit!Advance,
                              Credit!Receive, Credit!vars
  <2>3. CASE ~Orderly
    BY <2>1, <2>3 DEF Mapped, Credit!vars
  <2> QED
    BY <2>2, <2>3
<1> QED
  BY <1>1, <1>2, InitInv, NextInv, InitSorted, NextSorted, PTL
  DEF Spec, SlidingCredit, Credit!Spec

=============================================================================
