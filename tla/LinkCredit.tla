----------------------------- MODULE LinkCredit -----------------------------
(***************************************************************************)
(* Link flow control between a sender (link/sender_link.rs, link/state.rs) *)
(* and a receiver (link/receiver_link.rs, link/receiver.rs) of an attached *)
(* link: the credit the receiver grants, the two delivery-counts, the      *)
(* sending task that waits for credit, and the receiving tasks that take   *)
(* deliveries, dispose of them and refill the credit.                      *)
(*                                                                         *)
(* Deliveries are single transfers.  The sessions in between are FIFO in   *)
(* each direction, except that the answer of the sender to a drain is put  *)
(* on the wire by the session and so passes the transfers that wait in the *)
(* link's channel.  Delivery-counts are Modulus wide, u32 in the code.     *)
(***************************************************************************)
EXTENDS Integers, Sequences, FiniteSets

CONSTANTS
  Modulus,        \* delivery-counts and credits wrap or saturate here (2^32)
  MaxCredit,      \* the credit of CreditMode::Auto
  Owner,          \* the task that holds the Receiver
  ChannelCap,     \* capacity of the channels from the links to their sessions
  Plans           \* what is explored, one record each:
                  \*   initial: initial_delivery_count of the sender;
                  \*   auto: CreditMode::Auto rather than Manual;
                  \*   tasks: the tasks that dispose of deliveries, Owner included;
                  \*   auto_accept: the values auto_accept is set to, whether recv()
                  \*     accepts a delivery before it returns it;
                  \*   parallel: the sending task and its session run on different threads;
                  \*   cancelling: "send", "recv", the futures that may be dropped at an await;
                  \*   draining: the receiver calls drain();
                  \*   credits: the values passed to set_credit() and set_credit_mode();
                  \*   sends: bound on calls of send();
                  \*   controls: bound on calls of set_credit(), set_credit_mode(), drain()
                  \*     and send_properties()

Count == 0 .. Modulus - 1

ASSUME ModulusAssumption == Modulus \in Nat \ {0, 1}
ASSUME CountAssumption == MaxCredit \in Count
ASSUME BoundAssumption == ChannelCap \in Nat \ {0}
ASSUME PlansAssumption == \A p \in Plans :
  /\ p.initial \in Count /\ p.credits \subseteq Count /\ Owner \in p.tasks
  /\ p.auto_accept \cup {p.auto, p.parallel, p.draining} \subseteq BOOLEAN
  /\ p.cancelling \subseteq {"send", "recv"}
  /\ p.sends \in Nat /\ p.controls \in Nat

VARIABLES
  plan,           \* the member of Plans that is explored
  snd_delivery_count, snd_link_credit,             \* LinkFlowState of the sender
  rcv_delivery_count, rcv_link_credit, rcv_drain,  \* LinkFlowState of the receiver
  sending,        \* where the sending task is
  snd_frames,     \* transfers in the channel from the sender to its session
  to_rcv,         \* transfers and flows on their way to the receiver
  incoming,       \* transfers in the channel from the session to the receiver
  op,             \* where each receiving task is
  held,           \* deliveries the application has taken and not disposed of
  processed,      \* deliveries disposed of since the last flow
  credit_mode,    \* the credit of CreditMode::Auto as each task knows it
  rcv_frames,     \* flows and dispositions from the receiver to its session
  to_snd,         \* flows on their way to the sender
  started, taken, handed,    \* sends begun, credits consumed, transfers handed over
  received,                  \* deliveries consumed by the receiver
  controls,                  \* the calls that plan.controls bounds
  limit_exceeded             \* recv failed with TransferLimitExceeded

sndVars == <<snd_delivery_count, snd_link_credit>>
rcvVars == <<rcv_delivery_count, rcv_link_credit, rcv_drain>>
sendVars == <<sending, snd_frames, started, taken, handed>>
recvVars == <<incoming, op, held, processed, credit_mode, rcv_frames,
              received, controls, limit_exceeded>>
vars == <<plan, sndVars, rcvVars, sendVars, to_rcv, recvVars, to_snd>>

Flow == [type : {"flow"}, delivery_count : Count, link_credit : Count, drain : BOOLEAN]
TransferFrame == [type |-> "transfer"]
DispositionFrame == [type |-> "disposition"]
NoFlow == [type |-> "none"]

Places == {"idle", "trying", "refused", "waiting", "handing"}

\* A receiving task: "disposing" has a disposition to send for a delivery,
\* "counted" has counted the delivery as number "count" since the last flow,
\* "flowing" has a flow to send.  "returns" is set inside a recv() that accepts.
Op == [at : {"idle", "disposing", "counted", "flowing"},
       count : Count, flow : Flow \cup {NoFlow}, returns : BOOLEAN]
Idle == [at |-> "idle", count |-> 0, flow |-> NoFlow, returns |-> FALSE]

WrappingAdd(a, b) == (a + b) % Modulus
SaturatingAdd(a, b) == IF a + b < Modulus THEN a + b ELSE Modulus - 1
SaturatingSub(a, b) == IF a < b THEN 0 ELSE a - b

-----------------------------------------------------------------------------
(* The sending task.                                                       *)

\* send() is called.
StartSend ==
  /\ sending = "idle" /\ started < plan.sends
  /\ sending' = "trying"
  /\ started' = started + 1
  /\ UNCHANGED <<plan, sndVars, rcvVars, snd_frames, taken, handed, to_rcv, recvVars, to_snd>>

\* Fault: the credit is read and not used up.
ConsumeForFree ==
  /\ sending = "trying" /\ snd_link_credit >= 1
  /\ snd_delivery_count' = WrappingAdd(snd_delivery_count, 1)
  /\ sending' = "handing"
  /\ taken' = taken + 1
  /\ UNCHANGED <<plan, snd_link_credit, rcvVars, snd_frames, started, handed, to_rcv,
                 recvVars, to_snd>>

\* consume_link_credit succeeds.
Consume ==
  /\ sending = "trying" /\ snd_link_credit >= 1
  /\ snd_delivery_count' = WrappingAdd(snd_delivery_count, 1)
  /\ snd_link_credit' = snd_link_credit - 1
  /\ sending' = "handing"
  /\ taken' = taken + 1
  /\ UNCHANGED <<plan, rcvVars, snd_frames, started, handed, to_rcv, recvVars, to_snd>>

\* consume_link_credit fails.  The task is in notified() by the time its session
\* runs again, unless they run in parallel.
Refuse ==
  /\ sending = "trying" /\ snd_link_credit < 1
  /\ sending' = IF plan.parallel THEN "refused" ELSE "waiting"
  /\ UNCHANGED <<plan, sndVars, rcvVars, snd_frames, started, taken, handed, to_rcv,
                 recvVars, to_snd>>

\* The task calls notified().
AwaitNotified ==
  /\ sending = "refused"
  /\ sending' = "waiting"
  /\ UNCHANGED <<plan, sndVars, rcvVars, snd_frames, started, taken, handed, to_rcv,
                 recvVars, to_snd>>

\* The transfer goes into the channel to the session.
Hand ==
  /\ sending = "handing" /\ Len(snd_frames) < ChannelCap
  /\ snd_frames' = Append(snd_frames, TransferFrame)
  /\ handed' = handed + 1
  /\ sending' = "idle"
  /\ UNCHANGED <<plan, sndVars, rcvVars, started, taken, to_rcv, recvVars, to_snd>>

\* The future of send() is dropped where it waits.
CancelSend ==
  /\ "send" \in plan.cancelling
  /\ \/ sending = "waiting"
     \/ sending = "handing" /\ Len(snd_frames) = ChannelCap
  /\ sending' = "idle"
  /\ UNCHANGED <<plan, sndVars, rcvVars, snd_frames, started, taken, handed, to_rcv,
                 recvVars, to_snd>>

-----------------------------------------------------------------------------
(* The sessions.                                                           *)

\* The session of the sender takes a transfer from the link's channel.
ForwardTransfer ==
  /\ snd_frames # <<>>
  /\ snd_frames' = Tail(snd_frames)
  /\ to_rcv' = Append(to_rcv, Head(snd_frames))
  /\ UNCHANGED <<plan, sndVars, rcvVars, sending, started, taken, handed, recvVars, to_snd>>

\* link-credit_snd := delivery-count_rcv + link-credit_rcv - delivery-count_snd.
SenderCredit(flow) ==
  SaturatingSub(SaturatingAdd(flow.delivery_count, flow.link_credit), snd_delivery_count)

\* Fault: the waiting task is not woken.
OnFlowSilently ==
  /\ to_snd # <<>>
  /\ to_snd' = Tail(to_snd)
  /\ LET flow == Head(to_snd)
         credit == SenderCredit(flow)
         count == WrappingAdd(snd_delivery_count, IF flow.drain THEN credit ELSE 0)
     IN /\ snd_delivery_count' = count
        /\ snd_link_credit' = IF flow.drain THEN 0 ELSE credit
        /\ to_rcv' = to_rcv \o
             (IF flow.drain THEN <<[type |-> "flow", delivery_count |-> count,
                                    link_credit |-> 0, drain |-> TRUE]>>
              ELSE <<>>)
  /\ UNCHANGED <<plan, rcvVars, sendVars, recvVars>>

\* Fault: a drain advances the delivery-count and leaves the credit.
OnFlowKeepingCredit ==
  /\ to_snd # <<>>
  /\ to_snd' = Tail(to_snd)
  /\ LET flow == Head(to_snd)
         credit == SenderCredit(flow)
         count == WrappingAdd(snd_delivery_count, IF flow.drain THEN credit ELSE 0)
     IN /\ snd_delivery_count' = count
        /\ snd_link_credit' = credit
        /\ to_rcv' = to_rcv \o
             (IF flow.drain THEN <<[type |-> "flow", delivery_count |-> count,
                                    link_credit |-> credit, drain |-> TRUE]>>
              ELSE <<>>)
  /\ sending' = IF sending = "waiting" THEN "trying" ELSE sending
  /\ UNCHANGED <<plan, rcvVars, snd_frames, started, taken, handed, recvVars>>

\* The session of the sender handles a flow: on_incoming_flow of the sender, which
\* answers a drain, then notify_waiters.
SenderOnIncomingFlow ==
  /\ to_snd # <<>>
  /\ to_snd' = Tail(to_snd)
  /\ LET flow == Head(to_snd)
         credit == SenderCredit(flow)
         count == WrappingAdd(snd_delivery_count, IF flow.drain THEN credit ELSE 0)
     IN /\ snd_delivery_count' = count
        /\ snd_link_credit' = IF flow.drain THEN 0 ELSE credit
        /\ to_rcv' = to_rcv \o
             (IF flow.drain THEN <<[type |-> "flow", delivery_count |-> count,
                                    link_credit |-> 0, drain |-> TRUE]>>
              ELSE <<>>)
  /\ sending' = IF sending = "waiting" THEN "trying" ELSE sending
  /\ UNCHANGED <<plan, rcvVars, snd_frames, started, taken, handed, recvVars>>

\* The session of the receiver passes a transfer on to the link.
ForwardIncoming ==
  /\ to_rcv # <<>> /\ Head(to_rcv).type = "transfer"
  /\ to_rcv' = Tail(to_rcv)
  /\ incoming' = incoming + 1
  /\ UNCHANGED <<plan, sndVars, rcvVars, sendVars, op, held, processed, credit_mode,
                 rcv_frames, received, controls, limit_exceeded, to_snd>>

\* The session of the receiver applies a flow at once, whatever waits at the link.
ReceiverOnIncomingFlow ==
  /\ to_rcv # <<>> /\ Head(to_rcv).type = "flow"
  /\ to_rcv' = Tail(to_rcv)
  /\ rcv_delivery_count' = Head(to_rcv).delivery_count
  /\ UNCHANGED <<plan, sndVars, rcv_link_credit, rcv_drain, sendVars, recvVars, to_snd>>

\* The session of the receiver takes a frame from the link's channel; dispositions
\* do not concern flow control.
ForwardReceiverFrame ==
  /\ rcv_frames # <<>>
  /\ rcv_frames' = Tail(rcv_frames)
  /\ to_snd' = IF Head(rcv_frames).type = "flow" THEN Append(to_snd, Head(rcv_frames))
                                                 ELSE to_snd
  /\ UNCHANGED <<plan, sndVars, rcvVars, sendVars, to_rcv, incoming, op, held, processed,
                 credit_mode, received, controls, limit_exceeded>>

-----------------------------------------------------------------------------
(* The receiving tasks.                                                    *)

\* Fault: the delivery is not counted.
RecvUncounted ==
  /\ op[Owner].at = "idle" /\ incoming > 0 /\ rcv_link_credit >= 1
  /\ incoming' = incoming - 1
  /\ rcv_link_credit' = rcv_link_credit - 1
  /\ received' = received + 1
  /\ \/ /\ TRUE \in plan.auto_accept
        /\ op' = [op EXCEPT ![Owner] = [Idle EXCEPT !.at = "disposing", !.returns = TRUE]]
        /\ UNCHANGED held
     \/ FALSE \in plan.auto_accept /\ held' = held + 1 /\ UNCHANGED op
  /\ UNCHANGED <<plan, sndVars, rcv_delivery_count, rcv_drain, sendVars, to_rcv, processed,
                 credit_mode, rcv_frames, controls, limit_exceeded, to_snd>>

\* Fault: a delivery that is accepted at once is charged a second time.
RecvChargedTwice ==
  /\ op[Owner].at = "idle" /\ incoming > 0 /\ rcv_link_credit >= 1
  /\ incoming' = incoming - 1
  /\ rcv_delivery_count' = WrappingAdd(rcv_delivery_count, 1)
  /\ received' = received + 1
  /\ \/ /\ TRUE \in plan.auto_accept
        /\ rcv_link_credit' = SaturatingSub(rcv_link_credit, 2)
        /\ op' = [op EXCEPT ![Owner] = [Idle EXCEPT !.at = "disposing", !.returns = TRUE]]
        /\ UNCHANGED held
     \/ /\ FALSE \in plan.auto_accept
        /\ rcv_link_credit' = rcv_link_credit - 1
        /\ held' = held + 1 /\ UNCHANGED op
  /\ UNCHANGED <<plan, sndVars, rcv_drain, sendVars, to_rcv, processed, credit_mode,
                 rcv_frames, controls, limit_exceeded, to_snd>>

\* recv() takes a delivery and consumes one credit for it; with auto-accept it then
\* disposes of it before it returns.
Recv ==
  /\ op[Owner].at = "idle" /\ incoming > 0 /\ rcv_link_credit >= 1
  /\ incoming' = incoming - 1
  /\ rcv_delivery_count' = WrappingAdd(rcv_delivery_count, 1)
  /\ rcv_link_credit' = rcv_link_credit - 1
  /\ received' = received + 1
  /\ \/ /\ TRUE \in plan.auto_accept
        /\ op' = [op EXCEPT ![Owner] = [Idle EXCEPT !.at = "disposing", !.returns = TRUE]]
        /\ UNCHANGED held
     \/ FALSE \in plan.auto_accept /\ held' = held + 1 /\ UNCHANGED op
  /\ UNCHANGED <<plan, sndVars, rcv_drain, sendVars, to_rcv, processed, credit_mode,
                 rcv_frames, controls, limit_exceeded, to_snd>>

\* recv() takes a delivery it has no credit for: the delivery is dropped.
RecvExceeds ==
  /\ op[Owner].at = "idle" /\ incoming > 0 /\ rcv_link_credit < 1
  /\ incoming' = incoming - 1
  /\ limit_exceeded' = TRUE
  /\ UNCHANGED <<plan, sndVars, rcvVars, sendVars, to_rcv, op, held, processed, credit_mode,
                 rcv_frames, received, controls, to_snd>>

\* A task starts to dispose of a delivery.
StartDispose(t) ==
  /\ op[t].at = "idle" /\ held > 0
  /\ held' = held - 1
  /\ op' = [op EXCEPT ![t].at = "disposing"]
  /\ UNCHANGED <<plan, sndVars, rcvVars, sendVars, to_rcv, incoming, processed, credit_mode,
                 rcv_frames, received, controls, limit_exceeded, to_snd>>

\* The disposition goes into the channel, and the delivery is counted (fetch_add wraps).
SendDisposition(t) ==
  /\ op[t].at = "disposing" /\ Len(rcv_frames) < ChannelCap
  /\ rcv_frames' = Append(rcv_frames, DispositionFrame)
  /\ processed' = WrappingAdd(processed, 1)
  /\ op' = [op EXCEPT ![t] = [@ EXCEPT !.at = "counted", !.count = WrappingAdd(processed, 1)]]
  /\ UNCHANGED <<plan, sndVars, rcvVars, sendVars, to_rcv, incoming, held, credit_mode,
                 received, controls, limit_exceeded, to_snd>>

\* Half of the credit has been processed.
NeedsCredit(t) == plan.auto /\ op[t].count >= credit_mode[t] \div 2

\* A task is done, or recv() returns.
Finish(t) == op' = [op EXCEPT ![t] = Idle]

\* No refill is due yet.
KeepCredit(t) ==
  /\ op[t].at = "counted" /\ ~NeedsCredit(t)
  /\ Finish(t)
  /\ UNCHANGED <<plan, sndVars, rcvVars, sendVars, to_rcv, incoming, held, processed,
                 credit_mode, rcv_frames, received, controls, limit_exceeded, to_snd>>

\* get_link_flow: set the given fields under the lock and build the flow.
BuildFlow(t, credit, drain) ==
  /\ rcv_link_credit' = credit
  /\ rcv_drain' = drain
  /\ op' = [op EXCEPT ![t] =
       [@ EXCEPT !.at = "flowing",
                 !.flow = [type |-> "flow", delivery_count |-> rcv_delivery_count,
                           link_credit |-> credit, drain |-> drain]]]
  /\ UNCHANGED rcv_delivery_count

\* update_credit_if_auto, refresh_credit_if_needed.
RefillCredit(t) ==
  /\ op[t].at = "counted" /\ NeedsCredit(t)
  /\ processed' = 0
  /\ BuildFlow(t, credit_mode[t], FALSE)
  /\ UNCHANGED <<plan, sndVars, sendVars, to_rcv, incoming, held, credit_mode, rcv_frames,
                 received, controls, limit_exceeded, to_snd>>

\* set_credit().
SetCredit(credit) ==
  /\ op[Owner].at = "idle" /\ controls < plan.controls
  /\ controls' = controls + 1
  /\ processed' = 0
  /\ credit_mode' = IF plan.auto THEN [credit_mode EXCEPT ![Owner] = credit] ELSE credit_mode
  /\ BuildFlow(Owner, credit, FALSE)
  /\ UNCHANGED <<plan, sndVars, sendVars, to_rcv, incoming, held, rcv_frames, received,
                 limit_exceeded, to_snd>>

\* set_credit_mode(): no flow is sent, and disposers made before keep the old mode.
SetCreditMode(credit) ==
  /\ plan.auto /\ op[Owner].at = "idle" /\ controls < plan.controls
  /\ controls' = controls + 1
  /\ credit_mode' = [credit_mode EXCEPT ![Owner] = credit]
  /\ UNCHANGED <<plan, sndVars, rcvVars, sendVars, to_rcv, incoming, op, held, processed,
                 rcv_frames, received, limit_exceeded, to_snd>>

\* drain(): a drain that is already under way is not repeated.
Drain ==
  /\ plan.draining /\ op[Owner].at = "idle" /\ controls < plan.controls
  /\ controls' = controls + 1
  /\ processed' = 0
  /\ IF rcv_drain THEN UNCHANGED <<rcvVars, op>> ELSE BuildFlow(Owner, rcv_link_credit, TRUE)
  /\ UNCHANGED <<plan, sndVars, sendVars, to_rcv, incoming, held, credit_mode, rcv_frames,
                 received, limit_exceeded, to_snd>>

\* send_properties(): the flow state goes out as it is.
SendProperties ==
  /\ op[Owner].at = "idle" /\ controls < plan.controls
  /\ controls' = controls + 1
  /\ BuildFlow(Owner, rcv_link_credit, rcv_drain)
  /\ UNCHANGED <<plan, sndVars, sendVars, to_rcv, incoming, held, processed, credit_mode,
                 rcv_frames, received, limit_exceeded, to_snd>>

\* The flow goes into the channel.
SendFlow(t) ==
  /\ op[t].at = "flowing" /\ Len(rcv_frames) < ChannelCap
  /\ rcv_frames' = Append(rcv_frames, op[t].flow)
  /\ Finish(t)
  /\ UNCHANGED <<plan, sndVars, rcvVars, sendVars, to_rcv, incoming, held, processed,
                 credit_mode, received, controls, limit_exceeded, to_snd>>

\* The future of recv() is dropped while it waits for the channel.
CancelRecv ==
  /\ "recv" \in plan.cancelling
  /\ op[Owner].returns /\ op[Owner].at \in {"disposing", "flowing"}
  /\ Len(rcv_frames) = ChannelCap
  /\ op' = [op EXCEPT ![Owner] = Idle]
  /\ UNCHANGED <<plan, sndVars, rcvVars, sendVars, to_rcv, incoming, held, processed,
                 credit_mode, rcv_frames, received, controls,
                 limit_exceeded, to_snd>>

-----------------------------------------------------------------------------

\* The link has just attached; with CreditMode::Auto the receiver has set its
\* credit before attach() returns.
Init ==
  /\ plan \in Plans
  /\ snd_delivery_count = plan.initial /\ snd_link_credit = 0
  /\ rcv_delivery_count = plan.initial /\ rcv_drain = FALSE
  /\ sending = "idle" /\ snd_frames = <<>> /\ to_rcv = <<>>
  /\ incoming = 0 /\ op = [t \in plan.tasks |-> Idle] /\ held = 0 /\ processed = 0
  /\ credit_mode = [t \in plan.tasks |-> MaxCredit]
  /\ to_snd = <<>>
  /\ IF plan.auto
     THEN /\ rcv_link_credit = MaxCredit
          /\ rcv_frames = <<[type |-> "flow", delivery_count |-> plan.initial,
                             link_credit |-> MaxCredit, drain |-> FALSE]>>
     ELSE rcv_link_credit = 0 /\ rcv_frames = <<>>
  /\ started = 0 /\ taken = 0 /\ handed = 0 /\ received = 0
  /\ controls = 0 /\ limit_exceeded = FALSE

Next ==
  \/ StartSend \/ Consume \/ Refuse \/ AwaitNotified \/ Hand \/ CancelSend
  \/ ForwardTransfer \/ SenderOnIncomingFlow
  \/ ForwardIncoming \/ ReceiverOnIncomingFlow \/ ForwardReceiverFrame
  \/ Recv \/ RecvExceeds \/ Drain \/ SendProperties \/ CancelRecv
  \/ \E credit \in plan.credits : SetCredit(credit) \/ SetCreditMode(credit)
  \/ \E t \in plan.tasks : \/ StartDispose(t) \/ SendDisposition(t)
                           \/ KeepCredit(t) \/ RefillCredit(t) \/ SendFlow(t)

Spec == Init /\ [][Next]_vars

\* The tasks go on when they can, the sessions serve what they are given, and the
\* application keeps receiving and disposing.  Nobody has to call send(),
\* set_credit() or drain(), and nothing is ever bound to be cancelled.  Every one of
\* these steps brings the bounded work nearer to its end, so that which of them is
\* taken first need not be said.
Progress ==
  \/ Consume \/ Refuse \/ AwaitNotified \/ Hand \/ ForwardTransfer \/ SenderOnIncomingFlow
  \/ ForwardIncoming \/ ReceiverOnIncomingFlow \/ ForwardReceiverFrame \/ Recv \/ RecvExceeds
  \/ \E t \in plan.tasks : \/ StartDispose(t) \/ SendDisposition(t)
                           \/ KeepCredit(t) \/ RefillCredit(t) \/ SendFlow(t)
FairSpec == Spec /\ WF_vars(Progress)
-----------------------------------------------------------------------------
(* Properties.                                                             *)

\* The types of both flow states, of the channels and of the tasks.
TypeOK ==
  /\ plan \in Plans
  /\ {snd_delivery_count, snd_link_credit, rcv_delivery_count, rcv_link_credit, processed}
       \subseteq Count
  /\ rcv_drain \in BOOLEAN /\ limit_exceeded \in BOOLEAN
  /\ sending \in Places
  /\ snd_frames \in Seq({TransferFrame}) /\ to_rcv \in Seq({TransferFrame} \cup Flow)
  /\ rcv_frames \in Seq({DispositionFrame} \cup Flow) /\ to_snd \in Seq(Flow)
  /\ op \in [plan.tasks -> Op] /\ credit_mode \in [plan.tasks -> Count]
  /\ {incoming, held, started, taken, handed, received, controls}
       \subseteq Nat

\* The receiver never runs out of credit for a delivery the sender had credit for:
\* whatever flows, transfers and refills cross, recv() does not fail with
\* TransferLimitExceeded (and drop the delivery) while both ends keep to the rules.
\* (With manual credit the application may lower what the sender still counts on.)
NoSpuriousLimit == plan.auto => ~limit_exceeded

IsTransfer(f) == f.type = "transfer"
\* Deliveries between the two ends, while there are no flows among them.
InTransit == Len(snd_frames) + Len(to_rcv) + incoming
\* Credits consumed for a transfer that is not, or will never be, handed over.
Unhanded == taken - handed

\* The receiver's delivery-count is the last known value from the sender and any
\* subsequent messages received: with no flow under way to the receiver, it lags
\* behind the sender's by exactly the deliveries on their way, and those whose
\* send() was dropped after it had consumed its credit.  (The answer to a drain
\* passes transfers that are counted again when they are received.)
DeliveryCountTracked ==
  (~plan.draining /\ (\A i \in DOMAIN to_rcv : IsTransfer(to_rcv[i])) /\ ~limit_exceeded) =>
    snd_delivery_count =
      WrappingAdd(rcv_delivery_count, InTransit + Unhanded)

\* One task receives and disposes, the credit is automatic and never drained, and the
\* sending task waits before its session runs again.  What several disposers and parallel
\* threads do to the two properties below is described in the README.
Orderly == plan.auto /\ plan.tasks = {Owner} /\ plan.cancelling = {} /\ ~plan.parallel /\ ~plan.draining

\* Credit is a sliding window over deliveries: the delivery-limit the sender works
\* with never retreats and never runs further ahead of the receiver than its credit.
\* (Plans that are not orderly map to a window nobody uses.)
Mapped(n) == IF Orderly THEN n ELSE 0
Credit == INSTANCE SlidingWindow WITH
            Window <- MaxCredit, handed <- Mapped(started), sent <- Mapped(taken),
            limit <- Mapped(taken + snd_link_credit), received <- Mapped(received)
SlidingCredit == Credit!Spec

\* Liveness: with CreditMode::Auto and an application that receives and disposes,
\* every send() hands its transfer over ("The receiver will automatically re-fill
\* the credit"; consume waits only "if there is not enough credit").
SendsComplete == <>[](Orderly => handed = started)

\* Liveness: a drain takes all credit away from the sender, unless new credit stops
\* it ("Setting the credit will set the `drain` field to false and stop draining").
DrainCompletes == rcv_drain ~> (snd_link_credit = 0 \/ ~rcv_drain)
=============================================================================
