------------------------------ MODULE Settlement ------------------------------
(***************************************************************************)
(* Deliveries on one link: from the sender's unsettled map through         *)
(* transfers of one or several frames, reassembly and the application's    *)
(* dispositions to the outcome, and through the resumption of the link.    *)
(*                                                                         *)
(* Four tasks: the sending application with its link, the two sessions,    *)
(* the receiving application with its link.  A message is a sequence of    *)
(* units of which one fits in a frame; a unit may open a section.  Link    *)
(* credit and the session window (LinkCredit, SessionFlow) never run out   *)
(* here, and handles are those of an undisturbed attach (LinkLifecycle).   *)
(* The receiver's frames pass its session in order, so its link channel    *)
(* and the wire are one queue.                                             *)
(***************************************************************************)
EXTENDS Integers, Sequences, SequencesExt, FiniteSets, FiniteSetsExt, TLC

CONSTANTS
    Shape,        \* messages in the order they are sent: [1 .. n -> Seq(a unit opens a section)]
    Awaited,      \* those sent with send(), which awaits the outcome, not with send_batchable()
    PreSettled,   \* those sent settled
    Sizes,        \* the two ends' max-message-size, in units; 0 is no limit
    Plans         \* what is explored: the receiver's rcv_settle_mode and auto_accept, how many
                  \* messages are sent, the outcomes decided on, the faults of which one may
                  \* befall the link, and the number of attaches that may resume it

Messages == DOMAIN Shape
Outcomes == {"accepted", "rejected"}
ASSUME MessagesAssumption == \A m \in Messages : Shape[m] # <<>>
ASSUME SubsetsAssumption == Awaited \subseteq Messages /\ PreSettled \subseteq Messages
ASSUME PlansAssumption ==
    Plans \subseteq [mode : {"First", "Second"}, auto_accept : BOOLEAN, count : 0 .. Len(Shape), outcomes : SUBSET Outcomes,
                     faults : SUBSET {"suspend", "close", "drop", "cancel", "stop"}, resumes : Nat]
ASSUME SizesAssumption == Sizes \in Nat \X Nat

VARIABLES
    plan,         \* the member of Plans that is explored
    sender,       \* the sending application's task and its SenderInner
    unsettled,    \* the sender's map: Seq of [tag, msg, payload], in the order of OrderedMap
    future,       \* [Messages -> what the application knows of the outcome]
    outgoing,     \* frames from the sender link to its session
    sout,         \* the sender's session: delivery ids, delivery_tag_by_id, the relay
    wire,         \* frames from the sender's session to the receiver's
    sin,          \* the receiver's session: delivery_tag_by_id, the relay
    incoming,     \* frames from the receiver's session to its link
    receiver,     \* the receiving application's task and its ReceiverInner
    held,         \* the receiver's map: [tag -> position received or outcome]
    back,         \* frames from the receiver to the sender's session
    verdict,      \* the outcomes the application has decided on: set of <<msg, outcome>>
    tally,        \* whether the fault has happened, and attaches that resumed
    mishap        \* what has gone wrong that the code does not repair

vars == <<plan, sender, unsettled, future, outgoing, sout, wire, sin, incoming, receiver, held, back, verdict, tally, mishap>>

\* Payloads, sections and frames -----------------------------------------

Payload(m) == [i \in 1 .. Len(Shape[m]) |-> [msg |-> m, at |-> i, opens |-> Shape[m][i]]]

\* What a resumed delivery is compared by: sections seen, and units since the last one opened.
Position(number, offset) == [number |-> number, offset |-> offset]
Openings(units) == {i \in 1 .. Len(units) : units[i].opens}
CountSections(units) ==
    Position(Cardinality(Openings(units)), Len(units) - (IF Openings(units) = {} THEN 0 ELSE Max(Openings(units)) - 1))

\* The rest of the payload from the first unit that is `offset' into section `number', where
\* the first section is number 0; the whole payload when there is no such unit.
SplitOff(units, pos) ==
    LET Before(i) == {j \in Openings(units) : j <= i}
        Hits == {i \in 1 .. Len(units) : /\ Cardinality(Before(i)) = pos.number + 1
                                         /\ i - Max(Before(i)) = pos.offset}
    IN  IF Hits = {} THEN units ELSE SubSeq(units, Min(Hits), Len(units))

\* The frames of a delivery: tag and settled only on the first, more on all but the last.
NoTag == 0
NoId == -1
Frames(tag, settled, resume, payload) ==
    [i \in 1 .. Len(payload) |->
        [type |-> "Transfer", id |-> NoId, tag |-> IF i = 1 THEN tag ELSE NoTag, settled |-> settled /\ i = 1,
         more |-> i < Len(payload), resume |-> resume, aborted |-> FALSE, units |-> <<payload[i]>>]]
AbortFrame(tag) == [Frames(tag, FALSE, TRUE, <<0>>)[1] EXCEPT !.aborted = TRUE, !.units = <<>>]
Disposition(role, first, last, settled, state) ==
    [type |-> "Disposition", role |-> role, first |-> first, last |-> last, settled |-> settled, state |-> state]
Detach(closed) == [type |-> "Detach", closed |-> closed]

GetMaxMessageSize(local, remote) == IF local = 0 THEN remote ELSE IF remote = 0 THEN local ELSE Min({local, remote})
Negotiated == GetMaxMessageSize(Sizes[1], Sizes[2])
TooLarge(n) == Negotiated # 0 /\ n > Negotiated

\* Both maps are OrderedMaps; the order matters only in the sender's.
\* swap_remove puts the last entry where the removed one was.
Tags(map) == {map[i].tag : i \in 1 .. Len(map)}
SwapRemove(map, tag) ==
    IF tag \notin Tags(map) THEN map
    ELSE Front([i \in 1 .. Len(map) |-> IF map[i].tag = tag THEN Last(map) ELSE map[i]])
Without(f, keys) == [k \in DOMAIN f \ keys |-> f[k]]
\* The futures of these entries, resolved.
Resolved(entries, with) ==
    [m \in Messages |-> IF \E e \in entries : e.msg = m /\ future[m] = "pending" THEN with ELSE future[m]]

NoBuffer == [tag |-> NoTag]
Init ==
    /\ plan \in Plans
    \* pc: "up"; "detaching" and "closing" wait for the answer to a Detach; "suspended" is a
    \* DetachedSender; "reducing" is inside resume_incoming_attach; "closed"; "dropped".
    /\ sender = [pc |-> "up", next |-> 1, tags |-> 0, claimed |-> NoTag, rest |-> <<>>, current |-> NoTag,
                 inbox |-> <<>>, work |-> <<>>, resend |-> <<>>]
    /\ unsettled = <<>> /\ future = [m \in Messages |-> "unsent"]
    /\ outgoing = <<>> /\ wire = <<>> /\ incoming = <<>> /\ back = <<>>
    /\ sout = [next |-> 0, tag_by_id |-> <<>>, relay |-> TRUE, allocated |-> TRUE, close_pending |-> FALSE]
    /\ sin = [tag_by_id |-> <<>>, relay |-> TRUE, allocated |-> TRUE, close_pending |-> FALSE]
    /\ receiver = [pc |-> "up", buffer |-> NoBuffer, hand |-> {}, taken |-> {}, malformed |-> FALSE]
    /\ held = <<>> /\ verdict = {} /\ tally = [faults |-> 0, resumes |-> 0] /\ mishap = {}

\* A session that has failed is not followed further.
Well == "unattached" \notin mishap
May(fault) == fault \in plan.faults /\ tally.faults = 0
Count == tally' = [tally EXCEPT !.faults = @ + 1]
senders == <<sender, unsettled, future, outgoing>>
receivers == <<incoming, receiver, held, verdict>>

\* The sending application -------------------------------------------------

\* send() has not returned: the application can do nothing else with the sender.
Waiting == sender.rest # <<>> \/ sender.claimed # NoTag \/ \E m \in Awaited : future[m] = "pending"
Idle == sender.pc = "up" /\ ~Waiting

\* send_payload: a message larger than the link allows is refused before anything is sent.
SendRefused ==
    /\ Well /\ Idle /\ sender.next <= plan.count /\ TooLarge(Len(Shape[sender.next]))
    /\ future' = [future EXCEPT ![sender.next] = "failed"]
    /\ sender' = [sender EXCEPT !.next = @ + 1]
    /\ UNCHANGED <<plan, unsettled, outgoing, sout, wire, sin, receivers, back, tally, mishap>>

\* get_delivery_tag_or_detached: a detach that has arrived is seen before credit is taken.
Claim ==
    /\ Well /\ Idle /\ sender.next <= plan.count /\ ~TooLarge(Len(Shape[sender.next])) /\ sender.inbox = <<>>
    /\ sender' = [sender EXCEPT !.tags = @ + 1, !.claimed = sender.tags + 1]
    /\ UNCHANGED <<plan, unsettled, future, outgoing, sout, wire, sin, receivers, back, tally, mishap>>

\* send_unsettled_transfer: the delivery is registered before its first frame is handed over;
\* one that goes out settled is not registered.
Start(s, tag, msg, payload, settled, resume) ==
    LET frames == Frames(tag, settled, resume, payload) IN
    /\ unsettled' = IF settled THEN unsettled ELSE Append(unsettled, [tag |-> tag, msg |-> msg, payload |-> payload])
    /\ outgoing' = Append(outgoing, Head(frames))
    /\ sender' = [s EXCEPT !.claimed = NoTag, !.rest = Tail(frames), !.current = tag]

SendFirst ==
    LET m == sender.next IN
    /\ Well /\ sender.pc = "up" /\ sender.claimed # NoTag
    /\ Start([sender EXCEPT !.next = @ + 1], sender.claimed, m, Payload(m), m \in PreSettled, FALSE)
    /\ future' = [future EXCEPT ![m] = IF m \in PreSettled THEN "settled" ELSE "pending"]
    /\ UNCHANGED <<plan, sout, wire, sin, receivers, back, tally, mishap>>

SendNext ==
    /\ Well /\ sender.rest # <<>>
    /\ outgoing' = Append(outgoing, Head(sender.rest))
    /\ sender' = [sender EXCEPT !.rest = Tail(@)]
    /\ UNCHANGED <<plan, unsettled, future, sout, wire, sin, receivers, back, tally, mishap>>

\* The future of send() is dropped between two frames: the registration is withdrawn.
CancelSend ==
    /\ Well /\ May("cancel") /\ sender.pc = "up" /\ sender.rest # <<>>
    /\ unsettled' = SwapRemove(unsettled, sender.current)
    /\ future' = [future EXCEPT ![sender.next - 1] = "dropped"]
    /\ sender' = [sender EXCEPT !.rest = <<>>]
    /\ mishap' = mishap \cup {"cut"}
    /\ Count /\ UNCHANGED <<plan, outgoing, sout, wire, sin, receivers, back>>

\* detach(), close() and the drop of the sender, which sends a closing detach unless the peer
\* has detached, and then fails what is pending.
Failing == unsettled' = <<>> /\ future' = Resolved(ToSet(unsettled), "failed")
SenderDetach ==
    /\ Well /\ Idle
    /\ \E how \in {"suspend", "close", "drop"} :
        /\ May(how)
        /\ sender' = [sender EXCEPT !.pc = CASE how = "suspend" -> "detaching" [] how = "close" -> "closing" [] OTHER -> "dropped"]
        /\ IF how = "drop" /\ sender.inbox # <<>>
           THEN Failing /\ UNCHANGED outgoing
           ELSE outgoing' = Append(outgoing, Detach(how # "suspend")) /\ UNCHANGED <<unsettled, future>>
    /\ Count /\ UNCHANGED <<plan, sout, wire, sin, receivers, back, mishap>>

\* The Detach that detach(), close() or the next operation finds.  A closed sender is dropped.
ObserveDetach ==
    /\ Well /\ sender.inbox # <<>> /\ (Idle \/ sender.pc \in {"detaching", "closing"})
    /\ IF sender.pc = "closing" \/ Head(sender.inbox).closed
       THEN Failing /\ sender' = [sender EXCEPT !.pc = "closed", !.inbox = Tail(@)]
       ELSE sender' = [sender EXCEPT !.pc = "suspended", !.inbox = Tail(@)] /\ UNCHANGED <<unsettled, future>>
    /\ UNCHANGED <<plan, outgoing, sout, wire, sin, receivers, back, tally, mishap>>

\* The sender's session ------------------------------------------------------

\* on_outgoing_transfer_inner and on_outgoing_detach.
OutgoingTransfer(f) ==
    IF f.tag = NoTag THEN wire' = Append(wire, f) /\ UNCHANGED sout
    ELSE /\ wire' = Append(wire, [f EXCEPT !.id = sout.next])
         /\ sout' = [sout EXCEPT !.next = @ + 1, !.tag_by_id = IF f.settled THEN @ ELSE (sout.next :> f.tag) @@ @]
OutgoingDetach(f) ==
    IF ~sout.allocated THEN UNCHANGED <<wire, sout>>
    ELSE wire' = Append(wire, f) /\ sout' = [sout EXCEPT !.allocated = FALSE, !.close_pending = TRUE]
SessionOut ==
    /\ Well /\ outgoing # <<>>
    /\ outgoing' = Tail(outgoing)
    /\ LET f == Head(outgoing) IN IF f.type = "Transfer" THEN OutgoingTransfer(f) ELSE OutgoingDetach(f)
    /\ UNCHANGED <<plan, sender, unsettled, future, sin, receivers, back, tally, mishap>>

\* consecutive_chunk_indices of ascending ids: the places where a chunk ends before the last.
Gaps(ids) == SelectSeq([i \in 1 .. Len(ids) |-> i], LAMBDA i : i < Len(ids) /\ ids[i + 1] # ids[i] + 1)
Ascending(ids) == SetToSortSeq(ids, <)

\* on_incoming_disposition of the session and the sender's relay: the outcome resolves the
\* future, settled or not; in mode Second it is echoed, one disposition per chunk that a gap ends.
Echoes(ids, state) ==
    LET gaps == Gaps(ids) IN
    [i \in 1 .. Len(gaps) |->
        Disposition("Sender", ids[IF i = 1 THEN 1 ELSE gaps[i - 1] + 1], ids[gaps[i]], TRUE, state)]
IncomingDisposition(f) ==
    LET ids == (f.first .. f.last) \cap DOMAIN sout.tag_by_id
        tags == {sout.tag_by_id[i] : i \in ids}
    IN
    /\ sout' = [sout EXCEPT !.tag_by_id = IF f.settled THEN Without(@, ids) ELSE @]
    /\ IF sout.relay
       THEN /\ unsettled' = FoldLeft(SwapRemove, unsettled, SetToSeq(tags))
            /\ future' = Resolved({e \in ToSet(unsettled) : e.tag \in tags}, f.state)
       ELSE UNCHANGED <<unsettled, future>>
    /\ wire' = IF f.settled \/ ~sout.relay \/ plan.mode = "First" THEN wire
               ELSE wire \o Echoes(Ascending(ids), f.state)
    /\ UNCHANGED sender

\* The relay forwards the peer's Detach to the link, answers it unless it is an answer itself,
\* and fails what is pending when nothing else can: the peer closes, or the sender is gone.
\* Mutant: the sender's deliveries are left to the link.
IncomingDetachWithoutFailing(f) ==
    IF ~sout.relay THEN UNCHANGED <<sout, sender, unsettled, future, wire>>
    ELSE LET gone == sender.pc \in {"dropped", "closed"} IN
         /\ sout' = [sout EXCEPT !.relay = FALSE, !.close_pending = FALSE, !.allocated = FALSE]
         /\ sender' = IF gone THEN sender ELSE [sender EXCEPT !.inbox = Append(@, f)]
         /\ wire' = IF sout.close_pending THEN wire ELSE Append(wire, f)
         /\ IF gone THEN Failing ELSE UNCHANGED <<unsettled, future>>
IncomingDetach(f) ==
    IF ~sout.relay THEN UNCHANGED <<sout, sender, unsettled, future, wire>>
    ELSE LET gone == sender.pc \in {"dropped", "closed"} IN
         /\ sout' = [sout EXCEPT !.relay = FALSE, !.close_pending = FALSE, !.allocated = FALSE]
         /\ sender' = IF gone THEN sender ELSE [sender EXCEPT !.inbox = Append(@, f)]
         /\ wire' = IF sout.close_pending THEN wire ELSE Append(wire, f)
         /\ IF f.closed /\ (gone \/ ~sout.close_pending) THEN Failing ELSE UNCHANGED <<unsettled, future>>
SessionIn ==
    /\ Well /\ back # <<>>
    /\ back' = Tail(back)
    /\ LET f == Head(back) IN IF f.type = "Disposition" THEN IncomingDisposition(f) ELSE IncomingDetach(f)
    /\ UNCHANGED <<plan, outgoing, sin, receivers, tally, mishap>>

\* The receiver's session ----------------------------------------------------

\* A transfer for a handle that is no longer attached ends the session.
IncomingTransfer(f) ==
    IF ~sin.relay THEN mishap' = mishap \cup {"unattached"} /\ UNCHANGED <<sin, incoming, held, back>>
    ELSE /\ incoming' = Append(incoming, f)
         /\ sin' = [sin EXCEPT !.tag_by_id = IF plan.mode = "Second" /\ ~f.settled /\ f.tag # NoTag
                                             THEN (f.id :> f.tag) @@ @ ELSE @]
         /\ UNCHANGED <<held, back, mishap>>
\* A settled disposition of the sender: the receiver forgets the deliveries.
IncomingEcho(f) ==
    LET ids == (f.first .. f.last) \cap DOMAIN sin.tag_by_id IN
    /\ sin' = [sin EXCEPT !.tag_by_id = Without(@, ids)]
    /\ held' = IF sin.relay THEN Without(held, {sin.tag_by_id[i] : i \in ids}) ELSE held
    /\ UNCHANGED <<incoming, back, mishap>>
IncomingRemoteDetach(f) ==
    /\ IF ~sin.relay THEN UNCHANGED <<sin, incoming, back>>
       ELSE /\ sin' = [sin EXCEPT !.relay = FALSE, !.close_pending = FALSE, !.allocated = FALSE]
            /\ incoming' = Append(incoming, f)
            /\ back' = IF sin.close_pending THEN back ELSE Append(back, f)
    /\ UNCHANGED <<held, mishap>>
ReceiverSessionIn ==
    /\ Well /\ wire # <<>>
    /\ wire' = Tail(wire)
    /\ LET f == Head(wire) IN
        CASE f.type = "Transfer" -> IncomingTransfer(f)
          [] f.type = "Disposition" -> IncomingEcho(f)
          [] OTHER -> IncomingRemoteDetach(f)
    /\ UNCHANGED <<plan, senders, sout, receiver, verdict, tally>>
\* The receiving application -------------------------------------------------

\* A Detach of the receiver's own, which its session sends unless it has answered the peer's.
LeaveWith(r, pc, closed) ==
    /\ receiver' = [r EXCEPT !.pc = pc]
    /\ IF ~sin.allocated THEN UNCHANGED <<sin, back>>
       ELSE sin' = [sin EXCEPT !.allocated = FALSE, !.close_pending = TRUE] /\ back' = Append(back, Detach(closed))

\* close_on_malformed_delivery, close_on_message_size_exceeded: nothing of the frame is kept.
CloseOnError(r) == LeaveWith([r EXCEPT !.malformed = TRUE], "closing", TRUE) /\ UNCHANGED <<held, verdict>>

\* What the receiver's map records of a delivery.
Received(pos) == [state |-> "received", pos |-> pos]
Outcome(state) == [state |-> state, pos |-> Position(0, 0)]

\* dispose: a delivery that is not in the map is not announced.  In mode First the receiver
\* settles and forgets; in mode Second it keeps the outcome until the sender settles.
Settles == plan.mode = "First"
Kept(map, tags, state) == IF Settles THEN Without(map, tags) ELSE [t \in tags |-> Outcome(state)] @@ map
Announced(map, d, state) ==
    IF d.tag \in DOMAIN map THEN <<Disposition("Receiver", d.id, d.id, Settles, state)>> ELSE <<>>
Decided(deliveries, state) == verdict' = verdict \cup {<<d.msg, state>> : d \in deliveries}

\* on_complete_transfer: an unsettled delivery enters the map; auto_accept disposes of it at once.
Complete(r, id, tag, settled, units) ==
    LET map == IF settled THEN held ELSE (tag :> Received(CountSections(units))) @@ held
        d == [id |-> id, tag |-> tag, msg |-> units[1].msg]
        s == [r EXCEPT !.taken = @ \cup {units}]
    IN  IF plan.auto_accept
        THEN /\ held' = Kept(map, {tag}, "accepted") /\ back' = back \o Announced(map, d, "accepted")
             /\ Decided({d}, "accepted") /\ receiver' = s /\ UNCHANGED sin
        ELSE /\ held' = map /\ receiver' = [s EXCEPT !.hand = @ \cup {d}] /\ UNCHANGED <<back, verdict, sin>>

\* Reassembly.  A frame continues the buffered delivery when it repeats or omits its tag; it is
\* appended to it when it repeats or omits its id as well.  (All frames of a delivery have the
\* same message-format.)  A delivery that is resumed has been given another id.
Buffered == receiver.buffer # NoBuffer
Continues(f) == Buffered /\ f.tag \in {NoTag, receiver.buffer.tag}
Consistent(f) == Continues(f) /\ f.id \in {NoId, receiver.buffer.id}
Known(tag) == tag \in DOMAIN held /\ held[tag].state = "received"
NewBuffer(f) == [tag |-> f.tag, id |-> f.id, settled |-> f.settled, units |-> f.units, pos |-> CountSections(f.units)]
\* Mutant: only the last frame is kept.
AppendedOver(b, f) == [b EXCEPT !.units = f.units, !.settled = @ \/ f.settled]
Appended(b, f) ==
    LET more == CountSections(f.units) IN
    [b EXCEPT !.units = @ \o f.units, !.settled = @ \/ f.settled,
              !.pos = IF more.number = 0 THEN Position(@.number, @.offset + more.offset)
                      ELSE Position(@.number + more.number, more.offset)]
Accumulated(f) == (IF Continues(f) THEN Len(receiver.buffer.units) ELSE 0) + Len(f.units)
Emptied == [receiver EXCEPT !.buffer = NoBuffer]

\* A frame that ends no delivery and starts or continues one.
OnIncomplete(f) ==
    IF (Buffered /\ ~Consistent(f)) \/ (~Buffered /\ f.tag = NoTag) THEN CloseOnError(receiver)
    ELSE LET b == IF Buffered THEN Appended(receiver.buffer, f) ELSE NewBuffer(f) IN
         /\ receiver' = [receiver EXCEPT !.buffer = b]
         /\ held' = (b.tag :> Received(b.pos)) @@ held
         /\ UNCHANGED <<sin, back, verdict>>
\* The frame that ends a delivery, buffered or not.
\* Mutant: the buffer is not emptied.
OnCompleteKeepingBuffer(f) ==
    IF Buffered
    THEN IF ~Consistent(f) THEN CloseOnError(Emptied)
         ELSE LET b == Appended(receiver.buffer, f) IN Complete(receiver, b.id, b.tag, b.settled, b.units)
    ELSE IF f.tag = NoTag THEN CloseOnError(receiver)
    ELSE Complete(receiver, f.id, f.tag, f.settled, f.units)
OnComplete(f) ==
    IF Buffered
    THEN IF ~Consistent(f) THEN CloseOnError(Emptied)
         ELSE LET b == Appended(receiver.buffer, f) IN Complete(Emptied, b.id, b.tag, b.settled, b.units)
    ELSE IF f.tag = NoTag THEN CloseOnError(receiver)
    ELSE Complete(receiver, f.id, f.tag, f.settled, f.units)
\* A delivery resumed that is not the buffered one.
OnReassociated(f) == IF f.tag = NoTag THEN CloseOnError(receiver) ELSE Complete(receiver, f.id, f.tag, f.settled, f.units)
OnAborted(f) ==
    IF Buffered /\ ~Continues(f) THEN CloseOnError(receiver)
    ELSE /\ receiver' = Emptied /\ UNCHANGED <<sin, back, verdict>>
         /\ held' = IF Buffered THEN Without(held, {receiver.buffer.tag}) ELSE held
OnIncomingTransfer(f) ==
    IF f.aborted THEN OnAborted(f)
    ELSE IF f.resume /\ ~Continues(f) /\ ~Known(f.tag) THEN UNCHANGED <<receiver, held, sin, back, verdict>>
    ELSE IF TooLarge(Accumulated(f)) THEN CloseOnError(Emptied)
    ELSE IF f.more THEN OnIncomplete(f)
    ELSE IF f.resume /\ ~Continues(f) THEN OnReassociated(f)
    ELSE OnComplete(f)

Recv ==
    /\ Well /\ receiver.pc = "up" /\ incoming # <<>>
    /\ incoming' = Tail(incoming)
    /\ LET f == Head(incoming) IN
        IF f.type = "Transfer" THEN OnIncomingTransfer(f)
        ELSE receiver' = [receiver EXCEPT !.pc = IF f.closed THEN "closed" ELSE "suspended"] /\ UNCHANGED <<held, sin, back, verdict>>
    /\ UNCHANGED <<plan, senders, sout, wire, tally, mishap>>

\* accept, reject, release and modify, of one delivery.
Dispose ==
    /\ Well /\ receiver.pc = "up"
    /\ \E d \in receiver.hand, o \in plan.outcomes :
        /\ held' = Kept(held, {d.tag}, o) /\ back' = back \o Announced(held, d, o)
        /\ Decided({d}, o) /\ receiver' = [receiver EXCEPT !.hand = @ \ {d}]
    /\ UNCHANGED <<plan, senders, sout, wire, sin, incoming, tally, mishap>>

\* ... and of several: those in the map, by ascending id, one disposition per consecutive run.
\* Mutant: one disposition from the first id to the last.
ChunksUnsplit(ids, state) == <<Disposition("Receiver", Head(ids), Last(ids), Settles, state)>>
Chunks(ids, state) ==
    LET gaps == Gaps(ids) \o <<Len(ids)>> IN
    [i \in 1 .. Len(gaps) |->
        Disposition("Receiver", ids[IF i = 1 THEN 1 ELSE gaps[i - 1] + 1], ids[gaps[i]], Settles, state)]
DisposeAll ==
    /\ Well /\ receiver.pc = "up"
    /\ \E D \in SUBSET receiver.hand, o \in plan.outcomes :
        LET known == {d \in D : d.tag \in DOMAIN held} IN
        /\ Cardinality(D) > 1 /\ Decided(D, o)
        /\ held' = Kept(held, {d.tag : d \in known}, o)
        /\ back' = IF known = {} THEN back ELSE back \o Chunks(Ascending({d.id : d \in known}), o)
        /\ receiver' = [receiver EXCEPT !.hand = @ \ D]
    /\ UNCHANGED <<plan, senders, sout, wire, sin, incoming, tally, mishap>>

ReceiverDetach ==
    /\ Well /\ receiver.pc = "up"
    /\ \E how \in {"suspend", "close"} :
        May(how) /\ LeaveWith(receiver, IF how = "suspend" THEN "detaching" ELSE "closing", how = "close")
    /\ Count /\ UNCHANGED <<plan, senders, sout, wire, incoming, held, verdict, mishap>>

\* recv_remote_detach: everything before the Detach is thrown away.
AwaitDetach ==
    /\ Well /\ receiver.pc \in {"detaching", "closing"} /\ incoming # <<>>
    /\ incoming' = Tail(incoming)
    /\ LET f == Head(incoming) IN
        receiver' = IF f.type = "Transfer" THEN receiver
                    ELSE [receiver EXCEPT !.pc = IF @ = "closing" \/ f.closed THEN "closed" ELSE "suspended"]
    /\ UNCHANGED <<plan, senders, sout, wire, sin, held, verdict, back, tally, mishap>>

\* Resumption ----------------------------------------------------------------

Quiet == outgoing = <<>> /\ wire = <<>> /\ incoming = <<>> /\ back = <<>>
Live == [relay |-> TRUE, allocated |-> TRUE, close_pending |-> FALSE]

\* resume_delivery.  No operation of the receiver sends a state that is not an outcome, so the
\* sender has no state of its own and the rows for one are left out.
ResumeDelivery(e) ==
    CASE e.tag \notin DOMAIN held -> [do |-> "resend", entry |-> e]
      [] e.tag \in DOMAIN held /\ held[e.tag].state \in Outcomes -> [do |-> "settle", entry |-> e]
      [] OTHER -> [do |-> "resume", entry |-> [e EXCEPT !.payload = SplitOff(@, held[e.tag].pos)]]
\* Mutant: deliveries the receiver does not know are dropped.
WorkWithoutResends ==
    SelectSeq([i \in 1 .. Len(unsettled) |-> ResumeDelivery(unsettled[i])], LAMBDA w : w.do \notin {"settle", "resend"})
    \o [i \in 1 .. Cardinality(DOMAIN held \ Tags(unsettled)) |->
        [do |-> "abort", entry |-> [tag |-> SetToSeq(DOMAIN held \ Tags(unsettled))[i], msg |-> 0, payload |-> <<>>]]]
Work ==
    SelectSeq([i \in 1 .. Len(unsettled) |-> ResumeDelivery(unsettled[i])], LAMBDA w : w.do # "settle")
    \o [i \in 1 .. Cardinality(DOMAIN held \ Tags(unsettled)) |->
        [do |-> "abort", entry |-> [tag |-> SetToSeq(DOMAIN held \ Tags(unsettled))[i], msg |-> 0, payload |-> <<>>]]]
\* A delivery is resumed of which the receiver still holds the first frames: it will refuse it.
Halfway(w) == w.do = "resume" /\ w.entry.tag = receiver.buffer.tag

\* Both ends resume on the session, and exchange the maps in their Attaches.
Resume ==
    /\ Well /\ sender.pc = "suspended" /\ receiver.pc = "suspended" /\ Quiet
    /\ tally.resumes < plan.resumes /\ tally' = [tally EXCEPT !.resumes = @ + 1]
    /\ sout' = Live @@ sout /\ sin' = Live @@ sin
    /\ receiver' = [receiver EXCEPT !.pc = "up"]
    /\ IF unsettled = <<>> /\ held = <<>>
       THEN sender' = [sender EXCEPT !.pc = "up"] /\ UNCHANGED <<unsettled, future, mishap>>
       ELSE /\ sender' = [sender EXCEPT !.pc = "reducing", !.work = Work]
            /\ unsettled' = <<>>
            /\ future' = [m \in Messages |->
                   IF \E e \in ToSet(unsettled) : e.msg = m /\ future[m] = "pending" /\ ResumeDelivery(e).do = "settle"
                   THEN held[(CHOOSE e \in ToSet(unsettled) : e.msg = m).tag].state ELSE future[m]]
            /\ mishap' = mishap \cup (IF \E w \in ToSet(Work) : Halfway(w) THEN {"halfway"} ELSE {})
    /\ UNCHANGED <<plan, outgoing, wire, incoming, held, back, verdict>>

\* handle_resuming_delivery for each entry, then resend for those the receiver does not know,
\* each under a new tag, then the detach after which the exchange is tried again.
ResumeNext ==
    LET w == Head(sender.work)
        s == [sender EXCEPT !.work = Tail(@)]
    IN
    /\ Well /\ sender.pc = "reducing" /\ sender.rest = <<>> /\ sender.work # <<>>
    /\ CASE w.do = "abort" -> /\ outgoing' = Append(outgoing, AbortFrame(w.entry.tag)) /\ sender' = s
                              /\ UNCHANGED unsettled
         [] w.do = "resend" -> sender' = [s EXCEPT !.resend = Append(@, w.entry)] /\ UNCHANGED <<outgoing, unsettled>>
         [] OTHER -> Start(s, w.entry.tag, w.entry.msg, w.entry.payload, FALSE, TRUE)
    /\ UNCHANGED <<plan, future, sout, wire, sin, receivers, back, tally, mishap>>
Resend ==
    /\ Well /\ sender.pc = "reducing" /\ sender.rest = <<>> /\ sender.work = <<>> /\ sender.resend # <<>>
    /\ IF sender.inbox # <<>>
       THEN /\ sender' = [sender EXCEPT !.pc = "suspended", !.inbox = Tail(@), !.resend = <<>>]
            /\ future' = Resolved(ToSet(sender.resend), "failed") /\ UNCHANGED <<unsettled, outgoing>>
       ELSE /\ Start([sender EXCEPT !.tags = @ + 1, !.resend = Tail(@)], sender.tags + 1,
                     Head(sender.resend).msg, Head(sender.resend).payload, FALSE, FALSE)
            /\ UNCHANGED future
    /\ UNCHANGED <<plan, sout, wire, sin, receivers, back, tally, mishap>>
DetachAgain ==
    /\ Well /\ sender.pc = "reducing" /\ sender.rest = <<>> /\ sender.work = <<>> /\ sender.resend = <<>>
    /\ sender' = [sender EXCEPT !.pc = "detaching"] /\ outgoing' = Append(outgoing, Detach(FALSE))
    /\ UNCHANGED <<plan, unsettled, future, sout, wire, sin, receivers, back, tally, mishap>>

\* The session or its connection stops.  Every operation that waits for a channel fails; one
\* that waits for an outcome waits on, for the map belongs to the link as well.
Stop ==
    /\ Well /\ May("stop") /\ sender.pc # "stopped"
    /\ sender.pc \notin {"closed", "dropped"} /\ receiver.pc # "closed"
    /\ LET cut == IF sender.rest = <<>> THEN {} ELSE {e \in ToSet(unsettled) : e.tag = sender.current}
           lost == {w.entry : w \in ToSet(sender.work)} \cup ToSet(sender.resend)
       IN  /\ future' = Resolved(cut \cup lost, "failed")
           /\ unsettled' = IF cut = {} THEN unsettled ELSE SwapRemove(unsettled, sender.current)
    /\ sender' = [sender EXCEPT !.pc = "stopped", !.rest = <<>>, !.claimed = NoTag, !.inbox = <<>>, !.work = <<>>, !.resend = <<>>]
    /\ receiver' = [receiver EXCEPT !.pc = "stopped"]
    /\ outgoing' = <<>> /\ wire' = <<>> /\ incoming' = <<>> /\ back' = <<>>
    /\ Count /\ UNCHANGED <<plan, sout, sin, held, verdict, mishap>>

\* The ends resume on another session: the maps are cleared and what is pending fails with them.
Reattach ==
    /\ Well /\ sender.pc = "stopped" /\ ~Waiting /\ receiver.pc = "stopped"
    /\ tally.resumes < plan.resumes /\ tally' = [tally EXCEPT !.resumes = @ + 1]
    /\ Failing /\ held' = <<>>
    /\ sout' = Live @@ [next |-> 0, tag_by_id |-> <<>>] /\ sin' = Live @@ [tag_by_id |-> <<>>]
    /\ sender' = [sender EXCEPT !.pc = "up"] /\ receiver' = [receiver EXCEPT !.pc = "up"]
    /\ mishap' = mishap \cup (IF Buffered THEN {"cut"} ELSE {})
    /\ UNCHANGED <<plan, outgoing, wire, incoming, back, verdict>>

Next ==
    \/ SendRefused \/ Claim \/ SendFirst \/ SendNext \/ CancelSend \/ SenderDetach \/ ObserveDetach
    \/ SessionOut \/ SessionIn \/ ReceiverSessionIn
    \/ Recv \/ Dispose \/ DisposeAll \/ ReceiverDetach \/ AwaitDetach
    \/ Resume \/ ResumeNext \/ Resend \/ DetachAgain \/ Stop \/ Reattach

Spec == Init /\ [][Next]_vars

\* What runs by itself: the sessions; what a caller has begun; a receiver that reads and
\* disposes, and ends that resume a suspended link.  When a fault strikes is not said.
Progress ==
    \/ SendFirst \/ SendNext \/ ObserveDetach \/ SessionOut \/ SessionIn \/ ReceiverSessionIn
    \/ Recv \/ Dispose \/ AwaitDetach \/ Resume \/ ResumeNext \/ Resend \/ DetachAgain \/ Reattach
FairSpec == Spec /\ WF_vars(Progress)

-----------------------------------------------------------------------------
\* Properties.

Pending == {m \in Messages : future[m] = "pending"}
Entries == ToSet(unsettled) \cup {w.entry : w \in ToSet(sender.work)} \cup ToSet(sender.resend)

\* The variables have their types; a delivery is registered once.
TypeOK ==
    /\ plan \in Plans
    /\ sender.pc \in {"up", "detaching", "closing", "suspended", "reducing", "closed", "dropped", "stopped"}
    /\ receiver.pc \in {"up", "detaching", "closing", "suspended", "closed", "stopped"}
    /\ future \in [Messages -> Outcomes \cup {"unsent", "pending", "settled", "failed", "dropped"}]
    /\ \A e \in ToSet(unsettled) : e.tag \in 1 .. sender.tags /\ e.msg \in Messages
    /\ IsInjective([i \in 1 .. Len(unsettled) |-> unsettled[i].tag])
    /\ \A tag \in DOMAIN held : tag \in 1 .. sender.tags /\ held[tag].state \in Outcomes \cup {"received"}
    /\ \A id \in DOMAIN sout.tag_by_id : id < sout.next
    /\ sender.rest # <<>> => sender.pc \in {"up", "reducing"}
    /\ mishap \subseteq {"unattached", "cut", "halfway"}

\* The outcome send() reports is one the receiving application decided on for that very
\* message: delivery ids, tags, ranges of dispositions and resumption never mix two deliveries up.
OutcomesTrue == \A m \in Messages : future[m] \in Outcomes => <<m, future[m]>> \in verdict

\* A future that is pending is registered with the link or about to be resumed, and none is
\* left behind when the link has been closed or the sender dropped.
NoneForgotten ==
    /\ \A m \in Pending : \E e \in Entries : e.msg = m
    /\ (sender.pc = "closed" \/ (sender.pc = "dropped" /\ ~sout.relay)) => Pending = {}

\* Every delivery the application gets is exactly one message, however it was cut into frames,
\* cancelled, interrupted and resumed: no part is missing, doubled or of another message.
DeliveredWhole == receiver.taken \subseteq {Payload(m) : m \in Messages}

\* The receiver closes the link over a malformed delivery only where one was cut short between
\* two of its frames: its send was cancelled or the link moved to another session, or it was
\* suspended there and resumed, under an id that no longer agrees with its first frames.
OwnFramesAccepted == receiver.malformed => mishap \cap {"cut", "halfway"} # {}

\* Every delivery gets its outcome or its failure, if the link does not stay suspended, its
\* session does not stop, and no send() that waits is left with a suspension it does not look for.
Unfollowed == ~Well \/ sender.pc \in {"suspended", "stopped"} \/ \E f \in ToSet(sender.inbox) : ~f.closed
AllResolved == <>[](Unfollowed \/ Pending = {})

\* A send() does not outlive the session: it fails with the stop reason.
SendEndsWithSession == sender.pc = "stopped" ~> \A m \in Awaited : future[m] # "pending"
=============================================================================
