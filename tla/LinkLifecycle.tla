---------------------------- MODULE LinkLifecycle ----------------------------
(***************************************************************************)
(* Links on one session: attach, detach, close, drop and resumption, with  *)
(* output handles that are handed out again.                               *)
(*                                                                         *)
(* Client and listener each run a session engine.  Link endpoints, which   *)
(* are tasks of the application, talk to it through two channels that the  *)
(* engine reads in no fixed order: SessionControl (allocations) and the    *)
(* link frames.  The client attaches; the listener accepts or refuses.     *)
(* Senders and receivers run the same procedures here and are not told     *)
(* apart.  A session that fails ends everything: what follows is           *)
(* SessionLifecycle's matter.                                              *)
(***************************************************************************)
EXTENDS Integers, Sequences, SequencesExt, FiniteSetsExt, TLC

CONSTANTS
    Names,        \* link names
    Ends,         \* bound: [Peer -> the number of endpoints it may create]
    Calls,        \* bound: [Endpoint -> what the application may do with it: close, detach,
                  \* drop the handle or the future, refuse what the peer attaches]
    MaxResumes    \* bound: resumptions by one endpoint

Client == "client"
Listener == "listener"
Peer == {Client, Listener}
Other(p) == IF p = Client THEN Listener ELSE Client
End(p) == 1 .. Ends[p]
Endpoint == UNION {{p} \X End(p) : p \in Peer}

ASSUME BoundsAssumption == Ends \in [Peer -> Nat] /\ MaxResumes \in Nat
ASSUME EndpointsAssumption == Calls \in [Endpoint -> SUBSET {"close", "detach", "drop", "refuse"}]

\* A handle for every allocation that can be outstanding.
Handle == 0 .. Max({Ends[p] : p \in Peer})
NoHandle == -1
\* An attachment <<e, i>> is the i-th life of endpoint e: a channel and a handle of its own.
Nobody == <<0, 0>>
\* Without loss of generality the name of the first link.
FirstName == CHOOSE n \in Names : TRUE

VARIABLES
    link,      \* [Endpoint -> the task and its SenderInner or ReceiverInner]
    slab,      \* link_name_by_output_handle: [Peer -> [Handle -> endpoint of the entry]]
    vacant,    \* the slab's free list: [Peer -> Seq(Handle)]
    by_name,   \* link_by_name: [Peer -> [Names -> absent, taken or a relay]]
    by_in,     \* link_by_input_handle: [Peer -> [Handle -> relay]]
    close_pending, \* [Peer -> handles whose detach is to be answered]
    control,   \* SessionControl: [Peer -> Seq of allocations]
    frames,    \* LinkFrames from the links to the session: [Peer -> Seq]
    wire,      \* frames sent and not yet received: [Peer -> Seq]
    backlog,   \* link_listener: attaches waiting for accept()
    failure,   \* [Peer -> the error its session ends with]
    mishap     \* what has happened that the procedures do not recover from

tables == <<slab, vacant, by_name, by_in, close_pending>>
vars == <<link, tables, control, frames, wire, backlog, failure, mishap>>

\* Attach and Detach.  The attachment a frame comes from is not on the wire.
AttachFrame(a, n, h, null) == [type |-> "Attach", from |-> a, name |-> n, handle |-> h, flag |-> null]
DetachFrame(a, h, closed) == [type |-> "Detach", from |-> a, name |-> "", handle |-> h, flag |-> closed]

\* link_by_name holds Some(relay), None for a relay in use, or no entry.
Absent == [who |-> Nobody, out |-> NoHandle, taken |-> FALSE]
TakenAsAbsent == Absent   \* mutant: the entry is removed with its relay
Taken == [Absent EXCEPT !.taken = TRUE]
Relay(a, h) == [who |-> a, out |-> h, taken |-> FALSE]

\* pc: "idle" not created; "allocating" awaits the responder of its allocation;
\* "allocated"; "attaching" awaits the peer's Attach; "up" is in the application's hands;
\* "waiting" has sent a Detach of detach() or close(); "reclosing" the one of
\* reattach_then_close; "refused" the one of a failed attach; "suspended" is a
\* DetachedSender or DetachedReceiver; "gone".  goal: what the allocation is for.
NewLink == [pc |-> "idle", goal |-> "attach", name |-> "", state |-> "Unattached",
            handle |-> NoHandle, inbox |-> <<>>, peer |-> Nobody, life |-> 0, resumes |-> 0, asked |-> 0]

Me(p, e) == <<e, link[<<p, e>>].life>>
\* The receiving half of the channel of an attachment exists.
Alive(p, a) == link[<<p, a[1]>>].pc # "gone" /\ link[<<p, a[1]>>].life = a[2]
\* A mishap is one of:
\*   cancelled  an attach, accept or resume was dropped half-way;
\*   crossed    a close and a suspension crossed, and reattach_then_close has begun;
\*   strayed    a queued Detach met its handle in the hands of the next link;
\*   misread    close_pending named a handle that two links had used;
\*   misused    a link that was closed was resumed, and keeps a handle it cannot use;
\*   resumed    resume_incoming_attach, which leaves the peer's handle unregistered.
Fine == \A p \in Peer : failure[p] = "none"
InUse == {"allocating", "allocated", "attaching", "waiting", "reclosing", "refused"}

-----------------------------------------------------------------------------
(* The link endpoints.                                                     *)

\* session::allocate_link and allocate_incoming_link: a request with a responder.
Request(p, e, input) == control' = [control EXCEPT ![p] = Append(@, [end |-> e, input |-> input])]

Submit(p, f) == frames' = [frames EXCEPT ![p] = Append(@, f)]

\* send_detach takes the handle away, whatever becomes of the frame.
Closing(l, closed) == [l EXCEPT !.state = IF closed THEN "CloseSent" ELSE "DetachSent", !.handle = NoHandle]
\* handle_attach_error: an attach that failed is closed at once and one more frame read.
Refused(l) == [Closing(l, TRUE) EXCEPT !.pc = "refused"]
\* on_incoming_attach fails on an Attach without the terminus the peer is to provide.
Wanting(f) == f.flag

\* Builder::attach: the name is the application's choice.
Attach(e, n) ==
    LET l == link[<<Client, e>>]
    IN /\ e = 1 => n = FirstName
       /\ l.pc = "idle" /\ \A d \in End(Client) : d < e => link[<<Client, d>>].pc # "idle"
       /\ link' = [link EXCEPT ![<<Client, e>>] = [l EXCEPT !.pc = "allocating", !.name = n, !.life = @ + 1]]
       /\ Request(Client, e, NoHandle)
       /\ UNCHANGED <<tables, frames, wire, backlog, failure, mishap>>

\* LinkAcceptor::accept, one at a time since it borrows the session handle.
Accept(e) ==
    LET l == link[<<Listener, e>>]
    IN /\ backlog # <<>> /\ l.pc = "idle"
       /\ \A d \in End(Listener) : link[<<Listener, d>>].pc \notin {"allocating", "allocated"}
       /\ \A d \in End(Listener) : d < e => link[<<Listener, d>>].pc # "idle"
       /\ link' = [link EXCEPT ![<<Listener, e>>] =
                     [l EXCEPT !.pc = "allocating", !.name = Head(backlog).name, !.life = @ + 1,
                               !.peer = Head(backlog).from]]
       /\ Request(Listener, e, Head(backlog).handle)
       /\ backlog' = Tail(backlog)
       /\ UNCHANGED <<tables, frames, wire, failure, mishap>>

\* accept_incoming_attach, after the allocation: the peer's Attach is examined, the own
\* one sent; if it is found wanting the link is detached at once and one more frame read.
AnswerAttach(e, refuse) ==
    LET l == link[<<Listener, e>>]
        f == AttachFrame(Me(Listener, e), l.name, l.handle, refuse)
    IN /\ l.pc = "allocated" /\ l.goal = "attach" /\ (refuse => "refuse" \in Calls[<<Listener, e>>])
       /\ link' = [link EXCEPT ![<<Listener, e>>] =
                     IF refuse THEN Refused(@) ELSE [@ EXCEPT !.state = "Attached", !.pc = "up"]]
       /\ frames' = [frames EXCEPT ![Listener] =
                       @ \o <<f>> \o (IF refuse THEN <<DetachFrame(Me(Listener, e), l.handle, TRUE)>> ELSE <<>>)]
       /\ UNCHANGED <<tables, control, wire, backlog, failure, mishap>>

\* send_attach_inner: the states an Attach may be sent from.
MayAttach(state) == state \in {"Unattached", "Detached", "DetachSent", "AttachReceived"}

\* exchange_attach sends the Attach, or fails with IllegalState and gives the endpoint
\* back to the application with the handle it has just been allocated.
SendAttach(p, e) ==
    LET l == link[<<p, e>>]
    IN /\ l.pc = "allocated" /\ (p = Client \/ l.goal # "attach")
       /\ IF MayAttach(l.state)
          THEN /\ link' = [link EXCEPT ![<<p, e>>].state = "AttachSent", ![<<p, e>>].pc = "attaching"]
               /\ Submit(p, AttachFrame(Me(p, e), l.name, l.handle, FALSE))
               /\ UNCHANGED mishap
          ELSE /\ link' = [link EXCEPT ![<<p, e>>].pc = "suspended"]
               /\ mishap' = mishap \cup {"misused"}
               /\ UNCHANGED frames
       /\ UNCHANGED <<tables, control, wire, backlog, failure>>

\* on_incoming_attach and what each caller of exchange_attach goes on with: an Attach
\* without a terminus is answered by a closing Detach (handle_attach_error), a reattach
\* by the closing Detach it is for (reattach_then_close).
OnIncomingAttach(p, e) ==
    LET l == link[<<p, e>>]
        f == Head(l.inbox)
        on == [l EXCEPT !.inbox = Tail(@), !.peer = f.from]
    IN /\ l.pc = "attaching" /\ l.inbox # <<>> /\ f.type = "Attach"
       /\ \/ /\ ~Wanting(f) /\ l.goal \in {"attach", "resume"}
             /\ link' = [link EXCEPT ![<<p, e>>] = [on EXCEPT !.state = "Attached", !.pc = "up"]]
             /\ UNCHANGED frames
          \/ /\ ~Wanting(f) /\ l.goal \in {"close", "detach"}
             /\ link' = [link EXCEPT ![<<p, e>>] = [Closing(on, TRUE) EXCEPT !.pc = "reclosing"]]
             /\ Submit(p, DetachFrame(Me(p, e), l.handle, TRUE))
          \/ /\ Wanting(f)
             /\ link' = [link EXCEPT ![<<p, e>>] = Refused(on)]
             /\ Submit(p, DetachFrame(Me(p, e), l.handle, TRUE))
       /\ UNCHANGED <<tables, control, wire, backlog, failure, mishap>>

\* Mutant: an end the application has seen is awaited once more.
CloseOrDetachTwice(p, e, closed) ==
    LET l == link[<<p, e>>]
    IN /\ l.pc = "up" /\ (IF closed THEN "close" ELSE "detach") \in Calls[<<p, e>>]
       /\ link' = [link EXCEPT ![<<p, e>>] =
                     [Closing(@, closed) EXCEPT !.pc = "waiting"]]
       /\ IF l.state = "Attached" THEN Submit(p, DetachFrame(Me(p, e), l.handle, closed)) ELSE UNCHANGED frames
       /\ UNCHANGED <<tables, control, wire, backlog, failure, mishap>>

\* close() and detach() on a link that is up.  A link whose end the application has seen
\* already needs no Detach.
CloseOrDetach(p, e, closed) ==
    LET l == link[<<p, e>>]
    IN /\ l.pc = "up" /\ (IF closed THEN "close" ELSE "detach") \in Calls[<<p, e>>]
       /\ IF l.state = "Attached"
          THEN /\ link' = [link EXCEPT ![<<p, e>>] =
                             [Closing(@, closed) EXCEPT !.pc = "waiting"]]
               /\ Submit(p, DetachFrame(Me(p, e), l.handle, closed))
          ELSE /\ link' = [link EXCEPT ![<<p, e>>].pc = IF closed THEN "gone" ELSE "suspended"]
               /\ UNCHANGED frames
       /\ UNCHANGED <<tables, control, wire, backlog, failure, mishap>>

\* apply_remote_detach_outcome.
Applied(l, f) == [l EXCEPT !.inbox = Tail(@), !.state = IF f.flag THEN "Closed" ELSE "Detached",
                           !.handle = NoHandle]

\* send(), recv() and on_detach() meet the peer's Detach.
ObserveDetach(p, e) ==
    LET l == link[<<p, e>>]
    IN /\ l.pc = "up" /\ l.inbox # <<>> /\ Head(l.inbox).type = "Detach"
       /\ link' = [link EXCEPT ![<<p, e>>] = Applied(l, Head(l.inbox))]
       /\ UNCHANGED <<tables, control, frames, wire, backlog, failure, mishap>>

\* recv_remote_detach in close_with_error and detach_with_error.  An answer of the other
\* kind than the Detach sent (a close that crossed a suspension) starts reattach_then_close,
\* whose first step is reallocate_output_handle with a new channel.
OnDetachReply(p, e) ==
    LET l == link[<<p, e>>]
        f == Head(l.inbox)
        crossed == f.flag # (l.state = "CloseSent")
        done == [Applied(l, f) EXCEPT !.pc = IF f.flag THEN "gone" ELSE "suspended"]
        again == [l EXCEPT !.inbox = <<>>, !.pc = "allocating", !.life = @ + 1,
                           !.goal = IF f.flag THEN "detach" ELSE "close",
                           !.state = IF f.flag THEN @ ELSE "Detached"]
    IN /\ l.pc = "waiting" /\ l.inbox # <<>> /\ f.type = "Detach"
       /\ \/ /\ ~crossed
             /\ link' = [link EXCEPT ![<<p, e>>] = done]
             /\ UNCHANGED <<control, mishap>>
          \/ /\ crossed
             /\ link' = [link EXCEPT ![<<p, e>>] = again]
             /\ Request(p, e, NoHandle)
             /\ mishap' = mishap \cup {"crossed"}
       /\ UNCHANGED <<tables, frames, wire, backlog, failure>>

\* The last recv_remote_detach of reattach_then_close, and recv_detach of a failed attach.
OnLastDetach(p, e) ==
    LET l == link[<<p, e>>]
        f == Head(l.inbox)
    IN /\ l.pc \in {"reclosing", "refused"} /\ l.inbox # <<>> /\ f.type = "Detach"
       /\ link' = [link EXCEPT ![<<p, e>>] =
                     [(IF f.flag THEN Applied(l, f) ELSE [l EXCEPT !.inbox = Tail(@)])
                        EXCEPT !.pc = IF l.pc = "reclosing" /\ l.goal = "detach" THEN "suspended" ELSE "gone"]]
       /\ UNCHANGED <<tables, control, frames, wire, backlog, failure, mishap>>

\* DetachedSender::resume and DetachedReceiver::resume.
Resume(p, e) ==
    LET l == link[<<p, e>>]
    IN /\ p = Client /\ l.pc = "suspended" /\ l.resumes < MaxResumes
       /\ link' = [link EXCEPT ![<<p, e>>] =
                     [l EXCEPT !.pc = "allocating", !.goal = "resume", !.inbox = <<>>, !.life = @ + 1, !.resumes = @ + 1]]
       /\ Request(p, e, NoHandle)
       /\ UNCHANGED <<tables, frames, wire, backlog, failure, mishap>>

\* resume_incoming_attach with the Attach of the peer, taken from the listener.  The link
\* is allocated by name alone: its input handle is not registered.
ResumeIncomingAttach(e) ==
    LET l == link[<<Listener, e>>]
    IN /\ l.pc = "suspended" /\ l.resumes < MaxResumes /\ l.state = "Detached"
       /\ backlog # <<>> /\ Head(backlog).name = l.name
       /\ link' = [link EXCEPT ![<<Listener, e>>] =
                     [l EXCEPT !.pc = "allocating", !.goal = "resume", !.life = @ + 1, !.resumes = @ + 1,
                               !.inbox = <<Head(backlog)>>]]
       /\ Request(Listener, e, NoHandle)
       /\ backlog' = Tail(backlog)
       /\ mishap' = mishap \cup {"resumed"}
       /\ UNCHANGED <<tables, frames, wire, failure>>

\* Mutant: a link that is dropped leaves its Detach to nobody.
DropLinkSilently(p, e) ==
    LET l == link[<<p, e>>]
    IN /\ "drop" \in Calls[<<p, e>>] /\ l.pc \in {"up", "waiting", "reclosing", "suspended"}
       /\ link' = [link EXCEPT ![<<p, e>>] = [@ EXCEPT !.pc = "gone", !.inbox = <<>>, !.handle = NoHandle]]
       /\ UNCHANGED <<tables, control, frames, wire, backlog, failure, mishap>>

\* Whether dropping an inner sends a Detach: the peer's is not in the channel.
MustDetach(l) == l.handle # NoHandle /\ \A i \in DOMAIN l.inbox : l.inbox[i].type # "Detach"

\* Drop of SenderInner or ReceiverInner: a Detach for a handle still held, unless the
\* peer's is in the channel.  A future of attach() or accept() holds no inner: nothing is
\* sent.
DropLink(p, e) ==
    LET l == link[<<p, e>>]
        exchanging == l.pc \in {"allocating", "allocated", "attaching"}
        inner == ~(exchanging /\ l.goal = "attach")
    IN /\ "drop" \in Calls[<<p, e>>]
       /\ l.pc \in {"allocating", "allocated", "attaching", "up", "waiting", "reclosing", "suspended"}
       /\ link' = [link EXCEPT ![<<p, e>>] = [@ EXCEPT !.pc = "gone", !.inbox = <<>>, !.handle = NoHandle]]
       /\ IF inner /\ MustDetach(l)
          THEN Submit(p, DetachFrame(Me(p, e), l.handle, TRUE))
          ELSE UNCHANGED frames
       /\ mishap' = IF exchanging THEN mishap \cup {"cancelled"} ELSE mishap
       /\ UNCHANGED <<tables, control, wire, backlog, failure>>

-----------------------------------------------------------------------------
(* The session engine.                                                     *)

\* What the endpoint does with AllocLinkError.
Unallocated(l) == [l EXCEPT !.pc = IF l.goal \in {"attach", "close"} THEN "gone" ELSE "suspended"]

\* Session::allocate_link and allocate_incoming_link; on_control answers the responder.
Allocate(p) ==
    LET c == Head(control[p])
        l == link[<<p, c.end>>]
        a == Me(p, c.end)
        h == Head(vacant[p])
    IN /\ control[p] # <<>>
       /\ control' = [control EXCEPT ![p] = Tail(@)]
       /\ \/ /\ l.pc = "gone"
             /\ failure' = [failure EXCEPT ![p] = "UnattachedHandle"]
             /\ UNCHANGED <<link, tables>>
          \/ /\ l.pc # "gone" /\ by_name[p][l.name] # Absent
             /\ link' = [link EXCEPT ![<<p, c.end>>] = Unallocated(l)]
             /\ UNCHANGED <<tables, failure>>
          \/ /\ l.pc # "gone" /\ by_name[p][l.name] = Absent
             /\ link' = [link EXCEPT ![<<p, c.end>>].pc = "allocated", ![<<p, c.end>>].handle = h]
             /\ slab' = [slab EXCEPT ![p][h] = a]
             /\ vacant' = [vacant EXCEPT ![p] = Tail(@)]
             /\ by_name' = [by_name EXCEPT ![p][l.name] =
                              IF c.input = NoHandle THEN Relay(a, h) ELSE Taken]
             /\ by_in' = IF c.input = NoHandle THEN by_in
                         ELSE [by_in EXCEPT ![p][c.input] = Relay(a, h)]
             /\ UNCHANGED <<close_pending, failure>>
       /\ UNCHANGED <<frames, wire, backlog, mishap>>

Deallocate(p, h) ==
    IF slab[p][h] = Nobody THEN UNCHANGED <<slab, vacant, by_name>>
    ELSE /\ slab' = [slab EXCEPT ![p][h] = Nobody]
         /\ vacant' = [vacant EXCEPT ![p] = <<h>> \o @]
         /\ by_name' = [by_name EXCEPT ![p][link[<<p, slab[p][h][1]>>].name] = Absent]

\* on_outgoing_detach with expects_echo: a Detach for a handle that is vacant repeats the
\* session's own reply and is dropped.
RepeatsNever(p, h) == FALSE   \* mutant: a crossing Detach is sent although the reply has gone out
Repeats(p, h) == slab[p][h] = Nobody

\* on_outgoing_link_frames.
OnOutgoingLinkFrame(p) ==
    LET f == Head(frames[p])
    IN /\ frames[p] # <<>>
       /\ frames' = [frames EXCEPT ![p] = Tail(@)]
       /\ \/ /\ f.type = "Attach"
             /\ wire' = [wire EXCEPT ![p] = Append(@, f)]
             /\ UNCHANGED <<link, tables, mishap>>
          \/ /\ f.type = "Detach" /\ Repeats(p, f.handle)
             /\ UNCHANGED <<link, tables, wire, mishap>>
          \/ /\ f.type = "Detach" /\ ~Repeats(p, f.handle)
             /\ Deallocate(p, f.handle)
             /\ close_pending' = [close_pending EXCEPT ![p] = @ \cup {f.handle}]
             /\ wire' = [wire EXCEPT ![p] = Append(@, f)]
             /\ mishap' = IF slab[p][f.handle] \notin {Nobody, f.from} THEN mishap \cup {"strayed"} ELSE mishap
             /\ link' = [link EXCEPT ![<<p, f.from[1]>>].asked = f.from[2]]
             /\ UNCHANGED by_in
       /\ UNCHANGED <<control, backlog, failure>>

Deliver(p, a, f) == link' = IF Alive(p, a) THEN [link EXCEPT ![<<p, a[1]>>].inbox = Append(@, f)] ELSE link

\* The key a relay is registered under: the peer's handle.  Mutant: our own.
OwnHandle(f, relay) == relay.out
InputHandle(f, relay) == f.handle

\* Session::on_incoming_attach, and ListenerSession::on_incoming_attach, which hands to
\* the acceptor what the client has no use for.
OnIncomingAttachFrame(p, f) ==
    LET relay == by_name[p][f.name]
    IN \/ /\ relay.who # Nobody /\ Alive(p, relay.who)
          /\ Deliver(p, relay.who, f)
          /\ by_name' = [by_name EXCEPT ![p][f.name] = Taken]
          /\ by_in' = [by_in EXCEPT ![p][InputHandle(f, relay)] = relay]
          /\ UNCHANGED <<slab, vacant, close_pending, backlog, failure>>
       \/ /\ relay.who # Nobody /\ ~Alive(p, relay.who)
          /\ failure' = [failure EXCEPT ![p] = "UnattachedHandle"]
          /\ UNCHANGED <<link, tables, backlog>>
       \/ /\ relay.who = Nobody /\ p = Listener
          /\ backlog' = Append(backlog, f)
          /\ UNCHANGED <<link, tables, failure>>
       \/ /\ relay.who = Nobody /\ p = Client
          /\ failure' = [failure EXCEPT ![p] = IF relay.taken THEN "HandleInUse"
                                               ELSE "RemoteAttachingLinkNameNotFound"]
          /\ UNCHANGED <<link, tables, backlog>>

\* Session::on_incoming_detach and the reply it makes the engine send: a Detach that
\* answers none of ours is answered, a Detach for an unknown handle ignored.
Answers(p, relay) == relay.out \in close_pending[p]
\* Whether the link has in fact sent a Detach.
Asked(p, a) == link[<<p, a[1]>>].asked = a[2]

OnIncomingDetachFrame(p, f) ==
    LET relay == by_in[p][f.handle]
    IN /\ UNCHANGED <<backlog, failure>>
       /\ \/ /\ relay = Absent
             /\ UNCHANGED <<link, tables, mishap>> /\ wire' = [wire EXCEPT ![Other(p)] = Tail(@)]
          \/ /\ relay # Absent
             /\ mishap' = IF Answers(p, relay) = Asked(p, relay.who) THEN mishap ELSE mishap \cup {"misread"}
             /\ by_in' = [by_in EXCEPT ![p][f.handle] = Absent]
             /\ Deliver(p, relay.who, f)
             /\ \/ /\ Answers(p, relay)
                   /\ close_pending' = [close_pending EXCEPT ![p] = @ \ {relay.out}]
                   /\ wire' = [wire EXCEPT ![Other(p)] = Tail(@)]
                   /\ UNCHANGED <<slab, vacant, by_name>>
                \/ /\ ~Answers(p, relay)
                   /\ Deallocate(p, relay.out)
                   /\ wire' = [wire EXCEPT ![Other(p)] = Tail(@),
                                           ![p] = Append(@, DetachFrame(relay.who, relay.out, f.flag))]
                   /\ UNCHANGED close_pending

\* on_incoming: the next frame of the peer.
OnIncoming(p) ==
    LET f == Head(wire[Other(p)])
    IN /\ wire[Other(p)] # <<>>
       /\ \/ /\ f.type = "Attach" /\ OnIncomingAttachFrame(p, f)
             /\ wire' = [wire EXCEPT ![Other(p)] = Tail(@)]
             /\ UNCHANGED mishap
          \/ f.type = "Detach" /\ OnIncomingDetachFrame(p, f)
       /\ UNCHANGED <<control, frames>>

-----------------------------------------------------------------------------
Init ==
    /\ link = [x \in Endpoint |-> NewLink]
    /\ slab = [p \in Peer |-> [h \in Handle |-> Nobody]]
    /\ vacant = [p \in Peer |-> [i \in 1 .. Cardinality(Handle) |-> i - 1]]
    /\ by_name = [p \in Peer |-> [n \in Names |-> Absent]]
    /\ by_in = [p \in Peer |-> [h \in Handle |-> Absent]]
    /\ close_pending = [p \in Peer |-> {}]
    /\ control = [p \in Peer |-> <<>>] /\ frames = [p \in Peer |-> <<>>] /\ wire = [p \in Peer |-> <<>>]
    /\ backlog = <<>>
    /\ failure = [p \in Peer |-> "none"]
    /\ mishap = {}

\* What goes on without the application: engines, and procedures already called.
Engine(p) == Allocate(p) \/ OnOutgoingLinkFrame(p) \/ OnIncoming(p)
Procedure(p, e) == SendAttach(p, e) \/ OnIncomingAttach(p, e) \/ OnDetachReply(p, e) \/ OnLastDetach(p, e)
\* An acceptor loop takes what arrives.
Acceptor == \E e \in End(Listener) : Accept(e) \/ (\E refuse \in BOOLEAN : AnswerAttach(e, refuse))
\* Bound: nothing is followed up after a second mishap.
System ==
    /\ Fine /\ Cardinality(mishap) <= 1
    /\ \/ \E p \in Peer : Engine(p)
       \/ \E x \in Endpoint : Procedure(x[1], x[2])
       \/ Acceptor

\* The calls of the applications.  Bound: none are made after a mishap.
Application ==
    /\ Fine /\ mishap = {}
    /\ \/ \E e \in End(Client), n \in Names : Attach(e, n)
       \/ \E x \in Endpoint : \/ \E closed \in BOOLEAN : CloseOrDetach(x[1], x[2], closed)
                              \/ ObserveDetach(x[1], x[2])
                              \/ Resume(x[1], x[2])
                              \/ DropLink(x[1], x[2])
       \/ \E e \in End(Listener) : ResumeIncomingAttach(e)

Next == System \/ Application
Spec == Init /\ [][Next]_vars
\* The engines are tasks that are polled, and so are the procedures the application
\* awaits; nothing makes the application call.
FairSpec == Spec /\ WF_vars(System)

-----------------------------------------------------------------------------
LinkStates == {"Unattached", "AttachSent", "Attached", "DetachSent", "CloseSent", "Detached", "Closed"}

\* The type invariant; free list and slab are two views of the same handles.
TypeOK ==
    /\ \A x \in Endpoint :
          /\ link[x].pc \in InUse \cup {"idle", "up", "suspended", "gone"}
          /\ link[x].state \in LinkStates /\ link[x].handle \in Handle \cup {NoHandle}
    /\ slab \in [Peer -> [Handle -> Nat \X Nat]]
    /\ \A p \in Peer : /\ ToSet(vacant[p]) = {h \in Handle : slab[p][h] = Nobody}
                       /\ IsInjective(vacant[p]) /\ close_pending[p] \subseteq Handle

\* A frame reaches the endpoint it was meant for: the Detach in a link's channel comes
\* from the endpoint it exchanged its Attach with, although both the names and the
\* handles have been used before (session/mod.rs, link_by_name, link_by_input_handle).
ReachesPartner ==
    mishap = {} =>
        \A x \in Endpoint : \A i \in DOMAIN link[x].inbox :
            LET f == link[x].inbox[i]
                y == <<Other(x[1]), f.from[1]>>
            IN /\ f.type = "Attach" => link[y].name = link[x].name
               /\ (f.type = "Detach" /\ link[x].pc \in {"up", "waiting", "reclosing", "refused"}) => f.from = link[x].peer

\* Attaching and detaching, crossing or not, does not end the session, which would take
\* every other link with it: an error needs one of the mishaps, that is an exchange that was
\* cancelled half-way, a close that crossed a suspension, a Detach that met a handle in its
\* next life ("strayed", "misread"), a resumption of a closed link ("misused") or one by
\* resume_incoming_attach ("resumed"); session/mod.rs on_incoming_attach, session/engine.rs
\* on_control.
SessionSurvives == ~Fine => mishap # {}

\* Once all is quiet every handle is either held by a link that is attached at both ends
\* or vacant, and no answer is awaited (close_pending, "would stay stale and could make a
\* later detach on a reused handle look like it is waiting for an answer").
Quiet == /\ \A p \in Peer : control[p] = <<>> /\ frames[p] = <<>> /\ wire[p] = <<>>
         /\ backlog = <<>> /\ \A x \in Endpoint : link[x].pc \notin InUse
NothingLeftBehind ==
    (Fine /\ Quiet /\ mishap = {}) =>
        \A p \in Peer :
            /\ close_pending[p] = {}
            /\ \A h \in Handle : slab[p][h] # Nobody =>
                  LET l == link[<<p, slab[p][h][1]>>]
                  IN l.pc = "up" /\ l.handle = h /\ link[<<Other(p), l.peer[1]>>].pc = "up"

\* Every attach, detach and close that was begun comes to its end, whatever crosses it
\* (link/shared_inner.rs: each awaits an answer without a time limit).
ExchangesComplete == <>[](mishap # {} \/ \A x \in Endpoint : link[x].pc \notin InUse)
=============================================================================
