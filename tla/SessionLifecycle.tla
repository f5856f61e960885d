--------------------------- MODULE SessionLifecycle ---------------------------
(***************************************************************************)
(* Sessions on a connection: channel allocation, routing, begin and end.   *)
(* Client and listener each run a connection engine and a task per         *)
(* session, joined by bounded channels.  The client begins sessions; the   *)
(* connection engine of the listener creates their counterparts, which the *)
(* application accepts or drops.                                           *)
(*                                                                         *)
(* Of the frames inside a session three kinds matter here: "ask" is        *)
(* answered by the session itself ("answer": the flow for an echo or a     *)
(* used-up window, the detach for a remote detach), "bad" ends the session *)
(* with an error (an unattached handle).  Every frame carries the session  *)
(* s it belongs to, which no action of the engines looks at.               *)
(***************************************************************************)
EXTENDS Integers, Sequences

CONSTANTS
    Client, Listener,
    Sessions,       \* the sessions the client may begin
    ChannelMax,     \* agreed_channel_max
    Buffer,         \* capacity of the channels between connection and sessions
    Cancellable,    \* sessions whose Session::begin() may be dropped half-way
    Refusable,      \* sessions the listener may drop instead of accepting
    LinkFrames,     \* bound: [Endpoint -> the frames its links may send, in order]
    EndRequests     \* bound: [Endpoint -> the ends it may ask for, TRUE with an error]

Peer == {Client, Listener}
Other(p) == IF p = Client THEN Listener ELSE Client
Endpoint == Peer \X Sessions
Channel == 0 .. ChannelMax
NoChannel == -1
NoSession == "none"

ASSUME PeersDiffer == Client # Listener
ASSUME BoundsAreNat == {ChannelMax, Buffer} \subseteq Nat /\ Buffer > 0
                       /\ LinkFrames \in [Endpoint -> Seq({"ask", "bad"})]
                       /\ EndRequests \in [Endpoint -> Seq(BOOLEAN)]
ASSUME SubsetAssumption == Cancellable \subseteq Sessions /\ Refusable \subseteq Sessions
                           /\ NoSession \notin Sessions

VARIABLES
    conn,        \* [Peer -> "Opened" or why the engine stopped]
    by_out,      \* session_by_outgoing_channel, a slab: [Peer -> [Channel -> session]]
    vacant,      \* the slab's free list, last freed first, then the untouched keys
    by_in,       \* session_by_incoming_channel: [Peer -> [Channel -> session]]
    control,     \* ConnectionControl: [Peer -> Seq]
    outgoing,    \* frames from the sessions to the connection: [Peer -> Seq]
    wire,        \* frames sent and not yet received: [Peer -> Seq]
    forwarding,  \* the frame the engine is handing to a session, at most one
    task,        \* [Endpoint -> where the session's task is]
    state,       \* [Endpoint -> local_state]
    chan,        \* [Endpoint -> outgoing channel]
    remote,      \* [Endpoint -> incoming channel]
    incoming,    \* [Endpoint -> frames from the connection]
    sending,     \* [Endpoint -> frames the session is handing to the connection]
    links,       \* [Endpoint -> frames of the links, in the channel to the session]
    ends,        \* [Endpoint -> SessionControl::End requests, TRUE with an error]
    left,        \* [Endpoint -> the frames and ends still to be asked for]
    outcome,     \* [Endpoint -> result of the event loop]
    late         \* the endpoints that sent a frame behind their End

conns == <<conn, by_out, vacant, by_in, control, outgoing, wire, forwarding>>
tasks == <<task, state, chan, remote, incoming, sending, links, ends, left, outcome, late>>
vars == <<conns, tasks>>

Frame(type, s, ch, rem, err) == [type |-> type, s |-> s, ch |-> ch, remote |-> rem, error |-> err]

States == {"Unmapped", "BeginSent", "BeginReceived", "Mapped", "EndSent", "Discarding"}
\* "dropped": the future or the handle that held the channels is gone; "failed": begin()
\* returned an error; "gone": the event loop is over.
Tasks == {"none", "alloc", "begin", "answer", "offered", "select", "waiting", "discarding",
          "stopping", "dropped", "failed", "gone"}

\* The receiving half of a session's incoming channel exists.
Listening(e) == task[e] \in {"alloc", "begin", "answer", "offered", "select", "waiting",
                             "discarding", "stopping"}

Set(f, e, v) == [f EXCEPT ![e] = v]

-----------------------------------------------------------------------------
(***************************************************************************)
(* The connection engine                                                   *)
(***************************************************************************)
Runs(p) == conn[p] = "Opened" /\ forwarding[p] = <<>>

\* The event loop ends with an error and closes the connection.
Fail(p, reason) == conn' = Set(conn, p, reason)

\* Connection::allocate_session for the endpoint e: the key is the slab's.
Allocate(p, e) ==
    /\ by_out' = [by_out EXCEPT ![p][Head(vacant[p])] = e[2]]
    /\ vacant' = [vacant EXCEPT ![p] = Tail(@)]
    /\ chan' = Set(chan, e, Head(vacant[p]))

\* ConnectionControl::AllocateSession: the answer fails when begin() was dropped.
OnControlAllocate(p) ==
    LET e == <<p, Head(control[p]).s>>
        full == vacant[p] = <<>>
    IN /\ Runs(p) /\ control[p] # <<>> /\ Head(control[p]).op = "allocate"
       /\ control' = [control EXCEPT ![p] = Tail(@)]
       /\ IF full THEN UNCHANGED <<by_out, vacant, chan>> ELSE Allocate(p, e)
       /\ IF task[e] = "dropped" THEN Fail(p, "IllegalState") /\ UNCHANGED <<task, outcome>>
          ELSE /\ task' = Set(task, e, IF full THEN "failed" ELSE "begin")
               /\ outcome' = IF full THEN Set(outcome, e, "LocalChannelMaxReached") ELSE outcome
               /\ UNCHANGED conn
       /\ UNCHANGED <<by_in, outgoing, wire, forwarding, state, remote, incoming, sending, links,
                      ends, left, late>>

\* ConnectionControl::DeallocateSession
OnControlDeallocate(p) ==
    LET ch == Head(control[p]).ch
    IN /\ Runs(p) /\ control[p] # <<>> /\ Head(control[p]).op = "deallocate"
       /\ control' = [control EXCEPT ![p] = Tail(@)]
       /\ by_out' = [by_out EXCEPT ![p][ch] = NoSession]
       /\ vacant' = [vacant EXCEPT ![p] = <<ch>> \o @]
       /\ UNCHANGED <<conn, by_in, outgoing, wire, forwarding, tasks>>

\* on_outgoing_session_frames
OnOutgoingSessionFrames(p) ==
    /\ Runs(p) /\ outgoing[p] # <<>>
    /\ outgoing' = [outgoing EXCEPT ![p] = Tail(@)]
    /\ wire' = [wire EXCEPT ![p] = Append(@, Head(outgoing[p]))]
    /\ UNCHANGED <<conn, by_out, vacant, by_in, control, forwarding, tasks>>

Arrived(p, types) ==
    /\ Runs(p) /\ wire[Other(p)] # <<>> /\ Head(wire[Other(p)]).type \in types
    /\ wire' = [wire EXCEPT ![Other(p)] = Tail(@)]

\* Connection::on_incoming_begin: the answer to a session of this side.
OnIncomingBeginAnswer(p) ==
    LET f == Head(wire[Other(p)])
        s == by_out[p][f.remote]
    IN /\ Arrived(p, {"begin"}) /\ f.remote # NoChannel
       /\ IF s = NoSession THEN Fail(p, "NotFound") /\ UNCHANGED <<by_in, forwarding>>
          ELSE /\ by_in' = [by_in EXCEPT ![p][f.ch] = s]
               /\ forwarding' = [forwarding EXCEPT ![p] = <<<<s, f>>>>]
               /\ UNCHANGED conn
       /\ UNCHANGED <<by_out, vacant, control, outgoing, tasks>>

\* ListenerConnection::on_incoming_begin: a session of the other side.  The channel is
\* allocated at once, so that what follows the begin has somewhere to go.
OnIncomingBegin(p) ==
    LET f == Head(wire[Other(p)])
        e == <<p, f.s>>
    IN /\ p = Listener /\ Arrived(p, {"begin"}) /\ f.remote = NoChannel
       /\ IF vacant[p] = <<>>
          THEN Fail(p, "NotImplemented") /\ UNCHANGED <<by_out, vacant, chan, by_in, task, remote>>
          ELSE /\ Allocate(p, e)
               /\ by_in' = [by_in EXCEPT ![p][f.ch] = f.s]
               /\ task' = Set(task, e, "offered")
               /\ remote' = Set(remote, e, f.ch)
               /\ UNCHANGED conn
       /\ UNCHANGED <<control, outgoing, forwarding, state, incoming, sending, links, ends, left,
                      outcome, late>>

\* session_tx_by_incoming_channel
RecipientByOutgoing(p, ch) == by_out[p][ch]
RecipientInEitherMap(p, ch) == IF by_out[p][ch] # NoSession THEN by_out[p][ch] ELSE by_in[p][ch]
Recipient(p, ch) == by_in[p][ch]

\* forward_to_session, and on_incoming_end, which forgets the incoming channel first.
OnIncomingSessionFrame(p) ==
    LET f == Head(wire[Other(p)])
        s == Recipient(p, f.ch)
    IN /\ Arrived(p, {"end", "ask", "answer", "bad"})
       /\ IF s = NoSession THEN Fail(p, "NotFound") /\ UNCHANGED <<by_in, forwarding>>
          ELSE /\ forwarding' = [forwarding EXCEPT ![p] = <<<<s, f>>>>]
               /\ by_in' = IF f.type = "end" THEN [by_in EXCEPT ![p][f.ch] = NoSession] ELSE by_in
               /\ UNCHANGED conn
       /\ UNCHANGED <<by_out, vacant, control, outgoing, tasks>>

\* Room for one more frame in a channel.
HasRoom(q) == Len(q) < Buffer

\* relay.send(frame).await: the engine does nothing else until the session has room.
Forward(p) ==
    LET e == <<p, forwarding[p][1][1]>>
    IN /\ conn[p] = "Opened" /\ forwarding[p] # <<>>
       /\ Listening(e) => HasRoom(incoming[e])
       /\ IF Listening(e) THEN incoming' = [incoming EXCEPT ![e] = Append(@, forwarding[p][1][2])] /\ UNCHANGED conn
          ELSE Fail(p, "NotFound") /\ UNCHANGED incoming
       /\ forwarding' = [forwarding EXCEPT ![p] = <<>>]
       /\ UNCHANGED <<by_out, vacant, by_in, control, outgoing, wire, task, state, chan, remote,
                      sending, links, ends, left, outcome, late>>

\* The Close of a peer whose engine failed; closing is ConnectionLifecycle's subject.
OnIncomingClose(p) ==
    /\ Runs(p) /\ conn[Other(p)] # "Opened" /\ wire[Other(p)] = <<>>
    /\ Fail(p, "RemoteClosed")
    /\ UNCHANGED <<by_out, vacant, by_in, control, outgoing, wire, forwarding, tasks>>

-----------------------------------------------------------------------------
(***************************************************************************)
(* Beginning                                                               *)
(***************************************************************************)
\* Session::begin(): asks the connection for a channel.
Begin(s) ==
    LET e == <<Client, s>>
    IN /\ task[e] = "none" /\ conn[Client] = "Opened"
       /\ task' = Set(task, e, "alloc")
       /\ control' = [control EXCEPT ![Client] = Append(@, [op |-> "allocate", s |-> s])]
       /\ UNCHANGED <<conn, by_out, vacant, by_in, outgoing, wire, forwarding, state, chan, remote,
                      incoming, sending, links, ends, left, outcome, late>>

\* The future is dropped, with the channels and the frame it was about to send.
CancelBegin(s) ==
    LET e == <<Client, s>>
    IN /\ s \in Cancellable /\ conn[Client] = "Opened" /\ task[e] \in {"alloc", "begin", "answer"}
       /\ task' = Set(task, e, "dropped")
       /\ sending' = Set(sending, e, <<>>)
       /\ incoming' = Set(incoming, e, <<>>)
       /\ UNCHANGED <<conns, state, chan, remote, links, ends, left, outcome, late>>

\* begin_client_session: Session::send_begin
SendBegin(s) ==
    LET e == <<Client, s>>
    IN /\ task[e] = "begin" /\ conn[Client] = "Opened"
       /\ task' = Set(task, e, "answer")
       /\ state' = Set(state, e, "BeginSent")
       /\ sending' = Set(sending, e, <<Frame("begin", s, chan[e], NoChannel, FALSE)>>)
       /\ UNCHANGED <<conns, chan, remote, incoming, links, ends, left, outcome, late>>

Received(e) == conn[e[1]] = "Opened" /\ sending[e] = <<>> /\ incoming[e] # <<>>
Taken(e) == incoming' = [incoming EXCEPT ![e] = Tail(@)]

\* begin_client_session: the answer
OnIncomingBeginFrame(s) ==
    LET e == <<Client, s>>
    IN /\ task[e] = "answer" /\ Received(e) /\ Head(incoming[e]).type = "begin"
       /\ Taken(e)
       /\ task' = Set(task, e, "select")
       /\ state' = Set(state, e, "Mapped")
       /\ remote' = Set(remote, e, Head(incoming[e]).ch)
       /\ UNCHANGED <<conns, chan, sending, links, ends, left, outcome, late>>

\* accept_incoming_session and begin_listener_session
Accept(s) ==
    LET e == <<Listener, s>>
    IN /\ task[e] = "offered" /\ conn[Listener] = "Opened"
       /\ task' = Set(task, e, "select")
       /\ state' = Set(state, e, "Mapped")
       /\ sending' = Set(sending, e, <<Frame("begin", s, chan[e], remote[e], FALSE)>>)
       /\ UNCHANGED <<conns, chan, remote, incoming, links, ends, left, outcome, late>>

\* The IncomingSession is dropped.
Refuse(s) ==
    LET e == <<Listener, s>>
    IN /\ s \in Refusable /\ conn[Listener] = "Opened" /\ task[e] = "offered"
       /\ task' = Set(task, e, "dropped")
       /\ incoming' = Set(incoming, e, <<>>)
       /\ UNCHANGED <<conns, state, chan, remote, sending, links, ends, left, outcome, late>>

-----------------------------------------------------------------------------
(***************************************************************************)
(* The event loop of a session                                             *)
(***************************************************************************)
Selects(e) == conn[e[1]] = "Opened" /\ task[e] = "select" /\ sending[e] = <<>>
EndFrame(e, err) == Frame("end", e[2], chan[e], NoChannel, err)

\* The session, or on_error, has something to send; `late` notes what goes behind an End.
Send(e, frames) == sending' = Set(sending, e, frames)

\* outgoing.send(frame).await
HandOver(p, s) ==
    LET e == <<p, s>>
    IN /\ sending[e] # <<>> /\ conn[p] = "Opened" /\ HasRoom(outgoing[p])
       /\ outgoing' = [outgoing EXCEPT ![p] = Append(@, Head(sending[e]))]
       /\ sending' = [sending EXCEPT ![e] = Tail(@)]
       /\ UNCHANGED <<conn, by_out, vacant, by_in, control, wire, forwarding, task, state, chan,
                      remote, incoming, links, ends, left, outcome, late>>

\* A link puts a frame into its channel to the session.
LinkSends(p, s) ==
    LET e == <<p, s>>
    IN /\ left[e].frames # <<>> /\ task[e] = "select" /\ state[e] = "Mapped"
       /\ conn[p] = "Opened"
       /\ links' = [links EXCEPT ![e] = Append(@, Frame(Head(left[e].frames), s, chan[e], NoChannel, FALSE))]
       /\ left' = [left EXCEPT ![e].frames = Tail(@)]
       /\ UNCHANGED <<conns, task, state, chan, remote, incoming, sending, ends, outcome, late>>

\* SessionHandle::end, end_with_error, try_end and drop
AskEnd(p, s) ==
    LET e == <<p, s>>
    IN /\ left[e].ends # <<>> /\ task[e] = "select" /\ conn[p] = "Opened"
       /\ ends' = [ends EXCEPT ![e] = Append(@, Head(left[e].ends))]
       /\ left' = [left EXCEPT ![e].ends = Tail(@)]
       /\ UNCHANGED <<conns, task, state, chan, remote, incoming, sending, links, outcome, late>>

\* on_outgoing_link_frames, in the states the loop is left in.
OnOutgoingLinkFrames(p, s) ==
    LET e == <<p, s>>
    IN /\ Selects(e) /\ links[e] # <<>> /\ state[e] = "Mapped"
       /\ links' = [links EXCEPT ![e] = Tail(@)]
       /\ Send(e, <<Head(links[e])>>)
       /\ UNCHANGED <<conns, task, state, chan, remote, incoming, ends, left, outcome, late>>

\* SessionControl::End: what the links have sent goes out first.  A second request finds
\* the session in EndSent or Discarding: an IllegalState that on_error answers by waiting
\* for the End of the peer.
OnControlEnd(p, s) ==
    LET e == <<p, s>>
        err == Head(ends[e])
    IN /\ Selects(e) /\ ends[e] # <<>>
       /\ ends' = [ends EXCEPT ![e] = Tail(@)]
       /\ IF state[e] = "Mapped"
          THEN /\ state' = Set(state, e, IF err THEN "Discarding" ELSE "EndSent")
               /\ Send(e, links[e] \o <<EndFrame(e, err)>>)
               /\ links' = Set(links, e, <<>>)
               /\ UNCHANGED <<task, outcome>>
          ELSE /\ task' = Set(task, e, IF state[e] = "EndSent" THEN "waiting" ELSE "discarding")
               /\ outcome' = Set(outcome, e, "IllegalState")
               /\ UNCHANGED <<state, links, sending>>
       /\ UNCHANGED <<conns, chan, remote, incoming, left, late>>

\* on_incoming of a frame the session answers itself, whatever its state is.
OnIncomingAsk(p, s) ==
    LET e == <<p, s>>
    IN /\ task[e] \in {"select", "waiting"} /\ Received(e) /\ Head(incoming[e]).type = "ask"
       /\ Taken(e)
       /\ Send(e, <<Frame("answer", s, chan[e], NoChannel, FALSE)>>)
       /\ late' = IF state[e] = "Mapped" THEN late ELSE late \cup {e}
       /\ UNCHANGED <<conns, task, state, chan, remote, links, ends, left, outcome>>

OnIncomingAnswer(p, s) ==
    LET e == <<p, s>>
    IN /\ task[e] \in {"select", "waiting"} /\ Received(e) /\ Head(incoming[e]).type = "answer"
       /\ Taken(e)
       /\ UNCHANGED <<conns, task, state, chan, remote, sending, links, ends, left, outcome, late>>

\* on_incoming fails and on_error ends the session: end_session.
OnIncomingBad(p, s) ==
    LET e == <<p, s>>
    IN /\ task[e] \in {"select", "waiting"} /\ Received(e) /\ Head(incoming[e]).type = "bad"
       /\ Taken(e)
       /\ outcome' = Set(outcome, e, "UnattachedHandle")
       /\ CASE task[e] = "waiting" ->
                 \* the error leaves end_session and with it the event loop
                 task' = Set(task, e, "stopping") /\ UNCHANGED <<state, sending>>
            [] task[e] = "select" /\ state[e] = "Mapped" ->
                 /\ task' = Set(task, e, "waiting")
                 /\ state' = Set(state, e, "Discarding")
                 /\ Send(e, <<EndFrame(e, TRUE)>>)
            [] task[e] = "select" /\ state[e] # "Mapped" ->
                 /\ task' = Set(task, e, IF state[e] = "EndSent" THEN "waiting" ELSE "discarding")
                 /\ UNCHANGED <<state, sending>>
       /\ UNCHANGED <<conns, chan, remote, links, ends, left, late>>

\* wait_for_remote_end(true)
Discard(p, s) ==
    LET e == <<p, s>>
    IN /\ task[e] = "discarding" /\ Received(e) /\ Head(incoming[e]).type # "end"
       /\ Taken(e)
       /\ UNCHANGED <<conns, task, state, chan, remote, sending, links, ends, left, outcome, late>>

RemoteEnd(err) == IF err THEN "RemoteEndedWithError" ELSE "RemoteEnded"

\* Fault: the End of the peer is not answered.
OnIncomingEndUnanswered(p, s) ==
    LET e == <<p, s>>
    IN /\ task[e] = "select" /\ Received(e) /\ Head(incoming[e]).type = "end"
       /\ state[e] = "Mapped"
       /\ Taken(e)
       /\ state' = Set(state, e, "Unmapped")
       /\ links' = Set(links, e, <<>>)
       /\ task' = Set(task, e, "stopping")
       /\ outcome' = Set(outcome, e, RemoteEnd(Head(incoming[e]).error))
       /\ UNCHANGED <<conns, chan, remote, sending, ends, left, late>>

\* on_incoming of an End the session did not ask for: it is answered.  A frame of a link
\* that is still queued is an IllegalState, which the answer and the outcome then report.
OnIncomingEndFirst(p, s) ==
    LET e == <<p, s>>
    IN /\ task[e] = "select" /\ Received(e) /\ Head(incoming[e]).type = "end"
       /\ state[e] = "Mapped"
       /\ Taken(e)
       /\ state' = Set(state, e, "Unmapped")
       /\ Send(e, <<EndFrame(e, links[e] # <<>>)>>)
       /\ links' = Set(links, e, <<>>)
       /\ task' = Set(task, e, "stopping")
       /\ outcome' = Set(outcome, e, IF links[e] # <<>> THEN "IllegalState"
                                     ELSE RemoteEnd(Head(incoming[e]).error))
       /\ UNCHANGED <<conns, chan, remote, ends, left, late>>

\* The End that answers, or crosses, the session's own.
OnIncomingEndSecond(p, s) ==
    LET e == <<p, s>>
    IN /\ task[e] \in {"select", "waiting", "discarding"} /\ Received(e)
       /\ Head(incoming[e]).type = "end" /\ state[e] # "Mapped"
       /\ Taken(e)
       /\ state' = Set(state, e, "Unmapped")
       /\ task' = Set(task, e, "stopping")
       /\ outcome' = Set(outcome, e,
              CASE Head(incoming[e]).error /\ (outcome[e] = "none" \/ (task[e] = "waiting" /\ state[e] = "Discarding")) -> "RemoteEndedWithError"
                [] ~Head(incoming[e]).error /\ outcome[e] = "none" -> "Ok"
                [] OTHER -> outcome[e])
       /\ UNCHANGED <<conns, chan, remote, sending, links, ends, left, late>>

\* The channels to and from the connection are closed and every session of p ends with
\* them.  What a task still does on its own before it notices reaches nobody, so all of
\* them stop in one step.
OnConnectionStopped(p) ==
    LET stopped == {e \in Endpoint : e[1] = p /\ Listening(e)}
    IN /\ conn[p] # "Opened" /\ stopped # {}
       /\ task' = [e \in Endpoint |-> IF e \notin stopped THEN task[e]
                                      ELSE IF task[e] \in {"alloc", "begin", "answer", "offered"} THEN "failed"
                                      ELSE "gone"]
       /\ outcome' = [e \in Endpoint |-> IF e \in stopped /\ task[e] # "stopping" THEN "ConnectionStopped"
                                         ELSE outcome[e]]
       /\ sending' = [e \in Endpoint |-> IF e \in stopped THEN <<>> ELSE sending[e]]
       /\ incoming' = [e \in Endpoint |-> IF e \in stopped THEN <<>> ELSE incoming[e]]
       /\ UNCHANGED <<conns, state, chan, remote, links, ends, left, late>>

\* connection::deallocate_session
DeallocationForgotten(p, e) == control
Deallocation(p, e) == [control EXCEPT ![p] = Append(@, [op |-> "deallocate", s |-> e[2], ch |-> chan[e]])]

\* The end of event_loop
Stop(p, s) ==
    LET e == <<p, s>>
    IN /\ conn[p] = "Opened" /\ task[e] = "stopping" /\ sending[e] = <<>>
       /\ task' = Set(task, e, "gone")
       /\ incoming' = Set(incoming, e, <<>>)
       /\ control' = Deallocation(p, e)
       /\ UNCHANGED <<conn, by_out, vacant, by_in, outgoing, wire, forwarding, state, chan, remote,
                      sending, links, ends, left, outcome, late>>

-----------------------------------------------------------------------------
Init ==
    /\ conn = [p \in Peer |-> "Opened"]
    /\ by_out = [p \in Peer |-> [c \in Channel |-> NoSession]]
    /\ vacant = [p \in Peer |-> [i \in 1 .. ChannelMax + 1 |-> i - 1]]
    /\ by_in = [p \in Peer |-> [c \in Channel |-> NoSession]]
    /\ control = [p \in Peer |-> <<>>]
    /\ outgoing = [p \in Peer |-> <<>>]
    /\ wire = [p \in Peer |-> <<>>]
    /\ forwarding = [p \in Peer |-> <<>>]
    /\ task = [e \in Endpoint |-> "none"]
    /\ state = [e \in Endpoint |-> "Unmapped"]
    /\ chan = [e \in Endpoint |-> NoChannel]
    /\ remote = [e \in Endpoint |-> NoChannel]
    /\ incoming = [e \in Endpoint |-> <<>>]
    /\ sending = [e \in Endpoint |-> <<>>]
    /\ links = [e \in Endpoint |-> <<>>]
    /\ ends = [e \in Endpoint |-> <<>>]
    /\ left = [e \in Endpoint |-> [frames |-> LinkFrames[e], ends |-> EndRequests[e]]]
    /\ outcome = [e \in Endpoint |-> "none"]
    /\ late = {}

ConnectionStep(p) ==
    \/ OnControlAllocate(p)
    \/ OnControlDeallocate(p)
    \/ OnOutgoingSessionFrames(p)
    \/ OnIncomingBeginAnswer(p)
    \/ OnIncomingBegin(p)
    \/ OnIncomingSessionFrame(p)
    \/ Forward(p)
    \/ OnIncomingClose(p)
    \/ OnConnectionStopped(p)

SessionStep(p, s) ==
    \/ HandOver(p, s)
    \/ OnOutgoingLinkFrames(p, s)
    \/ OnControlEnd(p, s)
    \/ OnIncomingAsk(p, s)
    \/ OnIncomingAnswer(p, s)
    \/ OnIncomingBad(p, s)
    \/ Discard(p, s)
    \/ OnIncomingEndFirst(p, s)
    \/ OnIncomingEndSecond(p, s)
    \/ Stop(p, s)

BeginStep(s) == SendBegin(s) \/ OnIncomingBeginFrame(s) \/ Accept(s)

Next ==
    \/ \E p \in Peer : ConnectionStep(p)
    \/ \E p \in Peer, s \in Sessions : SessionStep(p, s)
    \/ \E s \in Sessions : BeginStep(s)
    \/ \E s \in Sessions : Begin(s) \/ CancelBegin(s) \/ Refuse(s)
    \/ \E p \in Peer, s \in Sessions : LinkSends(p, s) \/ AskEnd(p, s)

Spec == Init /\ [][Next]_vars

\* The engines are tasks of the runtime: one of them runs as long as one can.  That is
\* less than fairness for each, and enough: none of them can run forever on what the
\* applications give them.  Nothing makes an application begin, send or end, but a listener
\* accepts what it is offered.
EngineStep ==
    \/ \E p \in Peer : ConnectionStep(p)
    \/ \E p \in Peer, s \in Sessions : SessionStep(p, s)
    \/ \E s \in Sessions : BeginStep(s)

Fairness == WF_vars(EngineStep)

FairSpec == Spec /\ Fairness

-----------------------------------------------------------------------------
(***************************************************************************)
(* Properties                                                              *)
(***************************************************************************)
Frames == [type : {"begin", "end", "ask", "answer", "bad"}, s : Sessions, ch : Channel,
           remote : Channel \cup {NoChannel}, error : BOOLEAN]
Requests == [op : {"allocate"}, s : Sessions] \cup [op : {"deallocate"}, s : Sessions, ch : Channel]
Outcomes == {"none", "Ok", "RemoteEnded", "RemoteEndedWithError", "IllegalState",
             "UnattachedHandle", "LocalChannelMaxReached", "ConnectionStopped"}

\* The types of the engines' and the sessions' state: what travels is on a real channel.
TypeOK ==
    /\ conn \in [Peer -> {"Opened", "NotFound", "IllegalState", "NotImplemented", "RemoteClosed"}]
    /\ by_out \in [Peer -> [Channel -> Sessions \cup {NoSession}]]
    /\ vacant \in [Peer -> Seq(Channel)]
    /\ by_in \in [Peer -> [Channel -> Sessions \cup {NoSession}]]
    /\ control \in [Peer -> Seq(Requests)]
    /\ outgoing \in [Peer -> Seq(Frames)]
    /\ wire \in [Peer -> Seq(Frames)]
    /\ forwarding \in [Peer -> Seq(Sessions \X Frames)]
    /\ task \in [Endpoint -> Tasks]
    /\ state \in [Endpoint -> States]
    /\ chan \in [Endpoint -> Channel \cup {NoChannel}]
    /\ remote \in [Endpoint -> Channel \cup {NoChannel}]
    /\ incoming \in [Endpoint -> Seq(Frames)]
    /\ sending \in [Endpoint -> Seq(Frames)]
    /\ links \in [Endpoint -> Seq(Frames)]
    /\ ends \in [Endpoint -> Seq(BOOLEAN)]
    /\ left \in [Endpoint -> [frames : Seq({"ask", "bad"}), ends : Seq(BOOLEAN)]]
    /\ outcome \in [Endpoint -> Outcomes]
    /\ late \subseteq Endpoint

\* A frame reaches the session it was sent by the counterpart of, whatever channels have
\* been given back and handed out again in between (connection/mod.rs, the two maps).
RoutedToPartner ==
    /\ \A e \in Endpoint : \A i \in DOMAIN incoming[e] : incoming[e][i].s = e[2]
    /\ \A p \in Peer : \A i \in DOMAIN forwarding[p] : forwarding[p][i][1] = forwarding[p][i][2].s

\* What an application or a peer does to bring the connection down.
Provoked ==
    \/ late # {}
    \/ \E e \in Endpoint : task[e] = "dropped" \/ outcome[e] = "UnattachedHandle"
    \/ conn[Listener] = "NotImplemented"

\* Sessions begin and end in any interleaving without an error of the connection, which
\* would end all the others: NotFound and IllegalState of the connection engine appear
\* only behind a cancelled begin(), a dropped IncomingSession, an errant link, a frame
\* sent behind an End or a peer that is short of channels.
ConnectionOutlivesSessions == (\E p \in Peer : conn[p] # "Opened") => Provoked

\* A channel is held by a live session, is on its way back, or was lost with a begin()
\* that failed or was dropped; and what is on its way back is still entered for the session
\* that gives it, and given back once, for Slab::remove panics over a free channel and would
\* take one from its next holder (connection/mod.rs deallocate_session, session/engine.rs
\* event_loop).
GivesBack(p, i) == i \in DOMAIN control[p] /\ control[p][i].op = "deallocate"
NoChannelLost ==
    /\ \A p \in Peer, c \in Channel :
        (conn[p] = "Opened" /\ by_out[p][c] # NoSession) =>
            LET e == <<p, by_out[p][c]>>
            IN \/ Listening(e) /\ chan[e] = c
               \/ task[e] \in {"dropped", "failed"}
               \/ \E i \in DOMAIN control[p] : GivesBack(p, i) /\ control[p][i].ch = c
    /\ \A p \in Peer : \A i, j \in DOMAIN control[p] :
        GivesBack(p, i) =>
            /\ by_out[p][control[p][i].ch] = control[p][i].s
            /\ GivesBack(p, j) /\ control[p][j].ch = control[p][i].ch => i = j

\* Ends that are asked for are carried through on both sides, whatever crosses them:
\* nobody is left with a request or with an End the peer never answers.  What stops them
\* is a connection that waits for room in a session that waits for room in the connection
\* (connection/engine.rs forward_to_session and session/engine.rs send_outgoing_item each
\* await the bounded channel the other one empties), and nothing else.
Settled(e) ==
    /\ task[e] \in {"none", "select", "dropped", "failed", "gone"}
    /\ task[e] = "select" => state[e] = "Mapped" /\ ends[e] = <<>> /\ sending[e] = <<>>

\* A client whose Begin the listener dropped waits for an answer that never comes.
Unanswered(e) == task[e] = "answer" /\ task[<<Listener, e[2]>>] = "dropped"

\* The engine of p has a frame for a full session, which has one for the full engine.
Jammed(p) ==
    /\ forwarding[p] # <<>> /\ ~HasRoom(outgoing[p])
    /\ LET e == <<p, forwarding[p][1][1]>> IN ~HasRoom(incoming[e]) /\ sending[e] # <<>>

EndsComplete == <>[]((\E p \in Peer : Jammed(p)) \/ \A e \in Endpoint : Settled(e) \/ Unanswered(e))
=============================================================================
