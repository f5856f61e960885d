------------------------ MODULE ConnectionLifecycle ------------------------
(***************************************************************************)
(* Opening and closing a connection: the two connection endpoints of       *)
(* connection/mod.rs, each driven by the event loop of                     *)
(* connection/engine.rs, the handles that close them, the sessions that    *)
(* use them, and the transport in between, which may break.                *)
(*                                                                         *)
(* Frames of sessions are told from the connection's own and not from each *)
(* other.  Time is left out: an idle timeout may elapse while nothing      *)
(* arrives.                                                                *)
(***************************************************************************)
EXTENDS Integers, Sequences

CONSTANTS
  A, B,           \* the two endpoints
  CloseErrors,    \* the closes an application asks for: with an error or without
  TimingOut,      \* the endpoints with an idle timeout
  Breaking,       \* whether the transport may break
  MaxClose,       \* bound: closes asked for at an endpoint
  MaxFrames,      \* bound: frames the sessions of an endpoint hand over
  MaxBeats        \* bound: heartbeats of an endpoint

Peer == {A, B}
Other(p) == IF p = A THEN B ELSE A

ASSUME PeersDistinct == A # B
ASSUME SwitchAssumption == /\ CloseErrors \subseteq BOOLEAN /\ Breaking \in BOOLEAN
                           /\ TimingOut \subseteq Peer
ASSUME BoundAssumption == {MaxClose, MaxFrames, MaxBeats} \subseteq [Peer -> Nat]

VARIABLES
  state,            \* local_state
  phase,            \* where the engine is
  outcome,          \* what the engine will tell its handle
  close_error,      \* the close being sent carries an error
  stop_reason,      \* connection_stop_reason, set once
  control,          \* closes asked for, not yet handled
  session_frames,   \* outgoing_session_frames
  session_closed,   \* outgoing_session_frames is closed
  observed,         \* the reason the sessions saw for the stop of the connection
  wire,             \* wire[p]: frames written by p, not yet read by Other(p)
  broken,           \* the transport has failed
  heard,            \* the Close of the peer has been read
  asked, handed, beats

engineVars == <<state, phase, outcome, close_error, stop_reason>>
sessionVars == <<session_frames, session_closed, observed, handed>>
vars == <<engineVars, control, sessionVars, wire, broken, heard, asked, beats>>

States == {"HeaderExchange", "OpenSent", "Opened", "CloseReceived", "CloseSent",
           "Discarding", "End"}
\* "flushing" sends what the sessions handed over and then a Close; "waiting" is
\* wait_for_remote_close after an error; "stopping" has left the event loop.
Phases == {"opening", "select", "flushing", "waiting", "stopping", "stopped"}
Unset == "Unset"
Running == "Running"

Outcomes == {"Ok", "IllegalState", "TransportError", "RemoteClosed", "RemoteClosedWithError"}
StopReasons == {"Closed", "ClosedWithError", "RemoteClosed", "RemoteClosedWithError"}

Session == [type |-> "session"]
Empty == [type |-> "empty"]
Open == [type |-> "open"]
Close(error) == [type |-> "close", error |-> error]

Frame == {Session, Empty, Open, Close(TRUE), Close(FALSE)}

RemoteClose(frame) == IF frame.error THEN "RemoteClosedWithError" ELSE "RemoteClosed"

Write(p, frames) == wire' = [wire EXCEPT ![p] = @ \o frames]

\* The event loop breaks with this outcome.
Leave(p, o) == /\ phase' = [phase EXCEPT ![p] = "stopping"]
               /\ outcome' = [outcome EXCEPT ![p] = o]

-----------------------------------------------------------------------------
(* Opening.                                                                *)

\* open_inner: the Open goes out first on either side.
SendOpen(p) ==
  /\ phase[p] = "opening" /\ state[p] = "HeaderExchange" /\ ~broken
  /\ Write(p, <<Open>>)
  /\ state' = [state EXCEPT ![p] = "OpenSent"]
  /\ UNCHANGED <<phase, outcome, close_error, stop_reason, control, sessionVars,
                 broken, heard, asked, beats>>

Arrives(p, type) == wire[Other(p)] # <<>> /\ Head(wire[Other(p)]).type = type
Read(p) == wire' = [wire EXCEPT ![Other(p)] = Tail(@)]

\* on_incoming_open; the event loop starts.
OnIncomingOpen(p) ==
  /\ phase[p] = "opening" /\ state[p] = "OpenSent" /\ Arrives(p, "open")
  /\ Read(p)
  /\ state' = [state EXCEPT ![p] = "Opened"]
  /\ phase' = [phase EXCEPT ![p] = "select"]
  /\ UNCHANGED <<outcome, close_error, stop_reason, control, sessionVars, broken,
                 heard, asked, beats>>

-----------------------------------------------------------------------------
(* The handle and the sessions.                                            *)

\* close(), close_with_error(), try_close(), the Close a handle asks for when it is dropped,
\* or a session that closes the connection with an error.  (Once nobody holds the control
\* channel any more the engine finishes in a loop of its own, which is not modelled.)
AskClose(p, error) ==
  /\ phase[p] \notin {"opening", "stopped"} /\ asked[p] < MaxClose[p]
  /\ asked' = [asked EXCEPT ![p] = @ + 1]
  /\ control' = [control EXCEPT ![p] = Append(@, error)]
  /\ UNCHANGED <<engineVars, sessionVars, wire, broken, heard, beats>>

\* A session hands a frame over.
SessionSend(p) ==
  /\ phase[p] # "opening" /\ observed[p] = Running /\ ~session_closed[p]
  /\ handed[p] < MaxFrames[p]
  /\ handed' = [handed EXCEPT ![p] = @ + 1]
  /\ session_frames' = [session_frames EXCEPT ![p] = Append(@, Session)]
  /\ UNCHANGED <<engineVars, control, session_closed, observed, wire, broken, heard,
                 asked, beats>>

\* connection_stop_reason_or_closed.
ReasonOrClosed(p) == IF stop_reason[p] = Unset THEN "Closed" ELSE stop_reason[p]

Observe(p) ==
  /\ observed' = [observed EXCEPT ![p] = ReasonOrClosed(p)]
  /\ UNCHANGED <<engineVars, control, session_frames, session_closed, handed, wire,
                 broken, heard, asked, beats>>

\* A session finds the channel to the connection closed when it wants to send.
SessionSendFails(p) ==
  /\ observed[p] = Running /\ session_closed[p] /\ handed[p] < MaxFrames[p]
  /\ Observe(p)

\* A session finds its channel from the connection closed.
SessionRecvFails(p) ==
  /\ observed[p] = Running /\ phase[p] = "stopped"
  /\ Observe(p)

-----------------------------------------------------------------------------
(* The event loop.                                                         *)

\* Close the channel from the sessions, then send what is in it and a Close.
BeginFlush(p, error) ==
  /\ session_closed' = [session_closed EXCEPT ![p] = TRUE]
  /\ close_error' = [close_error EXCEPT ![p] = error]
  /\ phase' = [phase EXCEPT ![p] = "flushing"]
  /\ UNCHANGED <<session_frames, observed, handed>>

\* on_control with a Close: its error is recorded before anything closes.
OnControlClose(p) ==
  /\ phase[p] = "select" /\ control[p] # <<>>
  /\ control' = [control EXCEPT ![p] = Tail(@)]
  /\ stop_reason' = IF Head(control[p]) /\ stop_reason[p] = Unset
                    THEN [stop_reason EXCEPT ![p] = "ClosedWithError"] ELSE stop_reason
  /\ BeginFlush(p, Head(control[p]))
  /\ UNCHANGED <<state, outcome, wire, broken, heard, asked, beats>>

\* Fault: the frames in the channel are dropped.
FlushNothing(p) ==
  /\ phase[p] = "flushing" /\ ~broken
  /\ Write(p, <<Close(close_error[p])>>)
  /\ state' = [state EXCEPT ![p] = IF @ = "CloseReceived" THEN "End" ELSE "CloseSent"]
  /\ phase' = [phase EXCEPT ![p] = IF state[p] = "Opened" THEN "select" ELSE "stopping"]
  /\ UNCHANGED <<outcome, close_error, stop_reason, control, sessionVars, broken,
                 heard, asked, beats>>

\* The channel is emptied, and send_close writes the Close whatever the state is; a
\* state that does not allow it is an error only then.
Flush(p) ==
  /\ phase[p] = "flushing" /\ ~broken
  /\ Write(p, Append(session_frames[p], Close(close_error[p])))
  /\ session_frames' = [session_frames EXCEPT ![p] = <<>>]
  /\ \/ /\ state[p] = "Opened"
        /\ state' = [state EXCEPT ![p] = IF close_error[p] THEN "Discarding" ELSE "CloseSent"]
        /\ phase' = [phase EXCEPT ![p] = "select"]
        /\ UNCHANGED outcome
     \/ /\ state[p] = "CloseReceived"
        /\ state' = [state EXCEPT ![p] = "End"]
        /\ Leave(p, outcome[p])
     \/ /\ state[p] \in {"CloseSent", "Discarding"}
        /\ phase' = [phase EXCEPT ![p] = "waiting"]
        /\ outcome' = [outcome EXCEPT ![p] = "IllegalState"]
        /\ UNCHANGED state
  /\ UNCHANGED <<close_error, stop_reason, control, session_closed, observed, handed,
                 broken, heard, asked, beats>>

\* A write fails.
WriteFails(p) ==
  /\ broken
  /\ \/ phase[p] = "flushing"
     \/ phase[p] = "opening" /\ state[p] = "HeaderExchange"
     \/ phase[p] = "select" /\ state[p] = "Opened" /\ session_frames[p] # <<>>
     \/ phase[p] = "select" /\ state[p] # "CloseSent" /\ beats[p] < MaxBeats[p]
  /\ Leave(p, "TransportError")
  /\ UNCHANGED <<state, close_error, stop_reason, control, sessionVars, wire, broken,
                 heard, asked, beats>>

\* on_outgoing_session_frames.
OnOutgoingSessionFrame(p) ==
  /\ phase[p] = "select" /\ state[p] = "Opened" /\ session_frames[p] # <<>> /\ ~broken
  /\ session_frames' = [session_frames EXCEPT ![p] = Tail(@)]
  /\ Write(p, <<Head(session_frames[p])>>)
  /\ UNCHANGED <<engineVars, control, session_closed, observed, handed, broken, heard,
                 asked, beats>>

\* on_heartbeat.
OnHeartbeat(p) ==
  /\ phase[p] = "select" /\ beats[p] < MaxBeats[p] /\ ~broken
  /\ beats' = [beats EXCEPT ![p] = @ + 1]
  /\ Write(p, IF state[p] = "CloseSent" THEN <<>> ELSE <<Empty>>)
  /\ UNCHANGED <<engineVars, control, sessionVars, broken, heard, asked>>

Reading(p) == phase[p] \in {"select", "waiting"}

\* on_incoming with an empty frame.
OnIncomingEmpty(p) ==
  /\ Reading(p) /\ Arrives(p, "empty")
  /\ Read(p)
  /\ UNCHANGED <<engineVars, control, sessionVars, broken, heard, asked, beats>>

\* on_incoming with a frame of a session: forwarded while the connection is open,
\* discarded while a close with an error is under way, and an error otherwise, which
\* the engine answers by waiting for the Close of the peer; a second such frame ends
\* that wait.
OnIncomingSessionFrame(p) ==
  /\ Reading(p) /\ Arrives(p, "session")
  /\ Read(p)
  /\ \/ /\ state[p] \in {"Opened", "Discarding"}
        /\ UNCHANGED <<phase, outcome>>
     \/ /\ state[p] = "CloseSent" /\ phase[p] = "select"
        /\ phase' = [phase EXCEPT ![p] = "waiting"]
        /\ outcome' = [outcome EXCEPT ![p] = "IllegalState"]
     \/ /\ state[p] = "CloseSent" /\ phase[p] = "waiting"
        /\ Leave(p, "IllegalState")
  /\ UNCHANGED <<state, close_error, stop_reason, control, sessionVars, broken, heard,
                 asked, beats>>

\* on_incoming with a Close that the peer sent first: answered after a flush.
OnIncomingCloseFirst(p) ==
  /\ phase[p] = "select" /\ state[p] = "Opened" /\ Arrives(p, "close")
  /\ Read(p)
  /\ heard' = [heard EXCEPT ![p] = TRUE]
  /\ state' = [state EXCEPT ![p] = "CloseReceived"]
  /\ outcome' = [outcome EXCEPT ![p] = RemoteClose(Head(wire[Other(p)]))]
  /\ BeginFlush(p, FALSE)
  /\ UNCHANGED <<stop_reason, control, broken, asked, beats>>

\* on_incoming, or the wait for it, with the Close that answers or crosses p's own.
OnIncomingCloseSecond(p) ==
  /\ Reading(p) /\ state[p] \in {"CloseSent", "Discarding"} /\ Arrives(p, "close")
  /\ Read(p)
  /\ heard' = [heard EXCEPT ![p] = TRUE]
  /\ state' = [state EXCEPT ![p] = "End"]
  /\ Leave(p, IF Head(wire[Other(p)]).error THEN "RemoteClosedWithError" ELSE outcome[p])
  /\ UNCHANGED <<close_error, stop_reason, control, sessionVars, broken, asked, beats>>

\* The stream from the peer has ended.
Ended(p) == wire[Other(p)] = <<>> /\ (broken \/ phase[Other(p)] = "stopped")

\* Fault: the end of the stream counts as an answer to a Close.
OnEofLenient(p) ==
  /\ Ended(p)
  /\ Reading(p) \/ (phase[p] = "opening" /\ state[p] = "OpenSent")
  /\ state' = [state EXCEPT ![p] = IF @ = "Opened" THEN "Discarding" ELSE @]
  /\ Leave(p, IF phase[p] = "select" /\ state[p] \in {"CloseSent", "Discarding"}
              THEN outcome[p] ELSE "TransportError")
  /\ UNCHANGED <<close_error, stop_reason, control, sessionVars, wire, broken, heard,
                 asked, beats>>

\* Fault: the end of the stream is ignored while the answer to a Close is awaited.
OnEofPatient(p) == state[p] # "CloseSent" /\ OnEofLenient(p)

\* The stream ends: an error unless a close with an error is under way.  (The Close
\* that an open connection writes then has no reader, and the wait that follows
\* fails.)
OnEof(p) ==
  /\ Ended(p)
  /\ Reading(p) \/ (phase[p] = "opening" /\ state[p] = "OpenSent")
  /\ state' = [state EXCEPT ![p] = IF @ = "Opened" THEN "Discarding" ELSE @]
  /\ Leave(p, IF phase[p] = "select" /\ state[p] = "Discarding"
              THEN outcome[p] ELSE "TransportError")
  /\ UNCHANGED <<close_error, stop_reason, control, sessionVars, wire, broken, heard,
                 asked, beats>>

\* The idle timeout elapses with nothing to read.  (A timeout before the event loop
\* starts is left out.)
OnIdleTimeout(p) ==
  /\ p \in TimingOut /\ Reading(p) /\ wire[Other(p)] = <<>>
  /\ Leave(p, "TransportError")
  /\ UNCHANGED <<state, close_error, stop_reason, control, sessionVars, wire, broken,
                 heard, asked, beats>>

\* After the loop: the transport is closed, the stop reason is published, and then
\* the channels close.
Publish(p) ==
  /\ phase[p] = "stopping"
  /\ phase' = [phase EXCEPT ![p] = "stopped"]
  /\ stop_reason' = IF stop_reason[p] # Unset THEN stop_reason
                    ELSE [stop_reason EXCEPT ![p] =
                            IF outcome[p] \in {"RemoteClosed", "RemoteClosedWithError"}
                            THEN outcome[p] ELSE "Closed"]
  /\ session_closed' = [session_closed EXCEPT ![p] = TRUE]
  /\ control' = [control EXCEPT ![p] = <<>>]
  /\ UNCHANGED <<state, outcome, close_error, session_frames, observed, handed, wire,
                 broken, heard, asked, beats>>

\* The transport breaks and loses the end of what is under way in each direction.
Break ==
  /\ Breaking /\ ~broken
  /\ broken' = TRUE
  /\ \E m \in 0 .. Len(wire[A]), n \in 0 .. Len(wire[B]) :
       wire' = [p \in Peer |-> SubSeq(wire[p], 1, IF p = A THEN m ELSE n)]
  /\ UNCHANGED <<engineVars, control, sessionVars, heard, asked, beats>>

-----------------------------------------------------------------------------

\* The protocol headers have been exchanged.
Init ==
  /\ state = [p \in Peer |-> "HeaderExchange"]
  /\ phase = [p \in Peer |-> "opening"]
  /\ outcome = [p \in Peer |-> "Ok"]
  /\ close_error = [p \in Peer |-> FALSE]
  /\ stop_reason = [p \in Peer |-> Unset]
  /\ control = [p \in Peer |-> <<>>]
  /\ session_frames = [p \in Peer |-> <<>>]
  /\ session_closed = [p \in Peer |-> FALSE]
  /\ observed = [p \in Peer |-> Running]
  /\ wire = [p \in Peer |-> <<>>]
  /\ broken = FALSE
  /\ heard = [p \in Peer |-> FALSE]
  /\ asked = [p \in Peer |-> 0]
  /\ handed = [p \in Peer |-> 0]
  /\ beats = [p \in Peer |-> 0]

OnIncoming(p) ==
  \/ OnIncomingOpen(p) \/ OnIncomingEmpty(p) \/ OnIncomingSessionFrame(p)
  \/ OnIncomingCloseFirst(p) \/ OnIncomingCloseSecond(p) \/ OnEof(p)

Next ==
  \/ Break
  \/ \E p \in Peer :
       \/ SendOpen(p) \/ OnIncomingOpen(p)
       \/ \E error \in CloseErrors : AskClose(p, error)
       \/ SessionSend(p) \/ SessionSendFails(p) \/ SessionRecvFails(p)
       \/ OnControlClose(p) \/ Flush(p) \/ WriteFails(p)
       \/ OnOutgoingSessionFrame(p) \/ OnHeartbeat(p)
       \/ OnIncomingEmpty(p) \/ OnIncomingSessionFrame(p)
       \/ OnIncomingCloseFirst(p) \/ OnIncomingCloseSecond(p)
       \/ OnEof(p) \/ OnIdleTimeout(p) \/ Publish(p)

Spec == Init /\ [][Next]_vars

\* The engine serves the ready branches of its select and finishes what it begins,
\* and a session reads its closed channel.  Nobody has to close, time out or break.
Fairness ==
  \A p \in Peer :
    /\ WF_vars(SendOpen(p)) /\ WF_vars(OnIncoming(p)) /\ WF_vars(OnControlClose(p))
    /\ WF_vars(Flush(p)) /\ WF_vars(WriteFails(p))
    /\ WF_vars(OnOutgoingSessionFrame(p))
    /\ WF_vars(Publish(p)) /\ WF_vars(SessionRecvFails(p))

FairSpec == Spec /\ Fairness
-----------------------------------------------------------------------------
(* Properties.                                                             *)

\* The state machine stays within its states, and the sessions are never told
\* anything but a reason for the stop of a connection.
TypeOK ==
  /\ state \in [Peer -> States]
  /\ phase \in [Peer -> Phases]
  /\ outcome \in [Peer -> Outcomes]
  /\ close_error \in [Peer -> BOOLEAN]
  /\ stop_reason \in [Peer -> StopReasons \cup {Unset}]
  /\ control \in [Peer -> Seq(BOOLEAN)]
  /\ session_frames \in [Peer -> Seq({Session})]
  /\ session_closed \in [Peer -> BOOLEAN]
  /\ observed \in [Peer -> StopReasons \cup {Running}]
  /\ wire \in [Peer -> Seq(Frame)]
  /\ broken \in BOOLEAN
  /\ heard \in [Peer -> BOOLEAN]
  /\ {asked, handed, beats} \subseteq [Peer -> Nat]

\* A Close without an error is the last thing written of what was handed over: what
\* the sessions gave the connection before it closed their channel goes out ahead of
\* it, whether the close is p's own or its answer to the peer's.
HandedBeforeClose ==
  \A p \in Peer : \A i \in DOMAIN wire[p] :
    wire[p][i] = Close(FALSE) =>
      /\ session_frames[p] = <<>>
      /\ \A j \in i + 1 .. Len(wire[p]) : wire[p][j] # Session

\* close() reports success only when the Close of the peer has been read, however
\* closes cross, sessions send and the transport fails; the exception is a close with
\* an error, which does not insist on an answer.
CloseConfirmed ==
  \A p \in Peer :
    phase[p] = "stopped" /\ outcome[p] = "Ok" /\ stop_reason[p] # "ClosedWithError" =>
      heard[p]

\* Liveness: once either side is asked to close, both engines stop and the sessions
\* of both learn of it, also when the transport breaks on the way.
EverybodyStops ==
  \A p \in Peer :
    asked[p] > 0 ~> \A q \in Peer : phase[q] = "stopped" /\ observed[q] # Running
=============================================================================
