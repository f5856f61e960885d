--------------------- MODULE ConnectionLifecycleProofs ---------------------
(***************************************************************************)
(* Proofs about ConnectionLifecycle, for any number of closes, frames and  *)
(* heartbeats, with or without timeouts and a transport that breaks.       *)
(***************************************************************************)
EXTENDS ConnectionLifecycle, TLAPS

\* The two endpoints.
LEMMA PeerFacts ==
  ASSUME NEW p \in Peer
  PROVE  Other(p) \in Peer /\ Other(p) # p
BY PeersDistinct DEF Peer, Other

\* The kinds of frames.
LEMMA FrameFacts ==
  /\ Session \in Frame /\ Empty \in Frame /\ Open \in Frame
  /\ \A e \in BOOLEAN : Close(e) \in Frame /\ Close(e).type = "close" /\ Close(e).error = e
  /\ Session.type = "session" /\ Empty.type = "empty" /\ Open.type = "open"
  /\ \A f \in Frame : f.type = "close" => f.error \in BOOLEAN
<1>1. \A e \in BOOLEAN : e = TRUE \/ e = FALSE
  OBVIOUS
<1>2. \A e \in BOOLEAN : Close(e) \in Frame
  BY <1>1 DEF Frame
<1> QED
  BY <1>2 DEF Frame, Session, Empty, Open, Close

\* Taking the first element.
LEMMA HeadTail ==
  ASSUME NEW S, NEW s \in Seq(S), s # <<>>
  PROVE  Head(s) \in S /\ Tail(s) \in Seq(S)
OBVIOUS

\* What sessions hand over can go on the wire.
LEMMA HandedAreFrames ==
  ASSUME NEW s \in Seq({Session}), NEW e \in BOOLEAN
  PROVE  /\ Append(s, Close(e)) \in Seq(Frame)
         /\ s # <<>> => <<Head(s)>> \in Seq(Frame)
         /\ s # <<>> => Tail(s) \in Seq({Session})
<1>1. s \in Seq(Frame)
  BY FrameFacts
<1> QED
  BY <1>1, FrameFacts

\* Writing keeps the wires well formed.
LEMMA WriteType ==
  ASSUME TypeOK, NEW p \in Peer, NEW frames \in Seq(Frame), Write(p, frames)
  PROVE  wire' \in [Peer -> Seq(Frame)]
<1>1. wire[p] \o frames \in Seq(Frame)
  BY DEF TypeOK
<1> QED
  BY <1>1 DEF TypeOK, Write

\* Reading keeps the wires well formed, and what is read is a frame.
LEMMA ReadType ==
  ASSUME TypeOK, NEW p \in Peer, wire[Other(p)] # <<>>, Read(p)
  PROVE  /\ wire' \in [Peer -> Seq(Frame)]
         /\ Head(wire[Other(p)]) \in Frame
<1>1. Other(p) \in Peer /\ wire[Other(p)] \in Seq(Frame)
  BY PeerFacts DEF TypeOK
<1>2. Tail(wire[Other(p)]) \in Seq(Frame) /\ Head(wire[Other(p)]) \in Frame
  BY <1>1
<1> QED
  BY <1>1, <1>2 DEF TypeOK, Read

-----------------------------------------------------------------------------
(* Type correctness.                                                       *)

\* Initially.
LEMMA InitType == Init => TypeOK
<1> SUFFICES ASSUME Init PROVE TypeOK
  OBVIOUS
<1>1. <<>> \in Seq(BOOLEAN) /\ <<>> \in Seq({Session}) /\ <<>> \in Seq(Frame)
  OBVIOUS
<1>2. state \in [Peer -> States] /\ phase \in [Peer -> Phases]
      /\ outcome \in [Peer -> Outcomes] /\ stop_reason \in [Peer -> StopReasons \cup {Unset}]
      /\ observed \in [Peer -> StopReasons \cup {Running}]
  BY DEF Init, States, Phases, Outcomes
<1>3. control \in [Peer -> Seq(BOOLEAN)] /\ session_frames \in [Peer -> Seq({Session})]
      /\ wire \in [Peer -> Seq(Frame)]
  BY <1>1 DEF Init
<1>4. close_error \in [Peer -> BOOLEAN] /\ session_closed \in [Peer -> BOOLEAN]
      /\ heard \in [Peer -> BOOLEAN] /\ broken \in BOOLEAN
  BY DEF Init
<1>5. asked \in [Peer -> Nat] /\ handed \in [Peer -> Nat] /\ beats \in [Peer -> Nat]
  BY DEF Init
<1> QED
  BY <1>2, <1>3, <1>4, <1>5 DEF TypeOK

\* The steps of opening, of the handle and of the sessions.
LEMMA UserStepType ==
  ASSUME TypeOK, NEW p \in Peer,
         \/ SendOpen(p) \/ OnIncomingOpen(p)
         \/ \E error \in CloseErrors : AskClose(p, error)
         \/ SessionSend(p) \/ SessionSendFails(p) \/ SessionRecvFails(p)
  PROVE  TypeOK'
<1>1. CASE SendOpen(p)
  <2>1. wire' \in [Peer -> Seq(Frame)]
    BY <1>1, FrameFacts, WriteType DEF SendOpen
  <2> QED
    BY <1>1, <2>1 DEF SendOpen, TypeOK, sessionVars, States
<1>2. CASE OnIncomingOpen(p)
  <2>1. wire' \in [Peer -> Seq(Frame)]
    BY <1>2, ReadType DEF OnIncomingOpen, Arrives
  <2> QED
    BY <1>2, <2>1 DEF OnIncomingOpen, TypeOK, sessionVars, States, Phases
<1>3. CASE \E error \in CloseErrors : AskClose(p, error)
  <2>1. PICK error \in CloseErrors : AskClose(p, error)
    BY <1>3
  <2>2. error \in BOOLEAN
    BY SwitchAssumption
  <2>3. control' \in [Peer -> Seq(BOOLEAN)] /\ asked' \in [Peer -> Nat]
    BY <2>1, <2>2 DEF AskClose, TypeOK
  <2> QED
    BY <2>1, <2>3, SMTT(30) DEF AskClose, TypeOK, engineVars, sessionVars
<1>4. CASE SessionSend(p)
  <2>1. session_frames' \in [Peer -> Seq({Session})] /\ handed' \in [Peer -> Nat]
    BY <1>4 DEF SessionSend, TypeOK
  <2> QED
    BY <1>4, <2>1, ZenonT(60) DEF SessionSend, TypeOK, engineVars
<1>5. CASE SessionSendFails(p) \/ SessionRecvFails(p)
  <2>1. ReasonOrClosed(p) \in StopReasons
    BY DEF ReasonOrClosed, TypeOK, StopReasons
  <2> QED
    BY <1>5, <2>1, ZenonT(60) DEF SessionSendFails, SessionRecvFails, Observe, TypeOK, engineVars
<1> QED
  BY <1>1, <1>2, <1>3, <1>4, <1>5

\* The steps of the event loop that write.
LEMMA OutgoingStepType ==
  ASSUME TypeOK, NEW p \in Peer,
         \/ OnControlClose(p) \/ Flush(p) \/ WriteFails(p)
         \/ OnOutgoingSessionFrame(p) \/ OnHeartbeat(p)
  PROVE  TypeOK'
<1>1. CASE OnControlClose(p)
  <2>1. control[p] \in Seq(BOOLEAN) /\ control[p] # <<>>
    BY <1>1 DEF OnControlClose, TypeOK
  <2>2. Head(control[p]) \in BOOLEAN /\ Tail(control[p]) \in Seq(BOOLEAN)
    BY <2>1, HeadTail, Zenon
  <2>3. /\ control' = [control EXCEPT ![p] = Tail(control[p])]
        /\ close_error' = [close_error EXCEPT ![p] = Head(control[p])]
        /\ session_closed' = [session_closed EXCEPT ![p] = TRUE]
    BY <1>1 DEF OnControlClose, BeginFlush
  <2>5. control' \in [Peer -> Seq(BOOLEAN)]
    BY <2>2, <2>3 DEF TypeOK
  <2>6. close_error' \in [Peer -> BOOLEAN]
    BY <2>2, <2>3, Zenon DEF TypeOK
  <2>7. session_closed' \in [Peer -> BOOLEAN]
    BY <2>3 DEF TypeOK
  <2>4. stop_reason' \in [Peer -> StopReasons \cup {Unset}]
    BY <1>1 DEF OnControlClose, TypeOK, StopReasons
  <2> QED
    BY <1>1, <2>4, <2>5, <2>6, <2>7 DEF OnControlClose, BeginFlush, TypeOK, Phases
<1>2. CASE Flush(p)
  <2>1. Append(session_frames[p], Close(close_error[p])) \in Seq(Frame)
    BY HandedAreFrames DEF TypeOK
  <2>2. wire' \in [Peer -> Seq(Frame)]
    BY <1>2, <2>1, WriteType DEF Flush
  <2>3. session_frames' \in [Peer -> Seq({Session})]
    BY <1>2 DEF Flush, TypeOK
  <2>4. state' \in [Peer -> States] /\ phase' \in [Peer -> Phases]
        /\ outcome' \in [Peer -> Outcomes]
    BY <1>2 DEF Flush, Leave, TypeOK, States, Phases, Outcomes
  <2> QED
    BY <1>2, <2>2, <2>3, <2>4 DEF Flush, TypeOK
<1>3. CASE WriteFails(p)
  BY <1>3 DEF WriteFails, Leave, TypeOK, sessionVars, Phases, Outcomes
<1>4. CASE OnOutgoingSessionFrame(p)
  <2>1. session_frames[p] \in Seq({Session}) /\ session_frames[p] # <<>>
    BY <1>4 DEF OnOutgoingSessionFrame, TypeOK
  <2>2. <<Head(session_frames[p])>> \in Seq(Frame)
        /\ Tail(session_frames[p]) \in Seq({Session})
    BY <2>1, HandedAreFrames
  <2>3. wire' \in [Peer -> Seq(Frame)]
    BY <1>4, <2>2, WriteType DEF OnOutgoingSessionFrame
  <2>4. session_frames' \in [Peer -> Seq({Session})]
    BY <1>4, <2>2 DEF OnOutgoingSessionFrame, TypeOK
  <2> QED
    BY <1>4, <2>3, <2>4 DEF OnOutgoingSessionFrame, TypeOK, engineVars
<1>5. CASE OnHeartbeat(p)
  <2>1. <<>> \in Seq(Frame) /\ <<Empty>> \in Seq(Frame)
    BY FrameFacts
  <2>2. wire' \in [Peer -> Seq(Frame)]
    BY <1>5, <2>1, WriteType DEF OnHeartbeat
  <2> QED
    <3>1. beats' \in [Peer -> Nat]
      BY <1>5 DEF OnHeartbeat, TypeOK
    <3> QED
      BY <1>5, <2>2, <3>1, SMTT(30) DEF OnHeartbeat, TypeOK, engineVars, sessionVars
<1> QED
  BY <1>1, <1>2, <1>3, <1>4, <1>5

\* The steps of the event loop that read, and its end.
LEMMA IncomingStepType ==
  ASSUME TypeOK, NEW p \in Peer,
         \/ OnIncomingEmpty(p) \/ OnIncomingSessionFrame(p)
         \/ OnIncomingCloseFirst(p) \/ OnIncomingCloseSecond(p)
         \/ OnEof(p) \/ OnIdleTimeout(p) \/ Publish(p)
  PROVE  TypeOK'
<1>1. CASE OnIncomingEmpty(p)
  <2>1. wire' \in [Peer -> Seq(Frame)]
    BY <1>1, ReadType DEF OnIncomingEmpty, Arrives
  <2> QED
    BY <1>1, <2>1 DEF OnIncomingEmpty, TypeOK, engineVars, sessionVars
<1>2. CASE OnIncomingSessionFrame(p)
  <2>1. wire' \in [Peer -> Seq(Frame)]
    BY <1>2, ReadType DEF OnIncomingSessionFrame, Arrives
  <2>2. phase' \in [Peer -> Phases] /\ outcome' \in [Peer -> Outcomes]
    BY <1>2 DEF OnIncomingSessionFrame, Leave, TypeOK, Phases, Outcomes
  <2> QED
    BY <1>2, <2>1, <2>2 DEF OnIncomingSessionFrame, TypeOK, sessionVars
<1>3. CASE OnIncomingCloseFirst(p)
  <2>1. wire' \in [Peer -> Seq(Frame)]
    BY <1>3, ReadType DEF OnIncomingCloseFirst, Arrives
  <2>2. RemoteClose(Head(wire[Other(p)])) \in Outcomes
    BY DEF RemoteClose, Outcomes
  <2> QED
    BY <1>3, <2>1, <2>2 DEF OnIncomingCloseFirst, BeginFlush, TypeOK, States, Phases
<1>4. CASE OnIncomingCloseSecond(p)
  <2>1. wire' \in [Peer -> Seq(Frame)]
    BY <1>4, ReadType DEF OnIncomingCloseSecond, Arrives
  <2>2. outcome' \in [Peer -> Outcomes]
    BY <1>4 DEF OnIncomingCloseSecond, Leave, TypeOK, Outcomes
  <2> QED
    BY <1>4, <2>1, <2>2
    DEF OnIncomingCloseSecond, Leave, TypeOK, sessionVars, States, Phases
<1>5. CASE OnEof(p)
  BY <1>5 DEF OnEof, Leave, TypeOK, sessionVars, States, Phases, Outcomes
<1>6. CASE OnIdleTimeout(p)
  BY <1>6 DEF OnIdleTimeout, Leave, TypeOK, sessionVars, Phases, Outcomes
<1>7. CASE Publish(p)
  <2>1. stop_reason' \in [Peer -> StopReasons \cup {Unset}]
    BY <1>7 DEF Publish, TypeOK, StopReasons
  <2>2. control' \in [Peer -> Seq(BOOLEAN)]
    BY <1>7 DEF Publish, TypeOK
  <2> QED
    BY <1>7, <2>1, <2>2 DEF Publish, TypeOK, Phases
<1> QED
  BY <1>1, <1>2, <1>3, <1>4, <1>5, <1>6, <1>7

\* A break leaves prefixes on the wires.
LEMMA BreakType ==
  ASSUME TypeOK, Break
  PROVE  TypeOK'
<1>1. PICK m \in 0 .. Len(wire[A]), n \in 0 .. Len(wire[B]) :
        wire' = [p \in Peer |-> SubSeq(wire[p], 1, IF p = A THEN m ELSE n)]
  BY DEF Break
<1>2. ASSUME NEW p \in Peer
      PROVE  SubSeq(wire[p], 1, IF p = A THEN m ELSE n) \in Seq(Frame)
  <2>1. wire[p] \in Seq(Frame)
    BY DEF TypeOK
  <2>2. (IF p = A THEN m ELSE n) \in 0 .. Len(wire[p])
    BY DEF Peer
  <2> QED
    BY <2>1, <2>2
<1>3. wire' \in [Peer -> Seq(Frame)]
  BY <1>1, <1>2
<1> QED
  BY <1>3 DEF Break, TypeOK, engineVars, sessionVars

\* Every step keeps the types.
LEMMA NextType == TypeOK /\ [Next]_vars => TypeOK'
<1> SUFFICES ASSUME TypeOK, [Next]_vars PROVE TypeOK'
  OBVIOUS
<1>1. CASE UNCHANGED vars
  BY <1>1 DEF vars, engineVars, sessionVars, TypeOK
<1>2. CASE Next
  BY <1>2, BreakType, UserStepType, OutgoingStepType, IncomingStepType DEF Next
<1> QED
  BY <1>1, <1>2

\* The connection endpoints and their engines stay within their states, whatever is
\* asked, sent, lost or timed out, and the sessions see only reasons for a stop.
THEOREM TypeCorrect == Spec => []TypeOK
BY InitType, NextType, PTL DEF Spec

-----------------------------------------------------------------------------
(* A close is confirmed.                                                   *)

\* What the engine knows at each point of a close: it is in Discarding only for a
\* close with an error, whose reason is recorded before anything else happens, and
\* only an engine that read the Close of the peer answers it.
CloseInv ==
  \A p \in Peer :
    /\ phase[p] \in {"stopping", "stopped"} /\ outcome[p] = "Ok" =>
         heard[p] \/ stop_reason[p] = "ClosedWithError"
    /\ phase[p] \in {"select", "flushing", "waiting"} /\ state[p] = "Discarding" =>
         stop_reason[p] = "ClosedWithError"
    /\ phase[p] = "flushing" /\ close_error[p] => stop_reason[p] = "ClosedWithError"
    /\ phase[p] # "stopped" => stop_reason[p] \in {Unset, "ClosedWithError"}
    /\ state[p] = "CloseReceived" => heard[p]

\* Every step keeps it.
LEMMA NextClose == TypeOK /\ CloseInv /\ [Next]_vars => CloseInv'
<1> SUFFICES ASSUME TypeOK, CloseInv, [Next]_vars PROVE CloseInv'
  OBVIOUS
<1>1. CASE UNCHANGED vars
  BY <1>1 DEF vars, engineVars, CloseInv
<1>2. CASE Break
  BY <1>2 DEF Break, engineVars, CloseInv
<1> SUFFICES ASSUME NEW p \in Peer, Next, ~Break,
                    \/ SendOpen(p) \/ OnIncomingOpen(p)
                    \/ \E error \in CloseErrors : AskClose(p, error)
                    \/ SessionSend(p) \/ SessionSendFails(p) \/ SessionRecvFails(p)
                    \/ OnControlClose(p) \/ Flush(p) \/ WriteFails(p)
                    \/ OnOutgoingSessionFrame(p) \/ OnHeartbeat(p)
                    \/ OnIncomingEmpty(p) \/ OnIncomingSessionFrame(p)
                    \/ OnIncomingCloseFirst(p) \/ OnIncomingCloseSecond(p)
                    \/ OnEof(p) \/ OnIdleTimeout(p) \/ Publish(p)
             PROVE  CloseInv'
  BY <1>1, <1>2 DEF Next
<1>3. CASE SendOpen(p)
  BY <1>3 DEF SendOpen, TypeOK, CloseInv
<1>4. CASE OnIncomingOpen(p)
  BY <1>4 DEF OnIncomingOpen, TypeOK, CloseInv
<1>5. CASE \E error \in CloseErrors : AskClose(p, error)
  BY <1>5 DEF AskClose, engineVars, CloseInv
<1>6. CASE SessionSend(p) \/ SessionSendFails(p) \/ SessionRecvFails(p)
  BY <1>6 DEF SessionSend, SessionSendFails, SessionRecvFails, Observe, engineVars, CloseInv
<1>7. CASE OnControlClose(p)
  BY <1>7 DEF OnControlClose, BeginFlush, TypeOK, CloseInv, Unset
<1>8. CASE Flush(p)
  BY <1>8 DEF Flush, Leave, TypeOK, CloseInv
<1>9. CASE WriteFails(p)
  BY <1>9 DEF WriteFails, Leave, TypeOK, CloseInv
<1>10. CASE OnOutgoingSessionFrame(p)
  BY <1>10 DEF OnOutgoingSessionFrame, engineVars, CloseInv
<1>11. CASE OnHeartbeat(p)
  BY <1>11 DEF OnHeartbeat, engineVars, CloseInv
<1>12. CASE OnIncomingEmpty(p)
  BY <1>12 DEF OnIncomingEmpty, engineVars, CloseInv
<1>13. CASE OnIncomingSessionFrame(p)
  BY <1>13 DEF OnIncomingSessionFrame, Leave, Reading, TypeOK, CloseInv
<1>14. CASE OnIncomingCloseFirst(p)
  BY <1>14 DEF OnIncomingCloseFirst, BeginFlush, TypeOK, CloseInv
<1>15. CASE OnIncomingCloseSecond(p)
  BY <1>15 DEF OnIncomingCloseSecond, Leave, Reading, TypeOK, CloseInv
<1>16. CASE OnEof(p)
  BY <1>16 DEF OnEof, Leave, Reading, TypeOK, CloseInv
<1>17. CASE OnIdleTimeout(p)
  BY <1>17 DEF OnIdleTimeout, Leave, Reading, TypeOK, CloseInv
<1>18. CASE Publish(p)
  BY <1>18 DEF Publish, TypeOK, CloseInv, Unset
<1> QED
  BY <1>3, <1>4, <1>5, <1>6, <1>7, <1>8, <1>9, <1>10, <1>11, <1>12, <1>13, <1>14,
     <1>15, <1>16, <1>17, <1>18

\* close() without an error returns Ok only when the peer's Close has been read,
\* however closes cross, sessions send, timeouts elapse and the transport breaks.
THEOREM ConfirmedClose == Spec => []CloseConfirmed
<1>1. Init => CloseInv
  BY DEF Init, CloseInv
<1>2. CloseInv => CloseConfirmed
  BY DEF CloseInv, CloseConfirmed
<1> QED
  BY <1>1, <1>2, InitType, NextType, NextClose, PTL DEF Spec

-----------------------------------------------------------------------------
(* What was handed over precedes the Close.                                *)

HasClose(w) == \E i \in 1 .. Len(w) : w[i].type = "close"

\* No frame of a session follows a Close.
Sealed(w) ==
  \A i, j \in 1 .. Len(w) : w[i].type = "close" /\ i < j => w[j].type # "session"

\* A Close is on its way only when the sessions can hand nothing over any more and
\* nothing is left of what they did; no frame of a session follows it.
HandInv ==
  \A p \in Peer :
    /\ phase[p] = "flushing" => session_closed[p]
    /\ HasClose(wire[p]) => session_closed[p] /\ session_frames[p] = <<>>
    /\ Sealed(wire[p])

\* Reading the first frame, and losing the last ones, break no seal.
LEMMA SealedParts ==
  ASSUME NEW w \in Seq(Frame), Sealed(w)
  PROVE  /\ w # <<>> => Sealed(Tail(w)) /\ (HasClose(Tail(w)) => HasClose(w))
         /\ \A n \in 0 .. Len(w) :
              Sealed(SubSeq(w, 1, n)) /\ (HasClose(SubSeq(w, 1, n)) => HasClose(w))
<1>1. ASSUME w # <<>>
      PROVE  Sealed(Tail(w)) /\ (HasClose(Tail(w)) => HasClose(w))
  <2>1. Len(Tail(w)) = Len(w) - 1 /\ \A i \in 1 .. Len(w) - 1 : Tail(w)[i] = w[i + 1]
    BY <1>1
  <2>2. Len(w) \in Nat
    OBVIOUS
  <2>3. Sealed(Tail(w))
    BY <2>1, <2>2 DEF Sealed
  <2>4. HasClose(Tail(w)) => HasClose(w)
    <3>1. SUFFICES ASSUME NEW i \in 1 .. Len(Tail(w)), Tail(w)[i].type = "close"
                   PROVE  HasClose(w)
      BY DEF HasClose
    <3>2. i + 1 \in 1 .. Len(w) /\ w[i + 1].type = "close"
      BY <2>1, <2>2, <3>1
    <3> QED
      BY <3>2 DEF HasClose
  <2> QED
    BY <2>3, <2>4
<1>2. ASSUME NEW n \in 0 .. Len(w)
      PROVE  Sealed(SubSeq(w, 1, n)) /\ (HasClose(SubSeq(w, 1, n)) => HasClose(w))
  <2>1. Len(SubSeq(w, 1, n)) = n /\ \A i \in 1 .. n : SubSeq(w, 1, n)[i] = w[i]
    OBVIOUS
  <2>2. Len(w) \in Nat
    OBVIOUS
  <2> QED
    BY <2>1, <2>2 DEF Sealed, HasClose
<1> QED
  BY <1>1, <1>2

\* Writing a frame that is no Close.
LEMMA SealedFrame ==
  ASSUME NEW w \in Seq(Frame), Sealed(w), NEW f \in Frame, f.type # "close",
         f.type = "session" => ~HasClose(w)
  PROVE  Sealed(w \o <<f>>) /\ (HasClose(w \o <<f>>) => HasClose(w))
<1> DEFINE v == w \o <<f>>
<1>1. /\ Len(v) = Len(w) + 1 /\ Len(w) \in Nat
      /\ \A i \in 1 .. Len(w) : v[i] = w[i]
      /\ v[Len(w) + 1] = f
  OBVIOUS
<1> HIDE DEF v
<1>2. Sealed(v)
  BY <1>1 DEF Sealed, HasClose
<1>3. HasClose(v) => HasClose(w)
  BY <1>1 DEF HasClose
<1> QED
  BY <1>2, <1>3 DEF v

\* Writing what the sessions handed over, and a Close.
LEMMA SealedFlush ==
  ASSUME NEW w \in Seq(Frame), Sealed(w), NEW s \in Seq({Session}), NEW e \in BOOLEAN,
         HasClose(w) => s = <<>>
  PROVE  Sealed(w \o Append(s, Close(e)))
<1> DEFINE v == w \o Append(s, Close(e))
           m == Len(w)
           n == Len(s)
<1>1. m \in Nat /\ n \in Nat /\ Len(v) = m + n + 1
  OBVIOUS
<1>2. \A i \in 1 .. m : v[i] = w[i]
  OBVIOUS
<1>3. \A i \in m + 1 .. m + n : v[i] = Session
  <2>1. \A i \in 1 .. n : s[i] = Session
    OBVIOUS
  <2> QED
    BY <1>1, <2>1
<1>4. v[m + n + 1] = Close(e)
  BY <1>1
<1>5. HasClose(w) => n = 0
  OBVIOUS
<1> HIDE DEF v, m, n
<1>6. Session.type = "session" /\ Close(e).type = "close"
  BY FrameFacts
<1>7. \A i \in 1 .. m : w[i].type = "close" => n = 0
  BY <1>5 DEF HasClose, m
<1>8. \A i, j \in 1 .. m : w[i].type = "close" /\ i < j => w[j].type # "session"
  BY DEF Sealed, m
<1> SUFFICES ASSUME NEW i \in 1 .. Len(v), NEW j \in 1 .. Len(v),
                    v[i].type = "close", i < j
             PROVE  v[j].type # "session"
  BY DEF Sealed, v
<1>9. CASE j <= m
  BY <1>1, <1>2, <1>8, <1>9
<1>10. CASE j = m + n + 1
  BY <1>4, <1>6, <1>10
<1>11. CASE j > m /\ j # m + n + 1
  <2>1. n # 0
    BY <1>1, <1>11
  <2>2. ~(i \in 1 .. m)
    BY <1>2, <1>7, <2>1
  <2>3. i \in m + 1 .. m + n
    BY <1>1, <1>11, <2>2
  <2> QED
    BY <1>3, <1>6, <2>3
<1> QED
  BY <1>1, <1>9, <1>10, <1>11

\* A step that writes nothing, keeps what the sessions handed over and opens no channel.
LEMMA QuietStep ==
  ASSUME HandInv, session_frames' = session_frames,
         \A q \in Peer : session_closed[q] => session_closed'[q],
         \A q \in Peer : phase'[q] = "flushing" => phase[q] = "flushing" \/ session_closed'[q],
         \A q \in Peer : Sealed(wire'[q]) /\ (HasClose(wire'[q]) => HasClose(wire[q]))
  PROVE  HandInv'
<1> SUFFICES ASSUME NEW q \in Peer
             PROVE  /\ phase'[q] = "flushing" => session_closed'[q]
                    /\ HasClose(wire'[q]) => session_closed'[q] /\ session_frames'[q] = <<>>
                    /\ Sealed(wire'[q])
  BY DEF HandInv, HasClose, Sealed
<1> QED
  BY DEF HandInv

\* Reading keeps the seals.
LEMMA ReadSealed ==
  ASSUME TypeOK, HandInv, NEW p \in Peer, wire[Other(p)] # <<>>, Read(p)
  PROVE  \A q \in Peer : Sealed(wire'[q]) /\ (HasClose(wire'[q]) => HasClose(wire[q]))
<1> SUFFICES ASSUME NEW q \in Peer
             PROVE  Sealed(wire'[q]) /\ (HasClose(wire'[q]) => HasClose(wire[q]))
  OBVIOUS
<1>1. wire[q] \in Seq(Frame) /\ Sealed(wire[q])
  BY DEF TypeOK, HandInv
<1>2. wire'[q] = IF q = Other(p) THEN Tail(wire[q]) ELSE wire[q]
  BY PeerFacts DEF Read, TypeOK
<1> QED
  BY <1>1, <1>2, SealedParts

\* Writing one frame that is no Close keeps the seals.
LEMMA WriteSealed ==
  ASSUME TypeOK, HandInv, NEW p \in Peer, NEW f \in Frame, f.type # "close",
         f.type = "session" => ~HasClose(wire[p]), Write(p, <<f>>)
  PROVE  \A q \in Peer : Sealed(wire'[q]) /\ (HasClose(wire'[q]) => HasClose(wire[q]))
<1> SUFFICES ASSUME NEW q \in Peer
             PROVE  Sealed(wire'[q]) /\ (HasClose(wire'[q]) => HasClose(wire[q]))
  OBVIOUS
<1>1. wire[q] \in Seq(Frame) /\ Sealed(wire[q])
  BY DEF TypeOK, HandInv
<1>2. wire'[q] = IF q = p THEN wire[q] \o <<f>> ELSE wire[q]
  BY DEF Write, TypeOK
<1> QED
  BY <1>1, <1>2, SealedFrame

\* Every step keeps the frames of the sessions ahead of the Close.
LEMMA NextHand == TypeOK /\ HandInv /\ [Next]_vars => HandInv'
<1> SUFFICES ASSUME TypeOK, HandInv, [Next]_vars PROVE HandInv'
  OBVIOUS
<1>a. ASSUME UNCHANGED wire
      PROVE  \A q \in Peer : Sealed(wire'[q]) /\ (HasClose(wire'[q]) => HasClose(wire[q]))
  BY <1>a DEF HandInv
<1>1. CASE UNCHANGED vars
  BY <1>1, <1>a, QuietStep DEF vars, engineVars, sessionVars
<1>2. CASE Break
  <2>1. PICK m \in 0 .. Len(wire[A]), n \in 0 .. Len(wire[B]) :
          wire' = [p \in Peer |-> SubSeq(wire[p], 1, IF p = A THEN m ELSE n)]
    BY <1>2 DEF Break
  <2>2. ASSUME NEW q \in Peer
        PROVE  Sealed(wire'[q]) /\ (HasClose(wire'[q]) => HasClose(wire[q]))
    <3>1. wire[q] \in Seq(Frame) /\ Sealed(wire[q])
      BY DEF TypeOK, HandInv
    <3>2. PICK k \in 0 .. Len(wire[q]) : wire'[q] = SubSeq(wire[q], 1, k)
      BY <2>1 DEF Peer
    <3> QED
      BY <3>1, <3>2, SealedParts
  <2> QED
    BY <1>2, <2>2, QuietStep DEF Break, engineVars, sessionVars
<1> SUFFICES ASSUME NEW p \in Peer, Next, ~Break,
                    \/ SendOpen(p) \/ OnIncomingOpen(p)
                    \/ \E error \in CloseErrors : AskClose(p, error)
                    \/ SessionSend(p) \/ SessionSendFails(p) \/ SessionRecvFails(p)
                    \/ OnControlClose(p) \/ Flush(p) \/ WriteFails(p)
                    \/ OnOutgoingSessionFrame(p) \/ OnHeartbeat(p)
                    \/ OnIncomingEmpty(p) \/ OnIncomingSessionFrame(p)
                    \/ OnIncomingCloseFirst(p) \/ OnIncomingCloseSecond(p)
                    \/ OnEof(p) \/ OnIdleTimeout(p) \/ Publish(p)
             PROVE  HandInv'
  BY <1>1, <1>2 DEF Next
<1>3. CASE SendOpen(p)
  <2>1. Open \in Frame /\ Open.type = "open"
    BY FrameFacts
  <2>2. \A q \in Peer : Sealed(wire'[q]) /\ (HasClose(wire'[q]) => HasClose(wire[q]))
    BY <1>3, <2>1, WriteSealed DEF SendOpen
  <2> QED
    BY <1>3, <2>2, QuietStep DEF SendOpen, sessionVars
<1>4. CASE OnIncomingOpen(p)
  <2>1. \A q \in Peer : Sealed(wire'[q]) /\ (HasClose(wire'[q]) => HasClose(wire[q]))
    BY <1>4, ReadSealed DEF OnIncomingOpen, Arrives
  <2> QED
    BY <1>4, <2>1, QuietStep DEF OnIncomingOpen, sessionVars, TypeOK
<1>5. CASE \E error \in CloseErrors : AskClose(p, error)
  BY <1>5, <1>a, QuietStep DEF AskClose, engineVars, sessionVars
<1>6. CASE SessionSend(p)
  <2> SUFFICES ASSUME NEW q \in Peer
               PROVE  /\ phase'[q] = "flushing" => session_closed'[q]
                      /\ HasClose(wire'[q]) =>
                           session_closed'[q] /\ session_frames'[q] = <<>>
                      /\ Sealed(wire'[q])
    BY DEF HandInv, HasClose, Sealed
  <2> QED
    BY <1>6 DEF SessionSend, HandInv, TypeOK, engineVars
<1>7. CASE SessionSendFails(p) \/ SessionRecvFails(p)
  BY <1>7, <1>a, QuietStep DEF SessionSendFails, SessionRecvFails, Observe, engineVars
<1>8. CASE OnControlClose(p)
  BY <1>8, <1>a, QuietStep DEF OnControlClose, BeginFlush, TypeOK
<1>9. CASE Flush(p)
  <2> SUFFICES ASSUME NEW q \in Peer
               PROVE  /\ phase'[q] = "flushing" => session_closed'[q]
                      /\ HasClose(wire'[q]) =>
                           session_closed'[q] /\ session_frames'[q] = <<>>
                      /\ Sealed(wire'[q])
    BY DEF HandInv, HasClose, Sealed
  <2>1. phase'[q] = "flushing" => q # p /\ phase[q] = "flushing"
    BY <1>9 DEF Flush, Leave, TypeOK
  <2>2. session_closed[p] /\ session_closed' = session_closed
    BY <1>9 DEF Flush, HandInv
  <2>3. CASE q = p
    <3>1. wire'[p] = wire[p] \o Append(session_frames[p], Close(close_error[p]))
          /\ session_frames'[p] = <<>>
      BY <1>9 DEF Flush, Write, TypeOK
    <3>2. /\ wire[p] \in Seq(Frame) /\ session_frames[p] \in Seq({Session})
          /\ close_error[p] \in BOOLEAN
      BY DEF TypeOK
    <3>3. Sealed(wire[p]) /\ (HasClose(wire[p]) => session_frames[p] = <<>>)
      BY DEF HandInv
    <3>4. Sealed(wire'[p])
      BY <3>1, <3>2, <3>3, SealedFlush
    <3> QED
      BY <2>1, <2>2, <2>3, <3>1, <3>4
  <2>4. CASE q # p
    <3>1. wire'[q] = wire[q] /\ session_frames'[q] = session_frames[q]
      BY <1>9, <2>4 DEF Flush, Write, TypeOK
    <3> QED
      BY <2>1, <2>2, <3>1 DEF HandInv
  <2> QED
    BY <2>3, <2>4
<1>10. CASE WriteFails(p)
  BY <1>10, <1>a, QuietStep DEF WriteFails, Leave, TypeOK, sessionVars
<1>11. CASE OnOutgoingSessionFrame(p)
  <2>1. session_frames[p] \in Seq({Session}) /\ session_frames[p] # <<>>
    BY <1>11 DEF OnOutgoingSessionFrame, TypeOK
  <2>2. Head(session_frames[p]) = Session /\ ~HasClose(wire[p])
    BY <2>1 DEF HandInv
  <2>3. \A q \in Peer : Sealed(wire'[q]) /\ (HasClose(wire'[q]) => HasClose(wire[q]))
    BY <1>11, <2>2, FrameFacts, WriteSealed DEF OnOutgoingSessionFrame
  <2> SUFFICES ASSUME NEW q \in Peer
               PROVE  /\ phase'[q] = "flushing" => session_closed'[q]
                      /\ HasClose(wire'[q]) =>
                           session_closed'[q] /\ session_frames'[q] = <<>>
                      /\ Sealed(wire'[q])
    BY DEF HandInv, HasClose, Sealed
  <2>4. CASE q = p
    BY <1>11, <2>2, <2>3, <2>4 DEF OnOutgoingSessionFrame, HandInv, engineVars
  <2>5. CASE q # p
    BY <1>11, <2>3, <2>5 DEF OnOutgoingSessionFrame, HandInv, TypeOK, engineVars
  <2> QED
    BY <2>4, <2>5
<1>12. CASE OnHeartbeat(p)
  <2>1. CASE state[p] = "CloseSent"
    <3>1. wire' = wire
      BY <1>12, <2>1 DEF OnHeartbeat, Write, TypeOK
    <3> QED
      BY <1>12, <3>1, <1>a, QuietStep DEF OnHeartbeat, engineVars, sessionVars
  <2>2. CASE state[p] # "CloseSent"
    <3>1. \A q \in Peer : Sealed(wire'[q]) /\ (HasClose(wire'[q]) => HasClose(wire[q]))
      BY <1>12, <2>2, FrameFacts, WriteSealed DEF OnHeartbeat
    <3> QED
      BY <1>12, <3>1, QuietStep DEF OnHeartbeat, engineVars, sessionVars
  <2> QED
    BY <2>1, <2>2
<1>13. CASE OnIncomingEmpty(p)
  <2>1. \A q \in Peer : Sealed(wire'[q]) /\ (HasClose(wire'[q]) => HasClose(wire[q]))
    BY <1>13, ReadSealed DEF OnIncomingEmpty, Arrives
  <2> QED
    BY <1>13, <2>1, QuietStep DEF OnIncomingEmpty, engineVars, sessionVars
<1>14. CASE OnIncomingSessionFrame(p)
  <2>1. \A q \in Peer : Sealed(wire'[q]) /\ (HasClose(wire'[q]) => HasClose(wire[q]))
    BY <1>14, ReadSealed DEF OnIncomingSessionFrame, Arrives
  <2>2. \A q \in Peer : phase'[q] = "flushing" => phase[q] = "flushing"
    BY <1>14 DEF OnIncomingSessionFrame, Leave, TypeOK
  <2> QED
    BY <1>14, <2>1, <2>2, QuietStep DEF OnIncomingSessionFrame, sessionVars
<1>15. CASE OnIncomingCloseFirst(p)
  <2>1. \A q \in Peer : Sealed(wire'[q]) /\ (HasClose(wire'[q]) => HasClose(wire[q]))
    BY <1>15, ReadSealed DEF OnIncomingCloseFirst, Arrives
  <2> QED
    BY <1>15, <2>1, QuietStep DEF OnIncomingCloseFirst, BeginFlush, TypeOK
<1>16. CASE OnIncomingCloseSecond(p)
  <2>1. \A q \in Peer : Sealed(wire'[q]) /\ (HasClose(wire'[q]) => HasClose(wire[q]))
    BY <1>16, ReadSealed DEF OnIncomingCloseSecond, Arrives
  <2> QED
    BY <1>16, <2>1, QuietStep DEF OnIncomingCloseSecond, Leave, sessionVars, TypeOK
<1>17. CASE OnEof(p)
  BY <1>17, <1>a, QuietStep DEF OnEof, Leave, TypeOK, sessionVars
<1>18. CASE OnIdleTimeout(p)
  BY <1>18, <1>a, QuietStep DEF OnIdleTimeout, Leave, TypeOK, sessionVars
<1>19. CASE Publish(p)
  BY <1>19, <1>a, QuietStep DEF Publish, TypeOK
<1> QED
  BY <1>3, <1>4, <1>5, <1>6, <1>7, <1>8, <1>9, <1>10, <1>11, <1>12, <1>13, <1>14,
     <1>15, <1>16, <1>17, <1>18, <1>19

\* What the sessions handed over before the connection closed their channel leaves
\* ahead of its Close, and nothing of theirs follows it.
THEOREM HandedFirst == Spec => []HandedBeforeClose
<1>1. Init => HandInv
  BY DEF Init, HandInv, HasClose, Sealed
<1>2. ASSUME TypeOK, HandInv
      PROVE  HandedBeforeClose
  <2> SUFFICES ASSUME NEW p \in Peer, NEW i \in DOMAIN wire[p], wire[p][i] = Close(FALSE)
               PROVE  /\ session_frames[p] = <<>>
                      /\ \A j \in i + 1 .. Len(wire[p]) : wire[p][j] # Session
    BY DEF HandedBeforeClose
  <2>1. wire[p] \in Seq(Frame) /\ i \in 1 .. Len(wire[p]) /\ Len(wire[p]) \in Nat
    BY <1>2 DEF TypeOK
  <2>2. wire[p][i].type = "close"
    BY DEF Close
  <2>3. session_frames[p] = <<>>
    BY <1>2, <2>1, <2>2 DEF HandInv, HasClose
  <2>4. \A j \in i + 1 .. Len(wire[p]) : wire[p][j].type # "session"
    <3>1. Sealed(wire[p])
      BY <1>2 DEF HandInv
    <3> TAKE j \in i + 1 .. Len(wire[p])
    <3>2. j \in 1 .. Len(wire[p]) /\ i < j
      BY <2>1
    <3> QED
      BY <2>1, <2>2, <3>1, <3>2 DEF Sealed
  <2>5. Session.type = "session"
    BY FrameFacts
  <2> QED
    BY <2>3, <2>4, <2>5
<1> QED
  BY <1>1, <1>2, InitType, NextType, NextHand, PTL DEF Spec
=============================================================================
