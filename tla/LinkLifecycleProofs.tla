------------------------ MODULE LinkLifecycleProofs ------------------------
(***************************************************************************)
(* The session engines keep the invariant of LinkExchangeProofs too.  So,  *)
(* for any number of endpoints and any names, neither session fails, no    *)
(* frame goes astray and nothing is left behind, unless one of the mishaps *)
(* the model names has happened.                                           *)
(***************************************************************************)
EXTENDS LinkExchangeProofs

-----------------------------------------------------------------------------
(* The engine takes a frame of a link.                                     *)

\* No link has changed.
LEMMA SameLinks ==
  ASSUME link' = link
  PROVE  /\ stage' = stage /\ me' = me /\ called' = called /\ held' = held /\ parted' = parted /\ clean' = clean
         /\ known' = known /\ past' = past /\ mate' = mate
<1>1. stage' = stage
  BY DEF stage
<1>2. me' = me /\ called' = called /\ held' = held /\ parted' = parted /\ clean' = clean
  BY DEF me, called, held, parted, clean
<1>3. known' = known /\ past' = past
  BY <1>1, SameLives
<1>4. mate' = mate
  BY SameMates
<1> QED
  BY <1>1, <1>2, <1>3, <1>4

\* The first element of s is taken.
LEMMA Shifted ==
  ASSUME NEW s \in Seq(Frame), s # <<>>
  PROVE  /\ Tail(s) \in Seq(Frame) /\ 1 \in 1 .. Len(s) /\ Head(s) = s[1] /\ s[1] \in Frame
         /\ \A i \in 1 .. Len(Tail(s)) : i + 1 \in 1 .. Len(s) /\ i + 1 # 1 /\ Tail(s)[i] = s[i + 1]
         /\ \A i \in 1 .. Len(s) : i = 1 \/ (i - 1 \in 1 .. Len(Tail(s)) /\ Tail(s)[i - 1] = s[i])
         /\ s[1].type = "Detach" => \A a : NotIn(Tail(s), a) => NotIn(s, a)
<1>1. /\ Tail(s) \in Seq(Frame) /\ Len(s) \in Nat /\ Len(s) >= 1 /\ Len(Tail(s)) = Len(s) - 1
      /\ Head(s) = s[1] /\ s[1] \in Frame /\ \A i \in 1 .. Len(s) - 1 : Tail(s)[i] = s[i + 1]
  BY Shrunk
<1>2. \A i \in 1 .. Len(Tail(s)) : i + 1 \in 1 .. Len(s) /\ i + 1 # 1 /\ Tail(s)[i] = s[i + 1]
  BY <1>1
<1>3. \A i \in 1 .. Len(s) : i = 1 \/ (i - 1 \in 1 .. Len(Tail(s)) /\ Tail(s)[i - 1] = s[i])
  BY <1>1
<1>4. ASSUME s[1].type = "Detach", NEW a, NotIn(Tail(s), a)
      PROVE  NotIn(s, a)
  BY <1>3, <1>4 DEF NotIn
<1> QED
  BY <1>1, <1>2, <1>3, <1>4

Takes(p, f) == frames[p] # <<>> /\ f = Head(frames[p]) /\ frames' = [frames EXCEPT ![p] = Tail(@)]

\* The first frame of a peer's links is taken from the queue.
LEMMA FrameTaken ==
  ASSUME Parts, NEW p \in Peer, NEW f, Takes(p, f)
  PROVE  /\ f \in Frame /\ frames' \in [Peer -> Seq(Frame)] /\ \A q \in Peer : q # p => frames'[q] = frames[q]
         /\ frames[p] \in Seq(Frame) /\ frames[p] # <<>> /\ frames'[p] = Tail(frames[p])
         /\ 1 \in 1 .. Len(frames[p]) /\ frames[p][1] = f
         /\ \A i \in 1 .. Len(frames'[p]) : i + 1 \in 1 .. Len(frames[p]) /\ i + 1 # 1 /\ frames'[p][i] = frames[p][i + 1]
         /\ \A i \in 1 .. Len(frames[p]) : i = 1 \/ (i - 1 \in 1 .. Len(frames'[p]) /\ frames'[p][i - 1] = frames[p][i])
         /\ f.type = "Detach" => \A a : NotIn(frames'[p], a) => NotIn(frames[p], a)
         /\ \A q \in Peer : \A i \in 1 .. Len(frames'[q]) : \E j \in 1 .. Len(frames[q]) : frames'[q][i] = frames[q][j]
<1>1. /\ frames \in [Peer -> Seq(Frame)] /\ frames[p] # <<>> /\ f = Head(frames[p]) /\ frames' = [frames EXCEPT ![p] = Tail(@)]
  BY DEF Parts, Typed, Takes
<1>2. frames[p] \in Seq(Frame) /\ frames'[p] = Tail(frames[p]) /\ \A q \in Peer : q # p => frames'[q] = frames[q]
  BY <1>1
<1> DEFINE s == frames[p]
           t == frames'[p]
<1>3. /\ t \in Seq(Frame) /\ 1 \in 1 .. Len(s) /\ f = s[1] /\ f \in Frame
      /\ \A i \in 1 .. Len(t) : i + 1 \in 1 .. Len(s) /\ i + 1 # 1 /\ t[i] = s[i + 1]
      /\ \A i \in 1 .. Len(s) : i = 1 \/ (i - 1 \in 1 .. Len(t) /\ t[i - 1] = s[i])
      /\ f.type = "Detach" => \A a : NotIn(t, a) => NotIn(s, a)
  <2>1. s \in Seq(Frame) /\ s # <<>> /\ f = Head(s) /\ t = Tail(s)
    BY <1>1, <1>2
  <2> HIDE DEF s, t
  <2>2. /\ Tail(s) \in Seq(Frame) /\ 1 \in 1 .. Len(s) /\ Head(s) = s[1] /\ s[1] \in Frame
        /\ \A i \in 1 .. Len(Tail(s)) : i + 1 \in 1 .. Len(s) /\ i + 1 # 1 /\ Tail(s)[i] = s[i + 1]
        /\ \A i \in 1 .. Len(s) : i = 1 \/ (i - 1 \in 1 .. Len(Tail(s)) /\ Tail(s)[i - 1] = s[i])
        /\ s[1].type = "Detach" => \A a : NotIn(Tail(s), a) => NotIn(s, a)
    BY <2>1, Shifted
  <2> QED
    BY <2>1, <2>2
<1>4. frames' \in [Peer -> Seq(Frame)]
  BY <1>1, <1>2, <1>3
<1>5. \A q \in Peer : \A i \in 1 .. Len(frames'[q]) : \E j \in 1 .. Len(frames[q]) : frames'[q][i] = frames[q][j]
  <2>1. ASSUME NEW q \in Peer, NEW i \in 1 .. Len(frames'[q])
        PROVE  \E j \in 1 .. Len(frames[q]) : frames'[q][i] = frames[q][j]
    <3>1. CASE q = p
      BY <3>1, <1>3
    <3>2. CASE q # p
      BY <3>2, <1>2
    <3> QED
      BY <3>1, <3>2
  <2> QED
    BY <2>1
<1> QED
  BY <1>1, <1>2, <1>3, <1>4, <1>5

\* What is known of the frames that are left.
Left ==
  /\ All(frames'[Client], asks) /\ Once(frames'[Client]) /\ Apart(frames'[Client], wire[Client]) /\ Apart(frames'[Client], backlog)
  /\ \A b \in Attachment : mate[b] # Nobody => NotIn(frames'[Client], mate[b])
  /\ All(frames'[Listener], answers) /\ Once(frames'[Listener]) /\ Apart(frames'[Listener], wire[Listener])
  /\ \A i \in 1 .. Len(frames'[Listener]) : frames'[Listener][i].type = "Attach" =>
       /\ slab[Listener][frames'[Listener][i].handle] = frames'[Listener][i].from
       /\ \A j \in 1 .. Len(frames'[Listener]) :
            frames'[Listener][j].type = "Detach" /\ frames'[Listener][j].from = frames'[Listener][i].from => i < j
  /\ \A q \in Peer : \A i \in 1 .. Len(frames'[q]) : frames'[q][i].type = "Detach" => frames'[q][i].from \in past[q]

\* What is left in the queue.
LEMMA FramesLeft ==
  ASSUME Parts, NEW p \in Peer, NEW f, Takes(p, f)
  PROVE  Left
<1>1. /\ \A q \in Peer : q # p => frames'[q] = frames[q]
      /\ frames[p] \in Seq(Frame) /\ frames[p] # <<>> /\ frames'[p] = Tail(frames[p])
      /\ \A i \in 1 .. Len(frames'[p]) : i + 1 \in 1 .. Len(frames[p]) /\ i + 1 # 1 /\ frames'[p][i] = frames[p][i + 1]
      /\ \A q \in Peer : \A i \in 1 .. Len(frames'[q]) : \E j \in 1 .. Len(frames[q]) : frames'[q][i] = frames[q][j]
  BY FrameTaken
<1>2. wire[Client] \in Seq(Frame) /\ wire[Listener] \in Seq(Frame) /\ backlog \in Seq(Frame)
  BY Peers DEF Parts, Typed
<1>3. /\ All(frames[Client], asks) /\ Once(frames[Client]) /\ Apart(frames[Client], wire[Client]) /\ Apart(frames[Client], backlog)
      /\ \A b \in Attachment : mate[b] # Nobody => NotIn(frames[Client], mate[b])
      /\ All(frames[Listener], answers) /\ Once(frames[Listener]) /\ Apart(frames[Listener], wire[Listener])
  BY DEF Parts, Asks, Mates, Replies
<1>4. /\ All(frames'[Client], asks) /\ Once(frames'[Client]) /\ Apart(frames'[Client], wire[Client]) /\ Apart(frames'[Client], backlog)
      /\ \A b \in Attachment : mate[b] # Nobody => NotIn(frames'[Client], mate[b])
  <2>1. CASE p = Client
    BY <2>1, <1>1, <1>2, <1>3, AttachTaken
  <2>2. CASE p # Client
    BY <2>2, <1>1, <1>3, Peers
  <2> QED
    BY <2>1, <2>2
<1>5. All(frames'[Listener], answers) /\ Once(frames'[Listener]) /\ Apart(frames'[Listener], wire[Listener])
  <2>1. CASE p = Listener
    BY <2>1, <1>1, <1>2, <1>3, AttachTaken
  <2>2. CASE p # Listener
    BY <2>2, <1>1, <1>3, Peers
  <2> QED
    BY <2>1, <2>2
<1>6. ASSUME NEW i \in 1 .. Len(frames'[Listener]), frames'[Listener][i].type = "Attach"
      PROVE  /\ slab[Listener][frames'[Listener][i].handle] = frames'[Listener][i].from
             /\ \A j \in 1 .. Len(frames'[Listener]) :
                  frames'[Listener][j].type = "Detach" /\ frames'[Listener][j].from = frames'[Listener][i].from => i < j
  <2>0. \A k \in 1 .. Len(frames[Listener]) : frames[Listener][k].type = "Attach" =>
          /\ slab[Listener][frames[Listener][k].handle] = frames[Listener][k].from
          /\ \A j \in 1 .. Len(frames[Listener]) :
               frames[Listener][j].type = "Detach" /\ frames[Listener][j].from = frames[Listener][k].from => k < j
    BY DEF Parts, Replies
  <2>1. CASE p = Listener
    <3>1. i + 1 \in 1 .. Len(frames[Listener]) /\ frames'[Listener][i] = frames[Listener][i + 1]
      BY <2>1, <1>1
    <3>2. /\ slab[Listener][frames'[Listener][i].handle] = frames'[Listener][i].from
          /\ \A j \in 1 .. Len(frames[Listener]) :
               frames[Listener][j].type = "Detach" /\ frames[Listener][j].from = frames'[Listener][i].from => i + 1 < j
      BY <2>0, <3>1, <1>6
    <3>3. \A j \in 1 .. Len(frames'[Listener]) :
            frames'[Listener][j].type = "Detach" /\ frames'[Listener][j].from = frames'[Listener][i].from => i + 1 < j + 1
      BY <2>1, <3>2, <1>1
    <3> QED
      BY <3>2, <3>3
  <2>2. CASE p # Listener
    <3>1. frames'[Listener] = frames[Listener]
      BY <2>2, <1>1, Peers
    <3> QED
      BY <2>0, <3>1, <1>6
  <2> QED
    BY <2>1, <2>2
<1>7. \A q \in Peer : \A i \in 1 .. Len(frames'[q]) : frames'[q][i].type = "Detach" => frames'[q][i].from \in past[q]
  BY <1>1 DEF Parts, Detaching
<1> QED
  BY <1>4, <1>5, <1>6, <1>7 DEF Left

\* Nobody else has the Attach that is taken.
LEMMA AttachAlone ==
  ASSUME Parts, NEW p \in Peer, NEW f, Takes(p, f), f.type = "Attach"
  PROVE  /\ p = Client => /\ f \in asks /\ NotIn(wire[p], f.from) /\ NotIn(backlog, f.from) /\ NotIn(frames'[p], f.from)
                          /\ \A b \in Attachment : mate[b] # Nobody => f.from # mate[b]
         /\ p = Listener => /\ f \in answers /\ NotIn(wire[p], f.from) /\ NotIn(frames'[p], f.from)
                            /\ slab[p][f.handle] = f.from
<1>1. /\ frames[p] \in Seq(Frame) /\ frames[p] # <<>> /\ frames'[p] = Tail(frames[p]) /\ 1 \in 1 .. Len(frames[p]) /\ frames[p][1] = f
  BY FrameTaken
<1>2. wire[p] \in Seq(Frame) /\ backlog \in Seq(Frame)
  BY DEF Parts, Typed
<1>3. CASE p = Client
  <2>1. /\ All(frames[p], asks) /\ Once(frames[p]) /\ Apart(frames[p], wire[p]) /\ Apart(frames[p], backlog)
        /\ \A b \in Attachment : mate[b] # Nobody => NotIn(frames[p], mate[b])
    BY <1>3 DEF Parts, Asks, Mates
  <2> QED
    BY <2>1, <1>1, <1>2, <1>3, AttachTaken, Peers
<1>4. CASE p = Listener
  <2>1. All(frames[p], answers) /\ Once(frames[p]) /\ Apart(frames[p], wire[p])
    BY <1>4 DEF Parts, Replies
  <2>2. slab[p][f.handle] = f.from
    BY <1>1, <1>4 DEF Parts, Replies
  <2> QED
    BY <2>1, <2>2, <1>1, <1>2, <1>4, AttachTaken, Peers
<1> QED
  BY <1>3, <1>4, Peers

\* A Detach that would repeat the session's own reply is dropped.
LEMMA DroppedStep ==
  ASSUME Parts, NEW p \in Peer, NEW f, Takes(p, f), f.type = "Detach", slab[p][f.handle] = Nobody,
         UNCHANGED <<link, tables, control, wire, backlog, failure>>
  PROVE  Parts'
<1>1. /\ frames' \in [Peer -> Seq(Frame)] /\ \A q \in Peer : q # p => frames'[q] = frames[q]
      /\ 1 \in 1 .. Len(frames[p]) /\ frames[p][1] = f
      /\ \A i \in 1 .. Len(frames[p]) : i = 1 \/ (i - 1 \in 1 .. Len(frames'[p]) /\ frames'[p][i - 1] = frames[p][i])
      /\ \A a : NotIn(frames'[p], a) => NotIn(frames[p], a)
  BY FrameTaken
<1>2. Left
  BY FramesLeft
<1>3. /\ stage' = stage /\ me' = me /\ called' = called /\ held' = held /\ parted' = parted /\ clean' = clean
      /\ known' = known /\ past' = past /\ mate' = mate
  BY SameLinks
<1>4. UNCHANGED <<slab, vacant, by_name, by_in, close_pending, control, wire, backlog, failure, link>>
  BY DEF tables
<1>5. awaited' = awaited /\ asks' = asks /\ answers' = answers
  BY <1>3, <1>4, SameAwaited, SameAnswers
<1>6. Typed' /\ Shaped' /\ Inboxes'
  <2>1. Typed'
    BY <1>1, <1>4 DEF Parts, Typed
  <2>2. Shaped'
    BY <1>4 DEF Parts, Shaped
  <2>3. Inboxes'
    BY <1>3, <1>4 DEF Parts, Inboxes
  <2> QED
    BY <2>1, <2>2, <2>3
<1>7. Requests' /\ Vacant' /\ Slots' /\ Reached' /\ Named' /\ Registered' /\ Pending'
  BY <1>3, SameTables
<1>8. Holders'
  <2>1. ASSUME NEW q \in Peer, NEW h \in Handle, NEW e \in End(q), slab[q][h] = me[<<q, e>>], held[<<q, e>>] # h
        PROVE  \E i \in 1 .. Len(frames'[q]) : DetachOf(frames'[q][i], me[<<q, e>>], h)
    <3>1. PICK i \in 1 .. Len(frames[q]) : DetachOf(frames[q][i], me[<<q, e>>], h)
      BY <2>1 DEF Parts, Holders
    <3>2. CASE q # p
      BY <3>1, <3>2, <1>1
    <3>3. CASE q = p
      <4>1. me[<<q, e>>] # Nobody
        BY Abbreviated DEF Parts
      <4>2. i # 1
        BY <2>1, <3>1, <3>3, <4>1, <1>1 DEF DetachOf
      <4> QED
        BY <3>1, <3>3, <4>2, <1>1
    <3> QED
      BY <3>2, <3>3
  <2> QED
    BY <2>1, <1>3, <1>4 DEF Holders
<1>9. Asks' /\ Mates'
  <2>1. Asks'
    BY <1>2, <1>4, <1>5 DEF Parts, Asks, Left
  <2>2. UNCHANGED <<wire, backlog, mate, known, stage, me, called, awaited, by_name, by_in>>
    BY <1>3, <1>4, <1>5
  <2>3. \A b \in Attachment : mate[b] # Nobody => NotIn(frames'[Client], mate[b])
    BY <1>2 DEF Left
  <2>4. Mates'
    BY <2>2, <2>3 DEF Parts, Mates
  <2> QED
    BY <2>1, <2>4
<1>10. Replies'
  <2>1. UNCHANGED <<wire, slab, answers>>
    BY <1>4, <1>5
  <2> QED
    BY <2>1, <1>2 DEF Parts, Replies, Left
<1>11. Detaching'
  <2>1. UNCHANGED <<wire, slab, past>>
    BY <1>3, <1>4
  <2> QED
    BY <2>1, <1>2 DEF Parts, Detaching, Left
<1>12. ToListener'
  BY <1>3, <1>4 DEF Parts, ToListener
<1>13. ToClient'
  <2>1. \A a : NotIn(frames'[Listener], a) => NotIn(frames[Listener], a)
    BY <1>1, Peers
  <2>2. UNCHANGED <<wire, slab, by_in, me, stage, mate>>
    BY <1>3, <1>4
  <2> QED
    BY <2>1, <2>2 DEF Parts, ToClient
<1> QED
  BY <1>6, <1>7, <1>8, <1>9, <1>10, <1>11, <1>12, <1>13 DEF Parts

\* The wire of p gets longer by f.
Sends(p, f) == wire' = [wire EXCEPT ![p] = Append(@, f)]

\* A frame goes out on the wire.
LEMMA WireGrown ==
  ASSUME Parts, NEW p \in Peer, NEW f \in Frame, Sends(p, f)
  PROVE  /\ wire' \in [Peer -> Seq(Frame)] /\ \A q \in Peer : q # p => wire'[q] = wire[q]
         /\ wire[p] \in Seq(Frame) /\ wire'[p] = Append(wire[p], f) /\ Len(wire[p]) \in Nat /\ Len(wire'[p]) = Len(wire[p]) + 1
         /\ \A q \in Peer : \A i \in 1 .. Len(wire[q]) : i \in 1 .. Len(wire'[q]) /\ wire'[q][i] = wire[q][i]
         /\ \A i \in 1 .. Len(wire'[p]) : (i \in 1 .. Len(wire[p]) /\ wire'[p][i] = wire[p][i]) \/ (i = Len(wire[p]) + 1 /\ wire'[p][i] = f)
         /\ Len(wire[p]) + 1 \in 1 .. Len(wire'[p]) /\ wire'[p][Len(wire[p]) + 1] = f
<1>1. /\ wire \in [Peer -> Seq(Frame)] /\ wire' = [wire EXCEPT ![p] = Append(@, f)]
  BY DEF Parts, Typed, Sends
<1>2. wire[p] \in Seq(Frame) /\ wire'[p] = Append(wire[p], f) /\ \A q \in Peer : q # p => wire'[q] = wire[q]
  BY <1>1
<1>3. /\ wire'[p] \in Seq(Frame) /\ Len(wire[p]) \in Nat /\ Len(wire'[p]) = Len(wire[p]) + 1
      /\ wire'[p][Len(wire[p]) + 1] = f /\ \A i \in 1 .. Len(wire[p]) : wire'[p][i] = wire[p][i]
  BY <1>2, Grown
<1>4. wire' \in [Peer -> Seq(Frame)]
  BY <1>1, <1>3
<1>5. \A i \in 1 .. Len(wire'[p]) : (i \in 1 .. Len(wire[p]) /\ wire'[p][i] = wire[p][i]) \/ (i = Len(wire[p]) + 1 /\ wire'[p][i] = f)
  BY <1>3
<1>6. \A i \in 1 .. Len(wire[p]) : i \in 1 .. Len(wire'[p])
  BY <1>3
<1>7. \A q \in Peer : \A i \in 1 .. Len(wire[q]) : i \in 1 .. Len(wire'[q]) /\ wire'[q][i] = wire[q][i]
  <2>1. ASSUME NEW q \in Peer, NEW i \in 1 .. Len(wire[q])
        PROVE  i \in 1 .. Len(wire'[q]) /\ wire'[q][i] = wire[q][i]
    <3>1. CASE q = p
      BY <3>1, <1>3, <1>6
    <3>2. CASE q # p
      BY <3>2, <1>2
    <3> QED
      BY <3>1, <3>2
  <2> QED
    BY <2>1
<1>8. Len(wire[p]) + 1 \in 1 .. Len(wire'[p])
  BY <1>3
<1> QED
  BY <1>2, <1>3, <1>4, <1>5, <1>7, <1>8

\* An Attach goes out.
LEMMA AttachSentStep ==
  ASSUME Parts, NEW p \in Peer, NEW f, Takes(p, f), f.type = "Attach", Sends(p, f),
         UNCHANGED <<link, tables, control, backlog, failure>>
  PROVE  Parts'
<1>0. f.type # "Detach"
  OBVIOUS
<1>1. /\ f \in Frame /\ frames' \in [Peer -> Seq(Frame)] /\ \A q \in Peer : q # p => frames'[q] = frames[q]
      /\ 1 \in 1 .. Len(frames[p]) /\ frames[p][1] = f
      /\ \A i \in 1 .. Len(frames[p]) : i = 1 \/ (i - 1 \in 1 .. Len(frames'[p]) /\ frames'[p][i - 1] = frames[p][i])
      /\ frames'[p] \in Seq(Frame)
  <2>1. /\ f \in Frame /\ frames' \in [Peer -> Seq(Frame)] /\ \A q \in Peer : q # p => frames'[q] = frames[q]
        /\ 1 \in 1 .. Len(frames[p]) /\ frames[p][1] = f
        /\ \A i \in 1 .. Len(frames[p]) : i = 1 \/ (i - 1 \in 1 .. Len(frames'[p]) /\ frames'[p][i - 1] = frames[p][i])
    BY FrameTaken
  <2> QED
    BY <2>1
<1>2. Left
  BY FramesLeft
<1>3. /\ stage' = stage /\ me' = me /\ called' = called /\ held' = held /\ parted' = parted /\ clean' = clean
      /\ known' = known /\ past' = past /\ mate' = mate
  BY SameLinks
<1>4. UNCHANGED <<slab, vacant, by_name, by_in, close_pending, control, backlog, failure, link>>
  BY DEF tables
<1>5. awaited' = awaited /\ asks' = asks /\ answers' = answers
  BY <1>3, <1>4, SameAwaited, SameAnswers
<1>6. /\ wire' \in [Peer -> Seq(Frame)] /\ \A q \in Peer : q # p => wire'[q] = wire[q]
      /\ wire[p] \in Seq(Frame) /\ wire'[p] = Append(wire[p], f) /\ Len(wire[p]) \in Nat /\ Len(wire'[p]) = Len(wire[p]) + 1
      /\ \A q \in Peer : \A i \in 1 .. Len(wire[q]) : i \in 1 .. Len(wire'[q]) /\ wire'[q][i] = wire[q][i]
      /\ \A i \in 1 .. Len(wire'[p]) : (i \in 1 .. Len(wire[p]) /\ wire'[p][i] = wire[p][i]) \/ (i = Len(wire[p]) + 1 /\ wire'[p][i] = f)
  BY <1>1, WireGrown
<1>7. Typed' /\ Shaped' /\ Inboxes'
  <2>1. Typed'
    BY <1>1, <1>4, <1>6 DEF Parts, Typed
  <2>2. Shaped'
    BY <1>4 DEF Parts, Shaped
  <2>3. Inboxes'
    BY <1>3, <1>4 DEF Parts, Inboxes
  <2> QED
    BY <2>1, <2>2, <2>3
<1>8. Requests' /\ Vacant' /\ Slots' /\ Reached' /\ Named' /\ Registered' /\ Pending'
  BY <1>3, SameTables
<1>9. Holders'
  <2>1. ASSUME NEW q \in Peer, NEW h \in Handle, NEW e \in End(q), slab[q][h] = me[<<q, e>>], held[<<q, e>>] # h
        PROVE  \E i \in 1 .. Len(frames'[q]) : DetachOf(frames'[q][i], me[<<q, e>>], h)
    <3>1. PICK i \in 1 .. Len(frames[q]) : DetachOf(frames[q][i], me[<<q, e>>], h)
      BY <2>1 DEF Parts, Holders
    <3>2. CASE q # p
      BY <3>1, <3>2, <1>1
    <3>3. CASE q = p
      <4>2. i # 1
        BY <3>1, <3>3, <1>0, <1>1 DEF DetachOf
      <4> QED
        BY <3>1, <3>3, <4>2, <1>1
    <3> QED
      BY <3>2, <3>3
  <2> QED
    BY <2>1, <1>3, <1>4 DEF Holders
<1>10. /\ p = Client => /\ f \in asks /\ NotIn(wire[p], f.from) /\ NotIn(backlog, f.from) /\ NotIn(frames'[p], f.from)
                        /\ \A b \in Attachment : mate[b] # Nobody => f.from # mate[b]
       /\ p = Listener => /\ f \in answers /\ NotIn(wire[p], f.from) /\ NotIn(frames'[p], f.from)
                          /\ slab[p][f.handle] = f.from
  BY AttachAlone
<1>11. backlog \in Seq(Frame) /\ (p = Client \/ p = Listener) /\ Client # Listener /\ Client \in Peer /\ Listener \in Peer
  BY Peers DEF Parts, Typed
<1>12. /\ All(wire'[Client], asks) /\ Once(wire'[Client]) /\ Apart(frames'[Client], wire'[Client]) /\ Apart(wire'[Client], backlog)
       /\ \A b \in Attachment : mate[b] # Nobody => NotIn(wire'[Client], mate[b])
  <2>1. /\ All(wire[Client], asks) /\ Once(wire[Client]) /\ Apart(frames'[Client], wire[Client]) /\ Apart(wire[Client], backlog)
        /\ \A b \in Attachment : mate[b] # Nobody => NotIn(wire[Client], mate[b])
    BY <1>2 DEF Parts, Asks, Mates, Left
  <2>2. CASE p = Client
    BY <2>1, <2>2, <1>1, <1>6, <1>10, <1>11, AttachAdded
  <2>3. CASE p # Client
    BY <2>1, <2>3, <1>6, <1>11
  <2> QED
    BY <2>2, <2>3
<1>13. Asks' /\ Mates'
  <2>1. Asks'
    BY <1>2, <1>4, <1>5, <1>12 DEF Parts, Asks, Left
  <2>2. UNCHANGED <<backlog, mate, known, stage, me, called, awaited, by_name, by_in>>
    BY <1>3, <1>4, <1>5
  <2>3. \A b \in Attachment : mate[b] # Nobody => NotIn(frames'[Client], mate[b])
    BY <1>2 DEF Left
  <2>4. Mates'
    BY <2>2, <2>3, <1>12 DEF Parts, Mates
  <2> QED
    BY <2>1, <2>4
<1>14. All(wire'[Listener], answers) /\ Once(wire'[Listener]) /\ Apart(frames'[Listener], wire'[Listener])
  <2>1. All(wire[Listener], answers) /\ Once(wire[Listener]) /\ Apart(frames'[Listener], wire[Listener])
    BY <1>2 DEF Parts, Replies, Left
  <2>2. CASE p = Listener
    BY <2>1, <2>2, <1>1, <1>6, <1>10, AttachAdded
  <2>3. CASE p # Listener
    BY <2>1, <2>3, <1>6, <1>11
  <2> QED
    BY <2>2, <2>3
<1>15. Replies'
  <2>1. ASSUME NEW i \in 1 .. Len(wire'[Listener]), wire'[Listener][i].type = "Attach"
        PROVE  \/ slab[Listener][wire'[Listener][i].handle] = wire'[Listener][i].from
               \/ \E j \in 1 .. Len(wire'[Listener]) : DetachOf(wire'[Listener][j], wire'[Listener][i].from, wire'[Listener][i].handle)
    <3>1. CASE i \in 1 .. Len(wire[Listener]) /\ wire'[Listener][i] = wire[Listener][i]
      <4>1. \/ slab[Listener][wire[Listener][i].handle] = wire[Listener][i].from
            \/ \E j \in 1 .. Len(wire[Listener]) : DetachOf(wire[Listener][j], wire[Listener][i].from, wire[Listener][i].handle)
        BY <2>1, <3>1 DEF Parts, Replies
      <4>2. CASE slab[Listener][wire[Listener][i].handle] = wire[Listener][i].from
        BY <3>1, <4>2
      <4>3. CASE \E j \in 1 .. Len(wire[Listener]) : DetachOf(wire[Listener][j], wire[Listener][i].from, wire[Listener][i].handle)
        <5>1. PICK j \in 1 .. Len(wire[Listener]) : DetachOf(wire[Listener][j], wire[Listener][i].from, wire[Listener][i].handle)
          BY <4>3
        <5>2. j \in 1 .. Len(wire'[Listener]) /\ wire'[Listener][j] = wire[Listener][j]
          BY <1>6, <1>11
        <5> QED
          BY <3>1, <5>1, <5>2
      <4> QED
        BY <4>1, <4>2, <4>3
    <3>2. CASE p = Listener /\ wire'[Listener][i] = f
      BY <3>2, <1>10
    <3> QED
      BY <3>1, <3>2, <1>6, <1>11
  <2>2. UNCHANGED <<slab, answers>>
    BY <1>4, <1>5
  <2> QED
    BY <2>1, <2>2, <1>2, <1>14 DEF Replies, Left
<1>16. Detaching'
  <2>1. ASSUME NEW q \in Peer, NEW i \in 1 .. Len(wire'[q]), wire'[q][i].type = "Detach"
        PROVE  i \in 1 .. Len(wire[q]) /\ wire'[q][i] = wire[q][i]
    BY <2>1, <1>0, <1>6
  <2>2. UNCHANGED <<slab, past>>
    BY <1>3, <1>4
  <2>3. ASSUME NEW q \in Peer, NEW i \in 1 .. Len(wire'[q]), wire'[q][i].type = "Detach"
        PROVE  wire'[q][i].from \in past[q] /\ \A h \in Handle : slab[q][h] # wire'[q][i].from
    <3>1. i \in 1 .. Len(wire[q]) /\ wire'[q][i] = wire[q][i]
      BY <2>1, <2>3
    <3>2. wire[q][i].from \in past[q] /\ \A h \in Handle : slab[q][h] # wire[q][i].from
      BY <2>3, <3>1 DEF Parts, Detaching
    <3> QED
      BY <3>1, <3>2
  <2> QED
    BY <2>2, <2>3, <1>2 DEF Detaching, Left
<1>17. ToListener'
  <2>1. ASSUME NEW j \in 1 .. Len(wire'[Client]), wire'[Client][j].type = "Detach"
        PROVE  /\ j \in 1 .. Len(wire[Client]) /\ wire'[Client][j] = wire[Client][j]
               /\ \A k \in 1 .. j - 1 : wire'[Client][k] = wire[Client][k]
    <3>1. j \in 1 .. Len(wire[Client]) /\ wire'[Client][j] = wire[Client][j]
      BY <2>1, <1>0, <1>6, <1>11
    <3>2. \A k \in 1 .. j - 1 : k \in 1 .. Len(wire[Client])
      <4>1. Len(wire[Client]) \in Nat
        BY <1>11 DEF Parts, Typed
      <4> QED
        BY <3>1, <4>1
    <3> QED
      BY <3>1, <3>2, <1>6, <1>11
  <2>2. ASSUME NEW j \in 1 .. Len(wire'[Client]), wire'[Client][j].type = "Detach"
        PROVE  /\ by_in[Listener][wire'[Client][j].handle].who # Nobody
               /\ mate[by_in[Listener][wire'[Client][j].handle].who] = wire'[Client][j].from
               /\ \A i \in 1 .. j - 1 : wire'[Client][i].handle # wire'[Client][j].handle
               /\ \A i \in 1 .. Len(backlog) : backlog[i].handle # wire'[Client][j].handle
               /\ \A i \in 1 .. Len(control[Listener]) : control[Listener][i].input # wire'[Client][j].handle
    <3>1. /\ j \in 1 .. Len(wire[Client]) /\ wire'[Client][j] = wire[Client][j]
          /\ \A k \in 1 .. j - 1 : wire'[Client][k] = wire[Client][k]
      BY <2>1, <2>2
    <3>2. /\ by_in[Listener][wire[Client][j].handle].who # Nobody
          /\ mate[by_in[Listener][wire[Client][j].handle].who] = wire[Client][j].from
          /\ \A i \in 1 .. j - 1 : wire[Client][i].handle # wire[Client][j].handle
          /\ \A i \in 1 .. Len(backlog) : backlog[i].handle # wire[Client][j].handle
          /\ \A i \in 1 .. Len(control[Listener]) : control[Listener][i].input # wire[Client][j].handle
      BY <2>2, <3>1 DEF Parts, ToListener
    <3> QED
      BY <3>1, <3>2
  <2>3. ASSUME NEW g \in Handle, by_in[Listener][g].who # Nobody
        PROVE  \/ slab[Client][g] = mate[by_in[Listener][g].who]
               \/ \E j \in 1 .. Len(wire'[Client]) : DetachOf(wire'[Client][j], mate[by_in[Listener][g].who], g)
    <3>1. \A j \in 1 .. Len(wire[Client]) : j \in 1 .. Len(wire'[Client]) /\ wire'[Client][j] = wire[Client][j]
      BY <1>6, <1>11
    <3>2. \/ slab[Client][g] = mate[by_in[Listener][g].who]
          \/ \E j \in 1 .. Len(wire[Client]) : DetachOf(wire[Client][j], mate[by_in[Listener][g].who], g)
      BY <2>3 DEF Parts, ToListener
    <3> QED
      BY <3>1, <3>2
  <2>4. UNCHANGED <<slab, by_in, control, backlog, me, stage, mate>>
    BY <1>3, <1>4
  <2> QED
    BY <2>2, <2>3, <2>4 DEF Parts, ToListener
<1>18. CASE p = Client
  <2>1. frames'[Listener] = frames[Listener] /\ wire'[Listener] = wire[Listener] /\ UNCHANGED <<slab, by_in, me, stage, mate>>
    BY <1>1, <1>3, <1>4, <1>6, <1>11, <1>18
  <2>2. ToClient'
    BY <2>1 DEF Parts, ToClient
  <2> QED
    BY <2>2, <1>7, <1>8, <1>9, <1>13, <1>15, <1>16, <1>17 DEF Parts
<1>19. CASE p = Listener
  <2> DEFINE w == wire[Listener]
             v == wire'[Listener]
  <2>0. w \in Seq(Frame) /\ v = Append(w, f) /\ Len(w) \in Nat /\ Len(v) + 1 = Len(w) + 2 /\ Len(w) + 1 \in 1 .. Len(w) + 1
    BY <1>6, <1>19
  <2>1. ASSUME NEW h \in Handle, NEW e \in End(Listener), slab[Listener][h] = me[<<Listener, e>>],
               stage[<<Listener, e>>] # "allocated", NotIn(frames'[Listener], me[<<Listener, e>>])
        PROVE  Open(v, Len(v) + 1, me[<<Listener, e>>], h, by_in[Client], mate[me[<<Listener, e>>]])
    <3>1. CASE f.from = me[<<Listener, e>>]
      <4>1. f.handle = h
        <5>1. f.handle \in Handle
          BY <1>1 DEF Frame
        <5>2. slab[Listener][f.handle] = me[<<Listener, e>>]
          BY <3>1, <1>10, <1>19
        <5> QED
          BY <2>1, <5>1, <5>2, <1>11 DEF Parts, Slots
      <4> QED
        BY <3>1, <4>1, <2>0, <1>1, OpenGrown
    <3>2. CASE f.from # me[<<Listener, e>>]
      <4>1. f.handle # h
        BY <2>1, <3>2, <1>10, <1>19
      <4>2. NotIn(frames[Listener], me[<<Listener, e>>])
        <5>1. ASSUME NEW i \in 1 .. Len(frames[Listener])
              PROVE  frames[Listener][i].from # me[<<Listener, e>>] \/ frames[Listener][i].type # "Attach"
          <6>1. CASE i = 1
            BY <6>1, <3>2, <1>1, <1>19
          <6>2. CASE i - 1 \in 1 .. Len(frames'[Listener]) /\ frames'[Listener][i - 1] = frames[Listener][i]
            BY <6>2, <2>1 DEF NotIn
          <6> QED
            BY <6>1, <6>2, <1>1, <1>19
        <5> QED
          BY <5>1 DEF NotIn
      <4>3. Open(w, Len(w) + 1, me[<<Listener, e>>], h, by_in[Client], mate[me[<<Listener, e>>]])
        BY <2>1, <4>2 DEF Parts, ToClient
      <4> HIDE DEF w, v
      <4> QED
        BY <4>1, <4>3, <2>0, <1>1, OpenGrown
    <3> QED
      BY <3>1, <3>2
  <2>2. ASSUME NEW j \in 1 .. Len(v), v[j].type = "Detach"
        PROVE  Open(v, j, v[j].from, v[j].handle, by_in[Client], mate[v[j].from])
    <3>1. j \in 1 .. Len(w) /\ v[j] = w[j]
      BY <2>2, <1>0, <1>6, <1>19
    <3>2. Open(w, j, w[j].from, w[j].handle, by_in[Client], mate[w[j].from])
      BY <2>2, <3>1 DEF Parts, ToClient
    <3>3. j \in 1 .. Len(w) + 1
      BY <3>1, <2>0
    <3> HIDE DEF w, v
    <3> QED
      BY <3>1, <3>2, <3>3, <2>0, <1>1, OpenGrown
  <2>3. ASSUME NEW g \in Handle, by_in[Client][g].who # Nobody
        PROVE  \E b \in Attachment :
                 /\ mate[b] = by_in[Client][g].who
                 /\ \/ slab[Listener][g] = b
                    \/ \E j \in 1 .. Len(v) : DetachOf(v[j], b, g)
    <3>1. \A j \in 1 .. Len(w) : j \in 1 .. Len(v) /\ v[j] = w[j]
      BY <1>6, <1>11
    <3>2. PICK b \in Attachment :
                 /\ mate[b] = by_in[Client][g].who
                 /\ \/ slab[Listener][g] = b
                    \/ \E j \in 1 .. Len(w) : DetachOf(w[j], b, g)
      BY <2>3 DEF Parts, ToClient
    <3> QED
      BY <3>1, <3>2
  <2>4. UNCHANGED <<slab, by_in, me, stage, mate>>
    BY <1>3, <1>4
  <2>5. ToClient'
    BY <2>1, <2>2, <2>3, <2>4 DEF ToClient
  <2> QED
    BY <2>5, <1>7, <1>8, <1>9, <1>13, <1>15, <1>16, <1>17 DEF Parts
<1> QED
  BY <1>11, <1>18, <1>19

-----------------------------------------------------------------------------
(* A handle is given back.                                                 *)

\* deallocate_link for the link e, which has had the Attach of its peer.
Releases(p, e, h) ==
  /\ slab[p][h] = me[<<p, e>>] /\ stage[<<p, e>>] = "heard"
  /\ slab' = [slab EXCEPT ![p][h] = Nobody]
  /\ vacant' = [vacant EXCEPT ![p] = <<h>> \o @]
  /\ by_name' = [by_name EXCEPT ![p][called[<<p, e>>]] = Absent]

\* The handle is the first to be handed out again.
LEMMA VacancyAdded ==
  ASSUME Parts, NEW p \in Peer, NEW h \in Handle, slab[p][h] # Nobody,
         slab' = [slab EXCEPT ![p][h] = Nobody], vacant' = [vacant EXCEPT ![p] = <<h>> \o @]
  PROVE  Vacant' /\ vacant' \in [Peer -> Seq(Handle)]
<1> DEFINE v == vacant[p]
           w == <<h>> \o v
<1>1. vacant \in [Peer -> Seq(Handle)] /\ v \in Seq(Handle) /\ slab \in [Peer -> [Handle -> Attachment]]
  BY DEF Parts, Typed
<1>2. w \in Seq(Handle) /\ Len(v) \in Nat /\ Len(w) = Len(v) + 1 /\ w[1] = h /\ \A i \in 1 .. Len(v) : w[i + 1] = v[i]
  BY <1>1
<1>3. vacant' \in [Peer -> Seq(Handle)] /\ vacant'[p] = w /\ \A q \in Peer : q # p => vacant'[q] = vacant[q]
  BY <1>1, <1>2
<1>4. /\ slab'[p][h] = Nobody /\ \A g \in Handle : g # h => slab'[p][g] = slab[p][g]
      /\ \A q \in Peer : q # p => slab'[q] = slab[q]
  BY <1>1
<1>5. /\ \A i \in 1 .. Len(v) : slab[p][v[i]] = Nobody /\ v[i] \in Handle
      /\ \A g \in Handle : slab[p][g] = Nobody => \E i \in 1 .. Len(v) : v[i] = g
      /\ \A i, j \in 1 .. Len(v) : v[i] = v[j] => i = j
  BY <1>1 DEF Parts, Vacant
<1>6. \A i \in 1 .. Len(w) : i \in Nat /\ ((i = 1 /\ w[i] = h) \/ (i - 1 \in 1 .. Len(v) /\ w[i] = v[i - 1]))
  BY <1>2
<1>7. 1 \in 1 .. Len(w) /\ \A i \in 1 .. Len(v) : i + 1 \in 1 .. Len(w)
  BY <1>2
<1> HIDE DEF v, w
<1>8. \A i \in 1 .. Len(v) : v[i] # h
  BY <1>5
<1>9. \A i \in 1 .. Len(w) : slab'[p][w[i]] = Nobody
  BY <1>4, <1>5, <1>6, <1>8
<1>10. \A g \in Handle : slab'[p][g] = Nobody => \E i \in 1 .. Len(w) : w[i] = g
  <2>1. ASSUME NEW g \in Handle, slab'[p][g] = Nobody
        PROVE  \E i \in 1 .. Len(w) : w[i] = g
    <3>1. CASE g = h
      BY <3>1, <1>2, <1>7
    <3>2. CASE g # h
      <4>1. PICK i \in 1 .. Len(v) : v[i] = g
        BY <2>1, <3>2, <1>4, <1>5
      <4> QED
        BY <4>1, <1>2, <1>7
    <3> QED
      BY <3>1, <3>2
  <2> QED
    BY <2>1
<1>11. \A i, j \in 1 .. Len(w) : w[i] = w[j] => i = j
  <2>1. ASSUME NEW i \in 1 .. Len(w), NEW j \in 1 .. Len(w), w[i] = w[j]
        PROVE  i = j
    <3>1. CASE i = 1
      BY <2>1, <3>1, <1>2, <1>6, <1>8
    <3>2. CASE i - 1 \in 1 .. Len(v) /\ j - 1 \in 1 .. Len(v)
      <4>1. w[i] = v[i - 1] /\ w[j] = v[j - 1]
        BY <3>2, <1>6, <1>8, <2>1
      <4>2. i - 1 = j - 1
        BY <2>1, <3>2, <4>1, <1>5
      <4> QED
        BY <4>2
    <3>3. CASE j = 1
      BY <2>1, <3>3, <1>2, <1>6, <1>8
    <3> QED
      BY <3>1, <3>2, <3>3, <1>6
  <2> QED
    BY <2>1
<1> DEFINE Free(u, t) == /\ \A i \in 1 .. Len(u) : t[u[i]] = Nobody
                         /\ \A g \in Handle : t[g] = Nobody => \E i \in 1 .. Len(u) : u[i] = g
                         /\ \A i, j \in 1 .. Len(u) : u[i] = u[j] => i = j
<1>12. Free(w, slab'[p])
  BY <1>9, <1>10, <1>11
<1>13. \A q \in Peer : Free(vacant[q], slab[q])
  BY DEF Parts, Vacant
<1>14. \A q \in Peer : Free(vacant'[q], slab'[q])
  <2> HIDE DEF Free
  <2> QED
    BY <1>3, <1>4, <1>12, <1>13
<1>15. Vacant'
  BY <1>14 DEF Vacant
<1> QED
  BY <1>3, <1>15

\* The tables afterwards.
LEMMA Released ==
  ASSUME Parts, NEW p \in Peer, NEW e \in End(p), NEW h \in Handle, Releases(p, e, h)
  PROVE  /\ slab' \in [Peer -> [Handle -> Attachment]] /\ vacant' \in [Peer -> Seq(Handle)] /\ by_name' \in [Peer -> [Names -> Entry]]
         /\ Vacant'
         /\ \A q \in Peer, g \in Handle : ~(q = p /\ g = h) => slab'[q][g] = slab[q][g]
         /\ slab'[p][h] = Nobody /\ \A q \in Peer : q # p => slab'[q] = slab[q]
         /\ \A q \in Peer, g \in Handle : \A d \in End(q) :
              slab'[q][g] = me[<<q, d>>] <=> slab[q][g] = me[<<q, d>>] /\ <<q, d>> # <<p, e>>
         /\ \A g \in Handle : slab'[p][g] # me[<<p, e>>]
         /\ \A q \in Peer, n \in Names : ~(q = p /\ n = called[<<p, e>>]) => by_name'[q][n] = by_name[q][n]
         /\ by_name'[p][called[<<p, e>>]] = Absent /\ called[<<p, e>>] \in Names
         /\ \A n \in awaited : n \in Names /\ by_name'[Client][n] = by_name[Client][n]
<1> DEFINE x == <<p, e>>
           n0 == called[x]
<1>1. /\ slab \in [Peer -> [Handle -> Attachment]] /\ vacant \in [Peer -> Seq(Handle)] /\ by_name \in [Peer -> [Names -> Entry]]
  BY DEF Parts, Typed
<1>2. /\ slab[p][h] = me[x] /\ stage[x] = "heard"
      /\ slab' = [slab EXCEPT ![p][h] = Nobody]
      /\ vacant' = [vacant EXCEPT ![p] = <<h>> \o @]
      /\ by_name' = [by_name EXCEPT ![p][n0] = Absent]
  BY DEF Releases
<1>3. x \in Endpoint /\ me[x] # Nobody /\ \A q \in Peer : \A d \in End(q) : me[<<q, d>>] # Nobody
  BY Endpoints, Abbreviated DEF Parts
<1>4. n0 \in Names
  <2>1. link[x].pc # "idle"
    BY <1>2, <1>3 DEF stage
  <2> QED
    BY <2>1, <1>3 DEF Parts, Shaped, Shape, called
<1> HIDE DEF n0
<1>5. Nobody \in Attachment /\ Absent \in Entry
  <2>1. Nobody \in Attachment
    BY DEF Nobody, Attachment
  <2> QED
    BY <2>1 DEF Absent, Entry
<1>6. /\ slab' \in [Peer -> [Handle -> Attachment]] /\ slab'[p][h] = Nobody
      /\ \A q \in Peer, g \in Handle : ~(q = p /\ g = h) => slab'[q][g] = slab[q][g]
      /\ \A q \in Peer : q # p => slab'[q] = slab[q]
  BY <1>1, <1>2, <1>5
<1>7. /\ by_name' \in [Peer -> [Names -> Entry]] /\ by_name'[p][n0] = Absent
      /\ \A q \in Peer, n \in Names : ~(q = p /\ n = n0) => by_name'[q][n] = by_name[q][n]
  BY <1>1, <1>2, <1>4, <1>5
<1>8. Vacant' /\ vacant' \in [Peer -> Seq(Handle)]
  BY <1>2, <1>3, VacancyAdded
<1>9. \A g \in Handle : slab[p][g] = me[x] => g = h
  BY <1>2 DEF Parts, Slots
<1>10. \A g \in Handle : slab'[p][g] # me[x]
  BY <1>3, <1>6, <1>9
<1>11. ASSUME NEW q \in Peer, NEW g \in Handle, NEW d \in End(q)
       PROVE  slab'[q][g] = me[<<q, d>>] <=> slab[q][g] = me[<<q, d>>] /\ <<q, d>> # x
  <2>1. CASE q = p /\ g = h
    <3>1. me[<<q, d>>] = me[x] => d = e
      BY <2>1, Abbreviated DEF Parts
    <3> QED
      BY <2>1, <3>1, <1>2, <1>3, <1>6
  <2>2. CASE ~(q = p /\ g = h)
    <3>1. slab[q][g] = me[<<q, d>>] => <<q, d>> # x
      BY <2>2, <1>9
    <3> QED
      BY <2>2, <3>1, <1>6
  <2> QED
    BY <2>1, <2>2
<1>12. ASSUME NEW n \in awaited
       PROVE  n \in Names /\ by_name'[Client][n] = by_name[Client][n]
  <2>1. PICK c \in End(Client) :
           /\ by_name[Client][n].who = me[<<Client, c>>] /\ stage[<<Client, c>>] = "asking" /\ called[<<Client, c>>] = n
           /\ by_name[Client][n].out \in Handle /\ slab[Client][by_name[Client][n].out] = me[<<Client, c>>]
           /\ n \in Names
    BY AwaitedLink
  <2>2. ~(p = Client /\ n = n0)
    <3>1. ASSUME p = Client, n = n0
          PROVE  FALSE
      <4>1. by_name[Client][n].out = h
        BY <2>1, <3>1, <1>2 DEF Parts, Slots, n0
      <4>2. c = e
        BY <2>1, <3>1, <4>1, <1>2, Abbreviated DEF Parts
      <4> QED
        BY <2>1, <3>1, <4>2, <1>2
    <3> QED
      BY <3>1
  <2> QED
    BY <2>1, <2>2, <1>7, Peers
<1> QED
  BY <1>4, <1>6, <1>7, <1>8, <1>10, <1>11, <1>12 DEF n0

\* What does not change of the links when the one at x detaches.
Detaches(x) ==
  /\ stage' = stage /\ me' = me /\ called' = called /\ held' = held /\ mate' = mate /\ known' = known /\ past' = past
  /\ \A y \in Endpoint : y # x => (y \in clean => y \in clean') /\ (y \in parted' <=> y \in parted)

\* No other slot has changed hands.
LEMMA ReleasedSlab ==
  ASSUME Parts, NEW p \in Peer, NEW e \in End(p), NEW h \in Handle, Releases(p, e, h)
  PROVE  \A q \in Peer, g \in Handle : \A d \in End(q) :
           slab'[q][g] = me[<<q, d>>] <=> slab[q][g] = me[<<q, d>>] /\ <<q, d>> # <<p, e>>
BY Released

\* Requests, slots and names afterwards.
LEMMA ReleasedParts ==
  ASSUME Parts, NEW p \in Peer, NEW e \in End(p), NEW h \in Handle, Releases(p, e, h), Detaches(<<p, e>>), control' = control
  PROVE  awaited' = awaited /\ asks' = asks /\ Requests' /\ Slots' /\ Named'
<1> DEFINE x == <<p, e>>
<1>1. /\ \A q \in Peer, g \in Handle : ~(q = p /\ g = h) => slab'[q][g] = slab[q][g]
      /\ slab'[p][h] = Nobody
      /\ \A q \in Peer, g \in Handle : \A d \in End(q) : slab'[q][g] = me[<<q, d>>] <=> slab[q][g] = me[<<q, d>>] /\ <<q, d>> # x
      /\ \A q \in Peer, n \in Names : ~(q = p /\ n = called[x]) => by_name'[q][n] = by_name[q][n]
      /\ by_name'[p][called[x]] = Absent /\ called[x] \in Names
      /\ \A n \in awaited : n \in Names /\ by_name'[Client][n] = by_name[Client][n]
  BY Released
<1>2. /\ stage' = stage /\ me' = me /\ called' = called /\ held' = held
      /\ \A q \in Peer : \A d \in End(q) : <<q, d>> # x =>
           (<<q, d>> \in clean => <<q, d>> \in clean') /\ (<<q, d>> \in parted' <=> <<q, d>> \in parted)
  BY Endpoints DEF Detaches
<1>3. slab[p][h] = me[x] /\ stage[x] = "heard"
  BY DEF Releases
<1>4. Client \in Peer /\ Listener \in Peer /\ \A q \in Peer : \A d \in End(q) : me[<<q, d>>] # Nobody
  BY Peers, Abbreviated DEF Parts
<1>5. Absent.who = Nobody
  BY DEF Absent
<1> HIDE DEF x
<1>6. awaited' = awaited
  <2>1. ASSUME NEW n \in awaited'
        PROVE  n \in awaited
    <3>1. PICK c \in End(Client) : by_name'[Client][n].who = me[<<Client, c>>] /\ stage[<<Client, c>>] = "asking"
      BY <1>2 DEF awaited
    <3>2. n \in Names
      BY DEF awaited
    <3>3. ~(p = Client /\ n = called[x])
      BY <3>1, <1>1, <1>4, <1>5
    <3>4. by_name'[Client][n] = by_name[Client][n]
      BY <3>2, <3>3, <1>1, <1>4
    <3> QED
      BY <3>1, <3>2, <3>4 DEF awaited
  <2>2. ASSUME NEW n \in awaited
        PROVE  n \in awaited'
    <3>1. PICK c \in End(Client) : by_name[Client][n].who = me[<<Client, c>>] /\ stage[<<Client, c>>] = "asking"
      BY DEF awaited
    <3> QED
      BY <3>1, <1>1, <1>2 DEF awaited
  <2> QED
    BY <2>1, <2>2
<1>7. asks' = asks
  BY <1>1, <1>6 DEF asks
<1>8. Requests'
  <2>1. ASSUME NEW q \in Peer, NEW i \in 1 .. Len(control[q]), q = Listener
        PROVE  by_name'[Client][called[<<q, control[q][i].end>>]] = by_name[Client][called[<<q, control[q][i].end>>]]
    <3>1. control[q][i].end \in End(q) /\ stage[<<q, control[q][i].end>>] = "allocating"
      BY DEF Parts, Requests
    <3>2. called[<<q, control[q][i].end>>] \in awaited
      BY <2>1, <3>1 DEF Parts, Mates
    <3> QED
      BY <3>2, <1>1
  <2> QED
    BY <2>1, <1>2 DEF Parts, Requests
<1>9. Slots'
  <2>1. ASSUME NEW q \in Peer, NEW g \in Handle, slab'[q][g] # Nobody
        PROVE  \E d \in End(q) : slab'[q][g] = me[<<q, d>>]
    <3>1. slab'[q][g] = slab[q][g]
      BY <2>1, <1>1
    <3> QED
      BY <2>1, <3>1 DEF Parts, Slots
  <2>2. ASSUME NEW q \in Peer, NEW g \in Handle, NEW d \in End(q), slab'[q][g] = me[<<q, d>>]
        PROVE  /\ stage[<<q, d>>] \notin {"idle", "allocating"} /\ <<q, d>> \in clean' /\ <<q, d>> \notin parted'
               /\ by_name'[q][called[<<q, d>>]] # Absent
    <3>1. slab[q][g] = me[<<q, d>>] /\ <<q, d>> # x
      BY <2>2, <1>1
    <3>2. /\ stage[<<q, d>>] \notin {"idle", "allocating"} /\ <<q, d>> \in clean /\ <<q, d>> \notin parted
          /\ by_name[q][called[<<q, d>>]] # Absent
      BY <3>1 DEF Parts, Slots
    <3>3. called[<<q, d>>] \in Names
      <4>1. <<q, d>> \in Endpoint
        BY Endpoints
      <4>2. link[<<q, d>>].pc # "idle"
        BY <3>2, <4>1 DEF stage
      <4> QED
        BY <4>1, <4>2 DEF Parts, Shaped, Shape, called
    <3>4. ~(q = p /\ called[<<q, d>>] = called[x])
      <4>1. ASSUME q = p, called[<<q, d>>] = called[x]
            PROVE  FALSE
        <5>1. g = h
          BY <3>1, <4>1, <1>3 DEF Parts, Slots, x
        <5> QED
          BY <2>2, <4>1, <5>1, <1>1, <1>4
      <4> QED
        BY <4>1
    <3>5. by_name'[q][called[<<q, d>>]] = by_name[q][called[<<q, d>>]]
      BY <3>3, <3>4, <1>1
    <3> QED
      BY <3>1, <3>2, <3>5, <1>2
  <2>3. ASSUME NEW q \in Peer, NEW g \in Handle, NEW d \in End(q), slab'[q][g] = me[<<q, d>>],
               NEW k \in Handle, NEW c \in End(q), slab'[q][k] = me[<<q, c>>], called[<<q, c>>] = called[<<q, d>>]
        PROVE  k = g
    <3>1. slab[q][g] = me[<<q, d>>] /\ slab[q][k] = me[<<q, c>>]
      BY <2>3, <1>1
    <3> QED
      BY <2>3, <3>1 DEF Parts, Slots
  <2> QED
    BY <2>1, <2>2, <2>3, <1>2 DEF Slots
<1>10. ASSUME NEW n \in Names, by_name[Client][n].who # Nobody
       PROVE  /\ by_name'[Client][n] = by_name[Client][n]
              /\ \E c \in End(Client) :
                   /\ by_name[Client][n].who = me[<<Client, c>>] /\ called[<<Client, c>>] = n
                   /\ stage[<<Client, c>>] \in {"allocated", "asking"}
                   /\ by_name[Client][n].out \in Handle /\ slab'[Client][by_name[Client][n].out] = me[<<Client, c>>]
  <2>1. PICK c \in End(Client) :
           /\ by_name[Client][n].who = me[<<Client, c>>] /\ called[<<Client, c>>] = n
           /\ stage[<<Client, c>>] \in {"allocated", "asking"}
           /\ by_name[Client][n].out \in Handle /\ slab[Client][by_name[Client][n].out] = me[<<Client, c>>]
    BY <1>10 DEF Parts, Named
  <2>2. <<Client, c>> # x
    BY <2>1, <1>3
  <2>3. slab'[Client][by_name[Client][n].out] = me[<<Client, c>>]
    BY <2>1, <2>2, <1>1, <1>4
  <2>4. ~(p = Client /\ n = called[x])
    <3>1. ASSUME p = Client, n = called[x]
          PROVE  FALSE
      <4>1. by_name[Client][n].out = h
        BY <2>1, <3>1, <1>3 DEF Parts, Slots, x
      <4> QED
        BY <2>3, <3>1, <4>1, <1>1, <1>4
    <3> QED
      BY <3>1
  <2>5. by_name'[Client][n] = by_name[Client][n]
    BY <2>4, <1>1, <1>4
  <2> QED
    BY <2>1, <2>3, <2>5
<1>11. Named'
  <2>1. \A n \in Names : by_name'[Listener][n].who = Nobody
    <3>1. \A n \in Names : by_name[Listener][n].who = Nobody
      BY DEF Parts, Named
    <3> QED
      BY <3>1, <1>1, <1>4, <1>5
  <2>2. ASSUME NEW n \in Names, by_name'[Client][n].who # Nobody
        PROVE  \E c \in End(Client) :
                 /\ by_name'[Client][n].who = me[<<Client, c>>] /\ called[<<Client, c>>] = n
                 /\ stage[<<Client, c>>] \in {"allocated", "asking"}
                 /\ by_name'[Client][n].out \in Handle /\ slab'[Client][by_name'[Client][n].out] = me[<<Client, c>>]
    <3>1. by_name[Client][n].who # Nobody
      BY <2>2, <1>1, <1>4, <1>5
    <3>2. by_name'[Client][n] = by_name[Client][n]
      BY <3>1, <1>10
    <3>3. \E c \in End(Client) :
                   /\ by_name[Client][n].who = me[<<Client, c>>] /\ called[<<Client, c>>] = n
                   /\ stage[<<Client, c>>] \in {"allocated", "asking"}
                   /\ by_name[Client][n].out \in Handle /\ slab'[Client][by_name[Client][n].out] = me[<<Client, c>>]
      BY <3>1, <1>10
    <3> QED
      BY <3>2, <3>3
  <2>3. ASSUME NEW c \in End(Client), stage[<<Client, c>>] = "allocated"
        PROVE  /\ by_name'[Client][called[<<Client, c>>]].who = me[<<Client, c>>]
               /\ by_name'[Client][called[<<Client, c>>]].out = held[<<Client, c>>]
    <3>1. /\ by_name[Client][called[<<Client, c>>]].who = me[<<Client, c>>]
          /\ by_name[Client][called[<<Client, c>>]].out = held[<<Client, c>>]
      BY <2>3 DEF Parts, Named
    <3>2. called[<<Client, c>>] \in Names
      <4>1. <<Client, c>> \in Endpoint
        BY <1>4, Endpoints
      <4>2. link[<<Client, c>>].pc # "idle"
        BY <2>3, <4>1 DEF stage
      <4> QED
        BY <4>1, <4>2 DEF Parts, Shaped, Shape, called
    <3> QED
      BY <3>1, <3>2, <1>4, <1>10
  <2>4. ASSUME NEW d \in End(Listener), stage[<<Listener, d>>] = "allocated"
        PROVE  slab'[Listener][held[<<Listener, d>>]] = me[<<Listener, d>>]
    <3>1. slab[Listener][held[<<Listener, d>>]] = me[<<Listener, d>>] /\ <<Listener, d>> # x
      BY <2>4, <1>3 DEF Parts, Named
    <3>2. held[<<Listener, d>>] \in Handle
      <4>1. <<Listener, d>> \in Endpoint
        BY <1>4, Endpoints
      <4>2. link[<<Listener, d>>].pc = "allocated"
        BY <2>4, <4>1 DEF stage
      <4> QED
        BY <4>1, <4>2 DEF Parts, Shaped, Shape, held
    <3> QED
      BY <3>1, <3>2, <1>1, <1>4
  <2> QED
    BY <2>1, <2>2, <2>3, <2>4, <1>2 DEF Named
<1> QED
  BY <1>6, <1>7, <1>8, <1>9, <1>11

\* The Detach of a link that gives back its handle is sent.
LEMMA ReleasedAtClient ==
  ASSUME Parts, NEW e \in End(Client), NEW h \in Handle, Releases(Client, e, h), NEW f \in Frame,
         DetachOf(f, me[<<Client, e>>], h), wire'[Client] = Append(wire[Client], f),
         by_in'[Listener] = by_in[Listener], UNCHANGED <<control, backlog, stage, me, mate>>
  PROVE  ToListener'
<1> DEFINE x == <<Client, e>>
           w == wire[Client]
           v == wire'[Client]
<1>0. Client \in Peer /\ Listener \in Peer
  BY Peers
<1>1. /\ \A g \in Handle : g # h => slab'[Client][g] = slab[Client][g]
      /\ \A g \in Handle : \A c \in End(Client) : slab'[Client][g] = me[<<Client, c>>] <=> slab[Client][g] = me[<<Client, c>>] /\ <<Client, c>> # x
  BY <1>0, Released
<1>2. slab[Client][h] = me[x] /\ stage[x] = "heard"
  BY DEF Releases
<1>3. f.type = "Detach" /\ f.from = me[x] /\ f.handle = h
  BY DEF DetachOf
<1>4. /\ w \in Seq(Frame) /\ v = Append(w, f) /\ Len(w) \in Nat /\ Len(v) = Len(w) + 1 /\ v[Len(w) + 1] = f
      /\ \A i \in 1 .. Len(w) : v[i] = w[i]
  BY <1>0, Grown DEF Parts, Typed
<1>5. /\ \A i \in 1 .. Len(v) : (i \in 1 .. Len(w) /\ v[i] = w[i]) \/ (i = Len(w) + 1 /\ v[i] = f)
      /\ \A i \in 1 .. Len(w) : i \in 1 .. Len(v)
      /\ Len(w) + 1 \in 1 .. Len(v)
  BY <1>4
<1>6. \A c \in End(Client) : me[<<Client, c>>] = me[x] => c = e
  BY <1>0, Abbreviated DEF Parts
<1>7. by_in[Listener][h].who # Nobody /\ mate[by_in[Listener][h].who] = me[x]
  BY <1>2 DEF Parts, ToListener
<1> HIDE DEF x
<1>8. \A s \in asks : s.type = "Attach" => s.handle # h
  <2>1. ASSUME NEW s \in asks, s.type = "Attach", s.handle = h
        PROVE  FALSE
    <3>1. PICK c \in End(Client) : s.from = me[<<Client, c>>] /\ stage[<<Client, c>>] = "asking" /\ slab[Client][s.handle] = s.from
      BY <2>1, AskingLink
    <3>2. c = e
      BY <2>1, <3>1, <1>2, <1>6
    <3> QED
      BY <3>1, <3>2, <1>2 DEF x
  <2> QED
    BY <2>1
<1>9. \A i \in 1 .. Len(w) : w[i].handle # h
  <2>1. ASSUME NEW i \in 1 .. Len(w), w[i].handle = h
        PROVE  FALSE
    <3>1. w[i] \in asks /\ w[i] \in Frame
      <4>1. All(w, asks)
        BY DEF Parts, Asks
      <4> QED
        BY <4>1, <1>4 DEF All
    <3>2. CASE w[i].type = "Attach"
      BY <2>1, <3>1, <3>2, <1>8
    <3>3. CASE w[i].type = "Detach"
      <4>1. mate[by_in[Listener][h].who] = w[i].from
        BY <2>1, <3>3 DEF Parts, ToListener
      <4>2. slab[Client][h] # w[i].from
        BY <1>0, <3>3 DEF Parts, Detaching
      <4> QED
        BY <4>1, <4>2, <1>2, <1>7
    <3> QED
      BY <3>1, <3>2, <3>3 DEF Frame
  <2> QED
    BY <2>1
<1>10. \A i \in 1 .. Len(backlog) : backlog[i].handle # h
  <2>1. \A i \in 1 .. Len(backlog) : backlog[i] \in asks /\ backlog[i].type = "Attach"
    BY DEF Parts, Asks, All
  <2> QED
    BY <2>1, <1>8
<1>11. \A i \in 1 .. Len(control[Listener]) : control[Listener][i].input # h
  <2>1. ASSUME NEW i \in 1 .. Len(control[Listener]), control[Listener][i].input = h
        PROVE  FALSE
    <3> DEFINE d == control[Listener][i].end
    <3>1. d \in End(Listener) /\ stage[<<Listener, d>>] = "allocating" /\ h = by_name[Client][called[<<Listener, d>>]].out
      BY <2>1, <1>0 DEF Parts, Requests
    <3>2. called[<<Listener, d>>] \in awaited
      BY <3>1 DEF Parts, Mates
    <3>3. PICK c \in End(Client) : stage[<<Client, c>>] = "asking" /\ slab[Client][h] = me[<<Client, c>>]
      BY <3>1, <3>2, AwaitedLink
    <3>4. c = e
      BY <3>3, <1>2, <1>6
    <3> QED
      BY <3>3, <3>4, <1>2 DEF x
  <2> QED
    BY <2>1
<1>12. ASSUME NEW g \in Handle, NEW c \in End(Client), slab'[Client][g] = me[<<Client, c>>], stage[<<Client, c>>] = "heard"
       PROVE  by_in[Listener][g].who # Nobody /\ mate[by_in[Listener][g].who] = me[<<Client, c>>]
  <2>1. slab[Client][g] = me[<<Client, c>>]
    BY <1>1, <1>12
  <2> QED
    BY <2>1, <1>12 DEF Parts, ToListener
<1>13. ASSUME NEW j \in 1 .. Len(v), v[j].type = "Detach"
       PROVE  /\ by_in[Listener][v[j].handle].who # Nobody
              /\ mate[by_in[Listener][v[j].handle].who] = v[j].from
              /\ \A i \in 1 .. j - 1 : v[i].handle # v[j].handle
              /\ \A i \in 1 .. Len(backlog) : backlog[i].handle # v[j].handle
              /\ \A i \in 1 .. Len(control[Listener]) : control[Listener][i].input # v[j].handle
  <2>1. CASE j \in 1 .. Len(w) /\ v[j] = w[j]
    <3>1. /\ by_in[Listener][w[j].handle].who # Nobody
          /\ mate[by_in[Listener][w[j].handle].who] = w[j].from
          /\ \A i \in 1 .. j - 1 : w[i].handle # w[j].handle
          /\ \A i \in 1 .. Len(backlog) : backlog[i].handle # w[j].handle
          /\ \A i \in 1 .. Len(control[Listener]) : control[Listener][i].input # w[j].handle
      BY <2>1, <1>13 DEF Parts, ToListener
    <3>2. \A i \in 1 .. j - 1 : v[i] = w[i]
      <4>1. \A i \in 1 .. j - 1 : i \in 1 .. Len(w)
        BY <2>1, <1>4
      <4> QED
        BY <4>1, <1>4
    <3> HIDE DEF w, v
    <3> QED
      BY <2>1, <3>1, <3>2
  <2>2. CASE j = Len(w) + 1 /\ v[j] = f
    <3>1. \A i \in 1 .. j - 1 : i \in 1 .. Len(w)
      BY <2>2, <1>4
    <3>2. \A i \in 1 .. j - 1 : v[i].handle # h
      BY <3>1, <1>4, <1>9
    <3> HIDE DEF w, v
    <3> QED
      BY <2>2, <3>2, <1>3, <1>7, <1>10, <1>11
  <2> QED
    BY <2>1, <2>2, <1>5
<1>14. ASSUME NEW g \in Handle, by_in[Listener][g].who # Nobody
       PROVE  \/ slab'[Client][g] = mate[by_in[Listener][g].who]
              \/ \E j \in 1 .. Len(v) : DetachOf(v[j], mate[by_in[Listener][g].who], g)
  <2>1. CASE g = h
    <3>1. DetachOf(v[Len(w) + 1], mate[by_in[Listener][g].who], g)
      BY <2>1, <1>3, <1>4, <1>7 DEF DetachOf
    <3> QED
      BY <3>1, <1>5
  <2>2. CASE g # h
    <3>1. \/ slab[Client][g] = mate[by_in[Listener][g].who]
          \/ \E j \in 1 .. Len(w) : DetachOf(w[j], mate[by_in[Listener][g].who], g)
      BY <1>14 DEF Parts, ToListener
    <3>2. CASE slab[Client][g] = mate[by_in[Listener][g].who]
      BY <2>2, <3>2, <1>1
    <3>3. CASE \E j \in 1 .. Len(w) : DetachOf(w[j], mate[by_in[Listener][g].who], g)
      BY <3>3, <1>4, <1>5
    <3> QED
      BY <3>1, <3>2, <3>3
  <2> QED
    BY <2>1, <2>2
<1> QED
  BY <1>12, <1>13, <1>14 DEF ToListener

\* The listener's Detach is behind all that leads to the handle.
LEMMA ReleasedAtListener ==
  ASSUME Parts, NEW e \in End(Listener), NEW h \in Handle, Releases(Listener, e, h), NEW f \in Frame,
         DetachOf(f, me[<<Listener, e>>], h), wire'[Listener] = Append(wire[Listener], f),
         by_in'[Client] = by_in[Client], UNCHANGED <<stage, me, mate>>,
         NotIn(frames[Listener], me[<<Listener, e>>]),
         \A a : NotIn(frames'[Listener], a) => NotIn(frames[Listener], a)
  PROVE  ToClient'
<1> DEFINE x == <<Listener, e>>
           w == wire[Listener]
           v == wire'[Listener]
<1>0. Client \in Peer /\ Listener \in Peer
  BY Peers
<1>1. /\ \A g \in Handle : g # h => slab'[Listener][g] = slab[Listener][g]
      /\ slab'[Listener][h] = Nobody
      /\ \A g \in Handle : \A d \in End(Listener) : slab'[Listener][g] = me[<<Listener, d>>] <=> slab[Listener][g] = me[<<Listener, d>>] /\ <<Listener, d>> # x
  BY <1>0, Released
<1>2. slab[Listener][h] = me[x] /\ stage[x] = "heard" /\ \A d \in End(Listener) : me[<<Listener, d>>] # Nobody
  BY <1>0, Abbreviated DEF Releases, Parts
<1>3. f.type = "Detach" /\ f.from = me[x] /\ f.handle = h
  BY DEF DetachOf
<1>4. /\ w \in Seq(Frame) /\ v = Append(w, f) /\ Len(w) \in Nat /\ Len(v) = Len(w) + 1 /\ v[Len(w) + 1] = f
      /\ \A i \in 1 .. Len(w) : v[i] = w[i]
  BY <1>0, Grown DEF Parts, Typed
<1>5. /\ \A i \in 1 .. Len(v) : (i \in 1 .. Len(w) /\ v[i] = w[i]) \/ (i = Len(w) + 1 /\ v[i] = f)
      /\ \A i \in 1 .. Len(w) : i \in 1 .. Len(v) /\ i \in 1 .. Len(w) + 1
      /\ Len(w) + 1 \in 1 .. Len(v) /\ Len(w) + 1 \in 1 .. Len(w) + 1 /\ Len(v) + 1 = Len(w) + 2
  BY <1>4
<1>6. /\ \A b, g, k, a : \A j \in 1 .. Len(w) + 1 : Open(w, j, b, g, k, a) => Open(v, j, b, g, k, a)
      /\ \A b, g, k, a : g # h /\ Open(w, Len(w) + 1, b, g, k, a) => Open(v, Len(w) + 2, b, g, k, a)
  <2> HIDE DEF w, v
  <2> QED
    BY <1>3, <1>4, OpenGrown
<1>7. ASSUME NEW g \in Handle, NEW d \in End(Listener), slab'[Listener][g] = me[<<Listener, d>>],
             stage[<<Listener, d>>] # "allocated", NotIn(frames'[Listener], me[<<Listener, d>>])
      PROVE  Open(v, Len(v) + 1, me[<<Listener, d>>], g, by_in[Client], mate[me[<<Listener, d>>]])
  <2>1. slab[Listener][g] = me[<<Listener, d>>] /\ NotIn(frames[Listener], me[<<Listener, d>>])
    BY <1>1, <1>7
  <2>2. g # h
    BY <1>1, <1>2, <1>7
  <2>3. Open(w, Len(w) + 1, me[<<Listener, d>>], g, by_in[Client], mate[me[<<Listener, d>>]])
    BY <2>1, <1>7 DEF Parts, ToClient
  <2> HIDE DEF w, v
  <2> QED
    BY <2>2, <2>3, <1>5, <1>6
<1>8. ASSUME NEW j \in 1 .. Len(v), v[j].type = "Detach"
      PROVE  Open(v, j, v[j].from, v[j].handle, by_in[Client], mate[v[j].from])
  <2>1. CASE j \in 1 .. Len(w) /\ v[j] = w[j]
    <3>1. Open(w, j, w[j].from, w[j].handle, by_in[Client], mate[w[j].from])
      BY <2>1, <1>8 DEF Parts, ToClient
    <3> HIDE DEF w, v
    <3> QED
      BY <2>1, <3>1, <1>5, <1>6
  <2>2. CASE j = Len(w) + 1 /\ v[j] = f
    <3>1. Open(w, Len(w) + 1, me[x], h, by_in[Client], mate[me[x]])
      BY <1>2 DEF Parts, ToClient
    <3> HIDE DEF w, v
    <3> QED
      BY <2>2, <3>1, <1>3, <1>5, <1>6
  <2> QED
    BY <2>1, <2>2, <1>5
<1>9. ASSUME NEW g \in Handle, by_in[Client][g].who # Nobody
      PROVE  \E b \in Attachment :
               /\ mate[b] = by_in[Client][g].who
               /\ \/ slab'[Listener][g] = b
                  \/ \E j \in 1 .. Len(v) : DetachOf(v[j], b, g)
  <2>1. PICK b \in Attachment :
               /\ mate[b] = by_in[Client][g].who
               /\ \/ slab[Listener][g] = b
                  \/ \E j \in 1 .. Len(w) : DetachOf(w[j], b, g)
    BY <1>9 DEF Parts, ToClient
  <2>2. CASE slab[Listener][g] = b /\ g = h
    <3>1. DetachOf(v[Len(w) + 1], b, g)
      BY <2>2, <1>2, <1>3, <1>4 DEF DetachOf
    <3> QED
      BY <2>1, <3>1, <1>5
  <2>3. CASE slab[Listener][g] = b /\ g # h
    BY <2>1, <2>3, <1>1
  <2>4. CASE \E j \in 1 .. Len(w) : DetachOf(w[j], b, g)
    <3>1. \E j \in 1 .. Len(v) : DetachOf(v[j], b, g)
      BY <2>4, <1>4, <1>5
    <3> QED
      BY <2>1, <3>1
  <2> QED
    BY <2>1, <2>2, <2>3, <2>4
<1> QED
  BY <1>7, <1>8, <1>9 DEF ToClient

\* It is the last the peer hears of the link.
LEMMA ReleasedDetaching ==
  ASSUME Parts, NEW p \in Peer, NEW e \in End(p), NEW h \in Handle, Releases(p, e, h), NEW f \in Frame,
         DetachOf(f, me[<<p, e>>], h), wire'[p] = Append(wire[p], f), past' = past,
         \A q \in Peer : q # p => \A i \in 1 .. Len(wire'[q]) : \E j \in 1 .. Len(wire[q]) : wire'[q][i] = wire[q][j],
         \A q \in Peer : \A i \in 1 .. Len(frames'[q]) : frames'[q][i].type = "Detach" => frames'[q][i].from \in past[q]
  PROVE  Detaching'
<1>1. /\ \A q \in Peer, g \in Handle : ~(q = p /\ g = h) => slab'[q][g] = slab[q][g]
      /\ slab'[p][h] = Nobody /\ \A g \in Handle : slab'[p][g] # me[<<p, e>>]
  BY Released
<1>2. f.type = "Detach" /\ f.from = me[<<p, e>>] /\ me[<<p, e>>] \in past[p]
  BY Heard DEF DetachOf, Releases, Parts
<1>3. \A q \in Peer : Nobody \notin past[q]
  BY Abbreviated DEF Parts
<1>4. ASSUME NEW q \in Peer, NEW i \in 1 .. Len(wire'[q]), wire'[q][i].type = "Detach"
      PROVE  wire'[q][i].from \in past[q] /\ \A g \in Handle : slab'[q][g] # wire'[q][i].from
  <2>1. (\E j \in 1 .. Len(wire[q]) : wire'[q][i] = wire[q][j]) \/ (q = p /\ wire'[q][i] = f)
    <3>1. CASE q = p
      <4>1. wire[p] \in Seq(Frame)
        BY DEF Parts, Typed
      <4> QED
        BY <3>1, <4>1, Grown
    <3>2. CASE q # p
      BY <3>2
    <3> QED
      BY <3>1, <3>2
  <2>2. CASE \E j \in 1 .. Len(wire[q]) : wire'[q][i] = wire[q][j]
    <3>1. PICK j \in 1 .. Len(wire[q]) : wire'[q][i] = wire[q][j]
      BY <2>2
    <3>2. wire[q][j].from \in past[q] /\ \A g \in Handle : slab[q][g] # wire[q][j].from
      BY <3>1, <1>4 DEF Parts, Detaching
    <3>3. \A g \in Handle : slab'[q][g] # wire[q][j].from
      BY <3>2, <1>1, <1>3
    <3> QED
      BY <3>1, <3>2, <3>3
  <2>3. CASE q = p /\ wire'[q][i] = f
    BY <2>3, <1>1, <1>2
  <2> QED
    BY <2>1, <2>2, <2>3
<1> QED
  BY <1>4 DEF Detaching

\* The link e parts: its Detach goes out.
Parting(p, e, f) ==
  /\ Releases(p, e, f.handle) /\ f.type = "Detach" /\ f.from = me[<<p, e>>]
  /\ link' = [link EXCEPT ![<<p, e>>] = [link[<<p, e>>] EXCEPT !.asked = link[<<p, e>>].life]]
  /\ close_pending' = [close_pending EXCEPT ![p] = @ \cup {f.handle}]
  /\ UNCHANGED <<by_in, control, backlog, failure>>

\* The links afterwards.
LEMMA PartingLinks ==
  ASSUME Parts, NEW p \in Peer, NEW e \in End(p), NEW f, Parting(p, e, f)
  PROVE  /\ Detaches(<<p, e>>) /\ <<p, e>> \in parted' /\ clean' = clean /\ Shaped' /\ link' \in [Endpoint -> LinkRecord]
         /\ \A y \in Endpoint : link'[y].inbox = link[y].inbox /\ link'[y].pc = link[y].pc /\ link'[y].peer = link[y].peer
<1> DEFINE x == <<p, e>>
           l == link[x]
           m == [l EXCEPT !.asked = l.life]
<1>1. x \in Endpoint /\ x[1] = p /\ x[2] = e /\ l \in LinkRecord /\ Shape(x, l) /\ stage[x] = "heard"
  BY Endpoints, LinkFields DEF Parts, Shaped, Parting, Releases
<1>2. /\ m \in LinkRecord /\ m.pc = l.pc /\ m.handle = l.handle /\ m.inbox = l.inbox /\ m.name = l.name /\ m.life = l.life
      /\ m.asked = l.life /\ m.goal = l.goal /\ m.peer = l.peer /\ m.state = l.state
  BY <1>1 DEF LinkRecord
<1>3. link' = [link EXCEPT ![x] = m]
  BY DEF Parting
<1>4. l.life \in Nat /\ ~(l.pc \in {"allocating", "allocated"} \/ (l.pc = "attaching" /\ l.inbox = <<>>))
  <2>1. l.life \in Nat
    BY <1>1 DEF LinkRecord
  <2>2. ~(l.pc \in {"allocating", "allocated"} \/ (l.pc = "attaching" /\ l.inbox = <<>>))
    BY <1>1 DEF stage
  <2> QED
    BY <2>1, <2>2
<1> HIDE DEF m
<1>5. Becomes(x, m) /\ Shape(x, m)
  <2>1. Shape(x, m)
    <3> HIDE DEF l
    <3> QED
      BY <1>1, <1>2, <1>4 DEF Shape
  <2> QED
    BY <2>1, <1>2, <1>3 DEF Becomes
<1>6. /\ \A y \in Endpoint : y # x =>
              /\ link'[y] = link[y] /\ stage'[y] = stage[y] /\ called'[y] = called[y]
              /\ held'[y] = held[y] /\ (y \in clean' <=> y \in clean) /\ (y \in parted' <=> y \in parted)
      /\ link'[x] = m /\ (x \in parted' <=> m.asked = m.life)
      /\ link' \in [Endpoint -> LinkRecord]
  BY <1>1, <1>5, OneLink DEF Parts
<1>7. \A y \in Endpoint : /\ link'[y].inbox = link[y].inbox /\ link'[y].pc = link[y].pc /\ link'[y].peer = link[y].peer
                          /\ link'[y].name = link[y].name /\ link'[y].life = link[y].life /\ link'[y].handle = link[y].handle
                          /\ link'[y].state = link[y].state
  BY <1>2, <1>6
<1> HIDE DEF l, x
<1>8. stage' = stage
  BY <1>7 DEF stage
<1>9. called' = called /\ held' = held
  BY <1>7 DEF called, held
<1>10. clean' = clean
  BY <1>7 DEF clean
<1>11. me' = me /\ known' = known /\ past' = past
  BY <1>7, <1>8, SameLives
<1>12. mate' = mate
  <2>1. \A d \in End(Listener) : <<Listener, d>> \in Endpoint
    BY Peers, Endpoints
  <2> QED
    BY <2>1, <1>7, SameMates
<1>13. x \in parted'
  BY <1>2, <1>6
<1>14. Shaped'
  BY <1>1, <1>5, OneShape DEF Parts
<1>15. Detaches(x)
  BY <1>6, <1>8, <1>9, <1>11, <1>12 DEF Detaches
<1> QED
  BY <1>6, <1>7, <1>10, <1>13, <1>14, <1>15 DEF x

\* The Detach goes out and the handle is vacant.
LEMMA PartingStep ==
  ASSUME Parts, NEW p \in Peer, NEW e \in End(p), NEW f, Takes(p, f), Parting(p, e, f), Sends(p, f)
  PROVE  Parts'
<1> DEFINE x == <<p, e>>
           h == f.handle
<1>1. /\ f \in Frame /\ frames' \in [Peer -> Seq(Frame)] /\ \A q \in Peer : q # p => frames'[q] = frames[q]
      /\ 1 \in 1 .. Len(frames[p]) /\ frames[p][1] = f
      /\ \A i \in 1 .. Len(frames[p]) : i = 1 \/ (i - 1 \in 1 .. Len(frames'[p]) /\ frames'[p][i - 1] = frames[p][i])
      /\ f.type = "Detach" => \A a : NotIn(frames'[p], a) => NotIn(frames[p], a)
  BY FrameTaken
<1>2. Left
  BY FramesLeft
<1>3. /\ Releases(p, e, h) /\ f.type = "Detach" /\ f.from = me[x] /\ h \in Handle /\ DetachOf(f, me[x], h)
      /\ close_pending' = [close_pending EXCEPT ![p] = @ \cup {h}]
      /\ UNCHANGED <<by_in, control, backlog, failure>>
  BY <1>1 DEF Parting, DetachOf, Frame
<1>4. /\ Detaches(x) /\ x \in parted' /\ clean' = clean /\ Shaped' /\ link' \in [Endpoint -> LinkRecord]
      /\ \A y \in Endpoint : link'[y].inbox = link[y].inbox /\ link'[y].pc = link[y].pc /\ link'[y].peer = link[y].peer
  BY PartingLinks
<1>5. /\ stage' = stage /\ me' = me /\ called' = called /\ held' = held /\ mate' = mate /\ known' = known /\ past' = past
      /\ \A y \in Endpoint : y # x => (y \in parted' <=> y \in parted)
  BY <1>4 DEF Detaches
<1>6. /\ slab' \in [Peer -> [Handle -> Attachment]] /\ vacant' \in [Peer -> Seq(Handle)] /\ by_name' \in [Peer -> [Names -> Entry]]
      /\ Vacant'
      /\ \A q \in Peer, g \in Handle : ~(q = p /\ g = h) => slab'[q][g] = slab[q][g]
      /\ slab'[p][h] = Nobody /\ \A q \in Peer : q # p => slab'[q] = slab[q]
      /\ \A q \in Peer, g \in Handle : \A d \in End(q) : slab'[q][g] = me[<<q, d>>] <=> slab[q][g] = me[<<q, d>>] /\ <<q, d>> # x
      /\ \A n \in awaited : n \in Names /\ by_name'[Client][n] = by_name[Client][n]
  BY <1>3, Released
<1>7. awaited' = awaited /\ asks' = asks /\ Requests' /\ Slots' /\ Named'
  BY <1>3, <1>4, ReleasedParts
<1>8. /\ wire' \in [Peer -> Seq(Frame)] /\ \A q \in Peer : q # p => wire'[q] = wire[q]
      /\ wire[p] \in Seq(Frame) /\ wire'[p] = Append(wire[p], f)
      /\ \A q \in Peer : \A i \in 1 .. Len(wire[q]) : i \in 1 .. Len(wire'[q]) /\ wire'[q][i] = wire[q][i]
      /\ \A i \in 1 .. Len(wire'[p]) : (i \in 1 .. Len(wire[p]) /\ wire'[p][i] = wire[p][i]) \/ (i = Len(wire[p]) + 1 /\ wire'[p][i] = f)
      /\ Len(wire[p]) + 1 \in 1 .. Len(wire'[p]) /\ wire'[p][Len(wire[p]) + 1] = f
  BY <1>1, WireGrown
<1>9. /\ Client \in Peer /\ Listener \in Peer /\ Client # Listener /\ (p = Client \/ p = Listener) /\ backlog \in Seq(Frame)
      /\ slab[p][h] = me[x] /\ stage[x] = "heard"
      /\ \A q \in Peer : \A d \in End(q) : <<q, d>> \in Endpoint /\ me[<<q, d>>] # Nobody
  BY <1>3, Peers, Endpoints, Abbreviated DEF Parts, Typed, Releases
<1> HIDE DEF h, x
<1>10. Typed'
  <2>1. close_pending' \in [Peer -> SUBSET Handle]
    BY <1>3 DEF Parts, Typed
  <2> QED
    BY <2>1, <1>1, <1>3, <1>4, <1>6, <1>8 DEF Parts, Typed
<1>11. Holders'
  <2>1. ASSUME NEW q \in Peer, NEW g \in Handle, NEW d \in End(q), slab'[q][g] = me[<<q, d>>], held[<<q, d>>] # g
        PROVE  \E i \in 1 .. Len(frames'[q]) : DetachOf(frames'[q][i], me[<<q, d>>], g)
    <3>0. slab[q][g] = me[<<q, d>>] /\ <<q, d>> # x
      BY <2>1, <1>6
    <3>1. PICK i \in 1 .. Len(frames[q]) : DetachOf(frames[q][i], me[<<q, d>>], g)
      BY <2>1, <3>0 DEF Parts, Holders
    <3>2. CASE q # p
      BY <3>1, <3>2, <1>1
    <3>3. CASE q = p
      <4>2. i # 1
        <5>1. ASSUME i = 1
              PROVE  FALSE
          <6>1. g = h
            BY <3>1, <3>3, <5>1, <1>1 DEF DetachOf, h
          <6> QED
            BY <2>1, <3>3, <6>1, <1>6, <1>9
        <5> QED
          BY <5>1
      <4> QED
        BY <3>1, <3>3, <4>2, <1>1
    <3> QED
      BY <3>2, <3>3
  <2> QED
    BY <2>1, <1>5 DEF Holders
<1>12. Reached'
  <2>1. \A q \in Peer, g \in Handle : \A d \in End(q) : slab'[q][g] = me[<<q, d>>] => slab[q][g] = me[<<q, d>>]
    BY <1>6
  <2>2. by_in' = by_in
    BY <1>3
  <2> QED
    BY <2>1, <2>2, <1>5 DEF Parts, Reached
<1>13. Registered'
  <2>1. \A q \in Peer, g \in Handle : by_in[q][g].who = Nobody => by_in[q][g] = Absent
    BY DEF Parts, Registered
  <2>2. ASSUME NEW q \in Peer, NEW g \in Handle, by_in[q][g].who # Nobody
        PROVE  /\ \E d \in End(q) :
                    /\ by_in[q][g].who = me[<<q, d>>] /\ <<q, d>> \in clean
                    /\ stage[<<q, d>>] \notin {"idle", "allocating"} /\ (q = Client => stage[<<q, d>>] = "heard")
                    /\ <<q, d>> \in parted' \/ slab'[q][by_in[q][g].out] = me[<<q, d>>]
               /\ by_in[q][g].out \in Handle
               /\ \A k \in Handle : by_in[q][k].who = by_in[q][g].who => k = g
    <3>1. /\ by_in[q][g].out \in Handle
          /\ \A k \in Handle : by_in[q][k].who = by_in[q][g].who => k = g
      BY <2>2 DEF Parts, Registered
    <3>2. PICK d \in End(q) :
                    /\ by_in[q][g].who = me[<<q, d>>] /\ <<q, d>> \in clean
                    /\ stage[<<q, d>>] \notin {"idle", "allocating"} /\ (q = Client => stage[<<q, d>>] = "heard")
                    /\ <<q, d>> \in parted \/ slab[q][by_in[q][g].out] = me[<<q, d>>]
      BY <2>2 DEF Parts, Registered
    <3>3. <<q, d>> \in parted' \/ slab'[q][by_in[q][g].out] = me[<<q, d>>]
      <4>1. <<q, d>> \in Endpoint
        BY Endpoints
      <4>2. CASE <<q, d>> = x
        BY <4>1, <4>2, <1>4
      <4>3. CASE <<q, d>> # x
        BY <3>1, <3>2, <4>1, <4>3, <1>4, <1>5, <1>6
      <4> QED
        BY <4>2, <4>3
    <3> QED
      BY <3>1, <3>2, <3>3
  <2>3. by_in' = by_in
    BY <1>3
  <2> QED
    BY <2>1, <2>2, <2>3, <1>4, <1>5 DEF Registered
<1>14. Pending'
  <2>1. ASSUME NEW q \in Peer, NEW g \in close_pending'[q]
        PROVE  \E k \in Handle : \E d \in End(q) : by_in[q][k].who = me[<<q, d>>] /\ by_in[q][k].out = g /\ <<q, d>> \in parted'
    <3>1. g \in close_pending[q] \/ (q = p /\ g = h)
      <4>1. close_pending \in [Peer -> SUBSET Handle]
        BY DEF Parts, Typed
      <4> QED
        BY <2>1, <4>1, <1>3
    <3>2. CASE g \in close_pending[q]
      <4>1. PICK k \in Handle, d \in End(q) : by_in[q][k].who = me[<<q, d>>] /\ by_in[q][k].out = g /\ <<q, d>> \in parted
        BY <3>2 DEF Parts, Pending
      <4>2. <<q, d>> \in parted'
        BY <4>1, <1>4, <1>5, <1>9
      <4> QED
        BY <4>1, <4>2
    <3>3. CASE q = p /\ g = h
      <4>1. PICK k \in Handle : by_in[p][k].who = me[x] /\ by_in[p][k].out = h
        BY <1>3, <1>9 DEF Parts, Reached, x
      <4> QED
        BY <3>3, <4>1, <1>4 DEF x
    <3> QED
      BY <3>1, <3>2, <3>3
  <2> QED
    BY <2>1, <1>3, <1>5 DEF Pending
<1>15. /\ All(wire'[Client], asks) /\ Once(wire'[Client]) /\ Apart(frames'[Client], wire'[Client]) /\ Apart(wire'[Client], backlog)
       /\ \A b \in Attachment : mate[b] # Nobody => NotIn(wire'[Client], mate[b])
  <2>1. /\ All(wire[Client], asks) /\ Once(wire[Client]) /\ Apart(frames'[Client], wire[Client]) /\ Apart(wire[Client], backlog)
        /\ \A b \in Attachment : mate[b] # Nobody => NotIn(wire[Client], mate[b])
    BY <1>2 DEF Parts, Asks, Mates, Left
  <2>2. CASE p = Client
    <3>1. f \in asks /\ frames'[Client] \in Seq(Frame)
      BY <1>1, <1>3, <1>9 DEF asks
    <3> QED
      BY <2>1, <2>2, <3>1, <1>1, <1>3, <1>8, <1>9, DetachAdded
  <2>3. CASE p # Client
    BY <2>1, <2>3, <1>8, <1>9
  <2> QED
    BY <2>2, <2>3
<1>16. Asks'
  <2>1. backlog' = backlog /\ asks' = asks
    BY <1>3, <1>7
  <2> QED
    BY <2>1, <1>2, <1>15 DEF Parts, Asks, Left
<1>17. Mates'
  <2>1. UNCHANGED <<backlog, mate, known, stage, me, called, awaited, by_in>>
    BY <1>3, <1>5, <1>7
  <2>2. \A b \in Attachment : mate[b] # Nobody => NotIn(frames'[Client], mate[b])
    BY <1>2 DEF Left
  <2>3. \A n \in awaited : by_name'[Client][n] = by_name[Client][n]
    BY <1>6
  <2>4. ASSUME NEW d \in End(Listener)
        PROVE  /\ stage[<<Listener, d>>] # "idle" => mate[me[<<Listener, d>>]] # Nobody
               /\ stage[<<Listener, d>>] \in {"allocating", "allocated"} =>
                    /\ called[<<Listener, d>>] \in awaited
                    /\ by_name'[Client][called[<<Listener, d>>]].who = mate[me[<<Listener, d>>]]
               /\ stage[<<Listener, d>>] = "allocated" =>
                    by_in[Listener][by_name'[Client][called[<<Listener, d>>]].out].who = me[<<Listener, d>>]
    BY <2>3 DEF Parts, Mates
  <2>5. \A b \in Attachment : mate[b] # Nobody =>
          NotIn(backlog, mate[b]) /\ mate[b] \in known[Client] /\ \A d \in Attachment : mate[d] = mate[b] => d = b
    BY DEF Parts, Mates
  <2> QED
    BY <2>1, <2>2, <2>4, <2>5, <1>15 DEF Mates
<1>18. answers' = answers
  BY <1>3, <1>5, <1>6, <1>7 DEF answers
<1>19. p = Listener => NotIn(frames[Listener], me[x])
  <2>1. ASSUME p = Listener, NEW i \in 1 .. Len(frames[Listener]), frames[Listener][i].type = "Attach", frames[Listener][i].from = me[x]
        PROVE  FALSE
    <3>1. i < 1
      BY <2>1, <1>1, <1>3 DEF Parts, Replies
    <3> QED
      BY <3>1
  <2> QED
    BY <2>1 DEF NotIn
<1>20. Replies'
  <2>1. All(wire'[Listener], answers) /\ Once(wire'[Listener]) /\ Apart(frames'[Listener], wire'[Listener])
    <3>1. All(wire[Listener], answers) /\ Once(wire[Listener]) /\ Apart(frames'[Listener], wire[Listener])
      BY <1>2 DEF Parts, Replies, Left
    <3>2. CASE p = Listener
      <4>1. f \in answers /\ frames'[Listener] \in Seq(Frame)
        BY <1>1, <1>3, <1>9 DEF answers
      <4> QED
        BY <3>1, <3>2, <4>1, <1>1, <1>3, <1>8, DetachAdded
    <3>3. CASE p # Listener
      BY <3>1, <3>3, <1>8, <1>9
    <3> QED
      BY <3>2, <3>3
  <2>2. ASSUME NEW i \in 1 .. Len(frames'[Listener]), frames'[Listener][i].type = "Attach"
        PROVE  slab'[Listener][frames'[Listener][i].handle] = frames'[Listener][i].from
    <3>1. slab[Listener][frames'[Listener][i].handle] = frames'[Listener][i].from
      BY <2>2, <1>2 DEF Left
    <3>2. CASE p # Listener
      BY <3>1, <3>2, <1>6, <1>9
    <3>3. CASE p = Listener
      <4>1. PICK j \in 1 .. Len(frames[Listener]) : frames'[Listener][i] = frames[Listener][j]
        BY <1>9, FrameTaken
      <4>2. frames'[Listener][i].from # me[x]
        BY <2>2, <3>3, <4>1, <1>19 DEF NotIn
      <4>3. frames'[Listener][i].handle \in Handle
        <5>1. frames'[Listener] \in Seq(Frame)
          BY <1>1, <1>9
        <5>2. frames'[Listener][i] \in Frame
          BY <5>1
        <5> QED
          BY <5>2 DEF Frame
      <4>4. frames'[Listener][i].handle # h
        BY <3>1, <3>3, <4>2, <1>9
      <4> QED
        BY <3>1, <4>3, <4>4, <1>6, <1>9
    <3> QED
      BY <3>2, <3>3
  <2>3. ASSUME NEW i \in 1 .. Len(wire'[Listener]), wire'[Listener][i].type = "Attach"
        PROVE  \/ slab'[Listener][wire'[Listener][i].handle] = wire'[Listener][i].from
               \/ \E j \in 1 .. Len(wire'[Listener]) : DetachOf(wire'[Listener][j], wire'[Listener][i].from, wire'[Listener][i].handle)
    <3>1. i \in 1 .. Len(wire[Listener]) /\ wire'[Listener][i] = wire[Listener][i]
      BY <2>3, <1>3, <1>8, <1>9
    <3> DEFINE a == wire[Listener][i]
    <3>2. \/ slab[Listener][a.handle] = a.from
          \/ \E j \in 1 .. Len(wire[Listener]) : DetachOf(wire[Listener][j], a.from, a.handle)
      BY <2>3, <3>1 DEF Parts, Replies
    <3>3. CASE \E j \in 1 .. Len(wire[Listener]) : DetachOf(wire[Listener][j], a.from, a.handle)
      <4>1. PICK j \in 1 .. Len(wire[Listener]) : DetachOf(wire[Listener][j], a.from, a.handle)
        BY <3>3
      <4>2. j \in 1 .. Len(wire'[Listener]) /\ wire'[Listener][j] = wire[Listener][j]
        BY <1>8, <1>9
      <4> QED
        BY <3>1, <4>1, <4>2
    <3>4. CASE slab[Listener][a.handle] = a.from /\ p = Listener /\ a.handle = h
      <4>1. DetachOf(wire'[Listener][Len(wire[Listener]) + 1], a.from, a.handle)
        BY <3>4, <1>3, <1>8, <1>9
      <4> QED
        BY <3>1, <3>4, <4>1, <1>8
    <3>5. CASE slab[Listener][a.handle] = a.from /\ ~(p = Listener /\ a.handle = h)
      <4>1. a \in Frame
        BY <3>1, <1>9 DEF Parts, Typed
      <4>2. a.handle \in Handle
        BY <4>1 DEF Frame
      <4> HIDE DEF a
      <4>3. slab'[Listener][a.handle] = a.from
        BY <3>5, <4>2, <1>6, <1>9
      <4> QED
        BY <3>1, <4>3 DEF a
    <3> QED
      BY <3>2, <3>3, <3>4, <3>5
  <2> QED
    BY <2>1, <2>2, <2>3, <1>2, <1>18 DEF Replies, Left
<1>21. Detaching'
  <2>1. \A q \in Peer : q # p => \A i \in 1 .. Len(wire'[q]) : \E j \in 1 .. Len(wire[q]) : wire'[q][i] = wire[q][j]
    BY <1>8
  <2>2. \A q \in Peer : \A i \in 1 .. Len(frames'[q]) : frames'[q][i].type = "Detach" => frames'[q][i].from \in past[q]
    BY <1>2 DEF Left
  <2> QED
    BY <2>1, <2>2, <1>1, <1>3, <1>5, <1>8, ReleasedDetaching DEF x
<1>22. Inboxes'
  <2>1. \A q \in Peer : \A d \in End(q) : /\ link'[<<q, d>>].inbox = link[<<q, d>>].inbox /\ link'[<<q, d>>].pc = link[<<q, d>>].pc
                                          /\ link'[<<q, d>>].peer = link[<<q, d>>].peer
    BY <1>4, <1>9
  <2>2. \A c \in End(Client) :
           /\ link'[<<Client, c>>].inbox = link[<<Client, c>>].inbox
           /\ link'[<<Client, c>>].pc \in {"up", "waiting", "refused"} => mate[link'[<<Client, c>>].peer] = me[<<Client, c>>]
    BY <2>1, <1>9 DEF Parts, Inboxes
  <2>3. me' = me /\ mate' = mate /\ called' = called
    BY <1>5
  <2>4. \A d \in End(Listener) : link'[<<Listener, d>>].inbox = link[<<Listener, d>>].inbox
    BY <2>1, <1>9
  <2> QED
    BY <2>2, <2>3, <2>4, SameInboxes
<1>23. CASE p = Client
  <2>1. e \in End(Client) /\ x = <<Client, e>>
    BY <1>23 DEF x
  <2>2. Releases(Client, e, h) /\ DetachOf(f, me[<<Client, e>>], h) /\ wire'[Client] = Append(wire[Client], f)
    BY <2>1, <1>3, <1>8, <1>23
  <2>3. by_in'[Listener] = by_in[Listener] /\ UNCHANGED <<control, backlog, stage, me, mate>>
    BY <1>3, <1>5
  <2>4. ToListener'
    BY <2>1, <2>2, <2>3, <1>1, <1>3, ReleasedAtClient
  <2>5. /\ frames'[Listener] = frames[Listener] /\ wire'[Listener] = wire[Listener] /\ slab'[Listener] = slab[Listener]
        /\ UNCHANGED <<by_in, me, stage, mate>>
    BY <1>1, <1>3, <1>5, <1>6, <1>8, <1>9, <1>23
  <2>6. ToClient'
    BY <2>5 DEF Parts, ToClient
  <2> QED
    BY <2>4, <2>6, <1>4, <1>6, <1>7, <1>10, <1>11, <1>12, <1>13, <1>14, <1>16, <1>17, <1>20, <1>21, <1>22 DEF Parts
<1>24. CASE p = Listener
  <2>1. e \in End(Listener) /\ x = <<Listener, e>>
    BY <1>24 DEF x
  <2>2. /\ Releases(Listener, e, h) /\ DetachOf(f, me[<<Listener, e>>], h) /\ wire'[Listener] = Append(wire[Listener], f)
        /\ NotIn(frames[Listener], me[<<Listener, e>>])
    BY <2>1, <1>3, <1>8, <1>19, <1>24
  <2>3. /\ by_in'[Client] = by_in[Client] /\ UNCHANGED <<stage, me, mate>>
        /\ \A a : NotIn(frames'[Listener], a) => NotIn(frames[Listener], a)
    BY <1>1, <1>3, <1>5, <1>24
  <2>4. ToClient'
    BY <2>1, <2>2, <2>3, <1>1, <1>3, ReleasedAtListener
  <2>5. /\ wire'[Client] = wire[Client] /\ slab'[Client] = slab[Client]
        /\ UNCHANGED <<by_in, me, stage, mate, control, backlog>>
    BY <1>3, <1>5, <1>6, <1>8, <1>9, <1>24
  <2>6. ToListener'
    BY <2>5 DEF Parts, ToListener
  <2> QED
    BY <2>4, <2>6, <1>4, <1>6, <1>7, <1>10, <1>11, <1>12, <1>13, <1>14, <1>16, <1>17, <1>20, <1>21, <1>22 DEF Parts
<1> QED
  BY <1>9, <1>23, <1>24

\* Without a mishap a Detach finds its own link behind the handle.
LEMMA OnOutgoingLinkFrameStep ==
  ASSUME Parts, mishap = {}, mishap' = {}, NEW p \in Peer, OnOutgoingLinkFrame(p)
  PROVE  Parts'
<1> DEFINE f == Head(frames[p])
<1>1. Takes(p, f) /\ UNCHANGED <<control, backlog, failure>>
  BY DEF OnOutgoingLinkFrame, Takes
<1>2. CASE f.type = "Attach" /\ wire' = [wire EXCEPT ![p] = Append(@, f)] /\ UNCHANGED <<link, tables, mishap>>
  BY <1>1, <1>2, AttachSentStep DEF Sends
<1>3. CASE f.type = "Detach" /\ Repeats(p, f.handle) /\ UNCHANGED <<link, tables, wire, mishap>>
  BY <1>1, <1>3, DroppedStep DEF Repeats
<1>4. CASE /\ f.type = "Detach" /\ ~Repeats(p, f.handle)
           /\ Deallocate(p, f.handle)
           /\ close_pending' = [close_pending EXCEPT ![p] = @ \cup {f.handle}]
           /\ wire' = [wire EXCEPT ![p] = Append(@, f)]
           /\ mishap' = IF slab[p][f.handle] \notin {Nobody, f.from} THEN mishap \cup {"strayed"} ELSE mishap
           /\ link' = [link EXCEPT ![<<p, f.from[1]>>].asked = f.from[2]]
           /\ UNCHANGED by_in
  <2>1. f \in Frame /\ 1 \in 1 .. Len(frames[p]) /\ frames[p][1] = f
    BY <1>1, FrameTaken
  <2>2. f.handle \in Handle
    BY <2>1 DEF Frame
  <2>3. slab[p][f.handle] # Nobody /\ slab[p][f.handle] = f.from
    <3>1. slab[p][f.handle] \in {Nobody, f.from}
      BY <1>4
    <3> QED
      BY <3>1, <1>4 DEF Repeats
  <2>4. PICK e \in End(p) : slab[p][f.handle] = me[<<p, e>>]
    BY <2>2, <2>3 DEF Parts, Slots
  <2> DEFINE x == <<p, e>>
  <2>5. x \in Endpoint /\ me[x] = <<e, link[x].life>> /\ called[x] = link[x].name
    BY Endpoints, Abbreviated DEF Parts
  <2>6. f.from = me[x] /\ f.from[1] = e /\ f.from[2] = link[x].life
    BY <2>3, <2>4, <2>5
  <2>7. stage[x] = "heard"
    <3>1. f.from \in past[p]
      BY <2>1, <1>4 DEF Parts, Detaching
    <3> QED
      BY <2>6, <3>1, Heard DEF Parts
  <2>8. /\ slab' = [slab EXCEPT ![p][f.handle] = Nobody] /\ vacant' = [vacant EXCEPT ![p] = <<f.handle>> \o @]
        /\ by_name' = [by_name EXCEPT ![p][called[x]] = Absent]
    BY <2>3, <2>5, <2>6, <1>4 DEF Deallocate
  <2>9. Releases(p, e, f.handle)
    BY <2>4, <2>7, <2>8 DEF Releases
  <2>10. link' = [link EXCEPT ![x] = [link[x] EXCEPT !.asked = link[x].life]]
    <3>1. link' = [link EXCEPT ![x].asked = link[x].life]
      BY <2>6, <1>4
    <3> QED
      BY <3>1
  <2>11. Parting(p, e, f)
    BY <2>6, <2>9, <2>10, <1>1, <1>4 DEF Parting
  <2> QED
    BY <2>11, <1>1, <1>4, PartingStep DEF Sends
<1> QED
  BY <1>2, <1>3, <1>4 DEF OnOutgoingLinkFrame

-----------------------------------------------------------------------------
(* A frame of the peer arrives.                                            *)

\* The first frame that q has sent is taken from the wire.
Arrives(q, f) == wire[q] # <<>> /\ f = Head(wire[q]) /\ wire'[q] = Tail(wire[q])

\* The wire before and after.
LEMMA FrameArrived ==
  ASSUME Parts, NEW q \in Peer, NEW f, Arrives(q, f)
  PROVE  /\ f \in Frame /\ wire[q] \in Seq(Frame) /\ wire[q] # <<>> /\ wire'[q] \in Seq(Frame) /\ wire'[q] = Tail(wire[q])
         /\ 1 \in 1 .. Len(wire[q]) /\ wire[q][1] = f
         /\ \A i \in 1 .. Len(wire'[q]) : i + 1 \in 1 .. Len(wire[q]) /\ i + 1 # 1 /\ wire'[q][i] = wire[q][i + 1]
         /\ \A i \in 1 .. Len(wire[q]) : i = 1 \/ (i - 1 \in 1 .. Len(wire'[q]) /\ wire'[q][i - 1] = wire[q][i])
         /\ f.type = "Detach" => \A a : NotIn(wire'[q], a) => NotIn(wire[q], a)
<1> DEFINE s == wire[q]
           t == wire'[q]
<1>1. s \in Seq(Frame) /\ s # <<>> /\ f = Head(s) /\ t = Tail(s)
  BY DEF Parts, Typed, Arrives
<1> HIDE DEF s, t
<1>2. /\ Tail(s) \in Seq(Frame) /\ 1 \in 1 .. Len(s) /\ Head(s) = s[1] /\ s[1] \in Frame
      /\ \A i \in 1 .. Len(Tail(s)) : i + 1 \in 1 .. Len(s) /\ i + 1 # 1 /\ Tail(s)[i] = s[i + 1]
      /\ \A i \in 1 .. Len(s) : i = 1 \/ (i - 1 \in 1 .. Len(Tail(s)) /\ Tail(s)[i - 1] = s[i])
      /\ s[1].type = "Detach" => \A a : NotIn(Tail(s), a) => NotIn(s, a)
  BY <1>1, Shifted
<1> QED
  BY <1>1, <1>2 DEF s, t

\* What is left on the wire was there before.
LEMMA WireShorter ==
  ASSUME Parts, NEW q \in Peer, NEW f, Arrives(q, f)
  PROVE  \A i \in 1 .. Len(wire'[q]) : \E j \in 1 .. Len(wire[q]) : wire'[q][i] = wire[q][j]
<1>1. \A i \in 1 .. Len(wire'[q]) : i + 1 \in 1 .. Len(wire[q]) /\ wire'[q][i] = wire[q][i + 1]
  BY FrameArrived
<1> QED
  BY <1>1

\* What the frames left on the wire have been is what they are.
LEMMA WireLeft ==
  ASSUME Parts, NEW q \in Peer, NEW f, Arrives(q, f)
  PROVE  /\ q = Client => /\ All(wire'[q], asks) /\ f \in asks /\ Once(wire'[q]) /\ Apart(frames[q], wire'[q]) /\ Apart(wire'[q], backlog)
                          /\ \A b \in Attachment : mate[b] # Nobody => NotIn(wire'[q], mate[b])
                          /\ f.type = "Attach" => /\ NotIn(wire'[q], f.from) /\ NotIn(frames[q], f.from) /\ NotIn(backlog, f.from)
                                                  /\ \A b \in Attachment : mate[b] # Nobody => f.from # mate[b]
         /\ q = Listener => /\ All(wire'[q], answers) /\ f \in answers /\ Once(wire'[q]) /\ Apart(frames[q], wire'[q])
                            /\ f.type = "Attach" => NotIn(wire'[q], f.from) /\ NotIn(frames[q], f.from)
         /\ \A i \in 1 .. Len(wire'[q]) : wire'[q][i].type = "Detach" =>
              wire'[q][i].from \in past[q] /\ \A h \in Handle : slab[q][h] # wire'[q][i].from
         /\ f.type = "Detach" => f.from \in past[q] /\ \A h \in Handle : slab[q][h] # f.from
<1>1. /\ wire[q] \in Seq(Frame) /\ wire[q] # <<>> /\ wire'[q] = Tail(wire[q]) /\ 1 \in 1 .. Len(wire[q]) /\ wire[q][1] = f
      /\ \A i \in 1 .. Len(wire'[q]) : \E j \in 1 .. Len(wire[q]) : wire'[q][i] = wire[q][j]
  BY FrameArrived, WireShorter
<1>2. frames[q] \in Seq(Frame) /\ backlog \in Seq(Frame)
  BY DEF Parts, Typed
<1>3. ASSUME q = Client
      PROVE  /\ All(wire'[q], asks) /\ f \in asks /\ Once(wire'[q]) /\ Apart(frames[q], wire'[q]) /\ Apart(wire'[q], backlog)
             /\ \A b \in Attachment : mate[b] # Nobody => NotIn(wire'[q], mate[b])
             /\ f.type = "Attach" => /\ NotIn(wire'[q], f.from) /\ NotIn(frames[q], f.from) /\ NotIn(backlog, f.from)
                                     /\ \A b \in Attachment : mate[b] # Nobody => f.from # mate[b]
  <2>1. /\ All(wire[q], asks) /\ Once(wire[q]) /\ Apart(frames[q], wire[q]) /\ Apart(wire[q], backlog)
        /\ \A b \in Attachment : mate[b] # Nobody => NotIn(wire[q], mate[b])
    BY <1>3 DEF Parts, Asks, Mates
  <2> QED
    BY <2>1, <1>1, <1>2, AttachTaken
<1>4. ASSUME q = Listener
      PROVE  /\ All(wire'[q], answers) /\ f \in answers /\ Once(wire'[q]) /\ Apart(frames[q], wire'[q])
             /\ f.type = "Attach" => NotIn(wire'[q], f.from) /\ NotIn(frames[q], f.from)
  <2>1. All(wire[q], answers) /\ Once(wire[q]) /\ Apart(frames[q], wire[q])
    BY <1>4 DEF Parts, Replies
  <2> QED
    BY <2>1, <1>1, <1>2, AttachTaken
<1>5. \A i \in 1 .. Len(wire[q]) : wire[q][i].type = "Detach" =>
        wire[q][i].from \in past[q] /\ \A h \in Handle : slab[q][h] # wire[q][i].from
  BY DEF Parts, Detaching
<1>6. /\ \A i \in 1 .. Len(wire'[q]) : wire'[q][i].type = "Detach" =>
              wire'[q][i].from \in past[q] /\ \A h \in Handle : slab[q][h] # wire'[q][i].from
      /\ f.type = "Detach" => f.from \in past[q] /\ \A h \in Handle : slab[q][h] # f.from
  BY <1>1, <1>5
<1> QED
  BY <1>3, <1>4, <1>6

\* When frames are only taken from the wire.
LEMMA WireDetaching ==
  ASSUME Parts, UNCHANGED <<slab, frames, past>>,
         \A q \in Peer : \A i \in 1 .. Len(wire'[q]) : \E j \in 1 .. Len(wire[q]) : wire'[q][i] = wire[q][j]
  PROVE  Detaching'
<1>1. ASSUME NEW q \in Peer, NEW i \in 1 .. Len(wire'[q]), wire'[q][i].type = "Detach"
      PROVE  wire'[q][i].from \in past[q] /\ \A h \in Handle : slab[q][h] # wire'[q][i].from
  <2>1. PICK j \in 1 .. Len(wire[q]) : wire'[q][i] = wire[q][j]
    OBVIOUS
  <2>2. wire[q][j].from \in past[q] /\ \A h \in Handle : slab[q][h] # wire[q][j].from
    BY <1>1, <2>1 DEF Parts, Detaching
  <2> QED
    BY <2>1, <2>2
<1> QED
  BY <1>1 DEF Parts, Detaching

\* The listener keeps an Attach for accept().
LEMMA AttachQueuedStep ==
  ASSUME Parts, NEW f, Arrives(Client, f), wire'[Listener] = wire[Listener], wire' \in [Peer -> Seq(Frame)], f.type = "Attach",
         backlog' = Append(backlog, f), UNCHANGED <<link, tables, control, frames, failure>>
  PROVE  Parts'
<1>0. Client \in Peer /\ Listener \in Peer /\ f.type # "Detach"
  BY Peers
<1>1. /\ stage' = stage /\ me' = me /\ called' = called /\ held' = held /\ parted' = parted /\ clean' = clean
      /\ known' = known /\ past' = past /\ mate' = mate
  BY SameLinks
<1>2. UNCHANGED <<slab, vacant, by_name, by_in, close_pending>>
  BY DEF tables
<1>3. /\ f \in Frame /\ 1 \in 1 .. Len(wire[Client]) /\ wire[Client][1] = f
      /\ \A i \in 1 .. Len(wire'[Client]) : i + 1 \in 1 .. Len(wire[Client]) /\ i + 1 # 1 /\ wire'[Client][i] = wire[Client][i + 1]
      /\ \A i \in 1 .. Len(wire[Client]) : i = 1 \/ (i - 1 \in 1 .. Len(wire'[Client]) /\ wire'[Client][i - 1] = wire[Client][i])
  BY <1>0, FrameArrived
<1>4. /\ All(wire'[Client], asks) /\ f \in asks /\ Once(wire'[Client]) /\ Apart(frames[Client], wire'[Client]) /\ Apart(wire'[Client], backlog)
      /\ \A b \in Attachment : mate[b] # Nobody => NotIn(wire'[Client], mate[b])
      /\ NotIn(wire'[Client], f.from) /\ NotIn(frames[Client], f.from) /\ NotIn(backlog, f.from)
      /\ \A b \in Attachment : mate[b] # Nobody => f.from # mate[b]
  BY <1>0, WireLeft
<1>5. /\ backlog \in Seq(Frame) /\ frames[Client] \in Seq(Frame) /\ wire'[Client] \in Seq(Frame)
  BY <1>0 DEF Parts, Typed
<1>6. /\ backlog' \in Seq(Frame) /\ Len(backlog) \in Nat
      /\ \A i \in 1 .. Len(backlog') : (i \in 1 .. Len(backlog) /\ backlog'[i] = backlog[i]) \/ backlog'[i] = f
  BY <1>3, <1>5, Grown
<1>7. /\ Requests' /\ Vacant' /\ Slots' /\ Reached' /\ Named' /\ Registered' /\ Pending'
  BY <1>1, SameTables
<1>8. awaited' = awaited /\ asks' = asks /\ answers' = answers
  BY <1>1, <1>2, SameAwaited, SameAnswers
<1>9. Typed'
  BY <1>2, <1>6 DEF Parts, Typed
<1>10. Shaped' /\ Holders' /\ Inboxes'
  <2>1. Shaped'
    BY DEF Parts, Shaped
  <2>2. Holders'
    BY <1>1, <1>2 DEF Parts, Holders
  <2>3. Inboxes'
    BY <1>1 DEF Parts, Inboxes
  <2> QED
    BY <2>1, <2>2, <2>3
<1>11. Asks'
  <2>1. /\ All(frames[Client], asks) /\ All(backlog, asks) /\ \A i \in 1 .. Len(backlog) : backlog[i].type = "Attach"
        /\ Once(frames[Client]) /\ Once(backlog) /\ Apart(frames[Client], backlog)
    BY DEF Parts, Asks
  <2>2. /\ All(backlog', asks) /\ Once(backlog') /\ Apart(frames[Client], backlog') /\ Apart(wire'[Client], backlog')
    BY <2>1, <1>3, <1>4, <1>5, AttachAdded
  <2>3. \A i \in 1 .. Len(backlog') : backlog'[i].type = "Attach"
    BY <2>1, <1>6
  <2> QED
    BY <2>1, <2>2, <2>3, <1>4, <1>8 DEF Asks
<1>12. Mates'
  <2>1. ASSUME NEW b \in Attachment, mate[b] # Nobody
        PROVE  NotIn(backlog', mate[b])
    <3>1. NotIn(backlog, mate[b])
      BY <2>1 DEF Parts, Mates
    <3> QED
      BY <2>1, <3>1, <1>3, <1>4, <1>5, AttachAdded
  <2> QED
    BY <2>1, <1>1, <1>2, <1>4, <1>8 DEF Parts, Mates
<1>13. Replies'
  BY <1>2, <1>8 DEF Parts, Replies
<1>14. Detaching'
  <2>1. ASSUME NEW q \in Peer, NEW i \in 1 .. Len(wire'[q])
        PROVE  \E j \in 1 .. Len(wire[q]) : wire'[q][i] = wire[q][j]
    <3>1. CASE q = Client
      <4>1. \A k \in 1 .. Len(wire'[q]) : \E j \in 1 .. Len(wire[q]) : wire'[q][k] = wire[q][j]
        BY <3>1, <1>0, WireShorter
      <4> QED
        BY <4>1
    <3>2. CASE q = Listener
      <4>1. wire'[q] = wire[q]
        BY <3>2
      <4> QED
        BY <4>1
    <3> QED
      BY <3>1, <3>2, Peers
  <2> QED
    BY <2>1, <1>1, <1>2, WireDetaching
<1>15. ToListener'
  <2>1. ASSUME NEW j \in 1 .. Len(wire'[Client]), wire'[Client][j].type = "Detach"
        PROVE  /\ by_in[Listener][wire'[Client][j].handle].who # Nobody
               /\ mate[by_in[Listener][wire'[Client][j].handle].who] = wire'[Client][j].from
               /\ \A i \in 1 .. j - 1 : wire'[Client][i].handle # wire'[Client][j].handle
               /\ \A i \in 1 .. Len(backlog') : backlog'[i].handle # wire'[Client][j].handle
               /\ \A i \in 1 .. Len(control[Listener]) : control[Listener][i].input # wire'[Client][j].handle
    <3> DEFINE w == wire[Client]
               v == wire'[Client]
    <3>1. j + 1 \in 1 .. Len(w) /\ v[j] = w[j + 1] /\ j \in Nat /\ j >= 1 /\ Len(w) \in Nat
      BY <1>3, <1>0 DEF Parts, Typed
    <3>2. /\ by_in[Listener][w[j + 1].handle].who # Nobody
          /\ mate[by_in[Listener][w[j + 1].handle].who] = w[j + 1].from
          /\ \A i \in 1 .. j + 1 - 1 : w[i].handle # w[j + 1].handle
          /\ \A i \in 1 .. Len(backlog) : backlog[i].handle # w[j + 1].handle
          /\ \A i \in 1 .. Len(control[Listener]) : control[Listener][i].input # w[j + 1].handle
      BY <2>1, <3>1 DEF Parts, ToListener
    <3>3. \A i \in 1 .. j - 1 : i + 1 \in 1 .. j + 1 - 1 /\ i \in 1 .. Len(v)
      BY <3>1
    <3>4. \A i \in 1 .. j - 1 : v[i] = w[i + 1]
      BY <3>3, <1>3
    <3>5. 1 \in 1 .. j + 1 - 1 /\ w[1] = f
      BY <3>1, <1>3
    <3>6. f.handle # v[j].handle
      BY <3>1, <3>2, <3>5
    <3>7. \A i \in 1 .. Len(backlog') : backlog'[i].handle # v[j].handle
      BY <3>1, <3>2, <3>6, <1>6
    <3>8. \A i \in 1 .. j - 1 : v[i].handle # v[j].handle
      BY <3>1, <3>2, <3>3, <3>4
    <3> HIDE DEF w, v
    <3>9. /\ by_in[Listener][v[j].handle].who # Nobody
          /\ mate[by_in[Listener][v[j].handle].who] = v[j].from
          /\ \A i \in 1 .. Len(control[Listener]) : control[Listener][i].input # v[j].handle
      BY <3>1, <3>2
    <3> QED
      BY <3>7, <3>8, <3>9 DEF v
  <2>2. ASSUME NEW g \in Handle, by_in[Listener][g].who # Nobody
        PROVE  \/ slab[Client][g] = mate[by_in[Listener][g].who]
               \/ \E j \in 1 .. Len(wire'[Client]) : DetachOf(wire'[Client][j], mate[by_in[Listener][g].who], g)
    <3>1. \/ slab[Client][g] = mate[by_in[Listener][g].who]
          \/ \E j \in 1 .. Len(wire[Client]) : DetachOf(wire[Client][j], mate[by_in[Listener][g].who], g)
      BY <2>2 DEF Parts, ToListener
    <3>2. ASSUME NEW j \in 1 .. Len(wire[Client]), DetachOf(wire[Client][j], mate[by_in[Listener][g].who], g)
          PROVE  \E k \in 1 .. Len(wire'[Client]) : DetachOf(wire'[Client][k], mate[by_in[Listener][g].who], g)
      <4>1. j # 1
        BY <3>2, <1>0, <1>3 DEF DetachOf
      <4> QED
        BY <3>2, <4>1, <1>3
    <3> QED
      BY <3>1, <3>2
  <2>3. \A h \in Handle : \A c \in End(Client) :
       slab[Client][h] = me[<<Client, c>>] /\ stage[<<Client, c>>] = "heard" =>
         by_in[Listener][h].who # Nobody /\ mate[by_in[Listener][h].who] = me[<<Client, c>>]
    BY DEF Parts, ToListener
  <2> QED
    BY <2>1, <2>2, <2>3, <1>1, <1>2 DEF ToListener
<1>16. ToClient'
  BY <1>1, <1>2 DEF Parts, ToClient
<1> QED
  BY <1>7, <1>9, <1>10, <1>11, <1>12, <1>13, <1>14, <1>15, <1>16 DEF Parts

\* A Detach that arrives finds the link that is attached to its sender.
LEMMA DetachFinds ==
  ASSUME Parts, NEW p \in Peer, NEW f, Arrives(Other(p), f), f.type = "Detach"
  PROVE  \E e \in End(p) : /\ by_in[p][f.handle].who = me[<<p, e>>] /\ stage[<<p, e>>] = "heard"
                           /\ p = Client => mate[f.from] = me[<<p, e>>]
                           /\ p = Listener => f.from = mate[me[<<p, e>>]]
                           /\ f.handle \in Handle /\ by_in[p][f.handle].out \in Handle
<1> DEFINE q == Other(p)
           w == wire[q]
<1>1. q \in Peer /\ Client \in Peer /\ Listener \in Peer
  BY Peers
<1>2. f \in Frame /\ 1 \in 1 .. Len(w) /\ w[1] = f /\ f.from \in past[q]
  BY <1>1, FrameArrived, WireLeft
<1>3. f.handle \in Handle /\ f.from \in Attachment
  BY <1>2 DEF Frame
<1>4. CASE p = Client
  <2>1. q = Listener
    BY <1>4, Peers
  <2>2. Open(w, 1, f.from, f.handle, by_in[Client], mate[f.from])
    BY <2>1, <1>2 DEF Parts, ToClient
  <2>3. by_in[Client][f.handle].who = mate[f.from]
    <3>1. \A i \in 1 .. 1 - 1 : FALSE
      OBVIOUS
    <3> QED
      BY <2>2, <3>1 DEF Open
  <2>4. mate[f.from] # Nobody
    <3>1. f.from[1] \in End(Listener) /\ 1 <= f.from[2] /\ f.from[2] <= link[<<Listener, f.from[1]>>].life /\ f.from[2] \in Nat
      BY <2>1, <1>1, <1>2, <1>3 DEF past, Upto, Attachment
    <3> DEFINE d == f.from[1]
    <3>2. <<Listener, d>> \in Endpoint /\ <<Listener, d>>[1] = Listener
      BY <3>1, <1>1, Endpoints
    <3>3. link[<<Listener, d>>].life \in Nat /\ link[<<Listener, d>>].life <= 1
      BY <3>2 DEF Parts, Typed, Shaped, Shape, LinkRecord
    <3>4. f.from[2] = link[<<Listener, d>>].life /\ f.from = <<d, link[<<Listener, d>>].life>>
      BY <3>1, <3>3, <1>3 DEF Attachment
    <3>5. f.from = me[<<Listener, d>>]
      BY <3>1, <3>4, <1>1, Abbreviated DEF Parts
    <3>6. stage[<<Listener, d>>] = "heard"
      BY <3>1, <3>5, <2>1, <1>1, <1>2, Heard DEF Parts
    <3> QED
      BY <3>1, <3>5, <3>6 DEF Parts, Mates
  <2>5. PICK e \in End(Client) : by_in[Client][f.handle].who = me[<<Client, e>>] /\ stage[<<Client, e>>] = "heard"
    BY <2>3, <2>4, <1>1, <1>3 DEF Parts, Registered
  <2>6. by_in[Client][f.handle].out \in Handle
    BY <2>3, <2>4, <1>1, <1>3 DEF Parts, Registered
  <2> QED
    BY <2>3, <2>5, <2>6, <1>3, <1>4, Peers
<1>5. CASE p = Listener
  <2>1. q = Client
    BY <1>5, Peers
  <2>2. by_in[Listener][f.handle].who # Nobody /\ mate[by_in[Listener][f.handle].who] = f.from
    BY <2>1, <1>2 DEF Parts, ToListener
  <2>3. /\ \E e \in End(Listener) : by_in[Listener][f.handle].who = me[<<Listener, e>>] /\ stage[<<Listener, e>>] \notin {"idle", "allocating"}
        /\ by_in[Listener][f.handle].out \in Handle
    BY <2>2, <1>1, <1>3 DEF Parts, Registered
  <2>4. PICK e \in End(Listener) : by_in[Listener][f.handle].who = me[<<Listener, e>>] /\ stage[<<Listener, e>>] \notin {"idle", "allocating"}
    BY <2>3
  <2>5. stage[<<Listener, e>>] # "allocated"
    <3>1. ASSUME stage[<<Listener, e>>] = "allocated"
          PROVE  FALSE
      <4>1. called[<<Listener, e>>] \in awaited /\ by_name[Client][called[<<Listener, e>>]].who = f.from
        BY <2>2, <2>4, <3>1 DEF Parts, Mates
      <4>2. f.from \notin past[Client]
        BY <4>1, AwaitedLink
      <4> QED
        BY <4>2, <2>1, <1>2
    <3> QED
      BY <3>1
  <2>6. stage[<<Listener, e>>] = "heard"
    <3>1. stage[<<Listener, e>>] \in {"idle", "allocating", "allocated", "asking", "heard"} /\ stage[<<Listener, e>>] # "asking"
      BY <1>1, Endpoints, Abbreviated, Heard DEF Parts
    <3> QED
      BY <3>1, <2>4, <2>5
  <2> QED
    BY <2>2, <2>3, <2>4, <2>6, <1>3, <1>5, Peers
<1> QED
  BY <1>4, <1>5, Peers

DetachArrives(p, e, f) ==
  /\ Arrives(Other(p), f) /\ f.type = "Detach" /\ f.handle \in Handle
  /\ by_in[p][f.handle].who = me[<<p, e>>] /\ stage[<<p, e>>] = "heard"
  /\ p = Client => mate[f.from] = me[<<p, e>>]
  /\ p = Listener => f.from = mate[me[<<p, e>>]]
  /\ Deliver(p, me[<<p, e>>], f)
  /\ by_in' = [by_in EXCEPT ![p][f.handle] = Absent]
  /\ UNCHANGED <<control, frames, backlog, failure>>

\* The links afterwards.
LEMMA DetachDelivered ==
  ASSUME Parts, NEW p \in Peer, NEW e \in End(p), NEW f, DetachArrives(p, e, f)
  PROVE  /\ Detaches(<<p, e>>) /\ parted' = parted /\ Shaped' /\ link' \in [Endpoint -> LinkRecord] /\ Inboxes'
<1> DEFINE x == <<p, e>>
           l == link[x]
           m == [l EXCEPT !.inbox = Append(l.inbox, f)]
<1>1. x \in Endpoint /\ x[1] = p /\ x[2] = e /\ l \in LinkRecord /\ Shape(x, l) /\ stage[x] = "heard" /\ l.inbox \in Seq(Frame)
  BY Endpoints, LinkFields DEF Parts, Shaped, DetachArrives
<1>2. f \in Frame /\ f.type = "Detach"
  BY Peers, FrameArrived DEF DetachArrives
<1>3. CASE link' = link
  <2>1. /\ stage' = stage /\ me' = me /\ called' = called /\ held' = held /\ parted' = parted /\ clean' = clean
        /\ known' = known /\ past' = past /\ mate' = mate
    BY <1>3, SameLinks
  <2>2. Detaches(x)
    BY <2>1 DEF Detaches
  <2>3. Shaped' /\ link' \in [Endpoint -> LinkRecord]
    BY <1>3 DEF Parts, Shaped, Typed
  <2>4. Inboxes'
    BY <2>1, <1>3 DEF Parts, Inboxes
  <2> QED
    BY <2>1, <2>2, <2>3, <2>4
<1>4. CASE link' # link
  <2>1. link' = [link EXCEPT ![x] = m]
    <3>1. me[x] = <<e, l.life>> /\ me[x][1] = e
      BY Abbreviated DEF Parts
    <3>2. link' = [link EXCEPT ![x].inbox = Append(@, f)]
      BY <3>1, <1>4 DEF DetachArrives, Deliver
    <3> QED
      BY <3>2
  <2>2. /\ Append(l.inbox, f) \in Seq(Frame) /\ Len(l.inbox) \in Nat /\ Len(Append(l.inbox, f)) = Len(l.inbox) + 1
        /\ \A i \in 1 .. Len(Append(l.inbox, f)) : (i \in 1 .. Len(l.inbox) /\ Append(l.inbox, f)[i] = l.inbox[i]) \/ Append(l.inbox, f)[i] = f
    BY <1>1, <1>2, Grown
  <2>3. /\ m \in LinkRecord /\ m.pc = l.pc /\ m.handle = l.handle /\ m.name = l.name /\ m.life = l.life
        /\ m.asked = l.asked /\ m.goal = l.goal /\ m.peer = l.peer /\ m.state = l.state /\ m.inbox = Append(l.inbox, f)
    BY <1>1, <2>2 DEF LinkRecord
  <2>4. m.inbox # <<>>
    BY <2>2, <2>3
  <2>5. l.pc \notin {"idle", "allocating", "allocated"} /\ ~(l.pc = "attaching" /\ l.inbox = <<>>)
    BY <1>1 DEF stage
  <2> HIDE DEF m
  <2>6. Becomes(x, m) /\ Shape(x, m)
    <3>1. Shape(x, m)
      <4> HIDE DEF l
      <4> QED
        BY <1>1, <2>3, <2>4, <2>5 DEF Shape
    <3> QED
      BY <3>1, <2>1, <2>3 DEF Becomes
  <2>7. /\ link' \in [Endpoint -> LinkRecord] /\ link'[x] = m
        /\ \A y \in Endpoint : y # x =>
              /\ link'[y] = link[y] /\ stage'[y] = stage[y] /\ called'[y] = called[y]
              /\ held'[y] = held[y] /\ (y \in clean' <=> y \in clean) /\ (y \in parted' <=> y \in parted)
        /\ stage'[x] = "heard"
    <3>1. stage'[x] = "heard"
      <4>1. stage'[x] = IF m.pc \in {"idle", "allocating", "allocated"} THEN m.pc
                        ELSE IF m.pc = "attaching" /\ m.inbox = <<>> THEN "asking" ELSE "heard"
        BY <1>1, <2>6, OneLink DEF Parts
      <4> QED
        BY <4>1, <2>3, <2>4, <2>5
    <3> QED
      BY <3>1, <1>1, <2>6, OneLink DEF Parts
  <2>8. \A y \in Endpoint : /\ link'[y].pc = link[y].pc /\ link'[y].peer = link[y].peer
                            /\ link'[y].name = link[y].name /\ link'[y].life = link[y].life /\ link'[y].handle = link[y].handle
                            /\ link'[y].state = link[y].state /\ link'[y].asked = link[y].asked
    BY <2>3, <2>7
  <2>9. Shaped'
    BY <1>1, <2>6, OneShape DEF Parts
  <2>10. stage' = stage
    <3>1. \A y \in Endpoint : stage'[y] = stage[y]
      BY <1>1, <2>7
    <3> QED
      BY <3>1, Extensions
  <2>11. called' = called /\ held' = held /\ parted' = parted
    BY <2>8 DEF called, held, parted
  <2>12. me' = me /\ known' = known /\ past' = past
    BY <2>8, <2>10, SameLives
  <2>13. mate' = mate
    <3>1. \A d \in End(Listener) : <<Listener, d>> \in Endpoint
      BY Peers, Endpoints
    <3> QED
      BY <3>1, <2>8, SameMates
  <2>14. Detaches(x)
    BY <2>7, <2>10, <2>11, <2>12, <2>13 DEF Detaches
  <2>15. Inboxes'
    <3>1. ASSUME NEW c \in End(Client)
          PROVE  /\ \A i \in 1 .. Len(link'[<<Client, c>>].inbox) :
                      /\ mate[link'[<<Client, c>>].inbox[i].from] = me[<<Client, c>>]
                      /\ link'[<<Client, c>>].inbox[i].type = "Attach" =>
                           called[<<Listener, link'[<<Client, c>>].inbox[i].from[1]>>] = called[<<Client, c>>]
                 /\ link'[<<Client, c>>].pc \in {"up", "waiting", "refused"} => mate[link'[<<Client, c>>].peer] = me[<<Client, c>>]
      <4>1. <<Client, c>> \in Endpoint
        BY Peers, Endpoints
      <4>2. link'[<<Client, c>>].pc \in {"up", "waiting", "refused"} => mate[link'[<<Client, c>>].peer] = me[<<Client, c>>]
        BY <4>1, <2>8 DEF Parts, Inboxes
      <4>3. \A i \in 1 .. Len(link[<<Client, c>>].inbox) :
                      /\ mate[link[<<Client, c>>].inbox[i].from] = me[<<Client, c>>]
                      /\ link[<<Client, c>>].inbox[i].type = "Attach" =>
                           called[<<Listener, link[<<Client, c>>].inbox[i].from[1]>>] = called[<<Client, c>>]
        BY DEF Parts, Inboxes
      <4>4. CASE <<Client, c>> = x
        <5>1. mate[f.from] = me[x]
          BY <4>4 DEF DetachArrives
        <5>2. f.type # "Attach"
          BY <1>2
        <5>3. link'[<<Client, c>>].inbox = Append(l.inbox, f)
          BY <4>4, <2>3, <2>7
        <5> QED
          BY <4>2, <4>3, <4>4, <5>1, <5>2, <5>3, <2>2
      <4>5. CASE <<Client, c>> # x
        <5>1. link'[<<Client, c>>] = link[<<Client, c>>]
          BY <4>1, <4>5, <2>7
        <5> QED
          BY <4>2, <4>3, <5>1
      <4> QED
        BY <4>4, <4>5
    <3>2. ASSUME NEW d \in End(Listener), NEW i \in 1 .. Len(link'[<<Listener, d>>].inbox)
          PROVE  /\ link'[<<Listener, d>>].inbox[i].type = "Detach"
                 /\ link'[<<Listener, d>>].inbox[i].from = mate[me[<<Listener, d>>]]
      <4>1. <<Listener, d>> \in Endpoint
        BY Peers, Endpoints
      <4>2. \A j \in 1 .. Len(link[<<Listener, d>>].inbox) :
                 /\ link[<<Listener, d>>].inbox[j].type = "Detach"
                 /\ link[<<Listener, d>>].inbox[j].from = mate[me[<<Listener, d>>]]
        BY DEF Parts, Inboxes
      <4>3. CASE <<Listener, d>> = x
        <5>1. f.from = mate[me[x]]
          BY <4>3 DEF DetachArrives
        <5>2. link'[<<Listener, d>>].inbox = Append(l.inbox, f)
          BY <4>3, <2>3, <2>7
        <5> QED
          BY <4>2, <4>3, <5>1, <5>2, <1>2, <2>2
      <4>4. CASE <<Listener, d>> # x
        <5>1. link'[<<Listener, d>>] = link[<<Listener, d>>]
          BY <4>1, <4>4, <2>7
        <5> QED
          BY <4>2, <5>1
      <4> QED
        BY <4>3, <4>4
    <3> QED
      BY <3>1, <3>2, <2>11, <2>12, <2>13 DEF Inboxes
  <2> QED
    BY <2>7, <2>9, <2>11, <2>14, <2>15
<1> QED
  BY <1>3, <1>4

\* The entry of the link e goes.
Forgotten(p, e, h) ==
  /\ by_in' \in [Peer -> [Handle -> Entry]] /\ by_in'[p][h] = Absent
  /\ \A q \in Peer, g \in Handle : ~(q = p /\ g = h) => by_in'[q][g] = by_in[q][g]
  /\ \A q \in Peer : q # p => by_in'[q] = by_in[q]
  /\ \A g \in Handle : by_in[p][g].who = me[<<p, e>>] => g = h
  /\ \A q \in Peer, g \in Handle : \A d \in End(q) :
       by_in[q][g].who = me[<<q, d>>] /\ <<q, d>> # <<p, e>> => by_in'[q][g] = by_in[q][g]
  /\ \A q \in Peer, g \in Handle : by_in'[q][g].who # Nobody =>
       by_in'[q][g] = by_in[q][g] /\ by_in[q][g].who # Nobody /\ (q = p => g # h)

\* The relays afterwards.
LEMMA Unregistered ==
  ASSUME Parts, NEW p \in Peer, NEW e \in End(p), NEW f, DetachArrives(p, e, f)
  PROVE  Forgotten(p, e, f.handle)
<1> DEFINE h == f.handle
<1>1. /\ by_in \in [Peer -> [Handle -> Entry]] /\ h \in Handle /\ by_in' = [by_in EXCEPT ![p][h] = Absent]
      /\ by_in[p][h].who = me[<<p, e>>]
  BY DEF Parts, Typed, DetachArrives
<1> HIDE DEF h
<1>2. Absent \in Entry /\ Absent.who = Nobody
  <2>1. Nobody \in Attachment
    BY DEF Nobody, Attachment
  <2> QED
    BY <2>1 DEF Absent, Entry
<1>3. /\ by_in' \in [Peer -> [Handle -> Entry]] /\ by_in'[p][h] = Absent
      /\ \A q \in Peer, g \in Handle : ~(q = p /\ g = h) => by_in'[q][g] = by_in[q][g]
      /\ \A q \in Peer : q # p => by_in'[q] = by_in[q]
  BY <1>1, <1>2
<1>4. me[<<p, e>>] # Nobody /\ \A d \in End(p) : me[<<p, d>>] = me[<<p, e>>] => d = e
  BY Abbreviated DEF Parts
<1>5. \A g \in Handle : by_in[p][g].who = me[<<p, e>>] => g = h
  BY <1>1, <1>4 DEF Parts, Registered
<1>6. ASSUME NEW q \in Peer, NEW g \in Handle, NEW d \in End(q), by_in[q][g].who = me[<<q, d>>], <<q, d>> # <<p, e>>
      PROVE  by_in'[q][g] = by_in[q][g]
  <2>1. ~(q = p /\ g = h)
    BY <1>1, <1>4, <1>6
  <2> QED
    BY <2>1, <1>3
<1>7. \A q \in Peer, g \in Handle : by_in'[q][g].who # Nobody =>
              by_in'[q][g] = by_in[q][g] /\ by_in[q][g].who # Nobody /\ (q = p => g # h)
  BY <1>2, <1>3
<1> QED
  BY <1>3, <1>5, <1>6, <1>7 DEF h, Forgotten

\* What holds whether the Detach is answered or is the answer: the slot of e is free.
LEMMA DetachedTables ==
  ASSUME Parts, NEW p \in Peer, NEW e \in End(p), NEW f, DetachArrives(p, e, f),
         \A q \in Peer, g \in Handle : \A d \in End(q) :
           slab'[q][g] = me[<<q, d>>] <=> slab[q][g] = me[<<q, d>>] /\ <<q, d>> # <<p, e>>
  PROVE  Holders' /\ Reached' /\ Registered'
<1> DEFINE x == <<p, e>>
<1>1. /\ stage' = stage /\ me' = me /\ called' = called /\ held' = held /\ parted' = parted /\ frames' = frames
      /\ \A q \in Peer : \A d \in End(q) : <<q, d>> # x => (<<q, d>> \in clean => <<q, d>> \in clean')
  BY DetachDelivered, Endpoints DEF Detaches, DetachArrives
<1>2. /\ by_in'[p][f.handle] = Absent
      /\ \A g \in Handle : by_in[p][g].who = me[x] => g = f.handle
      /\ \A q \in Peer, g \in Handle : \A d \in End(q) :
              by_in[q][g].who = me[<<q, d>>] /\ <<q, d>> # x => by_in'[q][g] = by_in[q][g]
      /\ \A q \in Peer, g \in Handle : by_in'[q][g].who # Nobody =>
              by_in'[q][g] = by_in[q][g] /\ by_in[q][g].who # Nobody /\ (q = p => g # f.handle)
      /\ \A q \in Peer, g \in Handle : ~(q = p /\ g = f.handle) => by_in'[q][g] = by_in[q][g]
  BY Unregistered DEF Forgotten
<1>3. \A q \in Peer, g \in Handle : \A d \in End(q) :
           slab'[q][g] = me[<<q, d>>] <=> slab[q][g] = me[<<q, d>>] /\ <<q, d>> # x
  OBVIOUS
<1>4. by_in[p][f.handle].who = me[x] /\ f.handle \in Handle
  BY DEF DetachArrives
<1> HIDE DEF x
<1>5. Holders'
  <2>1. \A q \in Peer, g \in Handle : \A d \in End(q) : slab'[q][g] = me[<<q, d>>] => slab[q][g] = me[<<q, d>>]
    BY <1>3
  <2> QED
    BY <2>1, <1>1 DEF Parts, Holders
<1>6. Reached'
  <2>1. ASSUME NEW q \in Peer, NEW h \in Handle, NEW d \in End(q), slab'[q][h] = me[<<q, d>>], q = Client => stage[<<q, d>>] = "heard"
        PROVE  \E g \in Handle : by_in'[q][g].who = me[<<q, d>>] /\ by_in'[q][g].out = h
    <3>1. slab[q][h] = me[<<q, d>>] /\ <<q, d>> # x
      BY <2>1, <1>3
    <3>2. PICK g \in Handle : by_in[q][g].who = me[<<q, d>>] /\ by_in[q][g].out = h
      BY <2>1, <3>1 DEF Parts, Reached
    <3>3. by_in'[q][g] = by_in[q][g]
      BY <3>1, <3>2, <1>2
    <3> QED
      BY <3>2, <3>3
  <2> QED
    BY <2>1, <1>1 DEF Reached
<1>7. Registered'
  <2>1. ASSUME NEW q \in Peer, NEW g \in Handle, by_in'[q][g].who = Nobody
        PROVE  by_in'[q][g] = Absent
    <3>1. CASE q = p /\ g = f.handle
      BY <3>1, <1>2
    <3>2. CASE ~(q = p /\ g = f.handle)
      BY <2>1, <3>2, <1>2 DEF Parts, Registered
    <3> QED
      BY <3>1, <3>2
  <2>2. ASSUME NEW q \in Peer, NEW h \in Handle, by_in'[q][h].who # Nobody
        PROVE  /\ \E d \in End(q) :
                    /\ by_in'[q][h].who = me[<<q, d>>] /\ <<q, d>> \in clean'
                    /\ stage[<<q, d>>] \notin {"idle", "allocating"} /\ (q = Client => stage[<<q, d>>] = "heard")
                    /\ <<q, d>> \in parted \/ slab'[q][by_in'[q][h].out] = me[<<q, d>>]
               /\ by_in'[q][h].out \in Handle
               /\ \A g \in Handle : by_in'[q][g].who = by_in'[q][h].who => g = h
    <3>1. by_in'[q][h] = by_in[q][h] /\ by_in[q][h].who # Nobody /\ (q = p => h # f.handle)
      BY <2>2, <1>2
    <3>2. /\ by_in[q][h].out \in Handle
          /\ \A g \in Handle : by_in[q][g].who = by_in[q][h].who => g = h
      BY <3>1 DEF Parts, Registered
    <3>3. PICK d \in End(q) :
                    /\ by_in[q][h].who = me[<<q, d>>] /\ <<q, d>> \in clean
                    /\ stage[<<q, d>>] \notin {"idle", "allocating"} /\ (q = Client => stage[<<q, d>>] = "heard")
                    /\ <<q, d>> \in parted \/ slab[q][by_in[q][h].out] = me[<<q, d>>]
      BY <3>1 DEF Parts, Registered
    <3>4. <<q, d>> # x
      <4>1. ASSUME <<q, d>> = x
            PROVE  FALSE
        <5>1. q = p
          BY <4>1 DEF x
        <5>2. h = f.handle
          BY <3>3, <4>1, <5>1, <1>2
        <5> QED
          BY <3>1, <5>1, <5>2
      <4> QED
        BY <4>1
    <3>5. <<q, d>> \in clean'
      BY <3>3, <3>4, <1>1
    <3>6. <<q, d>> \in parted \/ slab'[q][by_in[q][h].out] = me[<<q, d>>]
      BY <3>2, <3>3, <3>4, <1>3
    <3>7. \A g \in Handle : by_in'[q][g].who = by_in[q][h].who => g = h
      BY <3>1, <3>2, <1>2
    <3> QED
      BY <3>1, <3>2, <3>3, <3>5, <3>6, <3>7
  <2> QED
    BY <2>1, <2>2, <1>1 DEF Registered
<1> QED
  BY <1>5, <1>6, <1>7

\* The Detach of the client has arrived.
LEMMA DetachedAtListener ==
  ASSUME Parts, NEW e \in End(Listener), NEW f, DetachArrives(Listener, e, f), slab'[Client] = slab[Client]
  PROVE  ToListener'
<1> DEFINE x == <<Listener, e>>
           w == wire[Client]
           v == wire'[Client]
           h == f.handle
<1>0. Client \in Peer /\ Listener \in Peer /\ Other(Listener) = Client
  BY Peers
<1>1. /\ stage' = stage /\ me' = me /\ mate' = mate /\ UNCHANGED <<control, backlog>>
  <2>1. Detaches(<<Listener, e>>)
    BY <1>0, DetachDelivered
  <2> QED
    BY <2>1 DEF Detaches, DetachArrives
<1>2. /\ by_in'[Listener][h] = Absent
      /\ \A g \in Handle : g # h => by_in'[Listener][g] = by_in[Listener][g]
  <2>1. Forgotten(Listener, e, h)
    BY <1>0, Unregistered
  <2> QED
    BY <2>1, <1>0 DEF Forgotten
<1>3. /\ f \in Frame /\ w \in Seq(Frame) /\ 1 \in 1 .. Len(w) /\ w[1] = f
      /\ \A i \in 1 .. Len(v) : i + 1 \in 1 .. Len(w) /\ i + 1 # 1 /\ v[i] = w[i + 1]
      /\ \A i \in 1 .. Len(w) : i = 1 \/ (i - 1 \in 1 .. Len(v) /\ v[i - 1] = w[i])
  BY <1>0, FrameArrived DEF DetachArrives
<1>4. \A g \in Handle : slab[Client][g] # f.from
  BY <1>0, WireLeft DEF DetachArrives
<1>5. h \in Handle /\ by_in[Listener][h].who = me[x] /\ f.from = mate[me[x]] /\ Absent.who = Nobody
  BY DEF DetachArrives, Absent
<1> HIDE DEF w, v, h, x
<1>6. ASSUME NEW g \in Handle, NEW c \in End(Client), slab[Client][g] = me[<<Client, c>>], stage[<<Client, c>>] = "heard"
      PROVE  by_in'[Listener][g].who # Nobody /\ mate[by_in'[Listener][g].who] = me[<<Client, c>>]
  <2>1. by_in[Listener][g].who # Nobody /\ mate[by_in[Listener][g].who] = me[<<Client, c>>]
    BY <1>6 DEF Parts, ToListener
  <2>2. g # h
    BY <2>1, <1>4, <1>5, <1>6
  <2> QED
    BY <2>1, <2>2, <1>2
<1>7. ASSUME NEW j \in 1 .. Len(v), v[j].type = "Detach"
      PROVE  /\ by_in'[Listener][v[j].handle].who # Nobody
             /\ mate[by_in'[Listener][v[j].handle].who] = v[j].from
             /\ \A i \in 1 .. j - 1 : v[i].handle # v[j].handle
             /\ \A i \in 1 .. Len(backlog) : backlog[i].handle # v[j].handle
             /\ \A i \in 1 .. Len(control[Listener]) : control[Listener][i].input # v[j].handle
  <2>1. j + 1 \in 1 .. Len(w) /\ v[j] = w[j + 1] /\ j \in Nat /\ j >= 1 /\ Len(w) \in Nat
    BY <1>3
  <2>2. /\ by_in[Listener][w[j + 1].handle].who # Nobody
        /\ mate[by_in[Listener][w[j + 1].handle].who] = w[j + 1].from
        /\ \A i \in 1 .. j + 1 - 1 : w[i].handle # w[j + 1].handle
        /\ \A i \in 1 .. Len(backlog) : backlog[i].handle # w[j + 1].handle
        /\ \A i \in 1 .. Len(control[Listener]) : control[Listener][i].input # w[j + 1].handle
    BY <1>7, <2>1 DEF Parts, ToListener, w
  <2>3. \A i \in 1 .. j - 1 : i + 1 \in 1 .. j + 1 - 1 /\ i \in 1 .. Len(v)
    BY <2>1
  <2>4. \A i \in 1 .. j - 1 : v[i].handle # v[j].handle
    BY <2>1, <2>2, <2>3, <1>3
  <2>5. 1 \in 1 .. j + 1 - 1 /\ w[1] = f
    BY <2>1, <1>3
  <2>6. v[j].handle # h /\ v[j].handle \in Handle
    <3>1. w[j + 1] \in Frame
      BY <2>1, <1>3
    <3>2. w[j + 1].handle \in Handle
      BY <3>1 DEF Frame
    <3>3. w[1].handle # w[j + 1].handle
      BY <2>2, <2>5
    <3> QED
      BY <2>1, <2>5, <3>2, <3>3 DEF h
  <2>7. by_in'[Listener][v[j].handle] = by_in[Listener][v[j].handle]
    BY <2>6, <1>2
  <2> QED
    BY <2>1, <2>2, <2>4, <2>7
<1>8. ASSUME NEW g \in Handle, by_in'[Listener][g].who # Nobody
      PROVE  \/ slab[Client][g] = mate[by_in'[Listener][g].who]
             \/ \E j \in 1 .. Len(v) : DetachOf(v[j], mate[by_in'[Listener][g].who], g)
  <2>1. g # h /\ by_in'[Listener][g] = by_in[Listener][g] /\ by_in[Listener][g].who # Nobody
    BY <1>2, <1>5, <1>8
  <2>2. \/ slab[Client][g] = mate[by_in[Listener][g].who]
        \/ \E j \in 1 .. Len(w) : DetachOf(w[j], mate[by_in[Listener][g].who], g)
    BY <2>1 DEF Parts, ToListener, w
  <2>3. ASSUME NEW j \in 1 .. Len(w), DetachOf(w[j], mate[by_in[Listener][g].who], g)
        PROVE  \E k \in 1 .. Len(v) : DetachOf(v[k], mate[by_in[Listener][g].who], g)
    <3>1. j # 1
      BY <2>1, <2>3, <1>3 DEF DetachOf, h
    <3> QED
      BY <2>3, <3>1, <1>3
  <2> QED
    BY <2>1, <2>2, <2>3
<1> QED
  BY <1>1, <1>6, <1>7, <1>8 DEF ToListener, v

\* The Detach of the listener has arrived.
LEMMA DetachedAtClient ==
  ASSUME Parts, NEW e \in End(Client), NEW f, DetachArrives(Client, e, f), slab'[Listener] = slab[Listener]
  PROVE  ToClient'
<1> DEFINE w == wire[Listener]
           v == wire'[Listener]
           h == f.handle
<1>0. Client \in Peer /\ Listener \in Peer /\ Other(Client) = Listener
  BY Peers
<1>1. /\ stage' = stage /\ me' = me /\ mate' = mate /\ UNCHANGED <<frames>>
  <2>1. Detaches(<<Client, e>>)
    BY <1>0, DetachDelivered
  <2> QED
    BY <2>1 DEF Detaches, DetachArrives
<1>2. /\ by_in'[Client][h] = Absent
      /\ \A g \in Handle : g # h => by_in'[Client][g] = by_in[Client][g]
  <2>1. Forgotten(Client, e, h)
    BY <1>0, Unregistered
  <2> QED
    BY <2>1, <1>0 DEF Forgotten
<1>3. /\ f \in Frame /\ w \in Seq(Frame) /\ w # <<>> /\ 1 \in 1 .. Len(w) /\ w[1] = f /\ v = Tail(w)
      /\ \A i \in 1 .. Len(v) : i + 1 \in 1 .. Len(w) /\ i + 1 # 1 /\ v[i] = w[i + 1]
      /\ \A i \in 1 .. Len(w) : i = 1 \/ (i - 1 \in 1 .. Len(v) /\ v[i - 1] = w[i])
  BY <1>0, FrameArrived DEF DetachArrives
<1>4. h \in Handle /\ f.type # "Attach" /\ Absent.who = Nobody /\ Len(w) \in Nat /\ Len(v) = Len(w) - 1 /\ Len(w) >= 1
  BY <1>3, Shrunk DEF DetachArrives, Absent
<1> HIDE DEF w, v
<1>5. ASSUME NEW j \in 2 .. Len(w) + 1, NEW b, NEW g \in Handle, NEW a, Open(w, j, b, g, by_in[Client], a)
      PROVE  Open(v, j - 1, b, g, by_in'[Client], a)
  <2>1. w[1].handle # g => by_in'[Client][g].who = by_in[Client][g].who
    BY <1>2, <1>3
  <2>2. w[1].type # "Attach"
    BY <1>3, <1>4
  <2> QED
    BY <2>1, <2>2, <1>3, <1>5, OpenShrunk
<1>6. ASSUME NEW g \in Handle, NEW d \in End(Listener), slab[Listener][g] = me[<<Listener, d>>],
             stage[<<Listener, d>>] # "allocated", NotIn(frames[Listener], me[<<Listener, d>>])
      PROVE  Open(v, Len(v) + 1, me[<<Listener, d>>], g, by_in'[Client], mate[me[<<Listener, d>>]])
  <2>1. Open(w, Len(w) + 1, me[<<Listener, d>>], g, by_in[Client], mate[me[<<Listener, d>>]])
    BY <1>6 DEF Parts, ToClient, w
  <2>2. Len(w) + 1 \in 2 .. Len(w) + 1 /\ Len(w) + 1 - 1 = Len(v) + 1
    BY <1>4
  <2>3. Open(v, Len(w) + 1 - 1, me[<<Listener, d>>], g, by_in'[Client], mate[me[<<Listener, d>>]])
    BY <2>1, <2>2, <1>5
  <2> QED
    BY <2>2, <2>3
<1>7. ASSUME NEW j \in 1 .. Len(v), v[j].type = "Detach"
      PROVE  Open(v, j, v[j].from, v[j].handle, by_in'[Client], mate[v[j].from])
  <2>1. j + 1 \in 1 .. Len(w) /\ v[j] = w[j + 1] /\ j + 1 \in 2 .. Len(w) + 1 /\ j + 1 - 1 = j
    BY <1>3, <1>4
  <2>2. Open(w, j + 1, v[j].from, v[j].handle, by_in[Client], mate[v[j].from])
    BY <2>1, <1>7 DEF Parts, ToClient, w
  <2>3. v[j].handle \in Handle
    <3>1. v[j] \in Frame
      BY <2>1, <1>3
    <3> QED
      BY <3>1 DEF Frame
  <2>4. Open(v, j + 1 - 1, v[j].from, v[j].handle, by_in'[Client], mate[v[j].from])
    BY <2>1, <2>2, <2>3, <1>5
  <2> QED
    BY <2>1, <2>4
<1>8. ASSUME NEW g \in Handle, by_in'[Client][g].who # Nobody
      PROVE  \E b \in Attachment :
               /\ mate[b] = by_in'[Client][g].who
               /\ \/ slab[Listener][g] = b
                  \/ \E j \in 1 .. Len(v) : DetachOf(v[j], b, g)
  <2>1. g # h /\ by_in'[Client][g] = by_in[Client][g] /\ by_in[Client][g].who # Nobody
    BY <1>2, <1>4, <1>8
  <2>2. PICK b \in Attachment :
               /\ mate[b] = by_in[Client][g].who
               /\ \/ slab[Listener][g] = b
                  \/ \E j \in 1 .. Len(w) : DetachOf(w[j], b, g)
    BY <2>1 DEF Parts, ToClient, w
  <2>3. ASSUME NEW j \in 1 .. Len(w), DetachOf(w[j], b, g)
        PROVE  \E k \in 1 .. Len(v) : DetachOf(v[k], b, g)
    <3>1. j # 1
      BY <2>1, <2>3, <1>3 DEF DetachOf
    <3> QED
      BY <2>3, <3>1, <1>3
  <2> QED
    BY <2>1, <2>2, <2>3
<1> QED
  BY <1>1, <1>6, <1>7, <1>8 DEF ToClient, v

\* Nothing but a Detach is sent in return.
Returns(p) == \/ wire'[p] = wire[p]
              \/ \E g \in Frame : g.type = "Detach" /\ wire'[p] = Append(wire[p], g)

\* A queue to which at most a Detach is added.
LEMMA Returned ==
  ASSUME Parts, NEW p \in Peer, Returns(p)
  PROVE  /\ wire'[p] \in Seq(Frame) /\ wire[p] \in Seq(Frame)
         /\ \A i \in 1 .. Len(wire[p]) : i \in 1 .. Len(wire'[p]) /\ wire'[p][i] = wire[p][i]
         /\ \A i \in 1 .. Len(wire'[p]) : wire'[p][i].type = "Attach" => i \in 1 .. Len(wire[p]) /\ wire'[p][i] = wire[p][i]
         /\ Once(wire[p]) => Once(wire'[p])
         /\ \A a : NotIn(wire[p], a) => NotIn(wire'[p], a)
         /\ \A t \in Seq(Frame) : (Apart(wire[p], t) => Apart(wire'[p], t)) /\ (Apart(t, wire[p]) => Apart(t, wire'[p]))
         /\ All(wire[p], asks) => All(wire'[p], asks)
         /\ All(wire[p], answers) => All(wire'[p], answers)
<1>1. wire[p] \in Seq(Frame)
  BY DEF Parts, Typed
<1>2. CASE wire'[p] = wire[p]
  BY <1>1, <1>2
<1>3. ASSUME NEW g \in Frame, g.type = "Detach", wire'[p] = Append(wire[p], g)
      PROVE  /\ wire'[p] \in Seq(Frame)
             /\ \A i \in 1 .. Len(wire[p]) : i \in 1 .. Len(wire'[p]) /\ wire'[p][i] = wire[p][i]
             /\ \A i \in 1 .. Len(wire'[p]) : wire'[p][i].type = "Attach" => i \in 1 .. Len(wire[p]) /\ wire'[p][i] = wire[p][i]
             /\ Once(wire[p]) => Once(wire'[p])
             /\ \A a : NotIn(wire[p], a) => NotIn(wire'[p], a)
             /\ \A t \in Seq(Frame) : (Apart(wire[p], t) => Apart(wire'[p], t)) /\ (Apart(t, wire[p]) => Apart(t, wire'[p]))
             /\ All(wire[p], asks) => All(wire'[p], asks)
             /\ All(wire[p], answers) => All(wire'[p], answers)
  <2>1. g.type # "Attach" /\ g \in asks /\ g \in answers
    BY <1>3 DEF asks, answers
  <2>2. /\ wire'[p] \in Seq(Frame) /\ Len(wire[p]) \in Nat /\ Len(wire'[p]) = Len(wire[p]) + 1
        /\ wire'[p][Len(wire[p]) + 1] = g /\ \A i \in 1 .. Len(wire[p]) : wire'[p][i] = wire[p][i]
    BY <1>1, <1>3, Grown
  <2>3. /\ \A i \in 1 .. Len(wire[p]) : i \in 1 .. Len(wire'[p])
        /\ \A i \in 1 .. Len(wire'[p]) : i \in 1 .. Len(wire[p]) \/ wire'[p][i] = g
    BY <2>2
  <2>4. \A i \in 1 .. Len(wire'[p]) : wire'[p][i].type = "Attach" => i \in 1 .. Len(wire[p]) /\ wire'[p][i] = wire[p][i]
    BY <2>1, <2>2, <2>3
  <2>5. /\ Once(wire[p]) => Once(wire'[p])
        /\ \A a : NotIn(wire[p], a) => NotIn(wire'[p], a)
        /\ \A t \in Seq(Frame) : (Apart(wire[p], t) => Apart(wire'[p], t)) /\ (Apart(t, wire[p]) => Apart(t, wire'[p]))
        /\ All(wire[p], asks) => All(wire'[p], asks)
        /\ All(wire[p], answers) => All(wire'[p], answers)
    BY <2>1, <1>1, <1>3, DetachAdded
  <2> QED
    BY <2>2, <2>3, <2>4, <2>5
<1> QED
  BY <1>1, <1>2, <1>3 DEF Returns

\* An Attach on its way to the client is not of the link that the Detach ends.
Answering(p, e, f, s) ==
  \E d \in End(Listener) :
    /\ s.from = me[<<Listener, d>>] /\ stage[<<Listener, d>>] = "heard" /\ s.name = called[<<Listener, d>>]
    /\ s.name \in awaited /\ by_name[Client][s.name].who = mate[s.from]
    /\ by_in[Listener][by_name[Client][s.name].out].who = s.from
    /\ by_name[Client][s.name].out \in Handle
    /\ <<Listener, d>> # <<p, e>> /\ (p = Client => s.from # f.from)

\* An answer on its way is not the link's that is detached.
LEMMA StillAnswers ==
  ASSUME Parts, NEW p \in Peer, NEW e \in End(p), NEW f, DetachArrives(p, e, f), NEW s \in answers, s.type = "Attach"
  PROVE  Answering(p, e, f, s)
<1>0. Client \in Peer /\ Listener \in Peer /\ Client # Listener /\ Other(Listener) = Client
  BY Peers
<1>1. PICK d \in End(Listener) :
           /\ s.from = me[<<Listener, d>>] /\ stage[<<Listener, d>>] = "heard" /\ s.name = called[<<Listener, d>>]
           /\ s.name \in awaited /\ by_name[Client][s.name].who = mate[s.from]
           /\ by_in[Listener][by_name[Client][s.name].out].who = s.from
  BY DEF answers
<1>2. PICK c \in End(Client) :
           /\ by_name[Client][s.name].who = me[<<Client, c>>] /\ stage[<<Client, c>>] = "asking"
           /\ by_name[Client][s.name].out \in Handle /\ me[<<Client, c>>] \notin past[Client]
  BY <1>1, AwaitedLink
<1>3. <<Listener, d>> # <<p, e>>
  <2>1. ASSUME <<Listener, d>> = <<p, e>>
        PROVE  FALSE
    <3>1. p = Listener /\ d = e
      BY <2>1
    <3>2. f.from = mate[s.from]
      BY <3>1, <1>1 DEF DetachArrives
    <3>3. f.from \in past[Client]
      BY <3>1, <1>0, WireLeft DEF DetachArrives
    <3> QED
      BY <3>2, <3>3, <1>1, <1>2
  <2> QED
    BY <2>1
<1>4. ASSUME p = Client, s.from = f.from
      PROVE  FALSE
  <2>1. mate[f.from] = me[<<Client, e>>] /\ stage[<<Client, e>>] = "heard"
    BY <1>4 DEF DetachArrives
  <2>2. c = e
    <3>1. me[<<Client, c>>] = me[<<Client, e>>] /\ e \in End(Client)
      BY <2>1, <1>1, <1>2, <1>4
    <3> QED
      BY <3>1, <1>0, Abbreviated DEF Parts
  <2> QED
    BY <2>1, <2>2, <1>2
<1> QED
  BY <1>1, <1>2, <1>3, <1>4 DEF Answering

\* The frames after a Detach has arrived.
LEMMA DetachedFrames ==
  ASSUME Parts, NEW p \in Peer, NEW e \in End(p), NEW f, DetachArrives(p, e, f), Returns(p),
         awaited' = awaited, asks' = asks, \A n \in awaited : by_name'[Client][n] = by_name[Client][n],
         \A q \in Peer, g \in Handle : \A d \in End(q) :
           slab'[q][g] = me[<<q, d>>] <=> slab[q][g] = me[<<q, d>>] /\ <<q, d>> # <<p, e>>
  PROVE  Asks' /\ Mates' /\ Replies'
<1> DEFINE x == <<p, e>>
<1>0. Client \in Peer /\ Listener \in Peer /\ Client # Listener /\ Other(Client) = Listener /\ Other(Listener) = Client
  BY Peers
<1>1. /\ stage' = stage /\ me' = me /\ called' = called /\ mate' = mate /\ known' = known
      /\ frames' = frames /\ backlog' = backlog
  <2>1. Detaches(x)
    BY DetachDelivered
  <2> QED
    BY <2>1 DEF Detaches, DetachArrives
<1>2. Forgotten(p, e, f.handle)
  BY Unregistered
<1>3. /\ stage[x] = "heard" /\ f.type = "Detach" /\ f.type # "Attach" /\ Arrives(Other(p), f)
  BY DEF DetachArrives
<1>4. \A q \in Peer, g \in Handle : \A d \in End(q) :
           by_in[q][g].who = me[<<q, d>>] /\ <<q, d>> # x => by_in'[q][g] = by_in[q][g]
  BY <1>2 DEF Forgotten
<1>5. frames[Client] \in Seq(Frame) /\ frames[Listener] \in Seq(Frame) /\ backlog \in Seq(Frame)
  BY <1>0 DEF Parts, Typed
<1>6. Asks'
  <2>1. /\ All(frames[Client], asks) /\ All(wire[Client], asks) /\ All(backlog, asks)
        /\ \A i \in 1 .. Len(backlog) : backlog[i].type = "Attach"
        /\ Once(frames[Client]) /\ Once(wire[Client]) /\ Once(backlog)
        /\ Apart(frames[Client], wire[Client]) /\ Apart(frames[Client], backlog) /\ Apart(wire[Client], backlog)
    BY DEF Parts, Asks
  <2>2. All(wire'[Client], asks) /\ Once(wire'[Client]) /\ Apart(frames[Client], wire'[Client]) /\ Apart(wire'[Client], backlog)
    <3>1. CASE p = Client
      BY <3>1, <2>1, <1>5, Returned
    <3>2. CASE p = Listener
      <4>1. Arrives(Client, f)
        BY <3>2, <1>0, <1>3
      <4> QED
        BY <4>1, <1>0, WireLeft
    <3> QED
      BY <3>1, <3>2, Peers
  <2> QED
    BY <2>1, <2>2, <1>1 DEF Asks
<1>7. Mates'
  <2>1. ASSUME NEW b \in Attachment, mate[b] # Nobody
        PROVE  /\ NotIn(frames[Client], mate[b]) /\ NotIn(wire'[Client], mate[b]) /\ NotIn(backlog, mate[b])
               /\ mate[b] \in known[Client]
               /\ \A d \in Attachment : mate[d] = mate[b] => d = b
    <3>1. /\ NotIn(frames[Client], mate[b]) /\ NotIn(wire[Client], mate[b]) /\ NotIn(backlog, mate[b])
          /\ mate[b] \in known[Client]
          /\ \A d \in Attachment : mate[d] = mate[b] => d = b
      BY <2>1 DEF Parts, Mates
    <3>2. NotIn(wire'[Client], mate[b])
      <4>1. CASE p = Client
        BY <4>1, <3>1, Returned
      <4>2. CASE p = Listener
        <5>1. Arrives(Client, f)
          BY <4>2, <1>0, <1>3
        <5> QED
          BY <2>1, <5>1, <1>0, WireLeft
      <4> QED
        BY <4>1, <4>2, Peers
    <3> QED
      BY <3>1, <3>2
  <2>2. ASSUME NEW d \in End(Listener), stage[<<Listener, d>>] \in {"allocating", "allocated"}
        PROVE  /\ called[<<Listener, d>>] \in awaited
               /\ by_name'[Client][called[<<Listener, d>>]].who = mate[me[<<Listener, d>>]]
               /\ stage[<<Listener, d>>] = "allocated" =>
                    by_in'[Listener][by_name'[Client][called[<<Listener, d>>]].out].who = me[<<Listener, d>>]
    <3> DEFINE n == called[<<Listener, d>>]
    <3>1. /\ n \in awaited /\ by_name[Client][n].who = mate[me[<<Listener, d>>]]
          /\ stage[<<Listener, d>>] = "allocated" => by_in[Listener][by_name[Client][n].out].who = me[<<Listener, d>>]
      BY <2>2 DEF Parts, Mates
    <3> HIDE DEF n
    <3>2. by_name'[Client][n] = by_name[Client][n] /\ by_name[Client][n].out \in Handle
      BY <3>1, AwaitedLink
    <3>3. <<Listener, d>> # x
      BY <2>2, <1>3
    <3>4. stage[<<Listener, d>>] = "allocated" => by_in'[Listener][by_name[Client][n].out].who = me[<<Listener, d>>]
      BY <3>1, <3>2, <3>3, <1>0, <1>4
    <3> QED
      BY <3>1, <3>2, <3>4 DEF n
  <2>3. \A d \in End(Listener) : stage[<<Listener, d>>] # "idle" => mate[me[<<Listener, d>>]] # Nobody
    BY DEF Parts, Mates
  <2> QED
    BY <2>1, <2>2, <2>3, <1>1 DEF Mates
<1>8. answers \subseteq answers'
  <2>1. ASSUME NEW s \in answers
        PROVE  s \in answers'
    <3>1. s \in Frame
      BY DEF answers
    <3>2. CASE s.type # "Attach"
      BY <3>1, <3>2 DEF answers
    <3>3. CASE s.type = "Attach"
      <4>1. PICK d \in End(Listener) :
           /\ s.from = me[<<Listener, d>>] /\ stage[<<Listener, d>>] = "heard" /\ s.name = called[<<Listener, d>>]
           /\ s.name \in awaited /\ by_name[Client][s.name].who = mate[s.from]
           /\ by_in[Listener][by_name[Client][s.name].out].who = s.from
           /\ by_name[Client][s.name].out \in Handle
           /\ <<Listener, d>> # x
        <5>1. Answering(p, e, f, s)
          BY <3>3, StillAnswers
        <5> QED
          BY <5>1 DEF Answering
      <4>2. by_name'[Client][s.name] = by_name[Client][s.name]
        BY <4>1
      <4>3. by_in'[Listener][by_name[Client][s.name].out] = by_in[Listener][by_name[Client][s.name].out]
        BY <4>1, <1>0, <1>4
      <4> QED
        BY <3>1, <4>1, <4>2, <4>3, <1>1 DEF answers
    <3> QED
      BY <3>2, <3>3
  <2> QED
    BY <2>1
<1>9. All(wire'[Listener], answers) /\ Once(wire'[Listener]) /\ Apart(frames[Listener], wire'[Listener])
  <2>1. All(wire[Listener], answers) /\ Once(wire[Listener]) /\ Apart(frames[Listener], wire[Listener])
    BY DEF Parts, Replies
  <2>2. CASE p = Listener
    BY <2>1, <2>2, <1>5, Returned
  <2>3. CASE p = Client
    <3>1. Arrives(Listener, f)
      BY <2>3, <1>0, <1>3
    <3> QED
      BY <3>1, <1>0, WireLeft
  <2> QED
    BY <2>2, <2>3, Peers
<1>10. ASSUME NEW s \in answers, s.type = "Attach", slab[Listener][s.handle] = s.from
       PROVE  slab'[Listener][s.handle] = s.from
  <2>1. PICK d \in End(Listener) : s.from = me[<<Listener, d>>] /\ <<Listener, d>> # x
    <3>1. Answering(p, e, f, s)
      BY <1>10, StillAnswers
    <3> QED
      BY <3>1 DEF Answering
  <2>2. s.handle \in Handle
    BY DEF answers, Frame
  <2> QED
    BY <2>1, <2>2, <1>0, <1>10
<1>11. ASSUME NEW i \in 1 .. Len(frames[Listener]), frames[Listener][i].type = "Attach"
       PROVE  /\ slab'[Listener][frames[Listener][i].handle] = frames[Listener][i].from
              /\ \A j \in 1 .. Len(frames[Listener]) :
                   frames[Listener][j].type = "Detach" /\ frames[Listener][j].from = frames[Listener][i].from => i < j
  <2>1. frames[Listener][i] \in answers
    BY DEF Parts, Replies, All
  <2>2. /\ slab[Listener][frames[Listener][i].handle] = frames[Listener][i].from
        /\ \A j \in 1 .. Len(frames[Listener]) :
             frames[Listener][j].type = "Detach" /\ frames[Listener][j].from = frames[Listener][i].from => i < j
    BY <1>11 DEF Parts, Replies
  <2> QED
    BY <2>1, <2>2, <1>10, <1>11
<1>12. ASSUME NEW i \in 1 .. Len(wire'[Listener]), wire'[Listener][i].type = "Attach"
       PROVE  \/ slab'[Listener][wire'[Listener][i].handle] = wire'[Listener][i].from
              \/ \E j \in 1 .. Len(wire'[Listener]) : DetachOf(wire'[Listener][j], wire'[Listener][i].from, wire'[Listener][i].handle)
  <2> DEFINE w == wire[Listener]
             v == wire'[Listener]
             s == v[i]
  <2>1. s \in answers /\ s.type = "Attach"
    BY <1>9, <1>12 DEF All
  <2>2. \E k \in 1 .. Len(w) : s = w[k]
    <3>1. CASE p = Listener
      BY <3>1, <1>12, Returned
    <3>2. CASE p = Client
      <4>1. Arrives(Listener, f)
        BY <3>2, <1>0, <1>3
      <4> QED
        BY <4>1, <1>0, FrameArrived
    <3> QED
      BY <3>1, <3>2, Peers
  <2>3. \/ slab[Listener][s.handle] = s.from
        \/ \E j \in 1 .. Len(w) : DetachOf(w[j], s.from, s.handle)
    <3>1. PICK k \in 1 .. Len(w) : s = w[k]
      BY <2>2
    <3>2. \/ slab[Listener][w[k].handle] = w[k].from
          \/ \E j \in 1 .. Len(w) : DetachOf(w[j], w[k].from, w[k].handle)
      BY <2>1, <3>1 DEF Parts, Replies
    <3> QED
      BY <3>1, <3>2
  <2>4. ASSUME NEW j \in 1 .. Len(w), DetachOf(w[j], s.from, s.handle)
        PROVE  \E k \in 1 .. Len(v) : DetachOf(v[k], s.from, s.handle)
    <3>1. CASE p = Listener
      <4>1. j \in 1 .. Len(v) /\ v[j] = w[j]
        BY <3>1, Returned
      <4> QED
        BY <2>4, <4>1
    <3>2. CASE p = Client
      <4>1. Arrives(Listener, f)
        BY <3>2, <1>0, <1>3
      <4>2. w[1] = f /\ (j = 1 \/ (j - 1 \in 1 .. Len(v) /\ v[j - 1] = w[j]))
        BY <4>1, <1>0, FrameArrived
      <4>3. s.from # f.from
        <5>1. Answering(p, e, f, s)
          BY <2>1, <3>2, StillAnswers
        <5> QED
          BY <5>1, <3>2 DEF Answering
      <4>4. j # 1
        BY <2>4, <4>2, <4>3 DEF DetachOf
      <4> QED
        BY <2>4, <4>2, <4>4
    <3> QED
      BY <3>1, <3>2, Peers
  <2> QED
    BY <2>1, <2>3, <2>4, <1>10
<1>13. Replies'
  <2>1. All(frames[Listener], answers) /\ Once(frames[Listener])
    BY DEF Parts, Replies
  <2>2. All(frames[Listener], answers') /\ All(wire'[Listener], answers')
    BY <2>1, <1>8, <1>9, AllMonotone
  <2> QED
    BY <2>1, <2>2, <1>1, <1>9, <1>11, <1>12 DEF Replies
<1> QED
  BY <1>6, <1>7, <1>13

\* The other direction does not change.
LEMMA SameToListener ==
  ASSUME ToListener, wire'[Client] = wire[Client], by_in'[Listener] = by_in[Listener], slab'[Client] = slab[Client],
         UNCHANGED <<stage, me, mate, control, backlog>>
  PROVE  ToListener'
BY DEF ToListener

\* The answer to the Detach of the link has arrived.
LEMMA AnsweredStep ==
  ASSUME Parts, NEW p \in Peer, NEW e \in End(p), NEW f, DetachArrives(p, e, f), <<p, e>> \in parted,
         wire' = [wire EXCEPT ![Other(p)] = Tail(@)],
         close_pending' = [close_pending EXCEPT ![p] = @ \ {by_in[p][f.handle].out}],
         UNCHANGED <<slab, vacant, by_name>>
  PROVE  Parts'
<1> DEFINE x == <<p, e>>
           q == Other(p)
<1>0. Client \in Peer /\ Listener \in Peer /\ q \in Peer /\ q # p
  BY Peers
<1>1. /\ stage' = stage /\ me' = me /\ called' = called /\ held' = held /\ mate' = mate /\ past' = past
      /\ parted' = parted /\ Shaped' /\ link' \in [Endpoint -> LinkRecord] /\ Inboxes'
      /\ \A y \in Endpoint : y # x => (y \in clean => y \in clean')
  <2>1. Detaches(x) /\ parted' = parted /\ Shaped' /\ link' \in [Endpoint -> LinkRecord] /\ Inboxes'
    BY DetachDelivered
  <2> QED
    BY <2>1 DEF Detaches
<1>2. UNCHANGED <<control, frames, backlog, failure>> /\ Arrives(q, f)
  BY DEF DetachArrives
<1>3. Forgotten(p, e, f.handle)
  BY Unregistered
<1>4. /\ wire \in [Peer -> Seq(Frame)] /\ close_pending \in [Peer -> SUBSET Handle]
  BY DEF Parts, Typed
<1>5. /\ wire' \in [Peer -> Seq(Frame)] /\ wire'[p] = wire[p]
      /\ \A i \in 1 .. Len(wire'[q]) : \E j \in 1 .. Len(wire[q]) : wire'[q][i] = wire[q][j]
  <2>1. wire'[q] \in Seq(Frame) /\ \A i \in 1 .. Len(wire'[q]) : \E j \in 1 .. Len(wire[q]) : wire'[q][i] = wire[q][j]
    BY <1>0, <1>2, FrameArrived, WireShorter
  <2>2. wire'[p] = wire[p] /\ wire' = [wire EXCEPT ![q] = wire'[q]]
    BY <1>0, <1>4
  <2> QED
    BY <2>1, <2>2, <1>0, <1>4
<1>6. \A r \in Peer, g \in Handle : \A d \in End(r) :
           slab'[r][g] = me[<<r, d>>] <=> slab[r][g] = me[<<r, d>>] /\ <<r, d>> # x
  BY DEF Parts, Slots
<1>7. Holders' /\ Reached' /\ Registered'
  BY <1>6, DetachedTables
<1>8. awaited' = awaited /\ asks' = asks
  BY <1>1, SameAwaited
<1>9. Asks' /\ Mates' /\ Replies'
  BY <1>5, <1>6, <1>8, DetachedFrames DEF Returns
<1>10. Typed'
  <2>1. by_in' \in [Peer -> [Handle -> Entry]]
    BY <1>3 DEF Forgotten
  <2>2. close_pending' \in [Peer -> SUBSET Handle]
    BY <1>4
  <2> QED
    BY <2>1, <2>2, <1>1, <1>2, <1>5 DEF Parts, Typed
<1>11. Requests' /\ Vacant' /\ Slots' /\ Named'
  <2>1. Requests'
    BY <1>1, <1>2 DEF Parts, Requests
  <2>2. Vacant'
    BY DEF Parts, Vacant
  <2>3. Slots'
    <3>1. ASSUME NEW r \in Peer, NEW h \in Handle, NEW d \in End(r), slab[r][h] = me[<<r, d>>]
          PROVE  <<r, d>> \in clean'
      <4>1. <<r, d>> \in clean /\ <<r, d>> \in Endpoint
        BY <3>1, Endpoints DEF Parts, Slots
      <4>2. <<r, d>> # x
        BY <3>1, <1>6
      <4> QED
        BY <4>1, <4>2, <1>1
    <3> QED
      BY <3>1, <1>1 DEF Parts, Slots
  <2>4. Named'
    BY <1>1 DEF Parts, Named
  <2> QED
    BY <2>1, <2>2, <2>3, <2>4
<1>12. Pending'
  <2>1. ASSUME NEW r \in Peer, NEW h \in close_pending'[r]
        PROVE  \E g \in Handle : \E d \in End(r) :
                 by_in'[r][g].who = me[<<r, d>>] /\ by_in'[r][g].out = h /\ <<r, d>> \in parted
    <3>1. h \in close_pending[r] /\ (r = p => h # by_in[p][f.handle].out)
      BY <1>4
    <3>2. PICK g \in Handle, d \in End(r) : by_in[r][g].who = me[<<r, d>>] /\ by_in[r][g].out = h /\ <<r, d>> \in parted
      BY <3>1 DEF Parts, Pending
    <3>3. by_in'[r][g] = by_in[r][g]
      BY <3>1, <3>2, <1>3 DEF Forgotten
    <3> QED
      BY <3>2, <3>3
  <2> QED
    BY <2>1, <1>1 DEF Pending
<1>13. Detaching'
  <2>1. \A r \in Peer : \A i \in 1 .. Len(wire'[r]) : \E j \in 1 .. Len(wire[r]) : wire'[r][i] = wire[r][j]
    <3>1. \A r \in Peer : r = p \/ r = q
      BY Peers
    <3> QED
      BY <3>1, <1>5
  <2> QED
    BY <2>1, <1>1, <1>2, WireDetaching
<1>14. CASE p = Client
  <2>1. ToClient'
    BY <1>14, DetachedAtClient
  <2>2. wire'[Client] = wire[Client] /\ by_in'[Listener] = by_in[Listener]
    BY <1>0, <1>3, <1>5, <1>14, Peers DEF Forgotten
  <2>3. ToListener'
    BY <2>2, <1>1, <1>2, SameToListener DEF Parts
  <2> QED
    BY <2>1, <2>3, <1>1, <1>7, <1>9, <1>10, <1>11, <1>12, <1>13 DEF Parts
<1>15. CASE p = Listener
  <2>1. ToListener'
    BY <1>15, DetachedAtListener
  <2>2. wire'[Listener] = wire[Listener] /\ by_in'[Client] = by_in[Client]
    BY <1>0, <1>3, <1>5, <1>15, Peers DEF Forgotten
  <2>3. ToClient'
    BY <2>2, <1>1, <1>2 DEF Parts, ToClient
  <2> QED
    BY <2>1, <2>3, <1>1, <1>7, <1>9, <1>10, <1>11, <1>12, <1>13 DEF Parts
<1> QED
  BY <1>14, <1>15, Peers

\* A Detach of the peer's own is answered.
LEMMA RepliedStep ==
  ASSUME Parts, NEW p \in Peer, NEW e \in End(p), NEW f, DetachArrives(p, e, f), <<p, e>> \notin parted,
         NEW h \in Handle, h = by_in[p][f.handle].out, Releases(p, e, h),
         NEW g \in Frame, DetachOf(g, me[<<p, e>>], h), Arrives(Other(p), f), wire'[p] = Append(wire[p], g),
         wire' \in [Peer -> Seq(Frame)], close_pending' = close_pending
  PROVE  Parts'
<1> DEFINE x == <<p, e>>
           q == Other(p)
<1>0. Client \in Peer /\ Listener \in Peer /\ q \in Peer /\ q # p
  BY Peers
<1>1. /\ stage' = stage /\ me' = me /\ called' = called /\ held' = held /\ mate' = mate /\ past' = past
      /\ parted' = parted /\ Shaped' /\ link' \in [Endpoint -> LinkRecord] /\ Inboxes' /\ Detaches(x)
  <2>1. Detaches(x) /\ parted' = parted /\ Shaped' /\ link' \in [Endpoint -> LinkRecord] /\ Inboxes'
    BY DetachDelivered
  <2> QED
    BY <2>1 DEF Detaches
<1>2. UNCHANGED <<control, frames, backlog, failure>>
  BY DEF DetachArrives
<1>3. Forgotten(p, e, f.handle)
  BY Unregistered
<1>4. \A i \in 1 .. Len(wire'[q]) : \E j \in 1 .. Len(wire[q]) : wire'[q][i] = wire[q][j]
  BY <1>0, WireShorter
<1>5. /\ slab' \in [Peer -> [Handle -> Attachment]] /\ vacant' \in [Peer -> Seq(Handle)] /\ by_name' \in [Peer -> [Names -> Entry]]
      /\ Vacant' /\ \A r \in Peer : r # p => slab'[r] = slab[r]
      /\ \A n \in awaited : by_name'[Client][n] = by_name[Client][n]
  BY Released
<1>6. \A r \in Peer, k \in Handle : \A d \in End(r) :
           slab'[r][k] = me[<<r, d>>] <=> slab[r][k] = me[<<r, d>>] /\ <<r, d>> # x
  BY ReleasedSlab
<1>7. Holders' /\ Reached' /\ Registered'
  BY <1>6, DetachedTables
<1>8. awaited' = awaited /\ asks' = asks /\ Requests' /\ Slots' /\ Named'
  BY <1>1, <1>2, ReleasedParts
<1>9. Asks' /\ Mates' /\ Replies'
  <2>1. Returns(p)
    BY DEF Returns, DetachOf
  <2> QED
    BY <2>1, <1>5, <1>6, <1>8, DetachedFrames
<1>10. Typed'
  <2>1. by_in' \in [Peer -> [Handle -> Entry]]
    BY <1>3 DEF Forgotten
  <2> QED
    BY <2>1, <1>1, <1>2, <1>5 DEF Parts, Typed
<1>11. Pending'
  <2>1. ASSUME NEW r \in Peer, NEW k \in close_pending[r]
        PROVE  \E i \in Handle : \E d \in End(r) :
                 by_in'[r][i].who = me[<<r, d>>] /\ by_in'[r][i].out = k /\ <<r, d>> \in parted
    <3>1. PICK i \in Handle, d \in End(r) : by_in[r][i].who = me[<<r, d>>] /\ by_in[r][i].out = k /\ <<r, d>> \in parted
      BY DEF Parts, Pending
    <3>2. <<r, d>> # x
      BY <3>1
    <3>3. by_in'[r][i] = by_in[r][i]
      BY <3>1, <3>2, <1>3 DEF Forgotten
    <3> QED
      BY <3>1, <3>3
  <2> QED
    BY <2>1, <1>1 DEF Pending
<1>12. Detaching'
  <2>1. \A r \in Peer : r # p => \A i \in 1 .. Len(wire'[r]) : \E j \in 1 .. Len(wire[r]) : wire'[r][i] = wire[r][j]
    <3>1. \A r \in Peer : r = p \/ r = q
      BY Peers
    <3> QED
      BY <3>1, <1>4
  <2>2. \A r \in Peer : \A i \in 1 .. Len(frames'[r]) : frames'[r][i].type = "Detach" => frames'[r][i].from \in past[r]
    BY <1>2 DEF Parts, Detaching
  <2> QED
    BY <2>1, <2>2, <1>1, ReleasedDetaching
<1>13. CASE p = Client
  <2>1. ToClient'
    <3>1. slab'[Listener] = slab[Listener]
      BY <1>0, <1>5, <1>13, Peers
    <3> QED
      BY <3>1, <1>13, DetachedAtClient
  <2>2. by_in'[Listener] = by_in[Listener]
    BY <1>0, <1>3, <1>13, Peers DEF Forgotten
  <2>3. ToListener'
    BY <2>2, <1>1, <1>2, <1>13, ReleasedAtClient
  <2> QED
    BY <2>1, <2>3, <1>1, <1>5, <1>7, <1>8, <1>9, <1>10, <1>11, <1>12 DEF Parts
<1>14. CASE p = Listener
  <2>1. ToListener'
    <3>1. slab'[Client] = slab[Client]
      BY <1>0, <1>5, <1>14, Peers
    <3> QED
      BY <3>1, <1>14, DetachedAtListener
  <2>2. by_in'[Client] = by_in[Client]
    BY <1>0, <1>3, <1>14, Peers DEF Forgotten
  <2>3. NotIn(frames[Listener], me[<<Listener, e>>])
    <3>1. ASSUME NEW i \in 1 .. Len(frames[Listener]), frames[Listener][i].type = "Attach", frames[Listener][i].from = me[<<Listener, e>>]
          PROVE  FALSE
      <4>1. frames[Listener][i] \in answers
        BY DEF Parts, Replies, All
      <4>2. Answering(p, e, f, frames[Listener][i])
        BY <3>1, <4>1, StillAnswers
      <4>3. PICK d \in End(Listener) : me[<<Listener, e>>] = me[<<Listener, d>>] /\ <<Listener, d>> # <<p, e>>
        BY <3>1, <4>2 DEF Answering
      <4>4. d = e
        BY <4>3, <1>0, <1>14, Abbreviated DEF Parts
      <4> QED
        BY <4>3, <4>4, <1>14
    <3> QED
      BY <3>1 DEF NotIn
  <2>4. ToClient'
    BY <2>2, <2>3, <1>1, <1>2, <1>14, ReleasedAtListener
  <2> QED
    BY <2>1, <2>4, <1>1, <1>5, <1>7, <1>8, <1>9, <1>10, <1>11, <1>12 DEF Parts
<1> QED
  BY <1>13, <1>14, Peers

\* A Detach arrives, and is answered unless it is an answer.
LEMMA OnIncomingDetachStep ==
  ASSUME Parts, mishap = {}, mishap' = {}, NEW p \in Peer, NEW f, wire[Other(p)] # <<>>, f = Head(wire[Other(p)]), f.type = "Detach",
         OnIncomingDetachFrame(p, f), UNCHANGED <<control, frames>>
  PROVE  Parts'
<1> DEFINE q == Other(p)
           relay == by_in[p][f.handle]
<1>0. q \in Peer /\ q # p
  BY Peers
<1>1. wire \in [Peer -> Seq(Frame)] /\ by_in \in [Peer -> [Handle -> Entry]]
  BY DEF Parts, Typed
<1>2. wire'[q] = Tail(wire[q])
  <2>1. \/ wire' = [wire EXCEPT ![q] = Tail(@)]
        \/ wire' = [wire EXCEPT ![q] = Tail(@), ![p] = Append(@, DetachFrame(relay.who, relay.out, f.flag))]
    BY DEF OnIncomingDetachFrame
  <2> QED
    BY <2>1, <1>0, <1>1
<1>3. Arrives(q, f)
  BY <1>2 DEF Arrives
<1>4. PICK e \in End(p) : /\ relay.who = me[<<p, e>>] /\ stage[<<p, e>>] = "heard"
                          /\ p = Client => mate[f.from] = me[<<p, e>>]
                          /\ p = Listener => f.from = mate[me[<<p, e>>]]
                          /\ f.handle \in Handle /\ relay.out \in Handle
  BY <1>3, DetachFinds
<1> DEFINE x == <<p, e>>
<1>5. x \in Endpoint /\ me[x] # Nobody /\ me[x] = <<e, link[x].life>> /\ called[x] = link[x].name
  BY Endpoints, Abbreviated DEF Parts
<1>6. relay # Absent
  BY <1>4, <1>5 DEF Absent
<1>7. /\ UNCHANGED <<backlog, failure>>
      /\ mishap' = IF Answers(p, relay) = Asked(p, relay.who) THEN mishap ELSE mishap \cup {"misread"}
      /\ by_in' = [by_in EXCEPT ![p][f.handle] = Absent]
      /\ Deliver(p, relay.who, f)
      /\ \/ /\ Answers(p, relay)
            /\ close_pending' = [close_pending EXCEPT ![p] = @ \ {relay.out}]
            /\ wire' = [wire EXCEPT ![q] = Tail(@)]
            /\ UNCHANGED <<slab, vacant, by_name>>
         \/ /\ ~Answers(p, relay)
            /\ Deallocate(p, relay.out)
            /\ wire' = [wire EXCEPT ![q] = Tail(@), ![p] = Append(@, DetachFrame(relay.who, relay.out, f.flag))]
            /\ UNCHANGED close_pending
  BY <1>6 DEF OnIncomingDetachFrame
<1>8. DetachArrives(p, e, f)
  BY <1>3, <1>4, <1>7 DEF DetachArrives
<1>9. Answers(p, relay) = Asked(p, relay.who)
  BY <1>7
<1>10. Asked(p, relay.who) <=> x \in parted
  <2>1. me[x][1] = e /\ me[x][2] = link[x].life
    BY <1>5
  <2> QED
    BY <2>1, <1>4, <1>5 DEF Asked, parted
<1>11. CASE Answers(p, relay)
  BY <1>7, <1>8, <1>9, <1>10, <1>11, AnsweredStep
<1>12. CASE ~Answers(p, relay)
  <2> DEFINE h == relay.out
             g == DetachFrame(relay.who, h, f.flag)
  <2>1. x \notin parted
    BY <1>9, <1>10, <1>12
  <2>2. slab[p][h] = me[x] /\ h \in Handle
    <3>1. relay.who # Nobody
      BY <1>4, <1>5
    <3>2. PICK d \in End(p) : relay.who = me[<<p, d>>] /\ (<<p, d>> \in parted \/ slab[p][h] = me[<<p, d>>])
      BY <3>1, <1>4 DEF Parts, Registered
    <3>3. d = e
      BY <3>2, <1>4, Abbreviated DEF Parts
    <3> QED
      BY <3>2, <3>3, <2>1, <1>4
  <2>3. g \in Frame /\ DetachOf(g, me[x], h)
    <3>1. f \in Frame
      BY <1>0, <1>3, FrameArrived
    <3>2. f.flag \in BOOLEAN /\ relay.who \in Attachment
      BY <3>1, <1>1, <1>4 DEF Frame, Entry
    <3> QED
      BY <3>2, <2>2, <1>4 DEF DetachFrame, Frame, DetachOf
  <2>4. wire'[p] = Append(wire[p], g) /\ wire' \in [Peer -> Seq(Frame)]
    <3>1. wire' = [wire EXCEPT ![q] = Tail(@), ![p] = Append(@, g)]
      BY <1>7, <1>12
    <3>2. wire'[q] \in Seq(Frame)
      BY <1>0, <1>3, FrameArrived
    <3> HIDE DEF g
    <3>3. wire'[p] = Append(wire[p], g)
      BY <3>1, <1>0, <1>1
    <3>4. Append(wire[p], g) \in Seq(Frame)
      BY <2>3, <1>1
    <3> QED
      BY <3>1, <3>2, <3>3, <3>4, <1>0, <1>1
  <2>5. Releases(p, e, h)
    <3>1. slab[p][h][1] = e /\ slab[p][h] # Nobody
      <4>1. me[x][1] = e
        BY <1>5
      <4> HIDE DEF h, x
      <4> QED
        BY <4>1, <2>2, <1>5
    <3>2. /\ slab' = [slab EXCEPT ![p][h] = Nobody]
          /\ vacant' = [vacant EXCEPT ![p] = <<h>> \o @]
          /\ by_name' = [by_name EXCEPT ![p][link[<<p, slab[p][h][1]>>].name] = Absent]
      BY <3>1, <1>7, <1>12 DEF Deallocate
    <3> QED
      <4>1. link[<<p, slab[p][h][1]>>].name = called[x]
        BY <3>1, <1>5
      <4>2. by_name' = [by_name EXCEPT ![p][called[x]] = Absent]
        BY <3>2, <4>1
      <4> QED
        BY <3>2, <4>2, <2>2, <1>4 DEF Releases
  <2>6. close_pending' = close_pending
    BY <1>7, <1>12
  <2> HIDE DEF g
  <2> QED
    BY <2>1, <2>2, <2>3, <2>4, <2>5, <2>6, <1>3, <1>8, RepliedStep
<1> QED
  BY <1>11, <1>12

\* The answer f of the listener's link d arrives, and the client's link c has heard it.
Completes(c, d, f) ==
  /\ Arrives(Listener, f) /\ f.type = "Attach" /\ f \in Frame
  /\ stage[<<Client, c>>] = "asking" /\ called[<<Client, c>>] = f.name /\ f.name \in awaited
  /\ by_name[Client][f.name].who = me[<<Client, c>>] /\ by_name[Client][f.name].out \in Handle
  /\ slab[Client][by_name[Client][f.name].out] = me[<<Client, c>>]
  /\ f.from = me[<<Listener, d>>] /\ stage[<<Listener, d>>] = "heard" /\ called[<<Listener, d>>] = f.name
  /\ mate[f.from] = me[<<Client, c>>] /\ by_in[Listener][by_name[Client][f.name].out].who = f.from
  /\ link' = [link EXCEPT ![<<Client, c>>] = [link[<<Client, c>>] EXCEPT !.inbox = <<f>>]]
  /\ by_name' = [by_name EXCEPT ![Client][f.name] = Taken]
  /\ by_in' = [by_in EXCEPT ![Client][f.handle] = by_name[Client][f.name]]
  /\ wire' = [wire EXCEPT ![Listener] = Tail(@)]
  /\ UNCHANGED <<slab, vacant, close_pending, control, frames, backlog, failure>>

\* The links afterwards.
Hears(x) ==
  /\ me' = me /\ called' = called /\ held' = held /\ mate' = mate /\ parted' = parted /\ clean \subseteq clean' /\ x \in clean'
  /\ stage'[x] = "heard" /\ \A y \in Endpoint : y # x => stage'[y] = stage[y]
  /\ \A q \in Peer : past[q] \subseteq past'[q] /\ known[q] \subseteq known'[q]

\* One link has its answer, no other has changed.
LEMMA HeardLinks ==
  ASSUME Parts, NEW c \in End(Client), NEW d \in End(Listener), NEW f, Completes(c, d, f)
  PROVE  Hears(<<Client, c>>) /\ Shaped' /\ link' \in [Endpoint -> LinkRecord] /\ Inboxes'
<1> DEFINE x == <<Client, c>>
           l == link[x]
           m == [l EXCEPT !.inbox = <<f>>]
<1>0. Client \in Peer /\ Listener \in Peer /\ Client # Listener
  BY Peers
<1>1. x \in Endpoint /\ x[1] = Client /\ x[2] = c /\ l \in LinkRecord /\ Shape(x, l)
  BY <1>0, Endpoints, LinkFields DEF Parts, Shaped
<1>2. /\ f \in Frame /\ f.type = "Attach" /\ f.type # "Detach" /\ stage[x] = "asking" /\ mate[f.from] = me[x] /\ called[x] = f.name
      /\ f.from = me[<<Listener, d>>] /\ called[<<Listener, d>>] = f.name /\ link' = [link EXCEPT ![x] = m]
  BY DEF Completes
<1>3. l.pc = "attaching" /\ l.inbox = <<>>
  BY <1>1, <1>2 DEF stage, LinkRecord, InUse
<1>4. <<f>> \in Seq(Frame) /\ Len(<<f>>) = 1 /\ <<f>>[1] = f /\ <<f>> # <<>> /\ \A i \in 1 .. 1 : i = 1
  BY <1>2
<1>5. /\ m \in LinkRecord /\ m.pc = l.pc /\ m.handle = l.handle /\ m.name = l.name /\ m.life = l.life
      /\ m.asked = l.asked /\ m.goal = l.goal /\ m.peer = l.peer /\ m.state = l.state /\ m.inbox = <<f>>
  BY <1>1, <1>4 DEF LinkRecord
<1> HIDE DEF m
<1>6. Becomes(x, m) /\ Shape(x, m)
  <2>1. Shape(x, m)
    <3> HIDE DEF l
    <3> QED
      BY <1>1, <1>3, <1>4, <1>5 DEF Shape
  <2> QED
    BY <2>1, <1>2, <1>5 DEF Becomes
<1>7. /\ link' \in [Endpoint -> LinkRecord] /\ link'[x] = m
      /\ \A y \in Endpoint : y # x =>
            /\ link'[y] = link[y] /\ stage'[y] = stage[y]
            /\ (y \in clean' <=> y \in clean)
      /\ stage'[x] = "heard"
  <2>1. stage'[x] = "heard"
    <3>1. stage'[x] = IF m.pc \in {"idle", "allocating", "allocated"} THEN m.pc
                      ELSE IF m.pc = "attaching" /\ m.inbox = <<>> THEN "asking" ELSE "heard"
      BY <1>1, <1>6, OneLink DEF Parts
    <3> QED
      BY <3>1, <1>3, <1>4, <1>5
  <2> QED
    BY <2>1, <1>1, <1>6, OneLink DEF Parts
<1>8. x \in clean'
  <2>1. x \in clean' <=> /\ m.pc # "suspended" /\ \A i \in 1 .. Len(m.inbox) : m.inbox[i].type # "Detach"
                         /\ m.pc = "up" => m.state = "Attached"
    BY <1>1, <1>6, OneLink DEF Parts
  <2> QED
    BY <2>1, <1>2, <1>3, <1>4, <1>5
<1>9. \A y \in Endpoint : /\ link'[y].pc = link[y].pc /\ link'[y].peer = link[y].peer
                          /\ link'[y].name = link[y].name /\ link'[y].life = link[y].life /\ link'[y].handle = link[y].handle
                          /\ link'[y].state = link[y].state /\ link'[y].asked = link[y].asked
  BY <1>5, <1>7
<1>10. Shaped'
  BY <1>1, <1>6, OneShape DEF Parts
<1>11. called' = called /\ held' = held /\ parted' = parted /\ me' = me
  BY <1>9 DEF called, held, parted, me
<1>12. mate' = mate
  <2>1. \A e \in End(Listener) : <<Listener, e>> \in Endpoint
    BY <1>0, Endpoints
  <2> QED
    BY <2>1, <1>9, SameMates
<1>13. clean \subseteq clean'
  <2>1. \A y \in Endpoint : y \in clean => y \in clean'
    BY <1>7, <1>8
  <2> QED
    BY <2>1, Extensions
<1>14. ASSUME NEW q \in Peer
       PROVE  past[q] \subseteq past'[q] /\ known[q] \subseteq known'[q]
  <2>1. \A y \in Endpoint : stage[y] = "heard" => stage'[y] = "heard"
    BY <1>7
  <2>2. \A y \in Endpoint : stage[y] \in {"asking", "heard"} => stage'[y] \in {"asking", "heard"}
    BY <1>7
  <2>3. \A e \in End(q) : <<q, e>> \in Endpoint
    BY Endpoints
  <2>4. Upto(q, {"heard"}) \subseteq Upto(q, {"heard"})'
    BY <2>1, <2>3, <1>9 DEF Upto
  <2>5. Upto(q, {"asking", "heard"}) \subseteq Upto(q, {"asking", "heard"})'
    BY <2>2, <2>3, <1>9 DEF Upto
  <2> QED
    BY <2>4, <2>5 DEF past, known
<1>15. Hears(x)
  BY <1>7, <1>8, <1>11, <1>12, <1>13, <1>14 DEF Hears
<1>16. Inboxes'
  <2>1. ASSUME NEW e \in End(Client)
        PROVE  /\ \A i \in 1 .. Len(link'[<<Client, e>>].inbox) :
                    /\ mate[link'[<<Client, e>>].inbox[i].from] = me[<<Client, e>>]
                    /\ link'[<<Client, e>>].inbox[i].type = "Attach" =>
                         called[<<Listener, link'[<<Client, e>>].inbox[i].from[1]>>] = called[<<Client, e>>]
               /\ link'[<<Client, e>>].pc \in {"up", "waiting", "refused"} => mate[link'[<<Client, e>>].peer] = me[<<Client, e>>]
    <3>1. <<Client, e>> \in Endpoint
      BY <1>0, Endpoints
    <3>2. link'[<<Client, e>>].pc \in {"up", "waiting", "refused"} => mate[link'[<<Client, e>>].peer] = me[<<Client, e>>]
      BY <3>1, <1>9 DEF Parts, Inboxes
    <3>3. CASE <<Client, e>> = x
      <4>1. link'[<<Client, e>>].inbox = <<f>>
        BY <3>3, <1>5, <1>7
      <4>2. f.from[1] = d
        <5>1. me[<<Listener, d>>] = <<d, link[<<Listener, d>>].life>>
          BY <1>0, Abbreviated DEF Parts
        <5> QED
          BY <5>1, <1>2
      <4> QED
        BY <3>2, <3>3, <4>1, <4>2, <1>2, <1>4
    <3>4. CASE <<Client, e>> # x
      <4>1. link'[<<Client, e>>] = link[<<Client, e>>]
        BY <3>1, <3>4, <1>7
      <4> QED
        BY <4>1 DEF Parts, Inboxes
    <3> QED
      BY <3>3, <3>4
  <2>2. ASSUME NEW e \in End(Listener), NEW i \in 1 .. Len(link'[<<Listener, e>>].inbox)
        PROVE  /\ link'[<<Listener, e>>].inbox[i].type = "Detach"
               /\ link'[<<Listener, e>>].inbox[i].from = mate[me[<<Listener, e>>]]
    <3>1. link'[<<Listener, e>>] = link[<<Listener, e>>]
      <4>1. <<Listener, e>> \in Endpoint /\ <<Listener, e>> # x
        BY <1>0, Endpoints
      <4> QED
        BY <4>1, <1>7
    <3> QED
      BY <3>1 DEF Parts, Inboxes
  <2> QED
    BY <2>1, <2>2, <1>11, <1>12 DEF Inboxes
<1> QED
  BY <1>7, <1>10, <1>15, <1>16

\* No answer is on its way to a link that does not await one.
LEMMA NoAnswer ==
  ASSUME Parts, NEW c \in End(Client), stage[<<Client, c>>] # "asking", NEW s \in answers, s.type = "Attach"
  PROVE  mate[s.from] # me[<<Client, c>>]
<1>1. s.name \in awaited /\ by_name[Client][s.name].who = mate[s.from]
  BY DEF answers
<1>2. PICK e \in End(Client) : by_name[Client][s.name].who = me[<<Client, e>>] /\ stage[<<Client, e>>] = "asking"
  BY <1>1, AwaitedLink
<1>3. ASSUME mate[s.from] = me[<<Client, c>>]
      PROVE  FALSE
  <2>1. me[<<Client, e>>] = me[<<Client, c>>]
    BY <1>1, <1>2, <1>3
  <2>2. e = c
    BY <2>1, Peers, Abbreviated DEF Parts
  <2> QED
    BY <2>2, <1>2
<1> QED
  BY <1>3

\* The handle the listener attaches with leads nowhere yet.
LEMMA FreeHandle ==
  ASSUME Parts, NEW c \in End(Client), NEW d \in End(Listener), NEW f, Completes(c, d, f)
  PROVE  f.handle \in Handle /\ by_in[Client][f.handle].who = Nobody
<1> DEFINE h == f.handle
           w == wire[Listener]
<1>0. Client \in Peer /\ Listener \in Peer
  BY Peers
<1>1. f \in Frame /\ f.type = "Attach" /\ f.type # "Detach" /\ Arrives(Listener, f)
  BY DEF Completes
<1>2. 1 \in 1 .. Len(w) /\ w[1] = f /\ w \in Seq(Frame) /\ w # <<>>
  BY <1>0, <1>1, FrameArrived
<1>3. h \in Handle
  BY <1>1 DEF Frame
<1>4. ASSUME by_in[Client][h].who # Nobody
      PROVE  FALSE
  <2>1. PICK e \in End(Client) : by_in[Client][h].who = me[<<Client, e>>] /\ stage[<<Client, e>>] = "heard"
    BY <1>0, <1>3, <1>4 DEF Parts, Registered
  <2>2. PICK b \in Attachment :
          /\ mate[b] = by_in[Client][h].who
          /\ \/ slab[Listener][h] = b
             \/ \E j \in 1 .. Len(w) : DetachOf(w[j], b, h)
    BY <1>3, <1>4 DEF Parts, ToClient
  <2>3. \A s \in answers : s.type = "Attach" => s.from # b
    <3>1. stage[<<Client, e>>] # "asking"
      BY <2>1
    <3> QED
      BY <2>1, <2>2, <3>1, NoAnswer
  <2>4. All(w, answers) /\ All(frames[Listener], answers)
    BY DEF Parts, Replies
  <2>5. \A i \in 1 .. Len(w) : w[i].type = "Attach" => w[i].from # b
    BY <2>3, <2>4 DEF All
  <2>6. NotIn(frames[Listener], b)
    BY <2>3, <2>4 DEF All, NotIn
  <2>7. \A j \in 2 .. Len(w) + 1 : ~Open(w, j, b, h, by_in[Client], mate[b])
    <3>1. ASSUME NEW j \in 2 .. Len(w) + 1, Open(w, j, b, h, by_in[Client], mate[b])
          PROVE  FALSE
      <4>1. Len(w) \in Nat /\ \A i \in 1 .. j - 1 : i \in 1 .. Len(w)
        BY <1>2
      <4>2. 1 \in 1 .. j - 1
        BY <4>1
      <4>3. \A k \in 1 .. j - 1 : w[k].handle # h
        BY <3>1, <4>1, <2>5 DEF Open
      <4> QED
        BY <4>2, <4>3, <1>2
    <3> QED
      BY <3>1
  <2>8. CASE slab[Listener][h] = b
    <3>1. b # Nobody
      <4>1. me[<<Client, e>>] # Nobody
        BY <1>0, Abbreviated DEF Parts
      <4>2. Nobody = <<0, 0>> /\ Nobody \in Attachment
        BY DEF Nobody, Attachment
      <4>3. mate[Nobody] = Nobody
        <5>1. Nobody[2] # 1
          BY <4>2
        <5> QED
          BY <4>2, <5>1 DEF mate
      <4> QED
        BY <4>1, <4>3, <2>1, <2>2
    <3>2. PICK i \in End(Listener) : b = me[<<Listener, i>>] /\ slab[Listener][h] = me[<<Listener, i>>]
      <4>1. slab[Listener][h] # Nobody
        BY <2>8, <3>1
      <4>2. \A q \in Peer, g \in Handle : slab[q][g] # Nobody => \E e1 \in End(q) : slab[q][g] = me[<<q, e1>>]
        BY DEF Parts, Slots
      <4> HIDE DEF h
      <4>3. \E e1 \in End(Listener) : slab[Listener][h] = me[<<Listener, e1>>]
        BY <4>1, <4>2, <1>0, <1>3
      <4> QED
        BY <2>8, <4>3
    <3>3. stage[<<Listener, i>>] # "allocated"
      <4>1. ASSUME stage[<<Listener, i>>] = "allocated"
            PROVE  FALSE
        <5>1. called[<<Listener, i>>] \in awaited /\ by_name[Client][called[<<Listener, i>>]].who = me[<<Client, e>>]
          BY <2>1, <2>2, <3>2, <4>1 DEF Parts, Mates
        <5>2. PICK k \in End(Client) : me[<<Client, e>>] = me[<<Client, k>>] /\ stage[<<Client, k>>] = "asking"
          BY <5>1, AwaitedLink
        <5>3. k = e
          BY <5>2, <1>0, Abbreviated DEF Parts
        <5> QED
          BY <5>2, <5>3, <2>1
      <4> QED
        BY <4>1
    <3>4. Open(w, Len(w) + 1, b, h, by_in[Client], mate[b])
      BY <2>6, <3>2, <3>3, <1>3 DEF Parts, ToClient
    <3>5. Len(w) + 1 \in 2 .. Len(w) + 1
      BY <1>2
    <3> QED
      BY <2>7, <3>4, <3>5
  <2>9. CASE \E j \in 1 .. Len(w) : DetachOf(w[j], b, h)
    <3>1. PICK j \in 1 .. Len(w) : DetachOf(w[j], b, h)
      BY <2>9
    <3>2. j # 1 /\ j \in 2 .. Len(w) + 1
      <4>1. j # 1
        BY <3>1, <1>1, <1>2 DEF DetachOf
      <4> QED
        BY <4>1, <1>2
    <3>3. Open(w, j, b, h, by_in[Client], mate[b])
      BY <3>1 DEF Parts, ToClient, DetachOf
    <3> QED
      BY <2>7, <3>2, <3>3
  <2> QED
    BY <2>2, <2>8, <2>9
<1> QED
  BY <1>3, <1>4

\* The client's tables afterwards.
Learnt(c, f) ==
  /\ by_name' \in [Peer -> [Names -> Entry]] /\ by_in' \in [Peer -> [Handle -> Entry]]
  /\ f.name \in Names /\ f.handle \in Handle /\ by_in[Client][f.handle].who = Nobody
  /\ by_name'[Client][f.name].who = Nobody /\ by_name'[Client][f.name] # Absent
  /\ by_in'[Client][f.handle].who = me[<<Client, c>>] /\ by_in'[Client][f.handle].out = by_name[Client][f.name].out
  /\ by_name'[Listener] = by_name[Listener] /\ by_in'[Listener] = by_in[Listener]
  /\ \A n \in Names : n # f.name => by_name'[Client][n] = by_name[Client][n]
  /\ \A g \in Handle : g # f.handle => by_in'[Client][g] = by_in[Client][g]
  /\ \A g \in Handle : by_in[Client][g].who # Nobody => g # f.handle
  /\ \A g \in Handle : by_in[Client][g].who # me[<<Client, c>>]
  /\ \A n \in Names : by_name[Client][n].who = me[<<Client, c>>] => n = f.name

\* The name is taken, the handle leads to the link.
LEMMA Completed ==
  ASSUME Parts, NEW c \in End(Client), NEW d \in End(Listener), NEW f, Completes(c, d, f)
  PROVE  Learnt(c, f)
<1> DEFINE x == <<Client, c>>
<1>0. Client \in Peer /\ Listener \in Peer /\ Client # Listener
  BY Peers
<1>1. /\ f.name \in awaited /\ stage[x] = "asking" /\ called[x] = f.name /\ by_name[Client][f.name].who = me[x]
      /\ by_name' = [by_name EXCEPT ![Client][f.name] = Taken]
      /\ by_in' = [by_in EXCEPT ![Client][f.handle] = by_name[Client][f.name]]
  BY DEF Completes
<1>2. f.handle \in Handle /\ by_in[Client][f.handle].who = Nobody
  BY FreeHandle
<1>3. f.name \in Names
  BY <1>1 DEF awaited
<1>4. by_name \in [Peer -> [Names -> Entry]] /\ by_in \in [Peer -> [Handle -> Entry]]
  BY DEF Parts, Typed
<1>5. Taken \in Entry /\ Taken.who = Nobody /\ Taken # Absent
  <2>1. Nobody \in Attachment
    BY DEF Nobody, Attachment
  <2> QED
    BY <2>1 DEF Taken, Absent, Entry
<1>6. by_name[Client][f.name] \in Entry
  BY <1>0, <1>3, <1>4
<1>7. /\ by_name' \in [Peer -> [Names -> Entry]] /\ by_name'[Client][f.name] = Taken /\ by_name'[Listener] = by_name[Listener]
      /\ \A n \in Names : n # f.name => by_name'[Client][n] = by_name[Client][n]
  <2> HIDE DEF x
  <2> QED
    BY <1>0, <1>1, <1>3, <1>4, <1>5
<1>8. /\ by_in' \in [Peer -> [Handle -> Entry]] /\ by_in'[Client][f.handle] = by_name[Client][f.name]
      /\ by_in'[Listener] = by_in[Listener]
      /\ \A g \in Handle : g # f.handle => by_in'[Client][g] = by_in[Client][g]
  BY <1>0, <1>1, <1>2, <1>4, <1>6
<1>9. ASSUME NEW g \in Handle, by_in[Client][g].who = me[x]
      PROVE  FALSE
  <2>1. me[x] # Nobody
    BY <1>0, Abbreviated DEF Parts
  <2>2. PICK e \in End(Client) : by_in[Client][g].who = me[<<Client, e>>] /\ stage[<<Client, e>>] = "heard"
    BY <1>0, <1>9, <2>1 DEF Parts, Registered
  <2>3. me[<<Client, e>>] = me[<<Client, c>>]
    BY <1>9, <2>2
  <2>4. e = c
    BY <2>3, <1>0, Abbreviated DEF Parts
  <2> QED
    BY <2>2, <2>4, <1>1
<1>10. ASSUME NEW n \in Names, by_name[Client][n].who = me[x]
       PROVE  n = f.name
  <2>1. me[x] # Nobody
    BY <1>0, Abbreviated DEF Parts
  <2>2. PICK e \in End(Client) : by_name[Client][n].who = me[<<Client, e>>] /\ called[<<Client, e>>] = n
    BY <1>10, <2>1 DEF Parts, Named
  <2>3. me[<<Client, e>>] = me[<<Client, c>>]
    BY <1>10, <2>2
  <2>4. e = c
    BY <2>3, <1>0, Abbreviated DEF Parts
  <2> QED
    BY <2>2, <2>4, <1>1
<1>11. \A g \in Handle : by_in[Client][g].who # Nobody => g # f.handle
  BY <1>2
<1> QED
  BY <1>1, <1>2, <1>3, <1>5, <1>7, <1>8, <1>9, <1>10, <1>11 DEF Learnt

\* A name that another link awaits an answer by is awaited still.
LEMMA StillAwaited ==
  ASSUME Parts, NEW c \in End(Client), NEW d \in End(Listener), NEW f, Completes(c, d, f),
         NEW n \in awaited, n # f.name
  PROVE  n \in Names /\ n \in awaited' /\ by_name'[Client][n] = by_name[Client][n]
<1>1. Learnt(c, f) /\ Hears(<<Client, c>>)
  BY Completed, HeardLinks
<1>2. n \in Names /\ by_name'[Client][n] = by_name[Client][n]
  BY <1>1 DEF awaited, Learnt
<1>3. PICK e \in End(Client) : /\ by_name[Client][n].who = me[<<Client, e>>] /\ stage[<<Client, e>>] = "asking"
                               /\ called[<<Client, e>>] = n
  BY AwaitedLink
<1>4. called[<<Client, c>>] = f.name
  BY DEF Completes
<1>5. <<Client, e>> # <<Client, c>>
  BY <1>3, <1>4
<1>6. stage'[<<Client, e>>] = "asking" /\ me'[<<Client, e>>] = me[<<Client, e>>]
  <2>1. <<Client, e>> \in Endpoint
    BY Peers, Endpoints
  <2> QED
    BY <2>1, <1>1, <1>3, <1>5 DEF Hears
<1> QED
  BY <1>2, <1>3, <1>6 DEF awaited

\* The Attach of another link is still a question, the answer to another link still an answer.
LEMMA StillAsks ==
  ASSUME Parts, NEW c \in End(Client), NEW d \in End(Listener), NEW f, Completes(c, d, f),
         NEW s, All(s, asks), NotIn(s, me[<<Client, c>>])
  PROVE  All(s, asks')
<1>1. ASSUME NEW i \in 1 .. Len(s)
      PROVE  s[i] \in asks'
  <2>1. s[i] \in asks
    BY DEF All
  <2>2. CASE s[i].type # "Attach"
    BY <2>1, <2>2 DEF asks
  <2>3. CASE s[i].type = "Attach"
    <3> DEFINE t == s[i]
    <3>1. t \in Frame /\ t.name \in awaited /\ by_name[Client][t.name].who = t.from /\ t.handle = by_name[Client][t.name].out
      BY <2>1, <2>3 DEF asks
    <3>2. t.from # me[<<Client, c>>]
      BY <2>3 DEF NotIn
    <3>3. by_name[Client][f.name].who = me[<<Client, c>>]
      BY DEF Completes
    <3>4. t.name # f.name
      BY <3>1, <3>2, <3>3
    <3> HIDE DEF t
    <3>5. t.name \in awaited' /\ by_name'[Client][t.name] = by_name[Client][t.name]
      BY <3>1, <3>4, StillAwaited
    <3>6. t \in asks'
      BY <3>1, <3>5 DEF asks
    <3> QED
      BY <3>6 DEF t
  <2> QED
    BY <2>2, <2>3
<1> QED
  BY <1>1 DEF All

\* Answers to other links are answers still.
LEMMA StillAnswered ==
  ASSUME Parts, NEW c \in End(Client), NEW d \in End(Listener), NEW f, Completes(c, d, f),
         NEW s, All(s, answers), NotIn(s, f.from)
  PROVE  All(s, answers')
<1>0. Client \in Peer /\ Listener \in Peer /\ Client # Listener
  BY Peers
<1>1. Learnt(c, f) /\ Hears(<<Client, c>>)
  BY Completed, HeardLinks
<1>2. /\ by_name[Client][f.name].who = me[<<Client, c>>] /\ mate[f.from] = me[<<Client, c>>] /\ f.from = me[<<Listener, d>>]
      /\ me[<<Client, c>>] # Nobody /\ f.from \in Attachment
  <2>1. me[<<Client, c>>] # Nobody /\ me[<<Listener, d>>] \in Attachment
    BY <1>0, Abbreviated DEF Parts
  <2> QED
    BY <2>1 DEF Completes
<1>3. ASSUME NEW i \in 1 .. Len(s)
      PROVE  s[i] \in answers'
  <2>1. s[i] \in answers
    BY DEF All
  <2>2. CASE s[i].type # "Attach"
    BY <2>1, <2>2 DEF answers
  <2>3. CASE s[i].type = "Attach"
    <3> DEFINE t == s[i]
    <3>1. PICK e \in End(Listener) :
             /\ t.from = me[<<Listener, e>>] /\ stage[<<Listener, e>>] = "heard" /\ t.name = called[<<Listener, e>>]
             /\ t.name \in awaited /\ by_name[Client][t.name].who = mate[t.from]
             /\ by_in[Listener][by_name[Client][t.name].out].who = t.from
      BY <2>1, <2>3 DEF answers
    <3>2. t.from # f.from /\ t \in Frame
      BY <2>1, <2>3 DEF NotIn, answers
    <3>3. t.from \in Attachment
      BY <3>2 DEF Frame
    <3>4. t.name # f.name
      <4>1. ASSUME t.name = f.name
            PROVE  FALSE
        <5>1. mate[t.from] = mate[f.from] /\ mate[f.from] # Nobody
          BY <3>1, <4>1, <1>2
        <5>2. t.from = f.from
          BY <5>1, <3>3, <1>2 DEF Parts, Mates
        <5> QED
          BY <5>2, <3>2
      <4> QED
        BY <4>1
    <3> HIDE DEF t
    <3>5. t.name \in awaited' /\ by_name'[Client][t.name] = by_name[Client][t.name]
      BY <3>1, <3>4, StillAwaited
    <3>6. me'[<<Listener, e>>] = me[<<Listener, e>>] /\ stage'[<<Listener, e>>] = "heard" /\ called'[<<Listener, e>>] = called[<<Listener, e>>] /\ mate' = mate
      <4>1. <<Listener, e>> \in Endpoint /\ <<Listener, e>> # <<Client, c>>
        BY <1>0, Endpoints
      <4> QED
        BY <4>1, <1>1, <3>1 DEF Hears
    <3>7. by_in'[Listener] = by_in[Listener]
      BY <1>1 DEF Learnt
    <3>8. t \in answers'
      BY <3>1, <3>2, <3>5, <3>6, <3>7 DEF answers
    <3> QED
      BY <3>8 DEF t
  <2> QED
    BY <2>2, <2>3
<1> QED
  BY <1>3 DEF All

\* The names that links of the listener have yet to answer by are not the one answered.
LEMMA OtherNames ==
  ASSUME Parts, NEW c \in End(Client), NEW d \in End(Listener), NEW f, Completes(c, d, f),
         NEW e \in End(Listener), stage[<<Listener, e>>] \in {"allocating", "allocated"}
  PROVE  /\ called[<<Listener, e>>] \in awaited /\ called[<<Listener, e>>] \in awaited'
         /\ by_name'[Client][called[<<Listener, e>>]] = by_name[Client][called[<<Listener, e>>]]
<1>0. Client \in Peer /\ Listener \in Peer
  BY Peers
<1>1. called[<<Listener, e>>] \in awaited /\ by_name[Client][called[<<Listener, e>>]].who = mate[me[<<Listener, e>>]]
  BY DEF Parts, Mates
<1>2. /\ by_name[Client][f.name].who = me[<<Client, c>>] /\ mate[me[<<Listener, d>>]] = me[<<Client, c>>] /\ me[<<Client, c>>] # Nobody
      /\ stage[<<Listener, d>>] = "heard" /\ me[<<Listener, d>>] \in Attachment /\ me[<<Listener, e>>] \in Attachment
  <2>1. me[<<Client, c>>] # Nobody /\ me[<<Listener, d>>] \in Attachment /\ me[<<Listener, e>>] \in Attachment
    BY <1>0, Abbreviated DEF Parts
  <2> QED
    BY <2>1 DEF Completes
<1>3. ASSUME called[<<Listener, e>>] = f.name
      PROVE  FALSE
  <2>1. mate[me[<<Listener, e>>]] = mate[me[<<Listener, d>>]] /\ mate[me[<<Listener, d>>]] # Nobody
    BY <1>1, <1>2, <1>3
  <2>2. me[<<Listener, e>>] = me[<<Listener, d>>]
    BY <2>1, <1>2 DEF Parts, Mates
  <2>3. e = d
    BY <2>2, <1>0, Abbreviated DEF Parts
  <2> QED
    BY <2>3, <1>2
<1> QED
  BY <1>1, <1>3, StillAwaited

\* Frames and requests afterwards.
LEMMA CompletedFrames ==
  ASSUME Parts, NEW c \in End(Client), NEW d \in End(Listener), NEW f, Completes(c, d, f)
  PROVE  Asks' /\ Mates' /\ Requests' /\ Replies' /\ Detaching'
<1> DEFINE x == <<Client, c>>
<1>0. Client \in Peer /\ Listener \in Peer /\ Client # Listener
  BY Peers
<1>1. Learnt(c, f) /\ Hears(x)
  BY Completed, HeardLinks
<1>2. /\ me' = me /\ called' = called /\ mate' = mate
      /\ \A q \in Peer : past[q] \subseteq past'[q] /\ known[q] \subseteq known'[q]
  BY <1>1 DEF Hears
<1>3. /\ f.type = "Attach" /\ f.type # "Detach" /\ Arrives(Listener, f) /\ f.from = me[<<Listener, d>>] /\ mate[f.from] = me[x]
      /\ stage[x] = "asking" /\ UNCHANGED <<slab, control, frames, backlog>> /\ wire' = [wire EXCEPT ![Listener] = Tail(@)]
  BY DEF Completes
<1>4. wire'[Client] = wire[Client] /\ wire'[Listener] = Tail(wire[Listener])
  BY <1>0, <1>3 DEF Parts, Typed
<1>5. me[x] # Nobody /\ f.from \in Attachment
  BY <1>0, <1>3, Abbreviated DEF Parts
<1>6. \A e \in End(Listener) : <<Listener, e>> \in Endpoint /\ <<Listener, e>> # x /\ stage'[<<Listener, e>>] = stage[<<Listener, e>>]
  <2>1. \A e \in End(Listener) : <<Listener, e>> \in Endpoint /\ <<Listener, e>> # x
    BY <1>0, Endpoints
  <2> QED
    BY <2>1, <1>1 DEF Hears
<1>7. /\ All(wire'[Listener], answers) /\ Once(wire'[Listener]) /\ Apart(frames[Listener], wire'[Listener])
      /\ NotIn(wire'[Listener], f.from) /\ NotIn(frames[Listener], f.from)
  BY <1>0, <1>3, WireLeft
<1>8. Asks'
  <2>1. NotIn(frames[Client], me[x]) /\ NotIn(wire[Client], me[x]) /\ NotIn(backlog, me[x])
    BY <1>3, <1>5 DEF Parts, Mates
  <2>2. All(frames[Client], asks') /\ All(wire[Client], asks') /\ All(backlog, asks')
    <3>1. All(frames[Client], asks) /\ All(wire[Client], asks) /\ All(backlog, asks)
      BY DEF Parts, Asks
    <3> QED
      BY <2>1, <3>1, StillAsks
  <2> QED
    BY <2>2, <1>3, <1>4 DEF Parts, Asks, All
<1>9. Mates'
  <2>1. ASSUME NEW b \in Attachment, mate[b] # Nobody
        PROVE  /\ NotIn(frames[Client], mate[b]) /\ NotIn(wire[Client], mate[b]) /\ NotIn(backlog, mate[b])
               /\ mate[b] \in known'[Client]
               /\ \A b2 \in Attachment : mate[b2] = mate[b] => b2 = b
    <3>1. mate[b] \in known[Client]
      BY <2>1 DEF Parts, Mates
    <3> QED
      BY <2>1, <3>1, <1>0, <1>2 DEF Parts, Mates
  <2>2. ASSUME NEW e \in End(Listener)
        PROVE  /\ stage'[<<Listener, e>>] # "idle" => mate[me[<<Listener, e>>]] # Nobody
               /\ stage'[<<Listener, e>>] \in {"allocating", "allocated"} =>
                    /\ called[<<Listener, e>>] \in awaited'
                    /\ by_name'[Client][called[<<Listener, e>>]].who = mate[me[<<Listener, e>>]]
               /\ stage'[<<Listener, e>>] = "allocated" =>
                    by_in'[Listener][by_name'[Client][called[<<Listener, e>>]].out].who = me[<<Listener, e>>]
    <3>1. stage'[<<Listener, e>>] = stage[<<Listener, e>>]
      BY <1>6
    <3>2. stage[<<Listener, e>>] \in {"allocating", "allocated"} =>
            /\ called[<<Listener, e>>] \in awaited'
            /\ by_name'[Client][called[<<Listener, e>>]] = by_name[Client][called[<<Listener, e>>]]
      BY OtherNames
    <3>3. by_in'[Listener] = by_in[Listener]
      BY <1>1 DEF Learnt
    <3> QED
      BY <3>1, <3>2, <3>3 DEF Parts, Mates
  <2> QED
    BY <2>1, <2>2, <1>2, <1>3, <1>4 DEF Mates
<1>10. Requests'
  <2>1. ASSUME NEW p \in Peer, NEW i \in 1 .. Len(control[p])
        PROVE  /\ control[p][i].end \in End(p) /\ stage'[<<p, control[p][i].end>>] = "allocating"
               /\ p = Client => control[p][i].input = NoHandle
               /\ p = Listener => /\ control[p][i].input \in Handle
                                  /\ control[p][i].input = by_name'[Client][called[<<p, control[p][i].end>>]].out
               /\ \A j \in 1 .. Len(control[p]) : control[p][j].end = control[p][i].end => j = i
    <3> DEFINE k == control[p][i].end
    <3>1. /\ k \in End(p) /\ stage[<<p, k>>] = "allocating"
          /\ p = Client => control[p][i].input = NoHandle
          /\ p = Listener => control[p][i].input \in Handle /\ control[p][i].input = by_name[Client][called[<<p, k>>]].out
          /\ \A j \in 1 .. Len(control[p]) : control[p][j].end = k => j = i
      BY DEF Parts, Requests
    <3> HIDE DEF k
    <3>2. stage'[<<p, k>>] = "allocating"
      <4>1. <<p, k>> \in Endpoint
        BY <3>1, Endpoints
      <4>2. <<p, k>> # x
        BY <3>1, <1>3
      <4> QED
        BY <3>1, <4>1, <4>2, <1>1 DEF Hears
    <3>3. p = Listener => by_name'[Client][called[<<p, k>>]] = by_name[Client][called[<<p, k>>]]
      BY <3>1, OtherNames
    <3>4. /\ k \in End(p) /\ stage'[<<p, k>>] = "allocating"
          /\ p = Client => control[p][i].input = NoHandle
          /\ p = Listener => control[p][i].input \in Handle /\ control[p][i].input = by_name'[Client][called[<<p, k>>]].out
          /\ \A j \in 1 .. Len(control[p]) : control[p][j].end = k => j = i
      BY <3>1, <3>2, <3>3
    <3> QED
      BY <3>4 DEF k
  <2> QED
    BY <2>1, <1>2, <1>3 DEF Requests
<1>11. Replies'
  <2>1. All(frames[Listener], answers') /\ All(wire'[Listener], answers')
    <3>1. All(frames[Listener], answers)
      BY DEF Parts, Replies
    <3> QED
      BY <3>1, <1>7, StillAnswered
  <2>2. ASSUME NEW i \in 1 .. Len(wire'[Listener]), wire'[Listener][i].type = "Attach"
        PROVE  \/ slab[Listener][wire'[Listener][i].handle] = wire'[Listener][i].from
               \/ \E j \in 1 .. Len(wire'[Listener]) : DetachOf(wire'[Listener][j], wire'[Listener][i].from, wire'[Listener][i].handle)
    <3> DEFINE w == wire[Listener]
               v == wire'[Listener]
    <3>1. /\ 1 \in 1 .. Len(w) /\ w[1] = f
          /\ \A k \in 1 .. Len(v) : k + 1 \in 1 .. Len(w) /\ k + 1 # 1 /\ v[k] = w[k + 1]
          /\ \A k \in 1 .. Len(w) : k = 1 \/ (k - 1 \in 1 .. Len(v) /\ v[k - 1] = w[k])
      BY <1>0, <1>3, FrameArrived
    <3>2. \/ slab[Listener][w[i + 1].handle] = w[i + 1].from
          \/ \E j \in 1 .. Len(w) : DetachOf(w[j], w[i + 1].from, w[i + 1].handle)
      <4>1. \A k \in 1 .. Len(w) : w[k].type = "Attach" =>
               \/ slab[Listener][w[k].handle] = w[k].from
               \/ \E j \in 1 .. Len(w) : DetachOf(w[j], w[k].from, w[k].handle)
        BY DEF Parts, Replies
      <4> HIDE DEF w, v
      <4>2. v[i] = w[i + 1] /\ i + 1 \in 1 .. Len(w) /\ v[i].type = "Attach"
        BY <2>2, <3>1 DEF v
      <4> QED
        BY <4>1, <4>2
    <3>3. ASSUME NEW j \in 1 .. Len(w), DetachOf(w[j], v[i].from, v[i].handle)
          PROVE  \E k \in 1 .. Len(v) : DetachOf(v[k], v[i].from, v[i].handle)
      <4>1. j # 1
        BY <3>1, <3>3, <1>3 DEF DetachOf
      <4>2. j - 1 \in 1 .. Len(v) /\ v[j - 1] = w[j]
        BY <3>1, <4>1
      <4>3. DetachOf(v[j - 1], v[i].from, v[i].handle)
        BY <3>3, <4>2
      <4> QED
        BY <4>2, <4>3
    <3>4. v[i] = w[i + 1]
      BY <3>1
    <3> HIDE DEF w, v
    <3>5. \/ slab[Listener][v[i].handle] = v[i].from
          \/ \E j \in 1 .. Len(v) : DetachOf(v[j], v[i].from, v[i].handle)
      BY <3>2, <3>3, <3>4
    <3> QED
      BY <3>5 DEF v
  <2>3. /\ Once(frames[Listener])
        /\ \A i \in 1 .. Len(frames[Listener]) : frames[Listener][i].type = "Attach" =>
             /\ slab[Listener][frames[Listener][i].handle] = frames[Listener][i].from
             /\ \A j \in 1 .. Len(frames[Listener]) :
                  frames[Listener][j].type = "Detach" /\ frames[Listener][j].from = frames[Listener][i].from => i < j
    BY DEF Parts, Replies
  <2> QED
    BY <2>1, <2>2, <2>3, <1>3, <1>7 DEF Replies, All
<1>12. Detaching'
  <2>1. ASSUME NEW q \in Peer, NEW i \in 1 .. Len(frames[q]), frames[q][i].type = "Detach"
        PROVE  frames[q][i].from \in past'[q]
    BY <2>1, <1>2 DEF Parts, Detaching
  <2>2. ASSUME NEW q \in Peer, NEW i \in 1 .. Len(wire'[q]), wire'[q][i].type = "Detach"
        PROVE  wire'[q][i].from \in past'[q] /\ \A h \in Handle : slab[q][h] # wire'[q][i].from
    <3>1. PICK j \in 1 .. Len(wire[q]) : wire'[q][i] = wire[q][j]
      <4>1. CASE q = Listener
        <5>1. \A k \in 1 .. Len(wire'[q]) : \E j \in 1 .. Len(wire[q]) : wire'[q][k] = wire[q][j]
          BY <4>1, <1>3, WireShorter
        <5> QED
          BY <5>1
      <4>2. CASE q = Client
        BY <4>2, <1>4
      <4> QED
        BY <4>1, <4>2, Peers
    <3>2. wire[q][j].from \in past[q] /\ \A h \in Handle : slab[q][h] # wire[q][j].from
      BY <2>2, <3>1 DEF Parts, Detaching
    <3> QED
      BY <3>1, <3>2, <1>2
  <2> QED
    BY <2>1, <2>2, <1>3 DEF Detaching
<1> QED
  BY <1>8, <1>9, <1>10, <1>11, <1>12

\* Slots, names and relays afterwards.
LEMMA CompletedTables ==
  ASSUME Parts, NEW c \in End(Client), NEW d \in End(Listener), NEW f, Completes(c, d, f)
  PROVE  Vacant' /\ Slots' /\ Holders' /\ Reached' /\ Named' /\ Registered' /\ Pending'
<1> DEFINE x == <<Client, c>>
           o == by_name[Client][f.name].out
<1>0. Client \in Peer /\ Listener \in Peer /\ Client # Listener /\ Peer = {Client, Listener}
  BY Peers
<1>1. Learnt(c, f) /\ Hears(x)
  BY Completed, HeardLinks
<1>2. me' = me /\ called' = called /\ held' = held /\ parted' = parted /\ clean \subseteq clean' /\ x \in clean' /\ stage'[x] = "heard"
  BY <1>1 DEF Hears
<1>3. UNCHANGED <<slab, vacant, close_pending, frames>> /\ stage[x] = "asking" /\ o \in Handle /\ slab[Client][o] = me[x] /\ called[x] = f.name
  BY DEF Completes
<1>4. x \in Endpoint /\ me[x] # Nobody /\ \A e \in End(Client) : me[<<Client, e>>] = me[x] => e = c
  BY <1>0, Endpoints, Abbreviated DEF Parts
<1>5. \A q \in Peer : \A e \in End(q) : <<q, e>> # x => stage'[<<q, e>>] = stage[<<q, e>>]
  <2>1. \A q \in Peer : \A e \in End(q) : <<q, e>> \in Endpoint
    BY Endpoints
  <2> QED
    BY <2>1, <1>1 DEF Hears
<1>6. \A q \in Peer, g \in Handle : by_in[q][g].who # Nobody => by_in'[q][g] = by_in[q][g]
  BY <1>0, <1>1 DEF Learnt
<1>7. Vacant' /\ Holders'
  BY <1>2, <1>3 DEF Parts, Vacant, Holders
<1>8. Slots'
  <2>1. ASSUME NEW p \in Peer, NEW h \in Handle, NEW e \in End(p), slab[p][h] = me[<<p, e>>]
        PROVE  /\ stage'[<<p, e>>] \notin {"idle", "allocating"} /\ <<p, e>> \in clean' /\ <<p, e>> \notin parted
               /\ by_name'[p][called[<<p, e>>]] # Absent
               /\ \A g \in Handle : \A e2 \in End(p) :
                    slab[p][g] = me[<<p, e2>>] /\ called[<<p, e2>>] = called[<<p, e>>] => g = h
    <3>1. /\ stage[<<p, e>>] \notin {"idle", "allocating"} /\ <<p, e>> \in clean /\ <<p, e>> \notin parted
          /\ by_name[p][called[<<p, e>>]] # Absent
          /\ \A g \in Handle : \A e2 \in End(p) :
               slab[p][g] = me[<<p, e2>>] /\ called[<<p, e2>>] = called[<<p, e>>] => g = h
      BY <2>1 DEF Parts, Slots
    <3>2. stage'[<<p, e>>] \notin {"idle", "allocating"}
      BY <3>1, <1>2, <1>5
    <3>3. by_name'[p][called[<<p, e>>]] # Absent
      <4>1. called[<<p, e>>] \in Names
        <5>1. <<p, e>> \in Endpoint
          BY Endpoints
        <5>2. link[<<p, e>>].pc # "idle"
          BY <3>1, <5>1 DEF stage
        <5>3. Shape(<<p, e>>, link[<<p, e>>])
          BY <5>1 DEF Parts, Shaped
        <5> QED
          BY <5>1, <5>2, <5>3 DEF Shape, called
      <4> QED
        BY <3>1, <4>1, <1>0, <1>1 DEF Learnt
    <3> QED
      BY <3>1, <3>2, <3>3, <1>2
  <2>2. \A p \in Peer, h \in Handle : slab[p][h] # Nobody => \E e \in End(p) : slab[p][h] = me[<<p, e>>]
    BY DEF Parts, Slots
  <2> QED
    BY <2>1, <2>2, <1>2, <1>3 DEF Slots
<1>9. Reached'
  <2>1. ASSUME NEW p \in Peer, NEW h \in Handle, NEW e \in End(p), slab[p][h] = me[<<p, e>>],
               p = Client => stage'[<<p, e>>] = "heard"
        PROVE  \E g \in Handle : by_in'[p][g].who = me[<<p, e>>] /\ by_in'[p][g].out = h
    <3>1. CASE <<p, e>> = x
      <4>1. h = o
        BY <2>1, <3>1, <1>0, <1>3 DEF Parts, Slots
      <4> QED
        BY <3>1, <4>1, <1>1 DEF Learnt
    <3>2. CASE <<p, e>> # x
      <4>1. PICK g \in Handle : by_in[p][g].who = me[<<p, e>>] /\ by_in[p][g].out = h
        BY <2>1, <3>2, <1>5 DEF Parts, Reached
      <4>2. me[<<p, e>>] # Nobody
        BY Abbreviated DEF Parts
      <4>3. by_in'[p][g] = by_in[p][g]
        BY <4>1, <4>2, <1>6
      <4> QED
        BY <4>1, <4>3
    <3> QED
      BY <3>1, <3>2
  <2> QED
    BY <2>1, <1>2, <1>3 DEF Reached
<1>10. Named'
  <2>1. \A n \in Names : by_name'[Listener][n].who = Nobody
    BY <1>1 DEF Learnt, Parts, Named
  <2>2. ASSUME NEW n \in Names, by_name'[Client][n].who # Nobody
        PROVE  \E e \in End(Client) :
                 /\ by_name'[Client][n].who = me[<<Client, e>>] /\ called[<<Client, e>>] = n
                 /\ stage'[<<Client, e>>] \in {"allocated", "asking"}
                 /\ by_name'[Client][n].out \in Handle /\ slab[Client][by_name'[Client][n].out] = me[<<Client, e>>]
    <3>1. n # f.name /\ by_name'[Client][n] = by_name[Client][n]
      BY <2>2, <1>1 DEF Learnt
    <3>2. PICK e \in End(Client) :
                 /\ by_name[Client][n].who = me[<<Client, e>>] /\ called[<<Client, e>>] = n
                 /\ stage[<<Client, e>>] \in {"allocated", "asking"}
                 /\ by_name[Client][n].out \in Handle /\ slab[Client][by_name[Client][n].out] = me[<<Client, e>>]
      BY <2>2, <3>1 DEF Parts, Named
    <3>3. stage'[<<Client, e>>] = stage[<<Client, e>>]
      <4>1. <<Client, e>> # x
        BY <3>1, <3>2, <1>3
      <4> QED
        BY <4>1, <1>0, <1>5
    <3> QED
      BY <3>1, <3>2, <3>3
  <2>3. ASSUME NEW e \in End(Client), stage'[<<Client, e>>] = "allocated"
        PROVE  /\ by_name'[Client][called[<<Client, e>>]].who = me[<<Client, e>>]
               /\ by_name'[Client][called[<<Client, e>>]].out = held[<<Client, e>>]
    <3>1. <<Client, e>> # x /\ stage[<<Client, e>>] = "allocated"
      BY <2>3, <1>0, <1>2, <1>5
    <3>2. /\ by_name[Client][called[<<Client, e>>]].who = me[<<Client, e>>]
          /\ by_name[Client][called[<<Client, e>>]].out = held[<<Client, e>>]
      BY <3>1 DEF Parts, Named
    <3>3. called[<<Client, e>>] # f.name
      <4>1. by_name[Client][f.name].who = me[x]
        BY DEF Completes
      <4> QED
        BY <4>1, <3>1, <3>2, <1>4
    <3>4. called[<<Client, e>>] \in Names
      <4>1. <<Client, e>> \in Endpoint
        BY <1>0, Endpoints
      <4>2. link[<<Client, e>>].pc # "idle"
        BY <3>1, <4>1 DEF stage
      <4>3. Shape(<<Client, e>>, link[<<Client, e>>])
        BY <4>1 DEF Parts, Shaped
      <4> QED
        BY <4>1, <4>2, <4>3 DEF Shape, called
    <3>5. by_name'[Client][called[<<Client, e>>]] = by_name[Client][called[<<Client, e>>]]
      BY <3>3, <3>4, <1>1 DEF Learnt
    <3> QED
      BY <3>2, <3>5
  <2>4. ASSUME NEW e \in End(Listener), stage'[<<Listener, e>>] = "allocated"
        PROVE  slab[Listener][held[<<Listener, e>>]] = me[<<Listener, e>>]
    <3>1. stage[<<Listener, e>>] = "allocated"
      <4>1. <<Listener, e>> # x
        BY <1>0
      <4> QED
        BY <2>4, <4>1, <1>0, <1>5
    <3> QED
      BY <3>1 DEF Parts, Named
  <2> QED
    BY <2>1, <2>2, <2>3, <2>4, <1>2, <1>3 DEF Named
<1>11. Registered'
  <2>1. ASSUME NEW p \in Peer, NEW h \in Handle
        PROVE  by_in'[p][h] = by_in[p][h] \/ (p = Client /\ h = f.handle)
    BY <1>0, <1>1 DEF Learnt
  <2>2. ASSUME NEW p \in Peer, NEW h \in Handle, by_in'[p][h].who = Nobody
        PROVE  by_in'[p][h] = Absent
    <3>1. by_in'[p][h] = by_in[p][h]
      BY <2>1, <2>2, <1>1, <1>4 DEF Learnt
    <3> QED
      BY <2>2, <3>1 DEF Parts, Registered
  <2>3. ASSUME NEW p \in Peer, NEW h \in Handle, by_in'[p][h].who # Nobody
        PROVE  /\ \E e \in End(p) :
                    /\ by_in'[p][h].who = me[<<p, e>>] /\ <<p, e>> \in clean'
                    /\ stage'[<<p, e>>] \notin {"idle", "allocating"} /\ (p = Client => stage'[<<p, e>>] = "heard")
                    /\ <<p, e>> \in parted \/ slab[p][by_in'[p][h].out] = me[<<p, e>>]
               /\ by_in'[p][h].out \in Handle
               /\ \A g \in Handle : by_in'[p][g].who = by_in'[p][h].who => g = h
    <3>1. CASE p = Client /\ h = f.handle
      <4>1. by_in'[Client][h].who = me[x] /\ by_in'[Client][h].out = o
        BY <3>1, <1>1 DEF Learnt
      <4>2. ASSUME NEW g \in Handle, by_in'[Client][g].who = me[x]
            PROVE  g = h
        BY <4>2, <3>1, <1>1 DEF Learnt
      <4>3. \E e \in End(Client) :
                    /\ by_in'[Client][h].who = me[<<Client, e>>] /\ <<Client, e>> \in clean'
                    /\ stage'[<<Client, e>>] = "heard" /\ slab[Client][by_in'[Client][h].out] = me[<<Client, e>>]
        BY <4>1, <1>2, <1>3
      <4> QED
        BY <3>1, <4>1, <4>2, <4>3, <1>3
    <3>2. CASE ~(p = Client /\ h = f.handle)
      <4>1. by_in'[p][h] = by_in[p][h]
        BY <2>1, <3>2
      <4>2. PICK e \in End(p) :
              /\ by_in[p][h].who = me[<<p, e>>] /\ <<p, e>> \in clean
              /\ stage[<<p, e>>] \notin {"idle", "allocating"} /\ (p = Client => stage[<<p, e>>] = "heard")
              /\ <<p, e>> \in parted \/ slab[p][by_in[p][h].out] = me[<<p, e>>]
        BY <2>3, <4>1 DEF Parts, Registered
      <4>3. by_in[p][h].out \in Handle /\ \A g \in Handle : by_in[p][g].who = by_in[p][h].who => g = h
        BY <2>3, <4>1 DEF Parts, Registered
      <4>4. <<p, e>> # x
        BY <4>2, <1>3
      <4>5. stage'[<<p, e>>] = stage[<<p, e>>] /\ <<p, e>> \in clean'
        BY <4>2, <4>4, <1>2, <1>5
      <4>6. ASSUME NEW g \in Handle, by_in'[p][g].who = by_in'[p][h].who
            PROVE  g = h
        <5>1. CASE p = Client /\ g = f.handle
          <6>1. by_in[Client][h].who = me[x]
            BY <5>1, <4>1, <4>6, <1>1 DEF Learnt
          <6> QED
            BY <6>1, <1>1 DEF Learnt
        <5>2. CASE ~(p = Client /\ g = f.handle)
          <6>1. by_in'[p][g] = by_in[p][g]
            BY <2>1, <5>2
          <6> QED
            BY <6>1, <4>1, <4>3, <4>6
        <5> QED
          BY <5>1, <5>2
      <4> QED
        BY <4>1, <4>2, <4>3, <4>5, <4>6
    <3> QED
      BY <3>1, <3>2
  <2> QED
    BY <2>2, <2>3, <1>2, <1>3 DEF Registered
<1>12. Pending'
  <2>1. ASSUME NEW p \in Peer, NEW h \in close_pending[p]
        PROVE  \E g \in Handle : \E e \in End(p) :
                 by_in'[p][g].who = me[<<p, e>>] /\ by_in'[p][g].out = h /\ <<p, e>> \in parted
    <3>1. PICK g \in Handle, e \in End(p) : by_in[p][g].who = me[<<p, e>>] /\ by_in[p][g].out = h /\ <<p, e>> \in parted
      BY DEF Parts, Pending
    <3>2. me[<<p, e>>] # Nobody
      BY Abbreviated DEF Parts
    <3>3. by_in'[p][g] = by_in[p][g]
      BY <3>1, <3>2, <1>6
    <3> QED
      BY <3>1, <3>3
  <2> QED
    BY <2>1, <1>2, <1>3 DEF Pending
<1> QED
  BY <1>7, <1>8, <1>9, <1>10, <1>11, <1>12

\* Where the handles lead afterwards.
LEMMA CompletedWire ==
  ASSUME Parts, NEW c \in End(Client), NEW d \in End(Listener), NEW f, Completes(c, d, f)
  PROVE  ToListener' /\ ToClient'
<1> DEFINE x == <<Client, c>>
           w == wire[Listener]
           v == wire'[Listener]
<1>0. Client \in Peer /\ Listener \in Peer /\ Client # Listener
  BY Peers
<1>1. Learnt(c, f) /\ Hears(x)
  BY Completed, HeardLinks
<1>2. me' = me /\ mate' = mate /\ by_in'[Listener] = by_in[Listener]
  BY <1>1 DEF Hears, Learnt
<1>3. /\ UNCHANGED <<slab, control, frames, backlog>> /\ slab[Client][by_name[Client][f.name].out] = me[x]
      /\ by_name[Client][f.name].out \in Handle /\ by_in[Listener][by_name[Client][f.name].out].who = f.from /\ mate[f.from] = me[x]
      /\ f.type = "Attach" /\ f.type # "Detach" /\ Arrives(Listener, f) /\ wire' = [wire EXCEPT ![Listener] = Tail(@)]
      /\ f.from = me[<<Listener, d>>]
  BY DEF Completes
<1>4. wire'[Client] = wire[Client]
  BY <1>0, <1>3 DEF Parts, Typed
<1>5. \A q \in Peer : \A e \in End(q) : <<q, e>> # x => stage'[<<q, e>>] = stage[<<q, e>>]
  <2>1. \A q \in Peer : \A e \in End(q) : <<q, e>> \in Endpoint
    BY Endpoints
  <2> QED
    BY <2>1, <1>1 DEF Hears
<1>6. me[x] # Nobody /\ f.from \in Attachment /\ f.from # Nobody
  BY <1>0, <1>3, Abbreviated DEF Parts
<1>7. /\ w \in Seq(Frame) /\ w # <<>> /\ v = Tail(w) /\ 1 \in 1 .. Len(w) /\ w[1] = f
      /\ \A k \in 1 .. Len(v) : k + 1 \in 1 .. Len(w) /\ k + 1 # 1 /\ v[k] = w[k + 1]
      /\ \A k \in 1 .. Len(w) : k = 1 \/ (k - 1 \in 1 .. Len(v) /\ v[k - 1] = w[k])
  BY <1>0, <1>3, FrameArrived
<1>8. Len(w) \in Nat /\ Len(w) >= 1 /\ Len(v) = Len(w) - 1
  BY <1>7, Shrunk
<1>9. ToListener'
  <2>1. ASSUME NEW h \in Handle, NEW e \in End(Client), slab[Client][h] = me[<<Client, e>>], stage'[<<Client, e>>] = "heard"
        PROVE  by_in[Listener][h].who # Nobody /\ mate[by_in[Listener][h].who] = me[<<Client, e>>]
    <3>1. CASE e = c
      <4>1. h = by_name[Client][f.name].out
        BY <2>1, <3>1, <1>0, <1>3 DEF Parts, Slots
      <4> QED
        BY <3>1, <4>1, <1>3, <1>6
    <3>2. CASE e # c
      <4>1. stage[<<Client, e>>] = "heard"
        BY <2>1, <3>2, <1>0, <1>5
      <4> QED
        BY <2>1, <4>1 DEF Parts, ToListener
    <3> QED
      BY <3>1, <3>2
  <2>2. /\ \A j \in 1 .. Len(wire[Client]) : wire[Client][j].type = "Detach" =>
             /\ by_in[Listener][wire[Client][j].handle].who # Nobody
             /\ mate[by_in[Listener][wire[Client][j].handle].who] = wire[Client][j].from
             /\ \A i \in 1 .. j - 1 : wire[Client][i].handle # wire[Client][j].handle
             /\ \A i \in 1 .. Len(backlog) : backlog[i].handle # wire[Client][j].handle
             /\ \A i \in 1 .. Len(control[Listener]) : control[Listener][i].input # wire[Client][j].handle
        /\ \A g \in Handle : by_in[Listener][g].who # Nobody =>
             \/ slab[Client][g] = mate[by_in[Listener][g].who]
             \/ \E j \in 1 .. Len(wire[Client]) : DetachOf(wire[Client][j], mate[by_in[Listener][g].who], g)
    BY DEF Parts, ToListener
  <2>3. slab' = slab /\ control' = control /\ backlog' = backlog
    BY <1>3
  <2> QED
    BY <2>1, <2>2, <2>3, <1>2, <1>4 DEF ToListener
\* A handle that is open stays open, one frame nearer.
<1>10. ASSUME NEW j \in 2 .. Len(w) + 1, NEW b \in Attachment, NEW h, Open(w, j, b, h, by_in[Client], mate[b]), h \in Handle
       PROVE  Open(v, j - 1, b, h, by_in'[Client], mate[b])
  <2>1. w[1].handle # h => by_in'[Client][h].who = by_in[Client][h].who
    BY <1>7, <1>10, <1>1 DEF Learnt
  <2>2. w[1].type = "Attach" /\ w[1].from = b /\ w[1].handle = h => by_in'[Client][h].who = mate[b]
    BY <1>7, <1>1, <1>3 DEF Learnt
  <2> HIDE DEF w, v
  <2> QED
    BY <2>1, <2>2, <1>7, <1>10, OpenShrunk
<1>11. ToClient'
  <2>1. ASSUME NEW h \in Handle, NEW e \in End(Listener), slab[Listener][h] = me[<<Listener, e>>],
               stage'[<<Listener, e>>] # "allocated", NotIn(frames[Listener], me[<<Listener, e>>])
        PROVE  Open(v, Len(v) + 1, me[<<Listener, e>>], h, by_in'[Client], mate[me[<<Listener, e>>]])
    <3>1. stage[<<Listener, e>>] # "allocated"
      <4>1. <<Listener, e>> # x
        BY <1>0
      <4> QED
        BY <2>1, <4>1, <1>0, <1>5
    <3>2. Open(w, Len(w) + 1, me[<<Listener, e>>], h, by_in[Client], mate[me[<<Listener, e>>]])
      BY <2>1, <3>1 DEF Parts, ToClient
    <3>3. me[<<Listener, e>>] \in Attachment
      BY <1>0, Abbreviated DEF Parts
    <3>4. Len(w) + 1 \in 2 .. Len(w) + 1 /\ Len(w) + 1 - 1 = Len(v) + 1
      BY <1>8
    <3> HIDE DEF w, v
    <3>5. Open(v, Len(w) + 1 - 1, me[<<Listener, e>>], h, by_in'[Client], mate[me[<<Listener, e>>]])
      BY <3>2, <3>3, <3>4, <1>10
    <3> QED
      BY <3>4, <3>5
  <2>2. ASSUME NEW j \in 1 .. Len(v), v[j].type = "Detach"
        PROVE  Open(v, j, v[j].from, v[j].handle, by_in'[Client], mate[v[j].from])
    <3>1. j + 1 \in 1 .. Len(w) /\ v[j] = w[j + 1] /\ w[j + 1] \in Frame
      BY <1>7
    <3>2. Open(w, j + 1, w[j + 1].from, w[j + 1].handle, by_in[Client], mate[w[j + 1].from])
      BY <2>2, <3>1 DEF Parts, ToClient
    <3>3. j + 1 \in 2 .. Len(w) + 1 /\ (j + 1) - 1 = j
      BY <3>1, <1>8
    <3>4. w[j + 1].from \in Attachment /\ w[j + 1].handle \in Handle
      BY <3>1 DEF Frame
    <3> HIDE DEF w, v
    <3>5. Open(v, (j + 1) - 1, w[j + 1].from, w[j + 1].handle, by_in'[Client], mate[w[j + 1].from])
      BY <3>2, <3>3, <3>4, <1>10
    <3> QED
      BY <3>1, <3>3, <3>5
  <2>3. ASSUME NEW b, NEW g, NEW j \in 1 .. Len(w), DetachOf(w[j], b, g)
        PROVE  \E k \in 1 .. Len(v) : DetachOf(v[k], b, g)
    <3>1. j # 1
      BY <2>3, <1>3, <1>7 DEF DetachOf
    <3>2. j - 1 \in 1 .. Len(v) /\ v[j - 1] = w[j]
      BY <3>1, <1>7
    <3>3. DetachOf(v[j - 1], b, g)
      BY <2>3, <3>2
    <3> QED
      BY <3>2, <3>3
  <2>4. ASSUME NEW g \in Handle, by_in'[Client][g].who # Nobody
        PROVE  \E b \in Attachment :
                 /\ mate[b] = by_in'[Client][g].who
                 /\ \/ slab[Listener][g] = b
                    \/ \E j \in 1 .. Len(v) : DetachOf(v[j], b, g)
    <3>1. CASE g = f.handle
      <4>1. mate[f.from] = by_in'[Client][g].who
        BY <3>1, <1>1, <1>3 DEF Learnt
      <4>2. \/ slab[Listener][f.handle] = f.from
            \/ \E j \in 1 .. Len(w) : DetachOf(w[j], f.from, f.handle)
        BY <1>3, <1>7 DEF Parts, Replies
      <4>3. slab[Listener][g] = f.from \/ \E j \in 1 .. Len(v) : DetachOf(v[j], f.from, g)
        BY <3>1, <4>2, <2>3
      <4> QED
        BY <4>1, <4>3, <1>6
    <3>2. CASE g # f.handle
      <4>1. by_in'[Client][g] = by_in[Client][g]
        BY <3>2, <1>1 DEF Learnt
      <4>2. PICK b \in Attachment :
              /\ mate[b] = by_in[Client][g].who
              /\ \/ slab[Listener][g] = b
                 \/ \E j \in 1 .. Len(w) : DetachOf(w[j], b, g)
        BY <2>4, <4>1 DEF Parts, ToClient
      <4>3. slab[Listener][g] = b \/ \E j \in 1 .. Len(v) : DetachOf(v[j], b, g)
        BY <4>2, <2>3
      <4> QED
        BY <4>1, <4>2, <4>3
    <3> QED
      BY <3>1, <3>2
  <2> QED
    BY <2>1, <2>2, <2>4, <1>2, <1>3 DEF ToClient
<1> QED
  BY <1>9, <1>11

\* All parts are kept.
LEMMA CompletedStep ==
  ASSUME Parts, NEW c \in End(Client), NEW d \in End(Listener), NEW f, Completes(c, d, f)
  PROVE  Parts'
<1>1. Shaped' /\ link' \in [Endpoint -> LinkRecord] /\ Inboxes'
  BY HeardLinks
<1>2. by_name' \in [Peer -> [Names -> Entry]] /\ by_in' \in [Peer -> [Handle -> Entry]]
  BY Completed DEF Learnt
<1>3. wire' \in [Peer -> Seq(Frame)]
  <2>1. Listener \in Peer
    BY Peers
  <2>2. wire \in [Peer -> Seq(Frame)] /\ wire' = [wire EXCEPT ![Listener] = Tail(@)] /\ Arrives(Listener, f)
    BY DEF Parts, Typed, Completes
  <2>3. Tail(wire[Listener]) \in Seq(Frame)
    BY <2>1, <2>2, FrameArrived
  <2> QED
    BY <2>2, <2>3
<1>4. Typed'
  BY <1>1, <1>2, <1>3 DEF Parts, Typed, Completes
<1> QED
  BY <1>1, <1>4, CompletedFrames, CompletedTables, CompletedWire DEF Parts

\* An Attach that reaches the client answers the link it is given to.
LEMMA AnswerArrives ==
  ASSUME Parts, NEW f, wire[Listener] # <<>>, f = Head(wire[Listener]), f.type = "Attach",
         OnIncomingAttachFrame(Client, f), wire' = [wire EXCEPT ![Listener] = Tail(@)], UNCHANGED <<control, frames>>
  PROVE  \E c \in End(Client), d \in End(Listener) : Completes(c, d, f)
<1>0. Client \in Peer /\ Listener \in Peer /\ Client # Listener
  BY Peers
<1>1. Arrives(Listener, f)
  <2>1. wire \in [Peer -> Seq(Frame)]
    BY DEF Parts, Typed
  <2> QED
    BY <2>1, <1>0 DEF Arrives
<1>2. f \in Frame /\ f \in answers
  BY <1>0, <1>1, FrameArrived, WireLeft
<1>3. PICK d \in End(Listener) :
        /\ f.from = me[<<Listener, d>>] /\ stage[<<Listener, d>>] = "heard" /\ f.name = called[<<Listener, d>>]
        /\ f.name \in awaited /\ by_name[Client][f.name].who = mate[f.from]
        /\ by_in[Listener][by_name[Client][f.name].out].who = f.from
  BY <1>2 DEF answers
<1>4. PICK c \in End(Client) :
        /\ by_name[Client][f.name].who = me[<<Client, c>>] /\ stage[<<Client, c>>] = "asking" /\ called[<<Client, c>>] = f.name
        /\ by_name[Client][f.name].out \in Handle /\ slab[Client][by_name[Client][f.name].out] = me[<<Client, c>>]
  BY <1>3, AwaitedLink
<1> DEFINE x == <<Client, c>>
           r == by_name[Client][f.name]
<1>5. x \in Endpoint /\ me[x] = <<c, link[x].life>> /\ me[x] # Nobody /\ link[x] \in LinkRecord
  BY <1>0, Endpoints, Abbreviated, LinkFields DEF Parts
<1>6. link[x].pc = "attaching" /\ link[x].inbox = <<>>
  BY <1>4, <1>5 DEF stage, LinkRecord, InUse
<1>7. r.who[1] = c /\ r.who[2] = link[x].life /\ r.who # Nobody /\ Alive(Client, r.who)
  <2>1. r.who = <<c, link[x].life>> /\ r.who # Nobody
    BY <1>4, <1>5
  <2>2. r.who[1] = c /\ r.who[2] = link[x].life
    BY <2>1
  <2> HIDE DEF r
  <2> QED
    BY <2>1, <2>2, <1>6 DEF Alive
<1>8. /\ link' = [link EXCEPT ![x].inbox = Append(@, f)]
      /\ by_name' = [by_name EXCEPT ![Client][f.name] = Taken]
      /\ by_in' = [by_in EXCEPT ![Client][f.handle] = r]
      /\ UNCHANGED <<slab, vacant, close_pending, backlog, failure>>
  <2> HIDE DEF r
  <2>1. /\ Deliver(Client, r.who, f)
        /\ by_name' = [by_name EXCEPT ![Client][f.name] = Taken]
        /\ by_in' = [by_in EXCEPT ![Client][InputHandle(f, r)] = r]
        /\ UNCHANGED <<slab, vacant, close_pending, backlog, failure>>
    BY <1>7 DEF OnIncomingAttachFrame, r
  <2> QED
    BY <2>1, <1>7 DEF Deliver, InputHandle
<1>9. link' = [link EXCEPT ![x] = [link[x] EXCEPT !.inbox = <<f>>]]
  <2>1. Append(link[x].inbox, f) = <<f>>
    BY <1>6
  <2>2. link \in [Endpoint -> LinkRecord]
    BY DEF Parts, Typed
  <2> HIDE DEF x
  <2>3. link' = [link EXCEPT ![x].inbox = <<f>>]
    BY <1>8, <2>1, <2>2, <1>5
  <2> QED
    BY <2>3, <2>2, <1>5
<1> QED
  BY <1>1, <1>2, <1>3, <1>4, <1>8, <1>9 DEF Completes

\* An Attach that reaches the listener asks for a link nobody has there yet.
LEMMA QuestionArrives ==
  ASSUME Parts, NEW f, wire[Client] # <<>>, f = Head(wire[Client]), f.type = "Attach",
         OnIncomingAttachFrame(Listener, f), wire' = [wire EXCEPT ![Client] = Tail(@)], UNCHANGED <<control, frames>>
  PROVE  Parts'
<1>0. Client \in Peer /\ Listener \in Peer /\ Client # Listener
  BY Peers
<1>1. wire \in [Peer -> Seq(Frame)]
  BY DEF Parts, Typed
<1>2. Arrives(Client, f) /\ wire'[Listener] = wire[Listener]
  BY <1>0, <1>1 DEF Arrives
<1>3. f \in asks /\ wire'[Client] \in Seq(Frame) /\ wire'[Client] = Tail(wire[Client])
  BY <1>0, <1>2, FrameArrived, WireLeft
<1>4. wire' \in [Peer -> Seq(Frame)]
  BY <1>1, <1>3
<1>5. by_name[Listener][f.name].who = Nobody
  <2>1. f.name \in Names
    BY <1>3 DEF asks, awaited
  <2> QED
    BY <2>1 DEF Parts, Named
<1>6. backlog' = Append(backlog, f) /\ UNCHANGED <<link, tables, failure>>
  BY <1>0, <1>5 DEF OnIncomingAttachFrame
<1> QED
  BY <1>2, <1>4, <1>6, AttachQueuedStep

\* Whatever frame arrives.
LEMMA OnIncomingStep ==
  ASSUME Parts, mishap = {}, mishap' = {}, NEW p \in Peer, OnIncoming(p)
  PROVE  Parts'
<1> DEFINE f == Head(wire[Other(p)])
<1>1. wire[Other(p)] # <<>> /\ UNCHANGED <<control, frames>>
  BY DEF OnIncoming
<1> HIDE DEF f
<1>2. CASE f.type = "Detach" /\ OnIncomingDetachFrame(p, f)
  BY <1>1, <1>2, OnIncomingDetachStep DEF f
<1>3. CASE f.type = "Attach" /\ OnIncomingAttachFrame(p, f) /\ wire' = [wire EXCEPT ![Other(p)] = Tail(@)]
  <2>1. CASE p = Client
    <3>1. Other(p) = Listener
      BY <2>1, Peers
    <3>2. \E c \in End(Client), d \in End(Listener) : Completes(c, d, f)
      BY <1>1, <1>3, <2>1, <3>1, AnswerArrives DEF f
    <3> QED
      BY <3>2, CompletedStep
  <2>2. CASE p = Listener
    <3>1. Other(p) = Client
      BY <2>2, Peers
    <3> QED
      BY <1>1, <1>3, <2>2, <3>1, QuestionArrives DEF f
  <2> QED
    BY <2>1, <2>2, Peers
<1> QED
  BY <1>2, <1>3 DEF OnIncoming, f

-----------------------------------------------------------------------------
(* The invariant holds.                                                    *)

\* Nothing has been created, allocated or sent.
LEMMA InitParts ==
  ASSUME Init
  PROVE  Parts
<1>0. Nobody = <<0, 0>> /\ Nobody \in Attachment
  BY DEF Nobody, Attachment
<1>1. PICK n \in Nat : Handle = 0 .. n
  BY HandleRange
<1>2. IsFiniteSet(Handle) /\ Cardinality(Handle) = n + 1
  BY <1>1, FS_Interval
<1>3. Absent \in Entry /\ Absent.who = Nobody
  BY <1>0 DEF Absent, Entry
<1>4. NewLink \in LinkRecord
  <2>1. <<>> \in Seq(Frame)
    OBVIOUS
  <2> QED
    BY <2>1, <1>0 DEF NewLink, LinkRecord, InUse, LinkStates
<1>5. \A x \in Endpoint : link[x] = NewLink /\ stage[x] = "idle" /\ link[x].pc = "idle" /\ link[x].life = 0 /\ link[x].inbox = <<>>
  BY DEF Init, NewLink, stage
<1>6. \A p \in Peer : \A e \in End(p) : <<p, e>> \in Endpoint /\ stage[<<p, e>>] = "idle" /\ link[<<p, e>>].pc = "idle" /\ link[<<p, e>>].inbox = <<>>
  BY <1>5, Endpoints
<1>7. /\ \A p \in Peer : control[p] = <<>> /\ frames[p] = <<>> /\ wire[p] = <<>> /\ close_pending[p] = {}
      /\ \A p \in Peer, h \in Handle : slab[p][h] = Nobody /\ by_in[p][h] = Absent
      /\ \A p \in Peer, m \in Names : by_name[p][m] = Absent
      /\ backlog = <<>> /\ Len(backlog) = 0
      /\ \A p \in Peer : Len(control[p]) = 0 /\ Len(frames[p]) = 0 /\ Len(wire[p]) = 0
      /\ 1 .. 0 = {}
  BY DEF Init
<1>8. Client \in Peer /\ Listener \in Peer
  BY Peers
<1>9. \A p \in Peer : vacant[p] \in Seq(Handle) /\ Len(vacant[p]) = n + 1 /\ \A i \in 1 .. n + 1 : vacant[p][i] = i - 1
  <2>1. \A p \in Peer : vacant[p] = [i \in 1 .. n + 1 |-> i - 1]
    BY <1>2 DEF Init
  <2>2. \A i \in 1 .. n + 1 : i - 1 \in Handle
    BY <1>1
  <2>3. ASSUME NEW p \in Peer
        PROVE  vacant[p] \in Seq(Handle) /\ Len(vacant[p]) = n + 1
    <3> DEFINE s == [i \in 1 .. n + 1 |-> i - 1]
    <3>1. s \in [1 .. n + 1 -> Handle] /\ n + 1 \in Nat
      BY <2>2
    <3> HIDE DEF s
    <3>2. s \in Seq(Handle)
      BY <3>1
    <3>3. Len(s) = n + 1
      BY <3>1, <3>2
    <3> QED
      BY <2>1, <3>2, <3>3 DEF s
  <2>4. \A p \in Peer : \A i \in 1 .. n + 1 : vacant[p][i] = i - 1
    BY <2>1
  <2> QED
    BY <2>3, <2>4
<1>10. Typed
  <2>1. vacant \in [Peer -> Seq(Handle)]
    BY <1>9 DEF Init
  <2>2. link \in [Endpoint -> LinkRecord]
    BY <1>4 DEF Init
  <2>3. slab \in [Peer -> [Handle -> Attachment]]
    BY <1>0 DEF Init
  <2>4. by_name \in [Peer -> [Names -> Entry]] /\ by_in \in [Peer -> [Handle -> Entry]]
    BY <1>3 DEF Init
  <2>5. /\ close_pending \in [Peer -> SUBSET Handle] /\ control \in [Peer -> Seq(Allocation)]
        /\ frames \in [Peer -> Seq(Frame)] /\ wire \in [Peer -> Seq(Frame)] /\ backlog \in Seq(Frame)
        /\ failure = [p \in Peer |-> "none"]
    BY DEF Init
  <2> QED
    BY <2>1, <2>2, <2>3, <2>4, <2>5 DEF Typed
<1>11. Shaped
  <2>1. \A x \in Endpoint : Shape(x, NewLink)
    BY DEF Shape, NewLink
  <2> QED
    BY <2>1, <1>5 DEF Shaped
<1>12. \A p \in Peer, h \in Handle : \A e \in End(p) : slab[p][h] # me[<<p, e>>]
  BY <1>7, <1>10, Abbreviated
<1>13. \A b \in Attachment : mate[b] = Nobody
  BY <1>6, <1>8 DEF mate
<1>14. Requests /\ Holders /\ Reached /\ Detaching
  BY <1>7, <1>12 DEF Requests, Holders, Reached, Detaching
<1>15. Vacant
  <2>1. ASSUME NEW p \in Peer, NEW h \in Handle
        PROVE  \E i \in 1 .. Len(vacant[p]) : vacant[p][i] = h
    <3>1. h + 1 \in 1 .. n + 1 /\ (h + 1) - 1 = h
      BY <1>1
    <3> QED
      BY <3>1, <1>9
  <2>2. ASSUME NEW p \in Peer, NEW i \in 1 .. Len(vacant[p])
        PROVE  slab[p][vacant[p][i]] = Nobody
    <3>1. vacant[p][i] \in Handle
      BY <1>9
    <3> QED
      BY <3>1, <1>7
  <2>3. ASSUME NEW p \in Peer, NEW i \in 1 .. Len(vacant[p]), NEW j \in 1 .. Len(vacant[p]), vacant[p][i] = vacant[p][j]
        PROVE  i = j
    BY <2>3, <1>9
  <2> QED
    BY <2>1, <2>2, <2>3 DEF Vacant
<1>16. Slots
  BY <1>7, <1>12 DEF Slots
<1>17. Named
  BY <1>3, <1>6, <1>7, <1>8 DEF Named
<1>18. Registered
  BY <1>3, <1>7 DEF Registered
<1>19. Pending
  BY <1>7 DEF Pending
<1>20. Asks
  BY <1>7, <1>8 DEF Asks, All, Once, Apart
<1>21. Mates
  BY <1>6, <1>8, <1>13 DEF Mates
<1>22. Replies
  BY <1>7, <1>8 DEF Replies, All, Once, Apart
<1>23. ToListener
  BY <1>3, <1>7, <1>8, <1>12 DEF ToListener
<1>24. ToClient
  BY <1>3, <1>7, <1>8, <1>12 DEF ToClient
<1>25. Inboxes
  <2>1. ASSUME NEW p \in Peer, NEW e \in End(p)
        PROVE  Len(link[<<p, e>>].inbox) = 0 /\ link[<<p, e>>].pc \notin {"up", "waiting", "refused"}
    <3>1. link[<<p, e>>].inbox = <<>> /\ link[<<p, e>>].pc = "idle"
      BY <1>6
    <3> QED
      BY <3>1
  <2> QED
    BY <2>1, <1>7, <1>8 DEF Inboxes
<1> QED
  BY <1>10, <1>11, <1>14, <1>15, <1>16, <1>17, <1>18, <1>19, <1>20, <1>21, <1>22, <1>23, <1>24, <1>25 DEF Parts

\* A mishap is not forgotten.
LEMMA MishapsStay ==
  ASSUME Next, mishap' = {}
  PROVE  mishap = {}
<1>1. mishap' = mishap \/ \E s : mishap' = mishap \cup {s}
  <2>1. ASSUME NEW p \in Peer, Engine(p)
        PROVE  mishap' = mishap \/ \E s : mishap' = mishap \cup {s}
    <3>1. CASE Allocate(p)
      BY <3>1 DEF Allocate
    <3>2. CASE OnOutgoingLinkFrame(p)
      BY <3>2 DEF OnOutgoingLinkFrame
    <3>3. CASE OnIncoming(p)
      <4>1. ASSUME NEW f, OnIncomingDetachFrame(p, f)
            PROVE  mishap' = mishap \/ \E s : mishap' = mishap \cup {s}
        BY <4>1 DEF OnIncomingDetachFrame
      <4> QED
        BY <3>3, <4>1 DEF OnIncoming
    <3> QED
      BY <2>1, <3>1, <3>2, <3>3 DEF Engine
  <2>2. ASSUME NEW p, NEW e, Procedure(p, e)
        PROVE  mishap' = mishap \/ \E s : mishap' = mishap \cup {s}
    <3>1. CASE SendAttach(p, e)
      BY <3>1 DEF SendAttach
    <3>2. CASE OnIncomingAttach(p, e)
      BY <3>2 DEF OnIncomingAttach
    <3>3. CASE OnDetachReply(p, e)
      BY <3>3 DEF OnDetachReply
    <3>4. CASE OnLastDetach(p, e)
      BY <3>4 DEF OnLastDetach
    <3> QED
      BY <2>2, <3>1, <3>2, <3>3, <3>4 DEF Procedure
  <2>3. ASSUME Acceptor
        PROVE  mishap' = mishap
    BY <2>3 DEF Acceptor, Accept, AnswerAttach
  <2>4. CASE System
    BY <2>1, <2>2, <2>3, <2>4 DEF System
  <2>5. CASE Application
    BY <2>5 DEF Application
  <2> QED
    BY <2>4, <2>5 DEF Next
<1> QED
  BY <1>1

\* Every step keeps the invariant, as long as nothing has gone wrong.
LEMMA StepParts ==
  ASSUME Parts, mishap = {}, mishap' = {}, Next
  PROVE  Parts'
<1>1. ASSUME NEW p \in Peer, Engine(p)
      PROVE  Parts'
  BY <1>1, AllocateStep, OnOutgoingLinkFrameStep, OnIncomingStep DEF Engine
<1>2. ASSUME NEW x \in Endpoint, Procedure(x[1], x[2])
      PROVE  Parts'
  <2>1. x[1] \in Peer /\ x[2] \in End(x[1])
    BY Endpoints
  <2> QED
    BY <1>2, <2>1, SendAttachStep, OnIncomingAttachStep, OnDetachReplyStep, OnLastDetachStep DEF Procedure
<1>3. ASSUME Acceptor
      PROVE  Parts'
  BY <1>3, AcceptStep, AnswerAttachStep DEF Acceptor
<1>4. ASSUME NEW e \in End(Client), NEW n \in Names, Attach(e, n)
      PROVE  Parts'
  BY <1>4, AttachStep
<1>5. ASSUME NEW x \in Endpoint,
             \/ \E closed \in BOOLEAN : CloseOrDetach(x[1], x[2], closed)
             \/ ObserveDetach(x[1], x[2])
             \/ Resume(x[1], x[2])
             \/ DropLink(x[1], x[2])
      PROVE  Parts'
  <2>1. x[1] \in Peer /\ x[2] \in End(x[1])
    BY Endpoints
  <2> QED
    BY <1>5, <2>1, CloseOrDetachStep, ObserveDetachStep, ResumeStep, DropLinkStep
<1>6. ASSUME NEW e \in End(Listener), ResumeIncomingAttach(e)
      PROVE  FALSE
  BY <1>6 DEF ResumeIncomingAttach
<1>7. CASE System
  BY <1>1, <1>2, <1>3, <1>7 DEF System
<1>8. CASE Application
  BY <1>4, <1>5, <1>6, <1>8 DEF Application
<1> QED
  BY <1>7, <1>8 DEF Next

\* A step that changes nothing keeps it too.
LEMMA StutterParts ==
  ASSUME Parts, UNCHANGED vars
  PROVE  Parts'
<1>0. UNCHANGED <<link, slab, vacant, by_name, by_in, close_pending, control, frames, wire, backlog, failure>>
  BY DEF vars, tables
<1>1. stage' = stage /\ me' = me /\ called' = called /\ held' = held /\ parted' = parted /\ clean' = clean
  BY <1>0 DEF stage, me, called, held, parted, clean
<1>2. known' = known /\ past' = past /\ mate' = mate
  BY <1>0, <1>1 DEF known, past, Upto, mate
<1>3. awaited' = awaited /\ asks' = asks /\ answers' = answers
  BY <1>0, <1>1, <1>2, SameAwaited, SameAnswers
<1>4. Typed' /\ Shaped'
  BY <1>0, <1>1, <1>2, <1>3 DEF Parts, Typed, Shaped
<1>5. Requests' /\ Vacant' /\ Slots' /\ Reached' /\ Named' /\ Registered' /\ Pending'
  <2>1. UNCHANGED <<tables, control>>
    BY DEF vars
  <2> QED
    BY <2>1, <1>1, SameTables
<1>6. Holders'
  BY <1>0, <1>1 DEF Parts, Holders
<1>10. Asks'
  BY <1>0, <1>1, <1>2, <1>3 DEF Parts, Asks
<1>11. Mates'
  BY <1>0, <1>1, <1>2, <1>3 DEF Parts, Mates
<1>12. Replies'
  BY <1>0, <1>1, <1>2, <1>3 DEF Parts, Replies
<1>13. Detaching'
  BY <1>0, <1>1, <1>2, <1>3 DEF Parts, Detaching
<1>14. ToListener'
  BY <1>0, <1>1, <1>2, <1>3 DEF Parts, ToListener
<1>15. ToClient'
  BY <1>0, <1>1, <1>2, <1>3 DEF Parts, ToClient
<1>16. Inboxes'
  BY <1>0, <1>1, <1>2, <1>3 DEF Parts, Inboxes
<1> QED
  BY <1>4, <1>5, <1>6, <1>10, <1>11, <1>12, <1>13, <1>14, <1>15, <1>16 DEF Parts

\* For any number of endpoints at either peer, any names, any calls of the applications
\* and any number of resumptions: as long as no mishap has happened, names, handles,
\* relays, queues and frames on the wire of the two sessions agree as Parts says.
THEOREM LinkInvariant == Spec => []LinkInv
<1>1. Init => LinkInv
  BY InitParts DEF LinkInv
<1>2. LinkInv /\ [Next]_vars => LinkInv'
  <2> SUFFICES ASSUME LinkInv, [Next]_vars, mishap' = {}
               PROVE  Parts'
    BY DEF LinkInv
  <2>1. CASE Next
    <3>1. mishap = {}
      BY <2>1, MishapsStay
    <3> QED
      BY <2>1, <3>1, StepParts DEF LinkInv
  <2>2. CASE UNCHANGED vars
    <3>1. mishap = {}
      BY <2>2 DEF vars
    <3> QED
      BY <2>2, <3>1, StutterParts DEF LinkInv
  <2> QED
    BY <2>1, <2>2
<1> QED
  BY <1>1, <1>2, PTL DEF Spec

-----------------------------------------------------------------------------
(* What the invariant is for.                                              *)

\* The listener's link and the link it answers.
LEMMA PeerOfListener ==
  ASSUME Parts, NEW e \in End(Listener), link[<<Listener, e>>].pc # "idle"
  PROVE  mate[me[<<Listener, e>>]] = link[<<Listener, e>>].peer /\ link[<<Listener, e>>].peer # Nobody
<1> DEFINE x == <<Listener, e>>
<1>0. Listener \in Peer /\ x \in Endpoint /\ x[1] = Listener
  BY Peers, Endpoints
<1>1. Shape(x, link[x]) /\ link[x] \in LinkRecord /\ me[x] = <<e, link[x].life>> /\ me[x] \in Attachment
  BY <1>0, LinkFields, Abbreviated DEF Parts, Shaped
<1>2. link[x].pc # "idle" /\ link[x].life = 1
  <2>1. link[x].pc # "idle"
    OBVIOUS
  <2> HIDE DEF x
  <2>2. link[x].life # 0 /\ link[x].life <= 1
    BY <2>1, <1>0, <1>1 DEF Shape
  <2>3. link[x].life \in Nat
    BY <1>1 DEF LinkRecord
  <2> QED
    BY <2>1, <2>2, <2>3
<1>3. mate[me[x]] = link[x].peer
  <2>1. me[x][1] = e /\ me[x][2] = 1
    BY <1>1, <1>2
  <2> QED
    BY <1>1, <2>1 DEF mate
<1>4. stage[x] # "idle"
  <2> HIDE DEF x
  <2> QED
    BY <1>0, <1>2 DEF stage
<1> QED
  BY <1>3, <1>4 DEF Parts, Mates

\* A slot, once everything has been sent, is held by a link that is up.
LEMMA SlotHeld ==
  ASSUME Parts, Quiet, NEW p \in Peer, NEW h \in Handle, slab[p][h] # Nobody
  PROVE  \E e \in End(p) : /\ slab[p][h] = me[<<p, e>>] /\ slab[p][h][1] = e /\ link[<<p, e>>].pc = "up"
                           /\ link[<<p, e>>].handle = h /\ stage[<<p, e>>] = "heard" /\ <<p, e>> \notin parted
<1>1. PICK e \in End(p) : slab[p][h] = me[<<p, e>>]
  BY DEF Parts, Slots
<1> DEFINE x == <<p, e>>
<1>2. x \in Endpoint /\ me[x] = <<e, link[x].life>> /\ x \notin parted
  BY <1>1, Endpoints, Abbreviated DEF Parts, Slots
<1>3. held[x] = h
  <2>1. Len(frames[p]) = 0
    BY DEF Quiet
  <2> QED
    BY <1>1, <2>1 DEF Parts, Holders
<1>4. link[x].pc \in {"allocated", "attaching", "up"} /\ link[x].handle = h
  <2>1. h # NoHandle
    BY Handles
  <2> HIDE DEF x
  <2> QED
    BY <1>2, <1>3, <2>1 DEF held
<1>5. link[x].pc = "up"
  BY <1>2, <1>4 DEF Quiet, InUse
<1>6. stage[x] = "heard"
  <2> HIDE DEF x
  <2> QED
    BY <1>2, <1>5 DEF stage
<1>7. slab[p][h][1] = e
  BY <1>1, <1>2
<1> QED
  BY <1>1, <1>2, <1>4, <1>5, <1>6, <1>7

\* And it leads to the other end of the link, which is up too.
LEMMA OtherEnd ==
  ASSUME Parts, Quiet
  PROVE  /\ \A g \in Handle : by_in[Client][g].who # Nobody =>
              \E e \in End(Listener) : /\ mate[me[<<Listener, e>>]] = by_in[Client][g].who /\ slab[Listener][g] = me[<<Listener, e>>]
                                       /\ link[<<Listener, e>>].pc = "up" /\ <<Listener, e>> \notin parted
         /\ \A g \in Handle : by_in[Listener][g].who # Nobody =>
              \E c \in End(Client) : /\ mate[by_in[Listener][g].who] = me[<<Client, c>>] /\ slab[Client][g] = me[<<Client, c>>]
                                     /\ link[<<Client, c>>].pc = "up" /\ <<Client, c>> \notin parted /\ stage[<<Client, c>>] = "heard"
<1>0. Client \in Peer /\ Listener \in Peer
  BY Peers
<1>1. Len(wire[Client]) = 0 /\ Len(wire[Listener]) = 0
  BY <1>0 DEF Quiet
<1>2. ASSUME NEW g \in Handle, by_in[Client][g].who # Nobody
      PROVE  \E e \in End(Listener) : /\ mate[me[<<Listener, e>>]] = by_in[Client][g].who /\ slab[Listener][g] = me[<<Listener, e>>]
                                      /\ link[<<Listener, e>>].pc = "up" /\ <<Listener, e>> \notin parted
  <2>1. PICK b \in Attachment : mate[b] = by_in[Client][g].who /\ slab[Listener][g] = b
    BY <1>1, <1>2 DEF Parts, ToClient
  <2>2. b # Nobody
    <3>1. Nobody[2] # 1
      BY DEF Nobody
    <3>2. Nobody \in Attachment => mate[Nobody] = Nobody
      BY <3>1 DEF mate
    <3> QED
      BY <2>1, <3>2, <1>2
  <2>3. slab[Listener][g] # Nobody
    BY <2>1, <2>2
  <2>4. PICK e \in End(Listener) : slab[Listener][g] = me[<<Listener, e>>] /\ link[<<Listener, e>>].pc = "up" /\ <<Listener, e>> \notin parted
    BY <2>3, <1>0, SlotHeld
  <2> QED
    BY <2>1, <2>4
<1>3. ASSUME NEW g \in Handle, by_in[Listener][g].who # Nobody
      PROVE  \E c \in End(Client) : /\ mate[by_in[Listener][g].who] = me[<<Client, c>>] /\ slab[Client][g] = me[<<Client, c>>]
                                    /\ link[<<Client, c>>].pc = "up" /\ <<Client, c>> \notin parted /\ stage[<<Client, c>>] = "heard"
  <2>1. slab[Client][g] = mate[by_in[Listener][g].who]
    BY <1>1, <1>3 DEF Parts, ToListener
  <2>2. PICK e \in End(Listener) : by_in[Listener][g].who = me[<<Listener, e>>] /\ stage[<<Listener, e>>] # "idle"
    BY <1>0, <1>3 DEF Parts, Registered
  <2>3. mate[me[<<Listener, e>>]] # Nobody
    BY <2>2 DEF Parts, Mates
  <2>4. slab[Client][g] # Nobody
    BY <2>1, <2>2, <2>3
  <2>5. PICK c \in End(Client) : /\ slab[Client][g] = me[<<Client, c>>] /\ slab[Client][g][1] = c /\ link[<<Client, c>>].pc = "up"
                                 /\ link[<<Client, c>>].handle = g /\ stage[<<Client, c>>] = "heard" /\ <<Client, c>> \notin parted
    BY <2>4, <1>0, SlotHeld
  <2> QED
    BY <2>1, <2>5
<1> QED
  BY <1>2, <1>3

\* So nothing is left behind once all is quiet.
LEMMA QuietParts ==
  ASSUME Parts, Quiet
  PROVE  \A p \in Peer :
            /\ close_pending[p] = {}
            /\ \A h \in Handle : slab[p][h] # Nobody =>
                 /\ link[<<p, slab[p][h][1]>>].pc = "up" /\ link[<<p, slab[p][h][1]>>].handle = h
                 /\ link[<<Other(p), link[<<p, slab[p][h][1]>>].peer[1]>>].pc = "up"
<1>0. Client \in Peer /\ Listener \in Peer /\ Other(Client) = Listener /\ Other(Listener) = Client
  BY Peers
<1>1. \A b, b2 \in Attachment : mate[b] # Nobody /\ mate[b2] = mate[b] => b2 = b
  BY DEF Parts, Mates
<1>2. ASSUME NEW p \in Peer, NEW h \in close_pending[p]
      PROVE  FALSE
  <2>1. PICK g \in Handle, e \in End(p) : by_in[p][g].who = me[<<p, e>>] /\ <<p, e>> \in parted
    BY DEF Parts, Pending
  <2>2. me[<<p, e>>] # Nobody /\ me[<<p, e>>] \in Attachment
    BY Abbreviated DEF Parts
  <2>3. CASE p = Client
    <3>1. by_in[Client][g].who # Nobody
      BY <2>1, <2>2, <2>3
    <3>2. PICK d \in End(Listener) : mate[me[<<Listener, d>>]] = by_in[Client][g].who /\ slab[Listener][g] = me[<<Listener, d>>]
      BY <3>1, OtherEnd
    <3>3. PICK k \in Handle : by_in[Listener][k].who = me[<<Listener, d>>]
      BY <3>2, <1>0, Peers DEF Parts, Reached
    <3>4. by_in[Listener][k].who # Nobody
      <4>1. me[<<Listener, d>>] # Nobody
        BY <1>0, Abbreviated DEF Parts
      <4> QED
        BY <3>3, <4>1
    <3>5. PICK c \in End(Client) : mate[by_in[Listener][k].who] = me[<<Client, c>>] /\ <<Client, c>> \notin parted
      BY <3>4, OtherEnd
    <3>6. me[<<Client, c>>] = me[<<Client, e>>]
      BY <3>2, <3>3, <3>5, <2>1, <2>3
    <3>7. c = e
      BY <3>6, <2>3, <1>0, Abbreviated DEF Parts
    <3> QED
      BY <3>5, <3>7, <2>1, <2>3
  <2>4. CASE p = Listener
    <3>1. by_in[Listener][g].who # Nobody
      BY <2>1, <2>2, <2>4
    <3>2. PICK c \in End(Client) : /\ mate[by_in[Listener][g].who] = me[<<Client, c>>] /\ slab[Client][g] = me[<<Client, c>>]
                                   /\ stage[<<Client, c>>] = "heard"
      BY <3>1, OtherEnd
    <3>3. PICK k \in Handle : by_in[Client][k].who = me[<<Client, c>>]
      BY <3>2, <1>0 DEF Parts, Reached
    <3>4. me[<<Client, c>>] # Nobody
      BY <1>0, Abbreviated DEF Parts
    <3>5. PICK d \in End(Listener) : mate[me[<<Listener, d>>]] = by_in[Client][k].who /\ <<Listener, d>> \notin parted
      BY <3>3, <3>4, OtherEnd
    <3>6. me[<<Listener, d>>] \in Attachment
      BY <1>0, Abbreviated DEF Parts
    <3>7. mate[me[<<Listener, d>>]] = mate[me[<<Listener, e>>]]
      BY <3>2, <3>3, <3>5, <2>1, <2>4
    <3>8. me[<<Listener, d>>] = me[<<Listener, e>>]
      BY <3>3, <3>4, <3>5, <3>6, <3>7, <2>2, <2>4, <1>1
    <3>9. d = e
      BY <3>8, <2>4, <1>0, Abbreviated DEF Parts
    <3> QED
      BY <3>5, <3>9, <2>1, <2>4
  <2> QED
    BY <2>3, <2>4, Peers
<1>3. ASSUME NEW p \in Peer, NEW h \in Handle, slab[p][h] # Nobody
      PROVE  /\ link[<<p, slab[p][h][1]>>].pc = "up" /\ link[<<p, slab[p][h][1]>>].handle = h
             /\ link[<<Other(p), link[<<p, slab[p][h][1]>>].peer[1]>>].pc = "up"
  <2>1. PICK e \in End(p) : /\ slab[p][h] = me[<<p, e>>] /\ slab[p][h][1] = e /\ link[<<p, e>>].pc = "up"
                            /\ link[<<p, e>>].handle = h /\ stage[<<p, e>>] = "heard"
    BY <1>3, SlotHeld
  <2>2. PICK g \in Handle : by_in[p][g].who = me[<<p, e>>]
    BY <2>1 DEF Parts, Reached
  <2>3. me[<<p, e>>] # Nobody /\ link[<<p, e>>].peer \in Attachment
    BY Abbreviated, LinkFields DEF Parts
  <2>4. link[<<Other(p), link[<<p, e>>].peer[1]>>].pc = "up"
    <3>1. CASE p = Client
      <4>1. by_in[Client][g].who # Nobody
        BY <3>1, <2>2, <2>3
      <4>2. PICK d \in End(Listener) : mate[me[<<Listener, d>>]] = by_in[Client][g].who /\ link[<<Listener, d>>].pc = "up"
        BY <4>1, OtherEnd
      <4>3. mate[link[<<Client, e>>].peer] = me[<<Client, e>>]
        BY <3>1, <2>1 DEF Parts, Inboxes
      <4>4. me[<<Listener, d>>] \in Attachment /\ me[<<Listener, d>>] = <<d, link[<<Listener, d>>].life>>
        BY <1>0, Abbreviated DEF Parts
      <4>5. link[<<Client, e>>].peer = me[<<Listener, d>>]
        BY <4>1, <4>2, <4>3, <4>4, <3>1, <2>2, <2>3, <1>1
      <4>6. link[<<Client, e>>].peer[1] = d
        BY <4>4, <4>5
      <4> QED
        BY <4>2, <4>6, <3>1, <1>0
    <3>2. CASE p = Listener
      <4>1. by_in[Listener][g].who # Nobody
        BY <3>2, <2>2, <2>3
      <4>2. PICK c \in End(Client) : mate[by_in[Listener][g].who] = me[<<Client, c>>] /\ link[<<Client, c>>].pc = "up"
        BY <4>1, OtherEnd
      <4>3. mate[me[<<Listener, e>>]] = link[<<Listener, e>>].peer
        BY <3>2, <2>1, PeerOfListener
      <4>4. link[<<Listener, e>>].peer = me[<<Client, c>>]
        BY <4>2, <4>3, <3>2, <2>2
      <4>5. me[<<Client, c>>] = <<c, link[<<Client, c>>].life>>
        BY <1>0, Abbreviated DEF Parts
      <4>6. link[<<Listener, e>>].peer[1] = c
        BY <4>4, <4>5
      <4> QED
        BY <4>2, <4>6, <3>2, <1>0
    <3> QED
      BY <3>1, <3>2, Peers
  <2> QED
    BY <2>1, <2>4
<1> QED
  BY <1>2, <1>3

\* What is in a channel comes from the partner.
LEMMA ReachedParts ==
  ASSUME Parts, NEW x \in Endpoint, NEW i \in DOMAIN link[x].inbox, NEW f, f = link[x].inbox[i]
  PROVE  /\ f.type = "Attach" => link[<<Other(x[1]), f.from[1]>>].name = link[x].name
         /\ (f.type = "Detach" /\ link[x].pc \in {"up", "waiting", "reclosing", "refused"}) => f.from = link[x].peer
<1>0. Client \in Peer /\ Listener \in Peer /\ Other(Client) = Listener /\ Other(Listener) = Client
  BY Peers
<1>1. x[1] \in Peer /\ x[2] \in End(x[1]) /\ x = <<x[1], x[2]>>
  BY Endpoints
<1>2. link[x].inbox \in Seq(Frame) /\ link[x].peer \in Attachment
  BY <1>1, LinkFields DEF Parts
<1>3. i \in 1 .. Len(link[x].inbox) /\ f \in Frame
  BY <1>2
<1>4. f.from \in Attachment
  BY <1>3 DEF Frame
<1>5. CASE x[1] = Client
  <2> DEFINE c == x[2]
  <2>1. x = <<Client, c>> /\ c \in End(Client)
    BY <1>1, <1>5
  <2> HIDE DEF c
  <2>2. /\ mate[f.from] = me[<<Client, c>>]
        /\ f.type = "Attach" => called[<<Listener, f.from[1]>>] = called[<<Client, c>>]
        /\ link[<<Client, c>>].pc \in {"up", "waiting", "refused"} => mate[link[<<Client, c>>].peer] = me[<<Client, c>>]
    BY <2>1, <1>3 DEF Parts, Inboxes
  <2>3. me[<<Client, c>>] # Nobody
    BY <2>1, <1>0, Abbreviated DEF Parts
  <2>4. f.type = "Attach" => link[<<Listener, f.from[1]>>].name = link[<<Client, c>>].name
    <3>1. f.from[1] \in End(Listener)
      BY <2>2, <2>3, <1>4 DEF mate
    <3>2. <<Listener, f.from[1]>> \in Endpoint /\ <<Client, c>> \in Endpoint
      BY <3>1, <2>1, <1>0, Endpoints
    <3> QED
      BY <2>2, <3>2 DEF called
  <2>5. link[<<Client, c>>].pc # "reclosing"
    BY <2>1 DEF Parts, Shaped, Shape
  <2>6. link[<<Client, c>>].pc \in {"up", "waiting", "refused"} => f.from = link[<<Client, c>>].peer
    BY <2>1, <2>2, <2>3, <1>2, <1>4 DEF Parts, Mates
  <2> QED
    BY <2>1, <2>4, <2>5, <2>6, <1>0, <1>5
<1>6. CASE x[1] = Listener
  <2> DEFINE e == x[2]
  <2>1. x = <<Listener, e>> /\ e \in End(Listener)
    BY <1>1, <1>6
  <2> HIDE DEF e
  <2>2. f.type = "Detach" /\ f.from = mate[me[<<Listener, e>>]]
    BY <2>1, <1>3 DEF Parts, Inboxes
  <2>3. link[<<Listener, e>>].pc # "idle" => f.from = link[<<Listener, e>>].peer
    BY <2>1, <2>2, PeerOfListener
  <2> QED
    BY <2>1, <2>2, <2>3
<1> QED
  BY <1>1, <1>5, <1>6, Peers

\* No exchange of attaches, detaches and closes ends the session, whatever crosses
\* (session/mod.rs on_incoming_attach, session/engine.rs on_control): a session that has
\* failed has seen a mishap first (one of the six LinkLifecycle lists, a resumption of a closed
\* link and one by resume_incoming_attach among them).
THEOREM SessionsSurvive == Spec => []SessionSurvives
<1>1. LinkInv => SessionSurvives
  BY DEF LinkInv, Parts, Typed, SessionSurvives, Fine
<1> QED
  BY <1>1, LinkInvariant, PTL

\* What a link finds in its channel was sent by the link it is attached to
\* (link_by_name, link_by_input_handle), although names and handles have been used before.
THEOREM FramesReachPartner == Spec => []ReachesPartner
<1>1. LinkInv => ReachesPartner
  <2> SUFFICES ASSUME Parts, NEW x \in Endpoint, NEW i \in DOMAIN link[x].inbox
               PROVE  /\ link[x].inbox[i].type = "Attach" => link[<<Other(x[1]), link[x].inbox[i].from[1]>>].name = link[x].name
                      /\ (link[x].inbox[i].type = "Detach" /\ link[x].pc \in {"up", "waiting", "reclosing", "refused"}) =>
                           link[x].inbox[i].from = link[x].peer
    BY DEF LinkInv, ReachesPartner
  <2> QED
    BY ReachedParts
<1> QED
  BY <1>1, LinkInvariant, PTL

\* When all is quiet every handle is vacant or held by a link that is up at both ends, and
\* no answer to a Detach is awaited (close_pending).
THEOREM NothingIsLeftBehind == Spec => []NothingLeftBehind
<1>1. LinkInv => NothingLeftBehind
  BY QuietParts DEF LinkInv, NothingLeftBehind
<1> QED
  BY <1>1, LinkInvariant, PTL
=============================================================================
