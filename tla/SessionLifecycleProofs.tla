----------------------- MODULE SessionLifecycleProofs -----------------------
(***************************************************************************)
(* Proofs about SessionLifecycle, for any number of sessions, channels and *)
(* buffers, and any frames and ends the links and applications ask for:    *)
(* channels are never shared nor lost, and every frame reaches the session *)
(* it was sent to, although channel numbers are used again.  Without a     *)
(* cause that the property names, nothing a session sends reaches a        *)
(* connection that has not heard of it yet or has forgotten it, so that    *)
(* sessions come and go without an error of the connection.                *)
(***************************************************************************)
EXTENDS SessionLifecycle, TLAPS

-----------------------------------------------------------------------------
(* What a direction of the connection holds.                               *)

\* The frames of q's sessions on their way to the other side.
Pipe(q) == wire[q] \o outgoing[q]

BeginOf(f, s) == f.type = "begin" /\ f.s = s
HasBegin(P, s) == \E i \in 1 .. Len(P) : BeginOf(P[i], s)
Once(P, s) == \A i, j \in 1 .. Len(P) : BeginOf(P[i], s) /\ BeginOf(P[j], s) => i = j
HasEnd(P) == \E i \in 1 .. Len(P) : P[i].type = "end"
EndOn(f, c) == f.type = "end" /\ f.ch = c

\* Behind the begin of a session no other session uses the channel before an end.
Separated(P) ==
  \A i, j \in 1 .. Len(P) :
    i < j /\ P[i].type = "begin" /\ P[j].ch = P[i].ch /\ P[j].s # P[i].s =>
      \E k \in 1 .. Len(P) : i < k /\ k < j /\ EndOn(P[k], P[i].ch)

\* The receiver, whose map is bi, has forgotten a session by the time that frames of
\* another one arrive on the channel.
Inbound(P, bi) ==
  \A j \in 1 .. Len(P) : bi[P[j].ch] \notin {NoSession, P[j].s} =>
    \E k \in 1 .. Len(P) : k < j /\ EndOn(P[k], P[j].ch)

\* Only s may use the channel c: any other session that does is ended by what follows.
Clean(P, bi, c, s) ==
  /\ \A i \in 1 .. Len(P) : P[i].type = "begin" /\ P[i].ch = c /\ P[i].s # s =>
       \E k \in 1 .. Len(P) : i < k /\ EndOn(P[k], c)
  /\ bi[c] \notin {NoSession, s} => \E k \in 1 .. Len(P) : EndOn(P[k], c)

\* A sequence with one frame more.
LEMMA Appended ==
  ASSUME NEW S, NEW P \in Seq(S), NEW f \in S
  PROVE  /\ Append(P, f) \in Seq(S) /\ Len(P) \in Nat
         /\ Len(Append(P, f)) = Len(P) + 1 /\ Append(P, f)[Len(P) + 1] = f
         /\ \A i \in 1 .. Len(P) : Append(P, f)[i] = P[i]
OBVIOUS

\* A sequence without its first frame.
LEMMA Dropped ==
  ASSUME NEW S, NEW P \in Seq(S), P # <<>>
  PROVE  /\ Tail(P) \in Seq(S) /\ Len(P) \in Nat /\ Len(P) >= 1
         /\ Len(Tail(P)) = Len(P) - 1 /\ Head(P) = P[1] /\ Head(P) \in S
         /\ \A i \in 1 .. Len(P) - 1 : Tail(P)[i] = P[i + 1]
OBVIOUS

\* A frame of the session that the channel is clean for may follow.
LEMMA CleanAppend ==
  ASSUME NEW S, NEW P \in Seq(S), NEW f \in S, NEW bi,
         Separated(P), Inbound(P, bi), Clean(P, bi, f.ch, f.s)
  PROVE  /\ Separated(Append(P, f)) /\ Inbound(Append(P, f), bi)
         /\ \A c, s : Clean(P, bi, c, s) /\ (f.type = "begin" /\ f.ch = c => f.s = s) =>
              Clean(Append(P, f), bi, c, s)
         /\ f.type = "end" => \A s : Clean(Append(P, f), bi, f.ch, s)
<1> DEFINE Q == Append(P, f)
           n == Len(P)
<1>1. n \in Nat /\ Len(Q) = n + 1 /\ Q[n + 1] = f /\ \A i \in 1 .. n : Q[i] = P[i]
  BY Appended
<1> HIDE DEF Q, n
<1>2. \A i \in 1 .. Len(Q) : (i \in 1 .. n /\ Q[i] = P[i]) \/ (i = n + 1 /\ Q[i] = f)
  BY <1>1
<1>3. \A k \in 1 .. n : k \in 1 .. Len(Q) /\ Q[k] = P[k] /\ k < n + 1
  BY <1>1
<1>4. n + 1 \in 1 .. Len(Q)
  BY <1>1
<1>5. Separated(Q)
  <2> SUFFICES ASSUME NEW i \in 1 .. Len(Q), NEW j \in 1 .. Len(Q), i < j, Q[i].type = "begin",
                      Q[j].ch = Q[i].ch, Q[j].s # Q[i].s
               PROVE  \E k \in 1 .. Len(Q) : i < k /\ k < j /\ EndOn(Q[k], Q[i].ch)
    BY DEF Separated
  <2>1. i \in 1 .. n /\ Q[i] = P[i]
    BY <1>1, <1>2
  <2>2. CASE j = n + 1
    <3>1. \E k \in 1 .. n : i < k /\ EndOn(P[k], f.ch)
      BY <1>1, <2>1, <2>2 DEF Clean, n
    <3> QED
      BY <1>1, <1>3, <2>1, <2>2, <3>1
  <2>3. CASE j \in 1 .. n
    <3>1. \E k \in 1 .. n : i < k /\ k < j /\ EndOn(P[k], P[i].ch)
      BY <1>1, <2>1, <2>3 DEF Separated, n
    <3> QED
      BY <1>3, <2>1, <3>1
  <2> QED
    BY <1>2, <2>2, <2>3
<1>6. Inbound(Q, bi)
  <2> SUFFICES ASSUME NEW j \in 1 .. Len(Q), bi[Q[j].ch] \notin {NoSession, Q[j].s}
               PROVE  \E k \in 1 .. Len(Q) : k < j /\ EndOn(Q[k], Q[j].ch)
    BY DEF Inbound
  <2>1. CASE j = n + 1
    <3>1. \E k \in 1 .. n : EndOn(P[k], f.ch)
      BY <1>1, <2>1 DEF Clean, n
    <3> QED
      BY <1>1, <1>3, <2>1, <3>1
  <2>2. CASE j \in 1 .. n
    <3>1. \E k \in 1 .. n : k < j /\ EndOn(P[k], P[j].ch)
      BY <1>1, <2>2 DEF Inbound, n
    <3> QED
      BY <1>1, <1>3, <2>2, <3>1
  <2> QED
    BY <1>2, <2>1, <2>2
<1>7. ASSUME NEW c, NEW s, Clean(P, bi, c, s), f.type = "begin" /\ f.ch = c => f.s = s
      PROVE  Clean(Q, bi, c, s)
  <2>1. ASSUME NEW i \in 1 .. Len(Q), Q[i].type = "begin", Q[i].ch = c, Q[i].s # s
        PROVE  \E k \in 1 .. Len(Q) : i < k /\ EndOn(Q[k], c)
    <3>1. i \in 1 .. n /\ Q[i] = P[i]
      BY <1>2, <1>7, <2>1
    <3>2. \E k \in 1 .. n : i < k /\ EndOn(P[k], c)
      BY <1>7, <2>1, <3>1 DEF Clean, n
    <3> QED
      BY <1>3, <3>2
  <2>2. ASSUME bi[c] \notin {NoSession, s}
        PROVE  \E k \in 1 .. Len(Q) : EndOn(Q[k], c)
    <3>1. \E k \in 1 .. n : EndOn(P[k], c)
      BY <1>7, <2>2 DEF Clean, n
    <3> QED
      BY <1>3, <3>1
  <2> QED
    BY <2>1, <2>2 DEF Clean
<1>8. ASSUME f.type = "end", NEW s
      PROVE  Clean(Q, bi, f.ch, s)
  <2>1. EndOn(Q[n + 1], f.ch)
    BY <1>1, <1>8 DEF EndOn
  <2>2. \A i \in 1 .. Len(Q) : Q[i].type = "begin" => i < n + 1
    BY <1>1, <1>2, <1>8
  <2> QED
    BY <1>4, <2>1, <2>2 DEF Clean
<1> QED
  BY <1>5, <1>6, <1>7, <1>8 DEF Q

\* The first frame is taken: a begin enters its session into the receiver's map, an end
\* forgets the session (there is none to forget when the receiver fails on it).
LEMMA CleanTake ==
  ASSUME NEW S, NEW P \in Seq(S), P # <<>>, NEW C, NEW bi, NEW bj,
         Separated(P), Inbound(P, bi),
         \A c \in C : c # Head(P).ch => bj[c] = bi[c],
         \/ Head(P).type = "begin" /\ bj[Head(P).ch] = Head(P).s
         \/ Head(P).type = "end" /\ bj[Head(P).ch] = NoSession
         \/ Head(P).type # "end" /\ bj[Head(P).ch] = bi[Head(P).ch],
         \A i \in 1 .. Len(P) : P[i].ch \in C
  PROVE  /\ Separated(Tail(P)) /\ Inbound(Tail(P), bj)
         /\ \A c \in C : \A s : Clean(P, bi, c, s) => Clean(Tail(P), bj, c, s)
<1> DEFINE Q == Tail(P)
           n == Len(P)
           h == Head(P)
<1>1. /\ n \in Nat /\ n >= 1 /\ Len(Q) = n - 1 /\ h = P[1]
      /\ \A i \in 1 .. n - 1 : Q[i] = P[i + 1]
  BY Dropped
<1> HIDE DEF Q, n, h
<1>2. \A i \in 1 .. Len(Q) : i + 1 \in 1 .. n /\ Q[i] = P[i + 1] /\ 1 < i + 1
  BY <1>1
<1>3. \A k \in 1 .. n : k # 1 => k - 1 \in 1 .. Len(Q) /\ Q[k - 1] = P[k]
  BY <1>1
<1>4. 1 \in 1 .. n /\ h.ch \in C
  BY <1>1 DEF n
<1>5. Separated(Q)
  <2> SUFFICES ASSUME NEW i \in 1 .. Len(Q), NEW j \in 1 .. Len(Q), i < j, Q[i].type = "begin",
                      Q[j].ch = Q[i].ch, Q[j].s # Q[i].s
               PROVE  \E k \in 1 .. Len(Q) : i < k /\ k < j /\ EndOn(Q[k], Q[i].ch)
    BY DEF Separated
  <2>1. i + 1 \in 1 .. n /\ j + 1 \in 1 .. n /\ i + 1 < j + 1 /\ Q[i] = P[i + 1] /\ Q[j] = P[j + 1]
    BY <1>1, <1>2
  <2>2. PICK k \in 1 .. n : i + 1 < k /\ k < j + 1 /\ EndOn(P[k], P[i + 1].ch)
    BY <2>1 DEF Separated, n
  <2>3. k # 1 /\ i < k - 1 /\ k - 1 < j
    BY <1>1, <2>2, SMTT(30)
  <2> QED
    BY <1>3, <2>1, <2>2, <2>3
<1>6. ASSUME NEW c \in C, NEW s, bj[c] \notin {NoSession, s}
      PROVE  \/ c = h.ch /\ h.type = "begin" /\ bj[c] = h.s
             \/ bj[c] = bi[c] /\ ~EndOn(h, c)
  BY <1>6 DEF h, EndOn
<1>7. Inbound(Q, bj)
  <2> SUFFICES ASSUME NEW j \in 1 .. Len(Q), bj[Q[j].ch] \notin {NoSession, Q[j].s}
               PROVE  \E k \in 1 .. Len(Q) : k < j /\ EndOn(Q[k], Q[j].ch)
    BY DEF Inbound
  <2> DEFINE c == Q[j].ch
  <2>1. j + 1 \in 1 .. n /\ Q[j] = P[j + 1] /\ c \in C /\ 1 < j + 1
    BY <1>2 DEF n
  <2>2. PICK k \in 1 .. n : k # 1 /\ k < j + 1 /\ EndOn(P[k], c)
    <3>1. CASE c = h.ch /\ h.type = "begin" /\ bj[c] = h.s
      <4>1. \E k \in 1 .. n : 1 < k /\ k < j + 1 /\ EndOn(P[k], P[1].ch)
        BY <1>1, <1>4, <2>1, <3>1 DEF Separated, n
      <4> QED
        BY <1>1, <3>1, <4>1
    <3>2. CASE bj[c] = bi[c] /\ ~EndOn(h, c)
      <4>1. \E k \in 1 .. n : k < j + 1 /\ EndOn(P[k], P[j + 1].ch)
        BY <2>1, <3>2 DEF Inbound, n
      <4> QED
        BY <1>1, <2>1, <3>2, <4>1
    <3> QED
      BY <1>6, <2>1, <3>1, <3>2
  <2>3. k - 1 < j
    BY <1>1, <2>2
  <2> QED
    BY <1>3, <2>2, <2>3
<1>8. ASSUME NEW c \in C, NEW s, Clean(P, bi, c, s)
      PROVE  Clean(Q, bj, c, s)
  <2>1. ASSUME NEW i \in 1 .. Len(Q), Q[i].type = "begin", Q[i].ch = c, Q[i].s # s
        PROVE  \E k \in 1 .. Len(Q) : i < k /\ EndOn(Q[k], c)
    <3>1. i + 1 \in 1 .. n /\ Q[i] = P[i + 1]
      BY <1>2
    <3>2. PICK k \in 1 .. n : i + 1 < k /\ EndOn(P[k], c)
      BY <1>8, <2>1, <3>1 DEF Clean, n
    <3>3. k # 1 /\ i < k - 1
      BY <1>1, <3>2
    <3> QED
      BY <1>3, <3>2, <3>3
  <2>2. ASSUME bj[c] \notin {NoSession, s}
        PROVE  \E k \in 1 .. Len(Q) : EndOn(Q[k], c)
    <3>1. PICK k \in 1 .. n : k # 1 /\ EndOn(P[k], c)
      <4>1. CASE c = h.ch /\ h.type = "begin" /\ bj[c] = h.s
        <5>1. \E k \in 1 .. n : 1 < k /\ EndOn(P[k], c)
          BY <1>1, <1>4, <1>8, <2>2, <4>1 DEF Clean, n
        <5> QED
          BY <5>1
      <4>2. CASE bj[c] = bi[c] /\ ~EndOn(h, c)
        <5>1. \E k \in 1 .. n : EndOn(P[k], c)
          BY <1>8, <2>2, <4>2 DEF Clean, n
        <5> QED
          BY <1>1, <4>2, <5>1
      <4> QED
        BY <1>6, <2>2, <4>1, <4>2
    <3> QED
      BY <1>3, <3>1
  <2> QED
    BY <2>1, <2>2 DEF Clean
<1> QED
  BY <1>5, <1>7, <1>8 DEF Q

\* Begins in a sequence that grows, shrinks or is cleared.
LEMMA BeginAppend ==
  ASSUME NEW S, NEW P \in Seq(S), NEW f \in S, NEW s
  PROVE  /\ HasBegin(Append(P, f), s) => HasBegin(P, s) \/ BeginOf(f, s)
         /\ (BeginOf(f, s) => ~HasBegin(P, s)) /\ Once(P, s) => Once(Append(P, f), s)
<1> DEFINE Q == Append(P, f)
           n == Len(P)
<1>1. n \in Nat /\ Len(Q) = n + 1 /\ Q[n + 1] = f /\ \A i \in 1 .. n : Q[i] = P[i]
  BY Appended
<1> HIDE DEF Q, n
<1>2. \A i \in 1 .. Len(Q) : (i \in 1 .. n /\ Q[i] = P[i]) \/ (i = n + 1 /\ Q[i] = f)
  BY <1>1
<1>3. HasBegin(Q, s) => HasBegin(P, s) \/ BeginOf(f, s)
  BY <1>2 DEF HasBegin, n
<1>4. (BeginOf(f, s) => ~HasBegin(P, s)) /\ Once(P, s) => Once(Q, s)
  BY <1>2 DEF HasBegin, Once, n
<1> QED
  BY <1>3, <1>4 DEF Q

\* Taking the head of a pipe takes at most the one Begin of a session out of it.
LEMMA BeginTake ==
  ASSUME NEW S, NEW P \in Seq(S), P # <<>>, NEW s
  PROVE  /\ HasBegin(Tail(P), s) => HasBegin(P, s)
         /\ Once(P, s) => Once(Tail(P), s)
         /\ Once(P, s) /\ BeginOf(Head(P), s) => ~HasBegin(Tail(P), s)
         /\ BeginOf(Head(P), s) => HasBegin(P, s)
<1> DEFINE Q == Tail(P)
           n == Len(P)
           h == Head(P)
<1>1. /\ n \in Nat /\ n >= 1 /\ Len(Q) = n - 1 /\ h = P[1]
      /\ \A i \in 1 .. n - 1 : Q[i] = P[i + 1]
  BY Dropped
<1> HIDE DEF Q, n, h
<1>2. \A i \in 1 .. Len(Q) : i + 1 \in 1 .. n /\ Q[i] = P[i + 1] /\ i + 1 # 1 /\ i \in Int
  BY <1>1
<1>3. 1 \in 1 .. n
  BY <1>1
<1>4. HasBegin(Q, s) => HasBegin(P, s)
  BY <1>2 DEF HasBegin, n
<1>5. Once(P, s) => Once(Q, s)
  <2> SUFFICES ASSUME Once(P, s), NEW i \in 1 .. Len(Q), NEW j \in 1 .. Len(Q),
                      BeginOf(Q[i], s), BeginOf(Q[j], s)
               PROVE  i = j
    BY DEF Once
  <2>1. i + 1 = j + 1
    BY <1>2 DEF Once, n
  <2> QED
    BY <1>2, <2>1
<1>6. Once(P, s) /\ BeginOf(h, s) => ~HasBegin(Q, s)
  BY <1>1, <1>2, <1>3 DEF HasBegin, Once, n
<1>7. BeginOf(h, s) => HasBegin(P, s)
  BY <1>1, <1>3 DEF HasBegin, n
<1> QED
  BY <1>4, <1>5, <1>6, <1>7 DEF Q, h

-----------------------------------------------------------------------------
(* The inductive invariant.                                                *)

\* Where a session holds an outgoing channel, has been begun, has sent its End.
Holding == {"begin", "answer", "offered", "select", "waiting", "discarding", "stopping"}
Looping == {"select", "waiting", "discarding", "stopping"}
Begun(e) == task[e] \in Looping \cup {"gone"}
HasEnded(t, st) == \/ t \in {"waiting", "discarding", "stopping", "gone"}
                   \/ t = "select" /\ st # "Mapped"
Ended(e) == HasEnded(task[e], state[e])

\* A session that holds a channel is the one in the slab,
Held ==
  \A p \in Peer, s \in Sessions :
    task[<<p, s>>] \in Holding =>
      chan[<<p, s>>] \in Channel /\ by_out[p][chan[<<p, s>>]] = s

\* and the one in the slab has this channel, and gives it back when it is gone.
Holder ==
  \A p \in Peer, c \in Channel, s \in Sessions :
    by_out[p][c] = s =>
      /\ chan[<<p, s>>] = c
      /\ task[<<p, s>>] \notin {"none", "alloc"}
      /\ conn[p] = "Opened" /\ task[<<p, s>>] = "gone" =>
           \E i \in 1 .. Len(control[p]) :
             control[p][i].op = "deallocate" /\ control[p][i].ch = c

\* The free list holds free channels, each once.
Vacancies ==
  \A p \in Peer : \A i \in 1 .. Len(vacant[p]) :
    /\ by_out[p][vacant[p][i]] = NoSession
    /\ \A j \in 1 .. Len(vacant[p]) : vacant[p][j] = vacant[p][i] => i = j

\* Who has asked for a channel has none; who gives one back is gone and has it still.
RequestOK(r, p, t, co, bo) ==
  /\ r.op = "allocate" => /\ p = Client /\ t # "none"
                          /\ co = "Opened" => t \in {"alloc", "dropped"}
                          /\ \A c \in Channel : bo[c] # r.s
  /\ r.op = "deallocate" => t = "gone" /\ bo[r.ch] = r.s
Distinct(C) ==
  \A i, j \in 1 .. Len(C) : C[j].op = C[i].op /\ C[j].s = C[i].s => i = j
Requested ==
  \A p \in Peer :
    /\ \A i \in 1 .. Len(control[p]) :
         RequestOK(control[p][i], p, task[<<p, control[p][i].s>>], conn[p], by_out[p])
    /\ Distinct(control[p])

\* What a session has to send is its own, and a begin comes alone and before the End.
OwnFrames(P, s, c) == \A i \in 1 .. Len(P) : P[i].s = s /\ P[i].ch = c
LinkOnly(P) == \A i \in 1 .. Len(P) : P[i].type \in {"ask", "bad"}

Carried ==
  \A p \in Peer, s \in Sessions :
    /\ sending[<<p, s>>] # <<>> => task[<<p, s>>] \in Looping \cup {"answer"}
    /\ links[<<p, s>>] # <<>> => task[<<p, s>>] \in Looping \cup {"gone"}
    /\ OwnFrames(sending[<<p, s>>], s, chan[<<p, s>>])
    /\ OwnFrames(links[<<p, s>>], s, chan[<<p, s>>]) /\ LinkOnly(links[<<p, s>>])
    /\ HasBegin(sending[<<p, s>>], s) => ~Ended(<<p, s>>) /\ Len(sending[<<p, s>>]) = 1

\* The frames under way can be told apart by their channels.
Routed ==
  \A p \in Peer :
    /\ Separated(Pipe(p))
    /\ Inbound(Pipe(p), by_in[Other(p)])
    /\ \A c \in Channel : Clean(Pipe(p), by_in[Other(p)], c, by_out[p][c])

\* A session that has sent its End leaves a clean channel.
Closed ==
  \A p \in Peer, s \in Sessions :
    /\ conn[p] = "Opened" /\ Ended(<<p, s>>) /\ ~HasEnd(sending[<<p, s>>])
    /\ chan[<<p, s>>] \in Channel /\ by_out[p][chan[<<p, s>>]] = s
    => Clean(Pipe(p), by_in[Other(p)], chan[<<p, s>>], NoSession)

\* The begin of s has left the client's task, its queue, the connection of the client;
M0(s) == task[<<Client, s>>] \notin {"none", "alloc", "begin"}
M1(s) == M0(s) /\ ~HasBegin(sending[<<Client, s>>], s)
M2(s) == M1(s) /\ ~HasBegin(Pipe(Client), s)

\* and its answer the application of the listener, the queue, the connection of the
\* listener and the engine of the client.
Relayed(fw, s) == \E i \in 1 .. Len(fw) : BeginOf(fw[i][2], s)
N3(s) == task[<<Listener, s>>] \notin {"none", "offered"}
N4(s) == N3(s) /\ ~HasBegin(sending[<<Listener, s>>], s)
N5(s) == N4(s) /\ ~HasBegin(Pipe(Listener), s)
N6(s) == N5(s) /\ ~Relayed(forwarding[Client], s)

\* Begin and answer are where they are once, and nowhere further back.
Handshake ==
  \A s \in Sessions :
    /\ HasBegin(Pipe(Client), s) => M1(s) /\ Once(Pipe(Client), s)
    /\ task[<<Listener, s>>] # "none" => M2(s) /\ remote[<<Listener, s>>] = chan[<<Client, s>>]
    /\ HasBegin(Pipe(Listener), s) => N4(s) /\ Once(Pipe(Listener), s)
    /\ Relayed(forwarding[Client], s) => N5(s)
    /\ HasBegin(incoming[<<Client, s>>], s) \/ Begun(<<Client, s>>) => N6(s)

\* Until the answer is taken the client holds the channel that the answer names.
Pending(s) == \/ HasBegin(sending[<<Client, s>>], s) \/ HasBegin(Pipe(Client), s)
              \/ task[<<Listener, s>>] # "none"
Awaited ==
  \A s \in Sessions : Pending(s) =>
    /\ chan[<<Client, s>>] \in Channel
    /\ Begun(<<Client, s>>) \/ by_out[Client][chan[<<Client, s>>]] = s

\* The begins of P are requests, or answers to requests on the channels ch.
Asks(P, ch) == \A i \in 1 .. Len(P) : P[i].type = "begin" =>
                 P[i].remote = NoChannel /\ P[i].ch = ch[<<Client, P[i].s>>]
Replies(P, ch) == \A i \in 1 .. Len(P) : P[i].type = "begin" =>
                    P[i].remote = ch[<<Client, P[i].s>>]
Named ==
  /\ Asks(Pipe(Client), chan) /\ Replies(Pipe(Listener), chan)
  /\ \A s \in Sessions : /\ Asks(sending[<<Client, s>>], chan)
                         /\ Replies(sending[<<Listener, s>>], chan)

\* What the property says, over indices.
Delivered ==
  /\ \A p \in Peer, s \in Sessions : \A i \in 1 .. Len(incoming[<<p, s>>]) :
       incoming[<<p, s>>][i].s = s
  /\ \A p \in Peer : \A i \in 1 .. Len(forwarding[p]) :
       forwarding[p][i][1] = forwarding[p][i][2].s

\* The inductive invariant.
Inv == /\ TypeOK /\ Held /\ Holder /\ Vacancies /\ Requested /\ Carried
       /\ Routed /\ Closed /\ Handshake /\ Awaited /\ Named /\ Delivered

-----------------------------------------------------------------------------
(* Types.                                                                  *)

\* There are two peers, each the other's other.
LEMMA PeerFacts ==
  /\ Client \in Peer /\ Listener \in Peer /\ Client # Listener
  /\ \A p \in Peer : Other(p) \in Peer /\ Other(p) # p /\ Other(Other(p)) = p
  /\ \A p \in Peer : p = Client \/ p = Listener
  /\ Other(Client) = Listener /\ Other(Listener) = Client
BY PeersDiffer DEF Peer, Other

\* A peer and a session make an endpoint, with its two parts.
LEMMA EndpointFacts ==
  ASSUME NEW p \in Peer, NEW s \in Sessions
  PROVE  <<p, s>> \in Endpoint /\ <<p, s>>[1] = p /\ <<p, s>>[2] = s
BY DEF Endpoint

\* A frame put together from well-typed parts is a frame with these parts.
LEMMA FrameType ==
  ASSUME NEW type \in {"begin", "end", "ask", "answer", "bad"}, NEW s \in Sessions,
         NEW ch \in Channel, NEW rem \in Channel \cup {NoChannel}, NEW err \in BOOLEAN
  PROVE  /\ Frame(type, s, ch, rem, err) \in Frames
         /\ Frame(type, s, ch, rem, err).type = type /\ Frame(type, s, ch, rem, err).s = s
         /\ Frame(type, s, ch, rem, err).ch = ch /\ Frame(type, s, ch, rem, err).remote = rem
BY DEF Frame, Frames

\* One value of a function is replaced.
LEMMA SetType ==
  ASSUME NEW D, NEW S, NEW f \in [D -> S], NEW d \in D, NEW v \in S
  PROVE  [f EXCEPT ![d] = v] \in [D -> S] /\ Set(f, d, v) \in [D -> S]
BY DEF Set

\* Setting one entry of a table of tables changes that entry and no other.
LEMMA NestedSet ==
  ASSUME NEW D, NEW E, NEW S, NEW f \in [D -> [E -> S]], NEW d \in D, NEW x \in E, NEW v \in S
  PROVE  /\ [f EXCEPT ![d][x] = v] \in [D -> [E -> S]]
         /\ [f EXCEPT ![d][x] = v][d][x] = v
         /\ \A y \in E : y # x => [f EXCEPT ![d][x] = v][d][y] = f[d][y]
         /\ \A q \in D : q # d => [f EXCEPT ![d][x] = v][q] = f[q]
OBVIOUS

\* Binding one incoming channel changes that binding and no other.
LEMMA InMap ==
  ASSUME TypeOK, NEW p \in Peer, NEW x \in Channel, NEW s \in Sessions \cup {NoSession},
         by_in' = [by_in EXCEPT ![p][x] = s]
  PROVE  /\ by_in' \in [Peer -> [Channel -> Sessions \cup {NoSession}]]
         /\ by_in'[p][x] = s /\ \A y \in Channel : y # x => by_in'[p][y] = by_in[p][y]
         /\ \A q \in Peer : q # p => by_in'[q] = by_in[q]
<1>1. by_in \in [Peer -> [Channel -> Sessions \cup {NoSession}]]
  BY DEF TypeOK
<1> QED
  BY <1>1, NestedSet

\* Binding one outgoing channel changes that binding and no other.
LEMMA OutMap ==
  ASSUME TypeOK, NEW p \in Peer, NEW x \in Channel, NEW s \in Sessions \cup {NoSession},
         by_out' = [by_out EXCEPT ![p][x] = s]
  PROVE  /\ by_out' \in [Peer -> [Channel -> Sessions \cup {NoSession}]]
         /\ by_out'[p][x] = s /\ \A y \in Channel : y # x => by_out'[p][y] = by_out[p][y]
         /\ \A q \in Peer : q # p => by_out'[q] = by_out[q]
<1>1. by_out \in [Peer -> [Channel -> Sessions \cup {NoSession}]]
  BY DEF TypeOK
<1> QED
  BY <1>1, NestedSet

\* What appending, prepending and taking make of a sequence over S is one again.
LEMMA SeqTypes ==
  ASSUME NEW S, NEW P \in Seq(S)
  PROVE  /\ <<>> \in Seq(S)
         /\ \A f \in S : <<f>> \in Seq(S) /\ Append(P, f) \in Seq(S) /\ <<f>> \o P \in Seq(S)
                         /\ P \o <<f>> \in Seq(S)
         /\ P # <<>> => Head(P) \in S /\ Tail(P) \in Seq(S)
OBVIOUS

\* The engine of the connection.
LEMMA TypeAllocate ==
  ASSUME Inv, NEW p \in Peer, OnControlAllocate(p)
  PROVE  TypeOK'
<1> DEFINE r == Head(control[p])
           e == <<p, r.s>>
           full == vacant[p] = <<>>
<1>1. /\ control[p] \in Seq(Requests) /\ control[p] # <<>> /\ r.op = "allocate"
      /\ vacant[p] \in Seq(Channel)
  BY DEF Inv, TypeOK, OnControlAllocate
<1>2. r \in Requests /\ Tail(control[p]) \in Seq(Requests)
  BY <1>1
<1>3. e \in Endpoint /\ r.s \in Sessions /\ e[2] = r.s
  BY <1>2, EndpointFacts DEF Requests
<1>4. ~full => Head(vacant[p]) \in Channel /\ Tail(vacant[p]) \in Seq(Channel)
  BY <1>1
<1> HIDE DEF r, e
<1>5. control' \in [Peer -> Seq(Requests)]
  BY <1>2, SetType DEF Inv, TypeOK, OnControlAllocate
<1>6. /\ by_out' \in [Peer -> [Channel -> Sessions \cup {NoSession}]]
      /\ vacant' \in [Peer -> Seq(Channel)]
      /\ chan' \in [Endpoint -> Channel \cup {NoChannel}]
  <2>1. CASE full
    BY <2>1 DEF Inv, TypeOK, OnControlAllocate
  <2>2. CASE ~full
    <3>1. Allocate(p, e)
      BY <2>2 DEF OnControlAllocate, e, r
    <3> QED
      BY <1>3, <1>4, <2>2, <3>1 DEF Inv, TypeOK, Allocate, Set
  <2> QED
    BY <2>1, <2>2
<1>7. /\ conn' \in [Peer -> {"Opened", "NotFound", "IllegalState", "NotImplemented", "RemoteClosed"}]
      /\ task' \in [Endpoint -> Tasks] /\ outcome' \in [Endpoint -> Outcomes]
  BY <1>3, SetType, ZenonT(60) DEF Inv, TypeOK, OnControlAllocate, Fail, Set, Tasks, Outcomes, e, r
<1>8. UNCHANGED <<by_in, outgoing, wire, forwarding, state, remote, incoming, sending, links,
                  ends, left, late>>
  BY DEF OnControlAllocate
<1> QED
  BY <1>5, <1>6, <1>7, <1>8 DEF Inv, TypeOK

\* Releasing a channel keeps the types.
LEMMA TypeDeallocate ==
  ASSUME Inv, NEW p \in Peer, OnControlDeallocate(p)
  PROVE  TypeOK'
<1> DEFINE r == Head(control[p])
<1>1. /\ control[p] \in Seq(Requests) /\ control[p] # <<>> /\ r.op = "deallocate"
      /\ vacant[p] \in Seq(Channel)
  BY DEF Inv, TypeOK, OnControlDeallocate
<1>2. r \in Requests /\ Tail(control[p]) \in Seq(Requests)
  BY <1>1
<1>3. r.ch \in Channel
  BY <1>1, <1>2 DEF Requests
<1>4. <<r.ch>> \o vacant[p] \in Seq(Channel)
  BY <1>1, <1>3, SeqTypes
<1>5. /\ control' = [control EXCEPT ![p] = Tail(@)]
      /\ by_out' = [by_out EXCEPT ![p][r.ch] = NoSession]
      /\ vacant' = [vacant EXCEPT ![p] = <<r.ch>> \o @]
      /\ UNCHANGED <<conn, by_in, outgoing, wire, forwarding, tasks>>
  BY DEF OnControlDeallocate
<1> HIDE DEF r
<1>6. by_out' \in [Peer -> [Channel -> Sessions \cup {NoSession}]]
  BY <1>3, <1>5 DEF Inv, TypeOK
<1>7. vacant' \in [Peer -> Seq(Channel)] /\ control' \in [Peer -> Seq(Requests)]
  BY <1>2, <1>4, <1>5 DEF Inv, TypeOK
<1> QED
  BY <1>5, <1>6, <1>7 DEF Inv, TypeOK, tasks

\* Writing the frames of the sessions keeps the types.
LEMMA TypeOutgoing ==
  ASSUME Inv, NEW p \in Peer, OnOutgoingSessionFrames(p)
  PROVE  TypeOK'
<1>1. outgoing[p] \in Seq(Frames) /\ wire[p] \in Seq(Frames) /\ outgoing[p] # <<>>
  BY DEF Inv, TypeOK, OnOutgoingSessionFrames
<1>2. Tail(outgoing[p]) \in Seq(Frames) /\ Append(wire[p], Head(outgoing[p])) \in Seq(Frames)
  BY <1>1
<1>3. outgoing' \in [Peer -> Seq(Frames)] /\ wire' \in [Peer -> Seq(Frames)]
  BY <1>2 DEF Inv, TypeOK, OnOutgoingSessionFrames
<1> QED
  BY <1>3 DEF Inv, TypeOK, OnOutgoingSessionFrames, tasks

\* The frame that arrives.
LEMMA ArrivedFacts ==
  ASSUME Inv, NEW p \in Peer, NEW types, Arrived(p, types)
  PROVE  /\ wire[Other(p)] # <<>> /\ wire[Other(p)] \in Seq(Frames)
         /\ Head(wire[Other(p)]) \in Frames /\ Head(wire[Other(p)]).type \in types
         /\ wire' = [wire EXCEPT ![Other(p)] = Tail(@)]
         /\ wire' \in [Peer -> Seq(Frames)]
<1>1. Other(p) \in Peer /\ wire[Other(p)] # <<>> /\ wire[Other(p)] \in Seq(Frames)
  BY PeerFacts DEF Inv, TypeOK, Arrived
<1>2. Head(wire[Other(p)]) \in Frames /\ Tail(wire[Other(p)]) \in Seq(Frames)
  BY <1>1
<1> QED
  BY <1>1, <1>2 DEF Inv, TypeOK, Arrived

\* The parts of a frame have their types; none of them is a "none".
LEMMA FrameFacts ==
  ASSUME NEW f \in Frames
  PROVE  /\ f.type \in {"begin", "end", "ask", "answer", "bad"} /\ f.s \in Sessions
         /\ f.ch \in Channel /\ f.remote \in Channel \cup {NoChannel} /\ f.error \in BOOLEAN
         /\ f.s # NoSession /\ f.ch # NoChannel
BY SubsetAssumption DEF Frames, Channel, NoChannel

\* Binding the channel of an answering Begin keeps the types.
LEMMA TypeBeginAnswer ==
  ASSUME Inv, NEW p \in Peer, OnIncomingBeginAnswer(p)
  PROVE  TypeOK'
<1> DEFINE f == Head(wire[Other(p)])
           s == by_out[p][f.remote]
<1>1. f \in Frames /\ wire' \in [Peer -> Seq(Frames)]
  BY ArrivedFacts DEF OnIncomingBeginAnswer
<1>2. f.remote # NoChannel
  BY DEF OnIncomingBeginAnswer
<1>3. IF s = NoSession THEN Fail(p, "NotFound") /\ UNCHANGED <<by_in, forwarding>>
      ELSE /\ by_in' = [by_in EXCEPT ![p][f.ch] = s]
           /\ forwarding' = [forwarding EXCEPT ![p] = <<<<s, f>>>>]
           /\ UNCHANGED conn
  BY DEF OnIncomingBeginAnswer
<1>4. UNCHANGED <<by_out, vacant, control, outgoing, tasks>>
  BY DEF OnIncomingBeginAnswer
<1> HIDE DEF f
<1>5. s \in Sessions \cup {NoSession} /\ f.ch \in Channel
  BY <1>1, <1>2, FrameFacts DEF Inv, TypeOK
<1> HIDE DEF s
<1>6. s # NoSession => <<<<s, f>>>> \in Seq(Sessions \X Frames)
  BY <1>1, <1>5
<1>7. /\ conn' \in [Peer -> {"Opened", "NotFound", "IllegalState", "NotImplemented", "RemoteClosed"}]
      /\ by_in' \in [Peer -> [Channel -> Sessions \cup {NoSession}]]
      /\ forwarding' \in [Peer -> Seq(Sessions \X Frames)]
  <2>1. CASE s = NoSession
    BY <1>3, <2>1 DEF Inv, TypeOK, Fail, Set
  <2>2. CASE s # NoSession
    <3>1. by_in' \in [Peer -> [Channel -> Sessions \cup {NoSession}]]
      BY <1>3, <1>5, <2>2, InMap DEF Inv
    <3> QED
      BY <1>3, <1>6, <2>2, <3>1 DEF Inv, TypeOK
  <2> QED
    BY <2>1, <2>2
<1> QED
  BY <1>1, <1>4, <1>7 DEF Inv, TypeOK, tasks

\* A remote Begin handed to the listener keeps the types.
LEMMA TypeIncomingBegin ==
  ASSUME Inv, NEW p \in Peer, OnIncomingBegin(p)
  PROVE  TypeOK'
<1> DEFINE f == Head(wire[Other(p)])
           e == <<p, f.s>>
<1>1. f \in Frames /\ wire' \in [Peer -> Seq(Frames)]
  BY ArrivedFacts DEF OnIncomingBegin
<1>2. IF vacant[p] = <<>>
      THEN Fail(p, "NotImplemented") /\ UNCHANGED <<by_out, vacant, chan, by_in, task, remote>>
      ELSE /\ Allocate(p, e)
           /\ by_in' = [by_in EXCEPT ![p][f.ch] = f.s]
           /\ task' = Set(task, e, "offered")
           /\ remote' = Set(remote, e, f.ch)
           /\ UNCHANGED conn
  BY DEF OnIncomingBegin
<1>3. UNCHANGED <<control, outgoing, forwarding, state, incoming, sending, links, ends, left,
                  outcome, late>>
  BY DEF OnIncomingBegin
<1> HIDE DEF f
<1>4. f.s \in Sessions /\ f.ch \in Channel /\ vacant[p] \in Seq(Channel)
  BY <1>1, FrameFacts DEF Inv, TypeOK
<1>5. e \in Endpoint /\ e[2] = f.s
  BY <1>4, EndpointFacts
<1>6. vacant[p] # <<>> => Head(vacant[p]) \in Channel /\ Tail(vacant[p]) \in Seq(Channel)
  BY <1>4
<1> HIDE DEF e
<1>7. /\ conn' \in [Peer -> {"Opened", "NotFound", "IllegalState", "NotImplemented", "RemoteClosed"}]
      /\ by_in' \in [Peer -> [Channel -> Sessions \cup {NoSession}]]
      /\ by_out' \in [Peer -> [Channel -> Sessions \cup {NoSession}]]
      /\ vacant' \in [Peer -> Seq(Channel)]
      /\ chan' \in [Endpoint -> Channel \cup {NoChannel}]
      /\ remote' \in [Endpoint -> Channel \cup {NoChannel}]
      /\ task' \in [Endpoint -> Tasks]
  <2>1. CASE vacant[p] = <<>>
    BY <1>2, <2>1 DEF Inv, TypeOK, Fail, Set
  <2>2. CASE vacant[p] # <<>>
    <3>1. by_in' \in [Peer -> [Channel -> Sessions \cup {NoSession}]]
      BY <1>2, <1>4, <2>2, InMap DEF Inv
    <3>2. /\ by_out' \in [Peer -> [Channel -> Sessions \cup {NoSession}]]
          /\ vacant' \in [Peer -> Seq(Channel)]
          /\ chan' \in [Endpoint -> Channel \cup {NoChannel}]
      <4>1. by_out' = [by_out EXCEPT ![p][Head(vacant[p])] = f.s]
            /\ vacant' = [vacant EXCEPT ![p] = Tail(@)]
            /\ chan' = Set(chan, e, Head(vacant[p]))
        BY <1>2, <1>5, <2>2 DEF Allocate
      <4>2. by_out' \in [Peer -> [Channel -> Sessions \cup {NoSession}]]
        BY <1>4, <1>6, <2>2, <4>1, OutMap DEF Inv
      <4> QED
        BY <1>5, <1>6, <2>2, <4>1, <4>2 DEF Inv, TypeOK, Set
    <3>3. remote' \in [Endpoint -> Channel \cup {NoChannel}] /\ task' \in [Endpoint -> Tasks]
      BY <1>2, <1>4, <1>5, <2>2 DEF Inv, TypeOK, Set, Tasks
    <3> QED
      BY <1>2, <2>2, <3>1, <3>2, <3>3 DEF Inv, TypeOK
  <2> QED
    BY <2>1, <2>2
<1> QED
  BY <1>1, <1>3, <1>7 DEF Inv, TypeOK

\* A session frame that is routed, or stops the connection, keeps the types.
LEMMA TypeSessionFrame ==
  ASSUME Inv, NEW p \in Peer, OnIncomingSessionFrame(p)
  PROVE  TypeOK'
<1> DEFINE f == Head(wire[Other(p)])
           s == Recipient(p, f.ch)
<1>1. f \in Frames /\ wire' \in [Peer -> Seq(Frames)]
  BY ArrivedFacts DEF OnIncomingSessionFrame
<1>2. IF s = NoSession THEN Fail(p, "NotFound") /\ UNCHANGED <<by_in, forwarding>>
      ELSE /\ forwarding' = [forwarding EXCEPT ![p] = <<<<s, f>>>>]
           /\ by_in' = IF f.type = "end" THEN [by_in EXCEPT ![p][f.ch] = NoSession] ELSE by_in
           /\ UNCHANGED conn
  BY DEF OnIncomingSessionFrame
<1>3. UNCHANGED <<by_out, vacant, control, outgoing, tasks>>
  BY DEF OnIncomingSessionFrame
<1> HIDE DEF f
<1>4. s \in Sessions \cup {NoSession} /\ f.ch \in Channel
  BY <1>1, FrameFacts DEF Inv, TypeOK, Recipient
<1> HIDE DEF s
<1>5. s # NoSession => <<<<s, f>>>> \in Seq(Sessions \X Frames)
  BY <1>1, <1>4
<1>6. /\ conn' \in [Peer -> {"Opened", "NotFound", "IllegalState", "NotImplemented", "RemoteClosed"}]
      /\ by_in' \in [Peer -> [Channel -> Sessions \cup {NoSession}]]
      /\ forwarding' \in [Peer -> Seq(Sessions \X Frames)]
  <2>1. CASE s = NoSession
    BY <1>2, <2>1 DEF Inv, TypeOK, Fail, Set
  <2>2. CASE s # NoSession
    <3>1. by_in' \in [Peer -> [Channel -> Sessions \cup {NoSession}]]
      <4>1. CASE f.type = "end"
        BY <1>2, <1>4, <2>2, <4>1, InMap DEF Inv
      <4>2. CASE f.type # "end"
        BY <1>2, <2>2, <4>2 DEF Inv, TypeOK
      <4> QED
        BY <4>1, <4>2
    <3> QED
      BY <1>2, <1>5, <2>2, <3>1 DEF Inv, TypeOK
  <2> QED
    BY <2>1, <2>2
<1> QED
  BY <1>1, <1>3, <1>6 DEF Inv, TypeOK, tasks

\* The frame that the engine hands on.
LEMMA ForwardFacts ==
  ASSUME Inv, NEW p \in Peer, forwarding[p] # <<>>
  PROVE  /\ forwarding[p][1][1] \in Sessions /\ forwarding[p][1][2] \in Frames
         /\ forwarding[p][1][1] = forwarding[p][1][2].s /\ 1 \in 1 .. Len(forwarding[p])
<1>1. forwarding[p] \in Seq(Sessions \X Frames)
  BY DEF Inv, TypeOK
<1>2. forwarding[p][1] \in Sessions \X Frames /\ 1 \in 1 .. Len(forwarding[p])
  BY <1>1
<1> QED
  BY <1>2 DEF Inv, Delivered

\* Forwarding into a session's channel keeps the types.
LEMMA TypeForward ==
  ASSUME Inv, NEW p \in Peer, Forward(p)
  PROVE  TypeOK'
<1> DEFINE f == forwarding[p][1][2]
           e == <<p, forwarding[p][1][1]>>
<1>1. f \in Frames /\ forwarding[p][1][1] \in Sessions
  BY ForwardFacts DEF Forward
<1>2. e \in Endpoint
  BY <1>1, EndpointFacts
<1>3. /\ IF Listening(e) THEN incoming' = [incoming EXCEPT ![e] = Append(@, f)] /\ UNCHANGED conn
         ELSE Fail(p, "NotFound") /\ UNCHANGED incoming
      /\ forwarding' = [forwarding EXCEPT ![p] = <<>>]
      /\ UNCHANGED <<by_out, vacant, by_in, control, outgoing, wire, task, state, chan, remote,
                     sending, links, ends, left, outcome, late>>
  BY DEF Forward
<1> HIDE DEF f, e
<1>4. Append(incoming[e], f) \in Seq(Frames) /\ <<>> \in Seq(Sessions \X Frames)
  BY <1>1, <1>2 DEF Inv, TypeOK
<1>5. /\ conn' \in [Peer -> {"Opened", "NotFound", "IllegalState", "NotImplemented", "RemoteClosed"}]
      /\ incoming' \in [Endpoint -> Seq(Frames)]
      /\ forwarding' \in [Peer -> Seq(Sessions \X Frames)]
  BY <1>2, <1>3, <1>4 DEF Inv, TypeOK, Fail, Set
<1> QED
  BY <1>3, <1>5 DEF Inv, TypeOK

\* The peer's Close keeps the types.
LEMMA TypeClose ==
  ASSUME Inv, NEW p \in Peer, OnIncomingClose(p)
  PROVE  TypeOK'
BY DEF Inv, TypeOK, OnIncomingClose, Fail, Set, tasks

\* An endpoint that learns of the stopped connection keeps the types.
LEMMA TypeStopped ==
  ASSUME Inv, NEW p \in Peer, OnConnectionStopped(p)
  PROVE  TypeOK'
<1>1. <<>> \in Seq(Frames)
  OBVIOUS
<1>2. /\ task' \in [Endpoint -> Tasks] /\ outcome' \in [Endpoint -> Outcomes]
  BY DEF Inv, TypeOK, OnConnectionStopped, Tasks, Outcomes
<1>3. sending' \in [Endpoint -> Seq(Frames)] /\ incoming' \in [Endpoint -> Seq(Frames)]
  BY <1>1 DEF Inv, TypeOK, OnConnectionStopped
<1>4. UNCHANGED <<conns, state, chan, remote, links, ends, left, late>>
  BY DEF OnConnectionStopped
<1> QED
  BY <1>2, <1>3, <1>4 DEF Inv, TypeOK, conns

\* What an endpoint has, by type.
LEMMA EndpointTypes ==
  ASSUME TypeOK, NEW p \in Peer, NEW s \in Sessions
  PROVE  /\ <<p, s>> \in Endpoint /\ <<p, s>>[1] = p /\ <<p, s>>[2] = s
         /\ task[<<p, s>>] \in Tasks /\ state[<<p, s>>] \in States
         /\ chan[<<p, s>>] \in Channel \cup {NoChannel}
         /\ remote[<<p, s>>] \in Channel \cup {NoChannel}
         /\ incoming[<<p, s>>] \in Seq(Frames) /\ sending[<<p, s>>] \in Seq(Frames)
         /\ links[<<p, s>>] \in Seq(Frames) /\ ends[<<p, s>>] \in Seq(BOOLEAN)
         /\ left[<<p, s>>] \in [frames : Seq({"ask", "bad"}), ends : Seq(BOOLEAN)]
         /\ outcome[<<p, s>>] \in Outcomes
BY EndpointFacts DEF TypeOK

\* A session that takes a frame is idle, on an open connection, and takes the first.
LEMMA TakenType ==
  ASSUME TypeOK, NEW p \in Peer, NEW s \in Sessions, Received(<<p, s>>), Taken(<<p, s>>)
  PROVE  /\ incoming' \in [Endpoint -> Seq(Frames)] /\ Head(incoming[<<p, s>>]) \in Frames
         /\ incoming[<<p, s>>] # <<>> /\ sending[<<p, s>>] = <<>> /\ conn[p] = "Opened"
         /\ incoming'[<<p, s>>] = Tail(incoming[<<p, s>>])
         /\ \A x \in Endpoint : x # <<p, s>> => incoming'[x] = incoming[x]
<1> DEFINE e == <<p, s>>
<1>1. e \in Endpoint /\ incoming[e] \in Seq(Frames) /\ incoming[e] # <<>> /\ e[1] = p
      /\ incoming \in [Endpoint -> Seq(Frames)]
  BY EndpointTypes DEF Received, TypeOK
<1>2. sending[e] = <<>> /\ conn[p] = "Opened"
  BY <1>1 DEF Received
<1>3. Tail(incoming[e]) \in Seq(Frames) /\ Head(incoming[e]) \in Frames
  BY <1>1
<1>4. incoming' = [incoming EXCEPT ![e] = Tail(@)]
  BY DEF Taken
<1> HIDE DEF e
<1>6. incoming' \in [Endpoint -> Seq(Frames)] /\ incoming'[e] = Tail(incoming[e])
      /\ \A x \in Endpoint : x # e => incoming'[x] = incoming[x]
  BY <1>1, <1>3, <1>4
<1> QED
  BY <1>1, <1>2, <1>3, <1>6 DEF e

\* A frame that a session makes.
LEMMA MadeType ==
  ASSUME Inv, NEW p \in Peer, NEW s \in Sessions, task[<<p, s>>] \in Holding,
         NEW type \in {"begin", "end", "ask", "answer", "bad"},
         NEW rem \in Channel \cup {NoChannel}, NEW err \in BOOLEAN
  PROVE  /\ Frame(type, s, chan[<<p, s>>], rem, err) \in Frames
         /\ <<Frame(type, s, chan[<<p, s>>], rem, err)>> \in Seq(Frames)
<1>1. chan[<<p, s>>] \in Channel
  BY DEF Inv, Held
<1>2. Frame(type, s, chan[<<p, s>>], rem, err) \in Frames
  BY <1>1, FrameType
<1> HIDE DEF Frame
<1> QED
  BY <1>2

\* The steps of begin() keep the types.
LEMMA TypeBegin ==
  ASSUME Inv, NEW s \in Sessions, Begin(s) \/ CancelBegin(s) \/ SendBegin(s)
  PROVE  TypeOK'
<1> DEFINE e == <<Client, s>>
<1>1. e \in Endpoint /\ Client \in Peer /\ control[Client] \in Seq(Requests)
  BY EndpointFacts, PeerFacts DEF Inv, TypeOK
<1>2. [op |-> "allocate", s |-> s] \in Requests
  BY DEF Requests
<1>3. Append(control[Client], [op |-> "allocate", s |-> s]) \in Seq(Requests)
  BY <1>1, <1>2
<1>4. CASE Begin(s)
  <2>1. task' = Set(task, e, "alloc")
        /\ control' = [control EXCEPT ![Client] = Append(@, [op |-> "allocate", s |-> s])]
        /\ UNCHANGED <<conn, by_out, vacant, by_in, outgoing, wire, forwarding, state, chan, remote,
                       incoming, sending, links, ends, left, outcome, late>>
    BY <1>4 DEF Begin
  <2> HIDE DEF e
  <2>2. task' \in [Endpoint -> Tasks] /\ control' \in [Peer -> Seq(Requests)]
    BY <1>1, <1>3, <2>1 DEF Inv, TypeOK, Set, Tasks
  <2> QED
    BY <2>1, <2>2 DEF Inv, TypeOK
<1>5. CASE CancelBegin(s)
  <2>1. task' = Set(task, e, "dropped") /\ sending' = Set(sending, e, <<>>)
        /\ incoming' = Set(incoming, e, <<>>)
        /\ UNCHANGED <<conns, state, chan, remote, links, ends, left, outcome, late>>
    BY <1>5 DEF CancelBegin
  <2> HIDE DEF e
  <2>2. task' \in [Endpoint -> Tasks] /\ sending' \in [Endpoint -> Seq(Frames)]
        /\ incoming' \in [Endpoint -> Seq(Frames)]
    BY <1>1, <2>1 DEF Inv, TypeOK, Set, Tasks
  <2> QED
    BY <2>1, <2>2 DEF Inv, TypeOK, conns
<1>6. CASE SendBegin(s)
  <2> DEFINE t == <<Frame("begin", s, chan[e], NoChannel, FALSE)>>
  <2>1. task[e] = "begin" /\ task' = Set(task, e, "answer") /\ state' = Set(state, e, "BeginSent")
        /\ sending' = Set(sending, e, t)
        /\ UNCHANGED <<conns, chan, remote, incoming, links, ends, left, outcome, late>>
    BY <1>6 DEF SendBegin
  <2>2. t \in Seq(Frames)
    BY <1>1, <2>1, MadeType DEF Holding
  <2> HIDE DEF e, t
  <2>3. task' \in [Endpoint -> Tasks] /\ sending' \in [Endpoint -> Seq(Frames)]
        /\ state' \in [Endpoint -> States]
    BY <1>1, <2>1, <2>2 DEF Inv, TypeOK, Set, Tasks, States
  <2> QED
    BY <2>1, <2>3 DEF Inv, TypeOK, conns
<1> QED
  BY <1>4, <1>5, <1>6

\* The answer to a Begin, on either side, keeps the types.
LEMMA TypeAnswer ==
  ASSUME Inv, NEW s \in Sessions, OnIncomingBeginFrame(s) \/ Accept(s) \/ Refuse(s)
  PROVE  TypeOK'
<1>1. CASE OnIncomingBeginFrame(s)
  <2> DEFINE e == <<Client, s>>
             f == Head(incoming[e])
  <2>1. e \in Endpoint /\ Client \in Peer
    BY EndpointFacts, PeerFacts
  <2>2. incoming' \in [Endpoint -> Seq(Frames)] /\ f \in Frames
    BY <1>1, <2>1, TakenType DEF OnIncomingBeginFrame, Inv
  <2>3. task' = Set(task, e, "select") /\ state' = Set(state, e, "Mapped")
        /\ remote' = Set(remote, e, f.ch)
        /\ UNCHANGED <<conns, chan, sending, links, ends, left, outcome, late>>
    BY <1>1 DEF OnIncomingBeginFrame
  <2> HIDE DEF f, e
  <2>4. task' \in [Endpoint -> Tasks] /\ state' \in [Endpoint -> States]
        /\ remote' \in [Endpoint -> Channel \cup {NoChannel}]
    BY <2>1, <2>2, <2>3, FrameFacts DEF Inv, TypeOK, Set, Tasks, States
  <2> QED
    BY <2>2, <2>3, <2>4 DEF Inv, TypeOK, conns
<1>2. CASE Accept(s)
  <2> DEFINE e == <<Listener, s>>
             t == <<Frame("begin", s, chan[e], remote[e], FALSE)>>
  <2>1. e \in Endpoint /\ Listener \in Peer /\ remote[e] \in Channel \cup {NoChannel}
    BY EndpointTypes, PeerFacts DEF Inv
  <2>2. task[e] = "offered" /\ task' = Set(task, e, "select") /\ state' = Set(state, e, "Mapped")
        /\ sending' = Set(sending, e, t)
        /\ UNCHANGED <<conns, chan, remote, incoming, links, ends, left, outcome, late>>
    BY <1>2 DEF Accept
  <2>3. t \in Seq(Frames)
    BY <2>1, <2>2, MadeType DEF Holding
  <2> HIDE DEF e, t
  <2>4. task' \in [Endpoint -> Tasks] /\ sending' \in [Endpoint -> Seq(Frames)]
        /\ state' \in [Endpoint -> States]
    BY <2>1, <2>2, <2>3 DEF Inv, TypeOK, Set, Tasks, States
  <2> QED
    BY <2>2, <2>4 DEF Inv, TypeOK, conns
<1>3. CASE Refuse(s)
  <2> DEFINE e == <<Listener, s>>
  <2>1. e \in Endpoint
    BY EndpointFacts, PeerFacts
  <2>2. task' = Set(task, e, "dropped") /\ incoming' = Set(incoming, e, <<>>)
        /\ UNCHANGED <<conns, state, chan, remote, sending, links, ends, left, outcome, late>>
    BY <1>3 DEF Refuse
  <2> HIDE DEF e
  <2>3. task' \in [Endpoint -> Tasks] /\ incoming' \in [Endpoint -> Seq(Frames)]
    BY <2>1, <2>2 DEF Inv, TypeOK, Set, Tasks
  <2> QED
    BY <2>2, <2>3 DEF Inv, TypeOK, conns
<1> QED
  BY <1>1, <1>2, <1>3

\* Handing a frame over and stopping keep the types.
LEMMA TypeHandOver ==
  ASSUME Inv, NEW p \in Peer, NEW s \in Sessions, HandOver(p, s) \/ Stop(p, s)
  PROVE  TypeOK'
<1> DEFINE e == <<p, s>>
<1>1. e \in Endpoint /\ sending[e] \in Seq(Frames) /\ outgoing[p] \in Seq(Frames)
      /\ control[p] \in Seq(Requests) /\ e[2] = s
  BY EndpointTypes DEF Inv, TypeOK
<1>2. CASE HandOver(p, s)
  <2>1. sending[e] # <<>> /\ outgoing' = [outgoing EXCEPT ![p] = Append(@, Head(sending[e]))]
        /\ sending' = [sending EXCEPT ![e] = Tail(@)]
        /\ UNCHANGED <<conn, by_out, vacant, by_in, control, wire, forwarding, task, state, chan,
                       remote, incoming, links, ends, left, outcome, late>>
    BY <1>2 DEF HandOver
  <2> HIDE DEF e
  <2>2. Append(outgoing[p], Head(sending[e])) \in Seq(Frames) /\ Tail(sending[e]) \in Seq(Frames)
    BY <1>1, <2>1
  <2>3. outgoing' \in [Peer -> Seq(Frames)] /\ sending' \in [Endpoint -> Seq(Frames)]
    BY <1>1, <2>1, <2>2 DEF Inv, TypeOK
  <2> QED
    BY <2>1, <2>3 DEF Inv, TypeOK
<1>3. CASE Stop(p, s)
  <2> DEFINE r == [op |-> "deallocate", s |-> s, ch |-> chan[e]]
  <2>1. task[e] = "stopping" /\ task' = Set(task, e, "gone") /\ incoming' = Set(incoming, e, <<>>)
        /\ control' = [control EXCEPT ![p] = Append(@, r)]
        /\ UNCHANGED <<conn, by_out, vacant, by_in, outgoing, wire, forwarding, state, chan, remote,
                       sending, links, ends, left, outcome, late>>
    BY <1>1, <1>3 DEF Stop, Deallocation
  <2>2. chan[e] \in Channel
    BY <2>1 DEF Inv, Held, Holding
  <2>3. r \in Requests
    BY <2>2 DEF Requests
  <2> HIDE DEF e, r
  <2>4. Append(control[p], r) \in Seq(Requests)
    BY <1>1, <2>3
  <2>5. task' \in [Endpoint -> Tasks] /\ incoming' \in [Endpoint -> Seq(Frames)]
        /\ control' \in [Peer -> Seq(Requests)]
    BY <1>1, <2>1, <2>4 DEF Inv, TypeOK, Set, Tasks
  <2> QED
    BY <2>1, <2>5 DEF Inv, TypeOK
<1> QED
  BY <1>2, <1>3

\* What a step of an event loop, or of a link or the application, does besides handing
\* frames over: an End is sent when the session becomes ended, and never a begin.
Elsewhere(p, s) ==
  \A x \in Endpoint : x # <<p, s>> =>
    /\ task'[x] = task[x] /\ state'[x] = state[x] /\ sending'[x] = sending[x]
    /\ links'[x] = links[x] /\ incoming'[x] = incoming[x]

Sends(e, s) ==
  \/ /\ sending'[e] = sending[e]
     /\ HasEnded(task'[e], state'[e]) => Ended(e)
  \/ /\ sending[e] = <<>>
     /\ \A i \in 1 .. Len(sending'[e]) : /\ sending'[e][i].s = s /\ sending'[e][i].ch = chan[e]
                                         /\ sending'[e][i].type # "begin"
     /\ HasEnded(task'[e], state'[e]) => Ended(e) \/ HasEnd(sending'[e])

Local(p, s) ==
  /\ UNCHANGED <<conns, chan, remote>> /\ Elsewhere(p, s) /\ conn[p] = "Opened"
  /\ task[<<p, s>>] \in Looping /\ task'[<<p, s>>] \in Looping
  /\ Ended(<<p, s>>) => HasEnded(task'[<<p, s>>], state'[<<p, s>>])
  /\ Sends(<<p, s>>, s)
  /\ OwnFrames(links'[<<p, s>>], s, chan[<<p, s>>]) /\ LinkOnly(links'[<<p, s>>])
  /\ \/ incoming'[<<p, s>>] = incoming[<<p, s>>]
     \/ incoming[<<p, s>>] # <<>> /\ incoming'[<<p, s>>] = Tail(incoming[<<p, s>>])

\* One field of what an endpoint may still ask for.
LEMMA LeftSet ==
  ASSUME NEW D, NEW S, NEW T, NEW f \in [D -> [frames : S, ends : T]], NEW e \in D
  PROVE  /\ \A v \in S : [f EXCEPT ![e].frames = v] \in [D -> [frames : S, ends : T]]
         /\ \A v \in T : [f EXCEPT ![e].ends = v] \in [D -> [frames : S, ends : T]]
<1>1. f[e] \in [frames : S, ends : T]
  OBVIOUS
<1>2. \A v \in S : [f[e] EXCEPT !.frames = v] \in [frames : S, ends : T]
  BY <1>1
<1>3. \A v \in T : [f[e] EXCEPT !.ends = v] \in [frames : S, ends : T]
  BY <1>1
<1>4. \A v \in S : [f EXCEPT ![e] = [f[e] EXCEPT !.frames = v]] \in [D -> [frames : S, ends : T]]
  BY <1>2
<1>5. \A v \in T : [f EXCEPT ![e] = [f[e] EXCEPT !.ends = v]] \in [D -> [frames : S, ends : T]]
  BY <1>3
<1> QED
  BY <1>4, <1>5

\* The End that a session makes, behind frames of its links.
LEMMA EndSent ==
  ASSUME Inv, NEW p \in Peer, NEW s \in Sessions, task[<<p, s>>] \in Looping,
         NEW err \in BOOLEAN, NEW P \in Seq(Frames),
         OwnFrames(P, s, chan[<<p, s>>]), LinkOnly(P)
  PROVE  LET t == P \o <<EndFrame(<<p, s>>, err)>>
         IN /\ t \in Seq(Frames) /\ HasEnd(t)
            /\ \A i \in 1 .. Len(t) : /\ t[i].s = s /\ t[i].ch = chan[<<p, s>>]
                                      /\ t[i].type # "begin"
<1> DEFINE f == EndFrame(<<p, s>>, err)
           t == P \o <<f>>
<1>1. chan[<<p, s>>] \in Channel
  BY DEF Inv, Held, Holding, Looping
<1>2. f \in Frames /\ f.type = "end" /\ f.s = s /\ f.ch = chan[<<p, s>>]
  BY <1>1 DEF EndFrame, Frame, Frames
<1> HIDE DEF f
<1>3. /\ t \in Seq(Frames) /\ Len(P) \in Nat /\ Len(t) = Len(P) + 1 /\ t[Len(P) + 1] = f
      /\ \A i \in 1 .. Len(P) : t[i] = P[i]
  BY <1>2
<1> HIDE DEF t
<1>4. \A i \in 1 .. Len(t) : (i \in 1 .. Len(P) /\ t[i] = P[i]) \/ (i = Len(P) + 1 /\ t[i] = f)
  BY <1>3
<1>5. Len(P) + 1 \in 1 .. Len(t)
  BY <1>3
<1>6. HasEnd(t)
  BY <1>2, <1>3, <1>5 DEF HasEnd
<1>7. \A i \in 1 .. Len(t) : t[i].s = s /\ t[i].ch = chan[<<p, s>>] /\ t[i].type # "begin"
  BY <1>2, <1>4 DEF OwnFrames, LinkOnly
<1> QED
  BY <1>3, <1>6, <1>7 DEF t, f

\* One frame of the session that is no begin.
LEMMA OneSent ==
  ASSUME NEW f \in Frames, NEW s, NEW c, f.s = s, f.ch = c, f.type # "begin"
  PROVE  /\ <<f>> \in Seq(Frames) /\ (f.type = "end" => HasEnd(<<f>>))
         /\ \A i \in 1 .. Len(<<f>>) : /\ <<f>>[i].s = s /\ <<f>>[i].ch = c
                                       /\ <<f>>[i].type # "begin"
BY DEF HasEnd

\* An empty channel holds only frames of its own session and of links.
LEMMA NoLinks == \A s, c : OwnFrames(<<>>, s, c) /\ LinkOnly(<<>>)
BY DEF OwnFrames, LinkOnly

\* What the links of a session have queued is on its own channel.
LEMMA LocalLinks ==
  ASSUME Inv, NEW p \in Peer, NEW s \in Sessions
  PROVE  OwnFrames(links[<<p, s>>], s, chan[<<p, s>>]) /\ LinkOnly(links[<<p, s>>])
BY DEF Inv, Carried

\* A link that queues a frame is a local step of its session.
LEMMA LocalLinkSends ==
  ASSUME Inv, NEW p \in Peer, NEW s \in Sessions, LinkSends(p, s)
  PROVE  TypeOK' /\ Local(p, s)
<1> DEFINE e == <<p, s>>
           n == Head(left[e].frames)
           f == Frame(n, s, chan[e], NoChannel, FALSE)
           q == links[e]
<1>1. e \in Endpoint /\ q \in Seq(Frames)
      /\ left[e] \in [frames : Seq({"ask", "bad"}), ends : Seq(BOOLEAN)]
  BY EndpointTypes DEF Inv
<1>2. /\ left[e].frames # <<>> /\ task[e] = "select" /\ conn[p] = "Opened"
      /\ links' = [links EXCEPT ![e] = Append(@, f)]
      /\ left' = [left EXCEPT ![e].frames = Tail(@)]
      /\ UNCHANGED <<conns, task, state, chan, remote, incoming, sending, ends, outcome, late>>
  BY DEF LinkSends
<1>3. chan[e] \in Channel /\ OwnFrames(q, s, chan[e]) /\ LinkOnly(q)
  BY <1>2, LocalLinks DEF Inv, Held, Holding
<1>4. left[e].frames \in Seq({"ask", "bad"}) /\ left[e].ends \in Seq(BOOLEAN)
  BY <1>1
<1>5. n \in {"ask", "bad"} /\ Tail(left[e].frames) \in Seq({"ask", "bad"})
  BY <1>2, <1>4
<1>6. f \in Frames /\ f.type \in {"ask", "bad"} /\ f.s = s /\ f.ch = chan[e]
  <2> HIDE DEF n, e
  <2> QED BY <1>3, <1>5 DEF Frame, Frames
<1> HIDE DEF f, n
<1>7. OwnFrames(Append(q, f), s, chan[e]) /\ LinkOnly(Append(q, f)) /\ Append(q, f) \in Seq(Frames)
  <2> DEFINE Q == Append(q, f)
  <2>1. /\ Q \in Seq(Frames) /\ Len(q) \in Nat /\ Len(Q) = Len(q) + 1 /\ Q[Len(q) + 1] = f
        /\ \A i \in 1 .. Len(q) : Q[i] = q[i]
    BY <1>1, <1>6
  <2> HIDE DEF Q, q, e
  <2>2. \A i \in 1 .. Len(Q) : (i \in 1 .. Len(q) /\ Q[i] = q[i]) \/ Q[i] = f
    BY <2>1
  <2> QED
    BY <1>3, <1>6, <2>1, <2>2 DEF OwnFrames, LinkOnly, Q
<1>8. links' = Set(links, e, Append(q, f))
  BY <1>2 DEF Set
<1>9. left' \in [Endpoint -> [frames : Seq({"ask", "bad"}), ends : Seq(BOOLEAN)]]
  <2> DEFINE S == Seq({"ask", "bad"})
             T == Seq(BOOLEAN)
             v == Tail(left[e].frames)
  <2>1. left \in [Endpoint -> [frames : S, ends : T]] /\ v \in S
    BY <1>5 DEF Inv, TypeOK
  <2>2. left' = [left EXCEPT ![e].frames = v]
    BY <1>2
  <2> HIDE DEF S, T, v, e
  <2>3. [left EXCEPT ![e].frames = v] \in [Endpoint -> [frames : S, ends : T]]
    BY <1>1, <2>1, LeftSet
  <2> QED
    BY <2>2, <2>3 DEF S, T
<1>10. links \in [Endpoint -> Seq(Frames)]
  BY DEF Inv, TypeOK
<1>11. links' \in [Endpoint -> Seq(Frames)] /\ links'[e] = Append(q, f)
       /\ \A x \in Endpoint : x # e => links'[x] = links[x]
  <2> HIDE DEF q, e
  <2> QED BY <1>1, <1>7, <1>8, <1>10 DEF Set
<1>12. TypeOK'
  BY <1>2, <1>9, <1>11 DEF Inv, TypeOK, conns
<1>13. Local(p, s)
  BY <1>2, <1>7, <1>11 DEF Local, Elsewhere, Sends, Looping, Ended
<1> QED
  BY <1>12, <1>13

\* end() asked by the application is a local step of the session.
LEMMA LocalAskEnd ==
  ASSUME Inv, NEW p \in Peer, NEW s \in Sessions, AskEnd(p, s)
  PROVE  TypeOK' /\ Local(p, s)
<1> DEFINE e == <<p, s>>
           S == Seq({"ask", "bad"})
           T == Seq(BOOLEAN)
           q == left[e].ends
           r == ends[e]
<1>1. e \in Endpoint /\ r \in T /\ left[e] \in [frames : S, ends : T]
      /\ left \in [Endpoint -> [frames : S, ends : T]] /\ ends \in [Endpoint -> T]
  BY EndpointTypes DEF Inv, TypeOK
<1>2. /\ q # <<>> /\ task[e] = "select" /\ conn[p] = "Opened"
      /\ ends' = [ends EXCEPT ![e] = Append(r, Head(q))]
      /\ left' = [left EXCEPT ![e].ends = Tail(q)]
      /\ UNCHANGED <<conns, task, state, chan, remote, incoming, sending, links, outcome, late>>
  BY DEF AskEnd
<1>3. q \in T
  <2> HIDE DEF S, T, e
  <2> QED BY <1>1
<1> HIDE DEF q, r
<1>4. Head(q) \in BOOLEAN /\ Tail(q) \in T
  BY <1>2, <1>3, SeqTypes
<1>5. Append(r, Head(q)) \in T
  BY <1>1, <1>4, SeqTypes
<1> HIDE DEF S, T
<1>6. left' \in [Endpoint -> [frames : S, ends : T]]
  <2> HIDE DEF e
  <2>1. [left EXCEPT ![e].ends = Tail(q)] \in [Endpoint -> [frames : S, ends : T]]
    BY <1>1, <1>4, LeftSet
  <2> QED BY <1>2, <2>1
<1>7. ends' \in [Endpoint -> T]
  <2> HIDE DEF e
  <2> QED BY <1>1, <1>2, <1>5
<1>8. TypeOK'
  BY <1>2, <1>6, <1>7 DEF Inv, TypeOK, conns, S, T
<1>9. Local(p, s)
  BY <1>2, LocalLinks DEF Local, Elsewhere, Sends, Looping, Ended
<1> QED
  BY <1>8, <1>9

\* Taking a frame of the links is a local step of the session.
LEMMA LocalLinkFrames ==
  ASSUME Inv, NEW p \in Peer, NEW s \in Sessions, OnOutgoingLinkFrames(p, s)
  PROVE  TypeOK' /\ Local(p, s)
<1> DEFINE e == <<p, s>>
           q == links[e]
           f == Head(q)
<1>1. e \in Endpoint /\ q \in Seq(Frames) /\ e[1] = p
  BY EndpointTypes DEF Inv
<1>2. /\ conn[p] = "Opened" /\ task[e] = "select" /\ sending[e] = <<>> /\ q # <<>>
      /\ links' = Set(links, e, Tail(q)) /\ sending' = Set(sending, e, <<f>>)
      /\ UNCHANGED <<conns, task, state, chan, remote, incoming, ends, left, outcome, late>>
  BY <1>1 DEF OnOutgoingLinkFrames, Selects, Send, Set
<1>3. OwnFrames(q, s, chan[e]) /\ LinkOnly(q)
  BY LocalLinks
<1> HIDE DEF q
<1>4. /\ Tail(q) \in Seq(Frames) /\ Len(q) \in Nat /\ Len(q) >= 1
      /\ Len(Tail(q)) = Len(q) - 1 /\ f = q[1] /\ f \in Frames
      /\ \A i \in 1 .. Len(q) - 1 : Tail(q)[i] = q[i + 1]
  BY <1>1, <1>2, Dropped
<1>5. \A i \in 1 .. Len(Tail(q)) : i + 1 \in 1 .. Len(q) /\ Tail(q)[i] = q[i + 1]
  BY <1>4
<1>6. OwnFrames(Tail(q), s, chan[e]) /\ LinkOnly(Tail(q))
  BY <1>3, <1>5 DEF OwnFrames, LinkOnly
<1>7. 1 \in 1 .. Len(q)
  BY <1>4
<1>8. f.s = s /\ f.ch = chan[e] /\ f.type # "begin"
  BY <1>3, <1>4, <1>7 DEF OwnFrames, LinkOnly
<1> HIDE DEF f
<1>9. <<f>> \in Seq(Frames)
      /\ \A i \in 1 .. Len(<<f>>) : <<f>>[i].s = s /\ <<f>>[i].ch = chan[e] /\ <<f>>[i].type # "begin"
  BY <1>4, <1>8, OneSent
<1>10. links \in [Endpoint -> Seq(Frames)] /\ sending \in [Endpoint -> Seq(Frames)]
  BY DEF Inv, TypeOK
<1>11. /\ links' \in [Endpoint -> Seq(Frames)] /\ sending' \in [Endpoint -> Seq(Frames)]
       /\ links'[e] = Tail(q) /\ sending'[e] = <<f>>
       /\ \A x \in Endpoint : x # e => links'[x] = links[x] /\ sending'[x] = sending[x]
  <2> HIDE DEF e
  <2>1. links' \in [Endpoint -> Seq(Frames)] /\ links'[e] = Tail(q)
        /\ \A x \in Endpoint : x # e => links'[x] = links[x]
    BY <1>1, <1>2, <1>4, <1>10 DEF Set
  <2>2. sending' \in [Endpoint -> Seq(Frames)] /\ sending'[e] = <<f>>
        /\ \A x \in Endpoint : x # e => sending'[x] = sending[x]
    BY <1>1, <1>2, <1>9, <1>10 DEF Set
  <2> QED BY <2>1, <2>2
<1>12. TypeOK'
  BY <1>2, <1>11 DEF Inv, TypeOK, conns
<1>13. Local(p, s)
  <2>1. Sends(e, s)
    BY <1>2, <1>9, <1>11 DEF Sends, Ended
  <2> QED
    BY <1>2, <1>6, <1>11, <2>1 DEF Local, Elsewhere, Looping, Ended
<1> QED
  BY <1>12, <1>13

\* Sending End on demand is a local step of the session.
LEMMA LocalControlEnd ==
  ASSUME Inv, NEW p \in Peer, NEW s \in Sessions, OnControlEnd(p, s)
  PROVE  TypeOK' /\ Local(p, s)
<1> DEFINE e == <<p, s>>
           q == links[e]
           r == ends[e]
           err == Head(r)
           t == q \o <<EndFrame(e, err)>>
<1>1. e \in Endpoint /\ q \in Seq(Frames) /\ e[1] = p /\ r \in Seq(BOOLEAN)
      /\ state[e] \in States
  BY EndpointTypes DEF Inv
<1>2. /\ conn[p] = "Opened" /\ task[e] = "select" /\ sending[e] = <<>> /\ r # <<>>
      /\ ends' = Set(ends, e, Tail(r))
      /\ UNCHANGED <<conns, chan, remote, incoming, left, late>>
  BY <1>1 DEF OnControlEnd, Selects, Set
<1>3. IF state[e] = "Mapped"
      THEN /\ state' = Set(state, e, IF err THEN "Discarding" ELSE "EndSent")
           /\ sending' = Set(sending, e, t)
           /\ links' = Set(links, e, <<>>)
           /\ UNCHANGED <<task, outcome>>
      ELSE /\ task' = Set(task, e, IF state[e] = "EndSent" THEN "waiting" ELSE "discarding")
           /\ outcome' = Set(outcome, e, "IllegalState")
           /\ UNCHANGED <<state, links, sending>>
  BY DEF OnControlEnd, Send
<1>4. OwnFrames(q, s, chan[e]) /\ LinkOnly(q)
  BY LocalLinks
<1> HIDE DEF q, r
<1>5. err \in BOOLEAN /\ Tail(r) \in Seq(BOOLEAN) /\ <<>> \in Seq(Frames)
  BY <1>1, <1>2, SeqTypes
<1> HIDE DEF err
<1>6. /\ t \in Seq(Frames) /\ HasEnd(t)
      /\ \A i \in 1 .. Len(t) : t[i].s = s /\ t[i].ch = chan[e] /\ t[i].type # "begin"
  BY <1>1, <1>2, <1>4, <1>5, EndSent, SMTT(30) DEF Looping
<1> HIDE DEF t
<1>7. ends' \in [Endpoint -> Seq(BOOLEAN)]
  <2>1. ends \in [Endpoint -> Seq(BOOLEAN)]
    BY DEF Inv, TypeOK
  <2> HIDE DEF e
  <2> QED BY <1>1, <1>2, <1>5, <2>1 DEF Set
<1>8. CASE state[e] = "Mapped"
  <2>1. /\ state' \in [Endpoint -> States] /\ sending' \in [Endpoint -> Seq(Frames)]
        /\ links' \in [Endpoint -> Seq(Frames)] /\ sending'[e] = t /\ links'[e] = <<>>
        /\ \A x \in Endpoint : x # e => state'[x] = state[x] /\ sending'[x] = sending[x]
                                        /\ links'[x] = links[x]
    <3> HIDE DEF e
    <3>1. /\ state \in [Endpoint -> States] /\ sending \in [Endpoint -> Seq(Frames)]
          /\ links \in [Endpoint -> Seq(Frames)]
      BY DEF Inv, TypeOK
    <3>2. state' \in [Endpoint -> States] /\ \A x \in Endpoint : x # e => state'[x] = state[x]
      BY <1>1, <1>3, <1>8, <3>1 DEF Set, States
    <3>3. sending' \in [Endpoint -> Seq(Frames)] /\ sending'[e] = t
          /\ \A x \in Endpoint : x # e => sending'[x] = sending[x]
      BY <1>1, <1>3, <1>6, <1>8, <3>1 DEF Set
    <3>4. links' \in [Endpoint -> Seq(Frames)] /\ links'[e] = <<>>
          /\ \A x \in Endpoint : x # e => links'[x] = links[x]
      BY <1>1, <1>3, <1>5, <1>8, <3>1 DEF Set
    <3> QED
      BY <3>2, <3>3, <3>4
  <2>2. TypeOK'
    BY <1>2, <1>3, <1>7, <1>8, <2>1 DEF Inv, TypeOK, conns
  <2>3. Sends(e, s)
    BY <1>2, <1>6, <2>1 DEF Sends
  <2>4. ~Ended(e)
    BY <1>2, <1>8 DEF Ended, HasEnded
  <2>5. Local(p, s)
    BY <1>2, <1>3, <1>8, <2>1, <2>3, <2>4, NoLinks DEF Local, Elsewhere, Looping
  <2> QED
    BY <2>2, <2>5
<1>9. CASE state[e] # "Mapped"
  <2>1. /\ task' \in [Endpoint -> Tasks] /\ outcome' \in [Endpoint -> Outcomes]
        /\ task'[e] \in {"waiting", "discarding"}
        /\ \A x \in Endpoint : x # e => task'[x] = task[x]
    <3> HIDE DEF e
    <3>1. task \in [Endpoint -> Tasks] /\ outcome \in [Endpoint -> Outcomes]
      BY DEF Inv, TypeOK
    <3>2. outcome' \in [Endpoint -> Outcomes]
      BY <1>1, <1>3, <1>9, <3>1 DEF Set, Outcomes
    <3> QED
      BY <1>1, <1>3, <1>9, <3>1, <3>2 DEF Set, Tasks
  <2>2. TypeOK'
    BY <1>2, <1>3, <1>7, <1>9, <2>1 DEF Inv, TypeOK, conns
  <2>3. Ended(e) /\ HasEnded(task'[e], state'[e])
    BY <1>2, <1>9, <2>1 DEF Ended, HasEnded
  <2>4. Sends(e, s)
    BY <1>3, <1>9, <2>3 DEF Sends
  <2>5. Local(p, s)
    BY <1>2, <1>3, <1>9, <2>1, <2>3, <2>4, LocalLinks DEF Local, Elsewhere, Looping
  <2> QED
    BY <2>2, <2>5
<1> QED
  BY <1>8, <1>9

\* Answering a link frame is a local step of the session.
LEMMA LocalAsk ==
  ASSUME Inv, NEW p \in Peer, NEW s \in Sessions, OnIncomingAsk(p, s)
  PROVE  TypeOK' /\ Local(p, s)
<1> DEFINE e == <<p, s>>
           f == Frame("answer", s, chan[e], NoChannel, FALSE)
<1>1. e \in Endpoint
  BY EndpointFacts
<1>2. /\ task[e] \in {"select", "waiting"} /\ Received(e) /\ Taken(e)
      /\ sending' = Set(sending, e, <<f>>)
      /\ late' = IF state[e] = "Mapped" THEN late ELSE late \cup {e}
      /\ UNCHANGED <<conns, task, state, chan, remote, links, ends, left, outcome>>
  BY DEF OnIncomingAsk, Send
<1>3. /\ incoming' \in [Endpoint -> Seq(Frames)] /\ conn[p] = "Opened"
      /\ incoming[e] # <<>> /\ sending[e] = <<>> /\ incoming'[e] = Tail(incoming[e])
      /\ \A x \in Endpoint : x # e => incoming'[x] = incoming[x]
  BY <1>2, TakenType DEF Inv
<1>4. chan[e] \in Channel
  BY <1>2 DEF Inv, Held, Holding
<1>5. f \in Frames /\ f.s = s /\ f.ch = chan[e] /\ f.type # "begin"
  <2> HIDE DEF e
  <2> QED BY <1>4 DEF Frame, Frames
<1> HIDE DEF f
<1>6. /\ <<f>> \in Seq(Frames)
      /\ \A i \in 1 .. Len(<<f>>) : <<f>>[i].s = s /\ <<f>>[i].ch = chan[e] /\ <<f>>[i].type # "begin"
  BY <1>5, OneSent
<1>7. /\ sending' \in [Endpoint -> Seq(Frames)] /\ sending'[e] = <<f>>
      /\ \A x \in Endpoint : x # e => sending'[x] = sending[x]
  <2>1. sending \in [Endpoint -> Seq(Frames)]
    BY DEF Inv, TypeOK
  <2> HIDE DEF e
  <2> QED BY <1>1, <1>2, <1>6, <2>1 DEF Set
<1>8. late' \subseteq Endpoint
  <2> HIDE DEF e
  <2> QED BY <1>1, <1>2 DEF Inv, TypeOK
<1>9. TypeOK'
  BY <1>2, <1>3, <1>7, <1>8 DEF Inv, TypeOK, conns
<1>10. Sends(e, s)
  BY <1>2, <1>3, <1>6, <1>7 DEF Sends, Ended
<1>11. Local(p, s)
  BY <1>2, <1>3, <1>7, <1>10, LocalLinks DEF Local, Elsewhere, Looping, Ended
<1> QED
  BY <1>9, <1>11

\* Consuming or discarding a frame is a local step of the session.
LEMMA LocalTake ==
  ASSUME Inv, NEW p \in Peer, NEW s \in Sessions, OnIncomingAnswer(p, s) \/ Discard(p, s)
  PROVE  TypeOK' /\ Local(p, s)
<1> DEFINE e == <<p, s>>
<1>1. /\ task[e] \in {"select", "waiting", "discarding"} /\ Received(e) /\ Taken(e)
      /\ UNCHANGED <<conns, task, state, chan, remote, sending, links, ends, left, outcome, late>>
  BY DEF OnIncomingAnswer, Discard
<1>2. /\ incoming' \in [Endpoint -> Seq(Frames)] /\ conn[p] = "Opened"
      /\ incoming[e] # <<>> /\ incoming'[e] = Tail(incoming[e])
      /\ \A x \in Endpoint : x # e => incoming'[x] = incoming[x]
  BY <1>1, TakenType DEF Inv
<1>3. TypeOK'
  BY <1>1, <1>2 DEF Inv, TypeOK, conns
<1>4. Local(p, s)
  BY <1>1, <1>2, LocalLinks DEF Local, Elsewhere, Looping, Ended, Sends
<1> QED
  BY <1>3, <1>4

\* A frame a session cannot handle, with the End it causes, is a local step.
LEMMA LocalBad ==
  ASSUME Inv, NEW p \in Peer, NEW s \in Sessions, OnIncomingBad(p, s)
  PROVE  TypeOK' /\ Local(p, s)
<1> DEFINE e == <<p, s>>
           t == <<EndFrame(e, TRUE)>>
<1>1. e \in Endpoint
  BY EndpointFacts
<1>2. /\ task[e] \in {"select", "waiting"} /\ Received(e) /\ Taken(e)
      /\ outcome' = Set(outcome, e, "UnattachedHandle")
      /\ UNCHANGED <<conns, chan, remote, links, ends, left, late>>
  BY DEF OnIncomingBad
<1>3. /\ incoming' \in [Endpoint -> Seq(Frames)] /\ conn[p] = "Opened"
      /\ incoming[e] # <<>> /\ sending[e] = <<>> /\ incoming'[e] = Tail(incoming[e])
      /\ \A x \in Endpoint : x # e => incoming'[x] = incoming[x]
  BY <1>2, TakenType DEF Inv
<1>4. \/ /\ task[e] = "select" /\ state[e] = "Mapped"
         /\ task' = Set(task, e, "waiting")
         /\ state' = Set(state, e, "Discarding")
         /\ sending' = Set(sending, e, t)
      \/ /\ Ended(e) /\ UNCHANGED <<state, sending>>
         /\ \E v \in {"waiting", "discarding", "stopping"} : task' = Set(task, e, v)
  <2>1. CASE task[e] = "waiting"
    BY <2>1 DEF OnIncomingBad, Ended, HasEnded
  <2>2. CASE task[e] = "select" /\ state[e] = "Mapped"
    BY <2>2 DEF OnIncomingBad, Send
  <2>3. CASE task[e] = "select" /\ state[e] # "Mapped"
    <3>1. task' = Set(task, e, IF state[e] = "EndSent" THEN "waiting" ELSE "discarding")
          /\ UNCHANGED <<state, sending>>
      BY <2>3 DEF OnIncomingBad
    <3> QED
      BY <2>3, <3>1 DEF Ended, HasEnded
  <2> QED
    BY <1>2, <2>1, <2>2, <2>3
<1>5. /\ t \in Seq(Frames) /\ HasEnd(t)
      /\ \A i \in 1 .. Len(t) : t[i].s = s /\ t[i].ch = chan[e] /\ t[i].type # "begin"
  <2> DEFINE f == EndFrame(e, TRUE)
  <2>1. chan[e] \in Channel
    BY <1>2 DEF Inv, Held, Holding
  <2>2. f \in Frames /\ f.s = s /\ f.ch = chan[e] /\ f.type = "end"
    BY <2>1 DEF EndFrame, Frame, Frames
  <2> HIDE DEF f
  <2>3. f.type # "begin"
    BY <2>2
  <2>4. /\ <<f>> \in Seq(Frames) /\ HasEnd(<<f>>)
        /\ \A i \in 1 .. Len(<<f>>) : /\ <<f>>[i].s = s /\ <<f>>[i].ch = chan[e]
                                      /\ <<f>>[i].type # "begin"
    BY <2>2, <2>3, OneSent, Zenon
  <2>5. t = <<f>>
    BY DEF f
  <2> QED
    BY <2>4, <2>5, Zenon
<1> HIDE DEF t
<1>6. task \in [Endpoint -> Tasks] /\ outcome \in [Endpoint -> Outcomes]
      /\ state \in [Endpoint -> States] /\ sending \in [Endpoint -> Seq(Frames)]
  BY DEF Inv, TypeOK
<1>7. outcome' \in [Endpoint -> Outcomes]
  <2> HIDE DEF e
  <2> QED BY <1>1, <1>2, <1>6 DEF Set, Outcomes
<1>8. CASE Ended(e) /\ UNCHANGED <<state, sending>>
           /\ \E v \in {"waiting", "discarding", "stopping"} : task' = Set(task, e, v)
  <2>1. /\ task' \in [Endpoint -> Tasks] /\ task'[e] \in {"waiting", "discarding", "stopping"}
        /\ \A x \in Endpoint : x # e => task'[x] = task[x]
    <3> HIDE DEF e
    <3> QED BY <1>1, <1>6, <1>8 DEF Set, Tasks
  <2>2. TypeOK'
    BY <1>2, <1>3, <1>7, <1>8, <2>1 DEF Inv, TypeOK, conns
  <2>3. Sends(e, s) /\ HasEnded(task'[e], state'[e])
    BY <1>8, <2>1 DEF Sends, HasEnded
  <2>4. Local(p, s)
    BY <1>2, <1>3, <1>8, <2>1, <2>3, LocalLinks DEF Local, Elsewhere, Looping
  <2> QED
    BY <2>2, <2>4
<1>9. CASE /\ task[e] = "select" /\ state[e] = "Mapped"
           /\ task' = Set(task, e, "waiting")
           /\ state' = Set(state, e, "Discarding")
           /\ sending' = Set(sending, e, t)
  <2>1. /\ task' \in [Endpoint -> Tasks] /\ task'[e] = "waiting"
        /\ state' \in [Endpoint -> States] /\ sending' \in [Endpoint -> Seq(Frames)]
        /\ sending'[e] = t
        /\ \A x \in Endpoint : x # e => task'[x] = task[x] /\ state'[x] = state[x]
                                        /\ sending'[x] = sending[x]
    <3> HIDE DEF e
    <3>1. /\ task' \in [Endpoint -> Tasks] /\ task'[e] = "waiting"
          /\ \A x \in Endpoint : x # e => task'[x] = task[x]
      BY <1>1, <1>6, <1>9 DEF Set, Tasks
    <3>2. state' \in [Endpoint -> States] /\ \A x \in Endpoint : x # e => state'[x] = state[x]
      BY <1>1, <1>6, <1>9 DEF Set, States
    <3>3. /\ sending' \in [Endpoint -> Seq(Frames)] /\ sending'[e] = t
          /\ \A x \in Endpoint : x # e => sending'[x] = sending[x]
      BY <1>1, <1>5, <1>6, <1>9 DEF Set
    <3> QED
      BY <3>1, <3>2, <3>3
  <2>2. TypeOK'
    BY <1>2, <1>3, <1>7, <2>1 DEF Inv, TypeOK, conns
  <2>3. Sends(e, s) /\ HasEnded(task'[e], state'[e])
    BY <1>3, <1>5, <2>1 DEF Sends, HasEnded
  <2>4. Local(p, s)
    BY <1>2, <1>3, <2>1, <2>3, LocalLinks DEF Local, Elsewhere, Looping
  <2> QED
    BY <2>2, <2>4
<1> QED
  BY <1>4, <1>8, <1>9

\* The peer's End ahead of one's own is a local step, its answer included.
LEMMA LocalEndFirst ==
  ASSUME Inv, NEW p \in Peer, NEW s \in Sessions, OnIncomingEndFirst(p, s)
  PROVE  TypeOK' /\ Local(p, s)
<1> DEFINE e == <<p, s>>
           t == <<EndFrame(e, links[e] # <<>>)>>
           v == IF links[e] # <<>> THEN "IllegalState" ELSE RemoteEnd(Head(incoming[e]).error)
<1>1. e \in Endpoint
  BY EndpointFacts
<1>2. /\ task[e] = "select" /\ Received(e) /\ Taken(e) /\ state[e] = "Mapped"
      /\ state' = Set(state, e, "Unmapped") /\ sending' = Set(sending, e, t)
      /\ links' = Set(links, e, <<>>) /\ task' = Set(task, e, "stopping")
      /\ outcome' = Set(outcome, e, v)
      /\ UNCHANGED <<conns, chan, remote, ends, left, late>>
  BY DEF OnIncomingEndFirst, Send
<1>3. /\ incoming' \in [Endpoint -> Seq(Frames)] /\ conn[p] = "Opened"
      /\ incoming[e] # <<>> /\ sending[e] = <<>> /\ incoming'[e] = Tail(incoming[e])
      /\ \A x \in Endpoint : x # e => incoming'[x] = incoming[x]
  BY <1>2, TakenType DEF Inv
<1>4. v \in Outcomes
  BY DEF Outcomes, RemoteEnd
<1> HIDE DEF v
<1>5. /\ t \in Seq(Frames) /\ HasEnd(t)
      /\ \A i \in 1 .. Len(t) : t[i].s = s /\ t[i].ch = chan[e] /\ t[i].type # "begin"
  <2> DEFINE f == EndFrame(e, links[e] # <<>>)
  <2>1. chan[e] \in Channel
    BY <1>2 DEF Inv, Held, Holding
  <2>2. f \in Frames /\ f.s = s /\ f.ch = chan[e] /\ f.type = "end"
    BY <2>1 DEF EndFrame, Frame, Frames
  <2> HIDE DEF f
  <2>3. f.type # "begin"
    BY <2>2
  <2>4. /\ <<f>> \in Seq(Frames) /\ HasEnd(<<f>>)
        /\ \A i \in 1 .. Len(<<f>>) : /\ <<f>>[i].s = s /\ <<f>>[i].ch = chan[e]
                                      /\ <<f>>[i].type # "begin"
    BY <2>2, <2>3, OneSent, Zenon
  <2>5. t = <<f>>
    BY DEF f
  <2> QED
    BY <2>4, <2>5, Zenon
<1> HIDE DEF t
<1>6. /\ task \in [Endpoint -> Tasks] /\ outcome \in [Endpoint -> Outcomes]
      /\ state \in [Endpoint -> States] /\ sending \in [Endpoint -> Seq(Frames)]
      /\ links \in [Endpoint -> Seq(Frames)] /\ <<>> \in Seq(Frames)
  BY DEF Inv, TypeOK
<1>7. /\ task' \in [Endpoint -> Tasks] /\ task'[e] = "stopping" /\ outcome' \in [Endpoint -> Outcomes]
      /\ state' \in [Endpoint -> States] /\ sending' \in [Endpoint -> Seq(Frames)]
      /\ links' \in [Endpoint -> Seq(Frames)] /\ links'[e] = <<>> /\ sending'[e] = t
      /\ \A x \in Endpoint : x # e => task'[x] = task[x] /\ state'[x] = state[x]
                                      /\ sending'[x] = sending[x] /\ links'[x] = links[x]
  <2> HIDE DEF e
  <2>1. /\ task' \in [Endpoint -> Tasks] /\ task'[e] = "stopping"
        /\ \A x \in Endpoint : x # e => task'[x] = task[x]
    BY <1>1, <1>2, <1>6 DEF Set, Tasks
  <2>2. state' \in [Endpoint -> States] /\ \A x \in Endpoint : x # e => state'[x] = state[x]
    BY <1>1, <1>2, <1>6 DEF Set, States
  <2>3. /\ sending' \in [Endpoint -> Seq(Frames)] /\ sending'[e] = t
        /\ \A x \in Endpoint : x # e => sending'[x] = sending[x]
    BY <1>1, <1>2, <1>5, <1>6 DEF Set
  <2>4. /\ links' \in [Endpoint -> Seq(Frames)] /\ links'[e] = <<>>
        /\ \A x \in Endpoint : x # e => links'[x] = links[x]
    BY <1>1, <1>2, <1>6 DEF Set
  <2>5. outcome' \in [Endpoint -> Outcomes]
    BY <1>1, <1>2, <1>4, <1>6 DEF Set
  <2> QED
    BY <2>1, <2>2, <2>3, <2>4, <2>5
<1>8. TypeOK'
  BY <1>2, <1>3, <1>7 DEF Inv, TypeOK, conns
<1>9. Sends(e, s) /\ HasEnded(task'[e], state'[e])
  BY <1>3, <1>5, <1>7 DEF Sends, HasEnded
<1>10. Local(p, s)
  BY <1>2, <1>3, <1>7, <1>9, NoLinks DEF Local, Elsewhere, Looping
<1> QED
  BY <1>8, <1>10

\* The peer's End after one's own is a local step of the session.
LEMMA LocalEndSecond ==
  ASSUME Inv, NEW p \in Peer, NEW s \in Sessions, OnIncomingEndSecond(p, s)
  PROVE  TypeOK' /\ Local(p, s)
<1> DEFINE e == <<p, s>>
           h == Head(incoming[e])
           v == CASE h.error /\ (outcome[e] = "none" \/ (task[e] = "waiting" /\ state[e] = "Discarding")) -> "RemoteEndedWithError"
                  [] ~h.error /\ outcome[e] = "none" -> "Ok"
                  [] OTHER -> outcome[e]
<1>1. e \in Endpoint /\ outcome[e] \in Outcomes
  BY EndpointTypes DEF Inv
<1>2. /\ task[e] \in {"select", "waiting", "discarding"} /\ Received(e) /\ Taken(e)
      /\ state[e] # "Mapped"
      /\ state' = Set(state, e, "Unmapped") /\ task' = Set(task, e, "stopping")
      /\ outcome' = Set(outcome, e, v)
      /\ UNCHANGED <<conns, chan, remote, sending, links, ends, left, late>>
  BY DEF OnIncomingEndSecond
<1>3. /\ incoming' \in [Endpoint -> Seq(Frames)] /\ conn[p] = "Opened"
      /\ incoming[e] # <<>> /\ incoming'[e] = Tail(incoming[e])
      /\ \A x \in Endpoint : x # e => incoming'[x] = incoming[x]
  BY <1>2, TakenType DEF Inv
<1>4. v \in Outcomes
  BY <1>1 DEF Outcomes
<1> HIDE DEF v
<1>5. /\ task \in [Endpoint -> Tasks] /\ outcome \in [Endpoint -> Outcomes]
      /\ state \in [Endpoint -> States]
  BY DEF Inv, TypeOK
<1>6. /\ task' \in [Endpoint -> Tasks] /\ task'[e] = "stopping" /\ outcome' \in [Endpoint -> Outcomes]
      /\ state' \in [Endpoint -> States]
      /\ \A x \in Endpoint : x # e => task'[x] = task[x] /\ state'[x] = state[x]
  <2> HIDE DEF e
  <2>1. /\ task' \in [Endpoint -> Tasks] /\ task'[e] = "stopping"
        /\ \A x \in Endpoint : x # e => task'[x] = task[x]
    BY <1>1, <1>2, <1>5 DEF Set, Tasks
  <2>2. state' \in [Endpoint -> States] /\ \A x \in Endpoint : x # e => state'[x] = state[x]
    BY <1>1, <1>2, <1>5 DEF Set, States
  <2>3. outcome' \in [Endpoint -> Outcomes]
    BY <1>1, <1>2, <1>4, <1>5 DEF Set
  <2> QED
    BY <2>1, <2>2, <2>3
<1>7. TypeOK'
  BY <1>2, <1>3, <1>6 DEF Inv, TypeOK, conns
<1>8. Ended(e) /\ HasEnded(task'[e], state'[e])
  BY <1>2, <1>6 DEF HasEnded, Ended
<1>9. Local(p, s)
  BY <1>2, <1>3, <1>6, <1>8, LocalLinks DEF Local, Elsewhere, Looping, Sends
<1> QED
  BY <1>7, <1>9

-----------------------------------------------------------------------------
(* Steps of the sessions that leave the connections as they are.           *)

\* What is unchanged.
Quiet == UNCHANGED <<conn, by_out, vacant, by_in, outgoing, wire, forwarding, chan>>

\* How the task of a session goes on,
Moves(p, s) ==
  /\ task'[<<p, s>>] \in Holding => task[<<p, s>>] \in Holding
  /\ task[<<p, s>>] = "gone" => task'[<<p, s>>] = "gone"
  /\ task[<<p, s>>] # "none" => task'[<<p, s>>] # "none"
  /\ task'[<<p, s>>] \in {"none", "alloc"} => task[<<p, s>>] \in {"none", "alloc"}
  /\ conn[p] = "Opened" /\ task[<<p, s>>] \in {"alloc", "dropped"} =>
       task'[<<p, s>>] \in {"alloc", "dropped"}
  /\ task[<<p, s>>] \notin {"none", "alloc", "begin"} =>
       task'[<<p, s>>] \notin {"none", "alloc", "begin"}
  /\ task[<<p, s>>] \notin {"none", "offered"} => task'[<<p, s>>] \notin {"none", "offered"}
  /\ p = Listener => /\ task[<<p, s>>] = "none" => task'[<<p, s>>] = "none"
                     /\ remote'[<<p, s>>] = remote[<<p, s>>]
  /\ Begun(<<p, s>>) => task'[<<p, s>>] \in Looping \cup {"gone"}

\* what it has to send,
CarriedAt(t, st, P, L, s, c) ==
  /\ P # <<>> => t \in Looping \cup {"answer"}
  /\ L # <<>> => t \in Looping \cup {"gone"}
  /\ OwnFrames(P, s, c) /\ OwnFrames(L, s, c) /\ LinkOnly(L)
  /\ HasBegin(P, s) => ~HasEnded(t, st) /\ Len(P) = 1

Emits(p, s) ==
  /\ CarriedAt(task'[<<p, s>>], state'[<<p, s>>], sending'[<<p, s>>], links'[<<p, s>>], s,
               chan[<<p, s>>])
  /\ HasBegin(sending'[<<p, s>>], s) =>
       \/ HasBegin(sending[<<p, s>>], s)
       \/ p = Client /\ task[<<p, s>>] = "begin"
       \/ p = Listener /\ task[<<p, s>>] = "offered"
  /\ p = Client => Asks(sending'[<<p, s>>], chan)
  /\ p = Listener => Replies(sending'[<<p, s>>], chan)
  /\ conn[p] = "Opened" /\ HasEnded(task'[<<p, s>>], state'[<<p, s>>])
     /\ ~HasEnd(sending'[<<p, s>>]) => Ended(<<p, s>>) /\ ~HasEnd(sending[<<p, s>>])

\* and what it has received.
Takes(p, s) ==
  /\ \A i \in 1 .. Len(incoming'[<<p, s>>]) : incoming'[<<p, s>>][i].s = s
  /\ HasBegin(incoming'[<<p, s>>], s) => HasBegin(incoming[<<p, s>>], s)
  /\ p = Client /\ task'[<<p, s>>] \in Looping \cup {"gone"} =>
       Begun(<<p, s>>) \/ HasBegin(incoming[<<p, s>>], s)

Advances(p, s) == Moves(p, s) /\ Emits(p, s) /\ Takes(p, s)

\* A session that the step does not concern.
LEMMA Bystander ==
  ASSUME Inv, NEW p \in Peer, NEW s \in Sessions,
         task'[<<p, s>>] = task[<<p, s>>], state'[<<p, s>>] = state[<<p, s>>],
         sending'[<<p, s>>] = sending[<<p, s>>], links'[<<p, s>>] = links[<<p, s>>],
         incoming'[<<p, s>>] = incoming[<<p, s>>], p = Listener => remote'[<<p, s>>] = remote[<<p, s>>]
  PROVE  Advances(p, s)
<1>1. Moves(p, s)
  BY DEF Moves, Begun
<1>2. Emits(p, s)
  BY PeersDiffer DEF Emits, CarriedAt, Inv, Carried, Ended, Named
<1>3. Takes(p, s)
  BY DEF Takes, Inv, Delivered, Begun
<1> QED
  BY <1>1, <1>2, <1>3 DEF Advances

\* A step that leaves wire, queue and forwarding alone leaves the pipes alone.
LEMMA QuietPipes ==
  ASSUME Quiet
  PROVE  \A q : Pipe(q)' = Pipe(q)
BY DEF Quiet, Pipe

\* Such steps preserve the invariant, but for what they ask of the connection.
LEMMA AdvancesKeep ==
  ASSUME Inv, TypeOK', Quiet, \A p \in Peer, s \in Sessions : Advances(p, s),
         Holder', Requested'
  PROVE  Inv'
<1>1. UNCHANGED <<conn, by_out, vacant, by_in, outgoing, wire, forwarding, chan>>
  BY DEF Quiet
<1>2. \A q : Pipe(q)' = Pipe(q)
  BY QuietPipes
<1>3. \A p \in Peer, s \in Sessions : Moves(p, s) /\ Emits(p, s) /\ Takes(p, s)
  BY DEF Advances
<1>4. Client \in Peer /\ Listener \in Peer
  BY PeerFacts
<1>5. Held'
  BY <1>1, <1>3 DEF Held, Moves, Inv
<1>6. Vacancies'
  BY <1>1 DEF Vacancies, Inv
<1>7. Carried'
  BY <1>1, <1>3, ZenonT(60) DEF Carried, Emits, CarriedAt, Ended
<1>8. Routed'
  BY <1>1, <1>2 DEF Routed, Inv
<1>9. Closed'
  <2> SUFFICES ASSUME NEW p \in Peer, NEW s \in Sessions,
                      conn[p] = "Opened", HasEnded(task'[<<p, s>>], state'[<<p, s>>]),
                      ~HasEnd(sending'[<<p, s>>]),
                      chan[<<p, s>>] \in Channel, by_out[p][chan[<<p, s>>]] = s
               PROVE  Clean(Pipe(p), by_in[Other(p)], chan[<<p, s>>], NoSession)
    BY <1>1, <1>2 DEF Closed, Ended
  <2>1. Ended(<<p, s>>) /\ ~HasEnd(sending[<<p, s>>])
    BY <1>3 DEF Emits
  <2> QED
    BY <2>1 DEF Inv, Closed
<1>10. ASSUME NEW s \in Sessions
       PROVE  /\ M0(s) => M0(s)' /\ ~(task[<<Client, s>>] = "begin")
              /\ M1(s) => M1(s)'
              /\ N3(s) => N3(s)' /\ ~(task[<<Listener, s>>] = "offered")
              /\ N4(s) => N4(s)'
  BY <1>3, <1>4, PeersDiffer DEF Moves, Emits, M0, M1, N3, N4
<1>11. ASSUME NEW s \in Sessions
       PROVE  /\ M2(s) => M2(s)'
              /\ N5(s) => N5(s)'
              /\ N6(s) => N6(s)'
  BY <1>1, <1>2, <1>10 DEF M2, N5, N6
<1>12. Handshake'
  <2> SUFFICES ASSUME NEW s \in Sessions
               PROVE  /\ HasBegin(Pipe(Client), s) => M1(s)' /\ Once(Pipe(Client), s)
                      /\ task'[<<Listener, s>>] # "none" =>
                           M2(s)' /\ remote'[<<Listener, s>>] = chan[<<Client, s>>]
                      /\ HasBegin(Pipe(Listener), s) => N4(s)' /\ Once(Pipe(Listener), s)
                      /\ Relayed(forwarding[Client], s) => N5(s)'
                      /\ HasBegin(incoming'[<<Client, s>>], s) \/ Begun(<<Client, s>>)' => N6(s)'
    BY <1>1, <1>2 DEF Handshake
  <2>1. /\ HasBegin(Pipe(Client), s) => M1(s) /\ Once(Pipe(Client), s)
        /\ task[<<Listener, s>>] # "none" => M2(s) /\ remote[<<Listener, s>>] = chan[<<Client, s>>]
        /\ HasBegin(Pipe(Listener), s) => N4(s) /\ Once(Pipe(Listener), s)
        /\ Relayed(forwarding[Client], s) => N5(s)
        /\ HasBegin(incoming[<<Client, s>>], s) \/ Begun(<<Client, s>>) => N6(s)
    BY DEF Inv, Handshake
  <2>2. task'[<<Listener, s>>] # "none" =>
          task[<<Listener, s>>] # "none" /\ remote'[<<Listener, s>>] = remote[<<Listener, s>>]
    BY <1>3, <1>4 DEF Moves
  <2>3. HasBegin(incoming'[<<Client, s>>], s) \/ Begun(<<Client, s>>)' =>
          HasBegin(incoming[<<Client, s>>], s) \/ Begun(<<Client, s>>)
    BY <1>3, <1>4 DEF Takes, Begun
  <2>4. (M1(s) => M1(s)') /\ (M2(s) => M2(s)') /\ (N4(s) => N4(s)')
        /\ (N5(s) => N5(s)') /\ (N6(s) => N6(s)')
    BY <1>10, <1>11 DEF N5, N6
  <2> QED
    BY <2>1, <2>2, <2>3, <2>4
<1>13. Awaited'
  <2> SUFFICES ASSUME NEW s \in Sessions, Pending(s)'
               PROVE  /\ chan[<<Client, s>>] \in Channel
                      /\ Begun(<<Client, s>>)' \/ by_out[Client][chan[<<Client, s>>]] = s
    BY <1>1 DEF Awaited
  <2>1. CASE Pending(s)
    BY <1>3, <1>4, <2>1 DEF Inv, Awaited, Moves, Begun
  <2>2. CASE ~Pending(s)
    <3>1. task[<<Client, s>>] = "begin"
      BY <1>2, <1>3, <1>4, <2>2, PeersDiffer DEF Pending, Emits, Moves
    <3> QED
      BY <1>4, <3>1 DEF Inv, Held, Holding
  <2> QED
    BY <2>1, <2>2
<1>14. Named'
  BY <1>1, <1>2, <1>3, <1>4 DEF Named, Emits, Inv
<1>15. Delivered'
  BY <1>1, <1>3 DEF Delivered, Takes, Inv
<1> QED
  BY <1>5, <1>6, <1>7, <1>8, <1>9, <1>12, <1>13, <1>14, <1>15 DEF Inv

\* A request to the connection names a session and, to release, a channel.
LEMMA RequestFacts ==
  ASSUME TypeOK, NEW p \in Peer, NEW i \in 1 .. Len(control[p])
  PROVE  /\ control[p][i].s \in Sessions
         /\ control[p][i].op \in {"allocate", "deallocate"}
         /\ control[p][i].op = "deallocate" => control[p][i].ch \in Channel
<1>1. control[p] \in Seq(Requests)
  BY DEF TypeOK
<1>2. control[p][i] \in Requests
  BY <1>1
<1> QED
  BY <1>2 DEF Requests

\* What has been asked of the connection stays true,
LEMMA ControlSame ==
  ASSUME Inv, Quiet, UNCHANGED control, \A p \in Peer, s \in Sessions : Moves(p, s),
         \A p \in Peer, s \in Sessions :
           conn[p] = "Opened" /\ task'[<<p, s>>] = "gone" => task[<<p, s>>] = "gone"
  PROVE  Holder' /\ Requested'
<1>1. UNCHANGED <<conn, by_out, vacant, by_in, outgoing, wire, forwarding, chan, control>>
  BY DEF Quiet
<1>2. Holder'
  <2> SUFFICES ASSUME NEW p \in Peer, NEW c \in Channel, NEW s \in Sessions, by_out[p][c] = s
               PROVE  /\ chan[<<p, s>>] = c
                      /\ task'[<<p, s>>] \notin {"none", "alloc"}
                      /\ conn[p] = "Opened" /\ task'[<<p, s>>] = "gone" =>
                           \E i \in 1 .. Len(control[p]) :
                             control[p][i].op = "deallocate" /\ control[p][i].ch = c
    BY <1>1 DEF Holder
  <2>1. /\ chan[<<p, s>>] = c
        /\ task[<<p, s>>] \notin {"none", "alloc"}
        /\ conn[p] = "Opened" /\ task[<<p, s>>] = "gone" =>
             \E i \in 1 .. Len(control[p]) :
               control[p][i].op = "deallocate" /\ control[p][i].ch = c
    BY DEF Inv, Holder
  <2> QED
    BY <2>1 DEF Moves
<1>3. ASSUME NEW p \in Peer
      PROVE  /\ \A i \in 1 .. Len(control[p]) :
                  RequestOK(control[p][i], p, task'[<<p, control[p][i].s>>], conn[p], by_out[p])
             /\ Distinct(control[p])
  <2>1. ASSUME NEW i \in 1 .. Len(control[p])
        PROVE  RequestOK(control[p][i], p, task'[<<p, control[p][i].s>>], conn[p], by_out[p])
    <3>1. control[p][i].s \in Sessions
      BY RequestFacts DEF Inv
    <3>2. RequestOK(control[p][i], p, task[<<p, control[p][i].s>>], conn[p], by_out[p])
      BY DEF Inv, Requested
    <3>3. Moves(p, control[p][i].s)
      BY <3>1
    <3> QED
      BY <3>2, <3>3 DEF Moves, RequestOK
  <2> QED
    BY <2>1 DEF Inv, Requested
<1>4. Requested'
  BY <1>1, <1>3 DEF Requested
<1> QED
  BY <1>2, <1>4

\* A step of one session asks for nothing unless it ends the task.
LEMMA OneAdvances ==
  ASSUME Inv, TypeOK', Quiet, UNCHANGED control, NEW p \in Peer, NEW s \in Sessions,
         Advances(p, s), Elsewhere(p, s),
         \A x \in Endpoint : x # <<p, s>> \/ p = Listener => remote'[x] = remote[x],
         task'[<<p, s>>] = "gone" => task[<<p, s>>] = "gone"
  PROVE  Inv'
<1>1. ASSUME NEW q \in Peer, NEW t \in Sessions
      PROVE  Advances(q, t) /\ (task'[<<q, t>>] = "gone" => task[<<q, t>>] = "gone")
  <2>1. CASE q = p /\ t = s
    BY <2>1
  <2>2. CASE ~(q = p /\ t = s)
    <3>1. <<q, t>> # <<p, s>> /\ <<q, t>> \in Endpoint
      BY <2>2, EndpointFacts
    <3> QED
      BY <3>1, Bystander DEF Elsewhere
  <2> QED
    BY <2>1, <2>2
<1>2. Holder' /\ Requested'
  BY <1>1, ControlSame DEF Advances
<1> QED
  BY <1>1, <1>2, AdvancesKeep

\* The items of a tail are the items of the sequence from the second on.
LEMMA TailFacts ==
  ASSUME NEW S, NEW P \in Seq(S), P # <<>>
  PROVE  \A i \in 1 .. Len(Tail(P)) : i + 1 \in 1 .. Len(P) /\ Tail(P)[i] = P[i + 1]
<1>1. /\ Len(P) \in Nat /\ Len(P) >= 1 /\ Len(Tail(P)) = Len(P) - 1
      /\ \A i \in 1 .. Len(P) - 1 : Tail(P)[i] = P[i + 1]
  BY Dropped
<1> QED
  BY <1>1

\* A local step of one session keeps the invariant.
LEMMA KeepLocal ==
  ASSUME Inv, TypeOK', NEW p \in Peer, NEW s \in Sessions, Local(p, s)
  PROVE  Inv'
<1> DEFINE e == <<p, s>>
<1>1. e \in Endpoint /\ incoming[e] \in Seq(Frames) /\ sending[e] \in Seq(Frames)
  BY EndpointTypes DEF Inv
<1>2. Quiet /\ UNCHANGED <<control, remote>>
  BY DEF Local, conns, Quiet
<1>3. /\ Elsewhere(p, s) /\ conn[p] = "Opened"
      /\ task[e] \in Looping /\ task'[e] \in Looping
      /\ Ended(e) => HasEnded(task'[e], state'[e])
      /\ Sends(e, s)
      /\ OwnFrames(links'[e], s, chan[e]) /\ LinkOnly(links'[e])
      /\ \/ incoming'[e] = incoming[e]
         \/ incoming[e] # <<>> /\ incoming'[e] = Tail(incoming[e])
  BY DEF Local
<1>4. Moves(p, s)
  BY <1>2, <1>3 DEF Moves, Looping, Holding, Begun
<1>5. CarriedAt(task[e], state[e], sending[e], links[e], s, chan[e])
  BY DEF Inv, Carried, CarriedAt, Ended
<1>6. /\ p = Client => Asks(sending[e], chan)
      /\ p = Listener => Replies(sending[e], chan)
  BY DEF Inv, Named
<1>7. Emits(p, s)
  <2>1. CASE sending'[e] = sending[e] /\ (HasEnded(task'[e], state'[e]) => Ended(e))
    <3>1. CarriedAt(task'[e], state'[e], sending'[e], links'[e], s, chan[e])
      BY <1>3, <1>5, <2>1 DEF CarriedAt, Ended
    <3> QED
      BY <1>3, <1>6, <2>1, <3>1 DEF Emits
  <2>2. CASE /\ sending[e] = <<>>
             /\ \A i \in 1 .. Len(sending'[e]) : /\ sending'[e][i].s = s /\ sending'[e][i].ch = chan[e]
                                                 /\ sending'[e][i].type # "begin"
             /\ HasEnded(task'[e], state'[e]) => Ended(e) \/ HasEnd(sending'[e])
    <3>1. ~HasBegin(sending'[e], s) /\ OwnFrames(sending'[e], s, chan[e])
      BY <2>2 DEF HasBegin, BeginOf, OwnFrames
    <3>2. CarriedAt(task'[e], state'[e], sending'[e], links'[e], s, chan[e])
      BY <1>3, <3>1 DEF CarriedAt
    <3>3. Asks(sending'[e], chan) /\ Replies(sending'[e], chan)
      BY <2>2 DEF Asks, Replies
    <3>4. ~HasEnd(<<>>)
      BY DEF HasEnd
    <3> QED
      BY <2>2, <3>1, <3>2, <3>3, <3>4 DEF Emits
  <2> QED
    BY <1>3, <2>1, <2>2 DEF Sends
<1>8. \A i \in 1 .. Len(incoming[e]) : incoming[e][i].s = s
  BY DEF Inv, Delivered
<1>9. Takes(p, s)
  <2>1. Begun(e)
    BY <1>3 DEF Begun
  <2>2. CASE incoming'[e] = incoming[e]
    BY <1>8, <2>1, <2>2 DEF Takes
  <2>3. CASE incoming[e] # <<>> /\ incoming'[e] = Tail(incoming[e])
    <3>1. HasBegin(Tail(incoming[e]), s) => HasBegin(incoming[e], s)
      BY <1>1, <2>3, BeginTake
    <3>2. \A i \in 1 .. Len(Tail(incoming[e])) :
            i + 1 \in 1 .. Len(incoming[e]) /\ Tail(incoming[e])[i] = incoming[e][i + 1]
      BY <1>1, <2>3, TailFacts
    <3> QED
      BY <1>8, <2>1, <2>3, <3>1, <3>2 DEF Takes
  <2> QED
    BY <1>3, <2>2, <2>3
<1>10. task'[e] # "gone"
  BY <1>3 DEF Looping
<1> QED
  BY <1>2, <1>3, <1>4, <1>7, <1>9, <1>10, OneAdvances DEF Advances

\* Sending Begin on the allocated channel keeps the invariant.
LEMMA KeepSendBegin ==
  ASSUME Inv, NEW s \in Sessions, SendBegin(s)
  PROVE  Inv'
<1> DEFINE e == <<Client, s>>
           f == Frame("begin", s, chan[e], NoChannel, FALSE)
<1>1. TypeOK'
  BY TypeBegin
<1>2. e \in Endpoint /\ Client \in Peer /\ Client # Listener
  BY EndpointFacts, PeerFacts
<1>3. /\ task[e] = "begin" /\ task' = Set(task, e, "answer") /\ state' = Set(state, e, "BeginSent")
      /\ sending' = Set(sending, e, <<f>>)
      /\ UNCHANGED <<conns, chan, remote, incoming, links, ends, left, outcome, late>>
  BY DEF SendBegin
<1>4. /\ Quiet /\ UNCHANGED <<control, remote, incoming, links, chan>>
  BY <1>3 DEF conns, Quiet
<1>5. /\ task'[e] = "answer" /\ state'[e] = "BeginSent" /\ sending'[e] = <<f>>
      /\ \A x \in Endpoint : x # e => task'[x] = task[x] /\ state'[x] = state[x]
                                      /\ sending'[x] = sending[x]
  <2>1. task \in [Endpoint -> Tasks] /\ state \in [Endpoint -> States]
        /\ sending \in [Endpoint -> Seq(Frames)]
    BY DEF Inv, TypeOK
  <2> HIDE DEF e, f
  <2> QED
    BY <1>2, <1>3, <2>1 DEF Set
<1>6. Elsewhere(Client, s)
  BY <1>4, <1>5 DEF Elsewhere
<1>7. Moves(Client, s)
  BY <1>2, <1>3, <1>5 DEF Moves, Holding, Looping, Begun
<1>8. f.type = "begin" /\ f.s = s /\ f.ch = chan[e] /\ f.remote = NoChannel
  BY DEF Frame
<1> HIDE DEF f
<1>9. Len(<<f>>) = 1 /\ \A i \in 1 .. Len(<<f>>) : <<f>>[i] = f
  OBVIOUS
<1>10. OwnFrames(<<f>>, s, chan[e]) /\ Asks(<<f>>, chan)
  BY <1>8, <1>9 DEF OwnFrames, Asks
<1>11. CarriedAt(task'[e], state'[e], sending'[e], links'[e], s, chan[e])
  <2>1. links[e] = <<>> /\ OwnFrames(links[e], s, chan[e]) /\ LinkOnly(links[e])
    BY <1>2, <1>3 DEF Inv, Carried, Looping
  <2> QED
    BY <1>4, <1>5, <1>9, <1>10, <2>1 DEF CarriedAt, HasEnded
<1>12. Emits(Client, s)
  BY <1>2, <1>3, <1>5, <1>10, <1>11 DEF Emits, HasEnded
<1>13. Takes(Client, s)
  BY <1>2, <1>4, <1>5 DEF Takes, Looping, Inv, Delivered
<1> QED
  BY <1>1, <1>2, <1>4, <1>5, <1>6, <1>7, <1>12, <1>13, OneAdvances DEF Advances

\* The answering Begin read by its session keeps the invariant.
LEMMA KeepBeginFrame ==
  ASSUME Inv, NEW s \in Sessions, OnIncomingBeginFrame(s)
  PROVE  Inv'
<1> DEFINE e == <<Client, s>>
           q == incoming[e]
<1>1. TypeOK'
  BY TypeAnswer
<1>2. e \in Endpoint /\ Client \in Peer /\ Client # Listener /\ q \in Seq(Frames)
  BY EndpointTypes, PeerFacts DEF Inv
<1>3. /\ task[e] = "answer" /\ Received(e) /\ Head(q).type = "begin" /\ Taken(e)
      /\ task' = Set(task, e, "select") /\ state' = Set(state, e, "Mapped")
      /\ remote' = Set(remote, e, Head(q).ch)
      /\ UNCHANGED <<conns, chan, sending, links, ends, left, outcome, late>>
  BY DEF OnIncomingBeginFrame
<1>4. /\ q # <<>> /\ sending[e] = <<>> /\ incoming'[e] = Tail(q)
      /\ \A x \in Endpoint : x # e => incoming'[x] = incoming[x]
  BY <1>2, <1>3, TakenType DEF Inv
<1>5. Quiet /\ UNCHANGED <<control, sending, links, chan>>
  BY <1>3 DEF conns, Quiet
<1>6. /\ task'[e] = "select" /\ state'[e] = "Mapped"
      /\ \A x \in Endpoint : x # e => task'[x] = task[x] /\ state'[x] = state[x]
                                      /\ remote'[x] = remote[x]
  <2>1. task \in [Endpoint -> Tasks] /\ state \in [Endpoint -> States]
        /\ remote \in [Endpoint -> Channel \cup {NoChannel}]
    BY DEF Inv, TypeOK
  <2> HIDE DEF e, q
  <2> QED
    BY <1>2, <1>3, <2>1 DEF Set
<1>7. Elsewhere(Client, s)
  BY <1>4, <1>5, <1>6 DEF Elsewhere
<1>8. Moves(Client, s)
  BY <1>2, <1>3, <1>6 DEF Moves, Holding, Looping, Begun
<1>9. ~HasBegin(<<>>, s) /\ OwnFrames(<<>>, s, chan[e]) /\ Asks(<<>>, chan)
  BY DEF HasBegin, OwnFrames, Asks
<1>10. CarriedAt(task'[e], state'[e], sending'[e], links'[e], s, chan[e])
  <2>1. OwnFrames(links[e], s, chan[e]) /\ LinkOnly(links[e])
    BY <1>2, <1>3 DEF Inv, Carried
  <2> QED
    BY <1>4, <1>5, <1>6, <1>9, <2>1 DEF CarriedAt, Looping
<1>11. Emits(Client, s)
  BY <1>2, <1>4, <1>5, <1>6, <1>9, <1>10 DEF Emits, HasEnded
<1>12. \A i \in 1 .. Len(q) : q[i].s = s
  BY <1>2 DEF Inv, Delivered
<1> HIDE DEF q
<1>13. HasBegin(q, s)
  <2>1. 1 \in 1 .. Len(q) /\ Head(q) = q[1]
    BY <1>2, <1>4
  <2> QED
    BY <1>3, <1>12, <2>1 DEF HasBegin, BeginOf
<1>14. \A i \in 1 .. Len(Tail(q)) : Tail(q)[i].s = s
  BY <1>2, <1>4, <1>12, TailFacts
<1>15. Takes(Client, s)
  BY <1>4, <1>13, <1>14 DEF Takes, q
<1> QED
  BY <1>1, <1>2, <1>5, <1>6, <1>7, <1>8, <1>11, <1>15, OneAdvances DEF Advances

\* Accepting a remote Begin keeps the invariant.
LEMMA KeepAccept ==
  ASSUME Inv, NEW s \in Sessions, Accept(s)
  PROVE  Inv'
<1> DEFINE e == <<Listener, s>>
           f == Frame("begin", s, chan[e], remote[e], FALSE)
<1>1. TypeOK'
  BY TypeAnswer
<1>2. e \in Endpoint /\ Listener \in Peer /\ Client # Listener
  BY EndpointFacts, PeerFacts
<1>3. /\ task[e] = "offered" /\ task' = Set(task, e, "select") /\ state' = Set(state, e, "Mapped")
      /\ sending' = Set(sending, e, <<f>>)
      /\ UNCHANGED <<conns, chan, remote, incoming, links, ends, left, outcome, late>>
  BY DEF Accept
<1>4. /\ Quiet /\ UNCHANGED <<control, remote, incoming, links, chan>>
  BY <1>3 DEF conns, Quiet
<1>5. /\ task'[e] = "select" /\ state'[e] = "Mapped" /\ sending'[e] = <<f>>
      /\ \A x \in Endpoint : x # e => task'[x] = task[x] /\ state'[x] = state[x]
                                      /\ sending'[x] = sending[x]
  <2>1. task \in [Endpoint -> Tasks] /\ state \in [Endpoint -> States]
        /\ sending \in [Endpoint -> Seq(Frames)]
    BY DEF Inv, TypeOK
  <2> HIDE DEF e, f
  <2> QED
    BY <1>2, <1>3, <2>1 DEF Set
<1>6. Elsewhere(Listener, s)
  BY <1>4, <1>5 DEF Elsewhere
<1>7. Moves(Listener, s)
  BY <1>2, <1>3, <1>4, <1>5 DEF Moves, Holding, Looping, Begun
<1>8. f.type = "begin" /\ f.s = s /\ f.ch = chan[e] /\ f.remote = chan[<<Client, s>>]
  <2>1. remote[e] = chan[<<Client, s>>]
    BY <1>3 DEF Inv, Handshake
  <2> QED
    BY <2>1 DEF Frame
<1> HIDE DEF f
<1>9. Len(<<f>>) = 1 /\ \A i \in 1 .. Len(<<f>>) : <<f>>[i] = f
  OBVIOUS
<1>10. OwnFrames(<<f>>, s, chan[e]) /\ Replies(<<f>>, chan)
  BY <1>8, <1>9 DEF OwnFrames, Replies
<1>11. CarriedAt(task'[e], state'[e], sending'[e], links'[e], s, chan[e])
  <2>1. OwnFrames(links[e], s, chan[e]) /\ LinkOnly(links[e])
    BY <1>2, <1>3 DEF Inv, Carried
  <2> QED
    BY <1>4, <1>5, <1>9, <1>10, <2>1 DEF CarriedAt, HasEnded, Looping
<1>12. Emits(Listener, s)
  BY <1>2, <1>3, <1>5, <1>10, <1>11 DEF Emits, HasEnded
<1>13. Takes(Listener, s)
  BY <1>2, <1>4 DEF Takes, Inv, Delivered
<1> QED
  BY <1>1, <1>2, <1>4, <1>5, <1>6, <1>7, <1>12, <1>13, OneAdvances DEF Advances

\* The future or the IncomingSession is dropped, with what it held.
LEMMA KeepDropped ==
  ASSUME Inv, TypeOK', NEW p \in Peer, NEW s \in Sessions,
         task[<<p, s>>] \in {"alloc", "begin", "answer", "offered"},
         task' = Set(task, <<p, s>>, "dropped"), incoming' = Set(incoming, <<p, s>>, <<>>),
         \/ sending' = Set(sending, <<p, s>>, <<>>)
         \/ task[<<p, s>>] = "offered" /\ UNCHANGED sending,
         UNCHANGED <<conns, state, chan, remote, links>>
  PROVE  Inv'
<1> DEFINE e == <<p, s>>
<1>1. e \in Endpoint /\ Client # Listener
  BY EndpointFacts, PeerFacts
<1>2. Quiet /\ UNCHANGED <<control, remote, state, links, chan>>
  BY DEF conns, Quiet
<1>3. links[e] = <<>> /\ OwnFrames(links[e], s, chan[e]) /\ LinkOnly(links[e])
  BY DEF Inv, Carried, Looping
<1>4. task[e] = "offered" => sending[e] = <<>>
  BY DEF Inv, Carried, Looping
<1>5. /\ task'[e] = "dropped" /\ sending'[e] = <<>> /\ incoming'[e] = <<>>
      /\ \A x \in Endpoint : x # e => task'[x] = task[x] /\ sending'[x] = sending[x]
                                      /\ incoming'[x] = incoming[x]
  <2>1. task \in [Endpoint -> Tasks] /\ sending \in [Endpoint -> Seq(Frames)]
        /\ incoming \in [Endpoint -> Seq(Frames)]
    BY DEF Inv, TypeOK
  <2>2. /\ task'[e] = "dropped" /\ incoming'[e] = <<>>
        /\ \A x \in Endpoint : x # e => task'[x] = task[x] /\ incoming'[x] = incoming[x]
    BY <1>1, <2>1 DEF Set
  <2>3. sending'[e] = <<>> /\ \A x \in Endpoint : x # e => sending'[x] = sending[x]
    BY <1>1, <1>4, <2>1 DEF Set
  <2> QED
    BY <2>2, <2>3
<1>6. Elsewhere(p, s)
  BY <1>2, <1>5 DEF Elsewhere
<1>7. Moves(p, s)
  BY <1>2, <1>5 DEF Moves, Holding, Looping, Begun
<1>8. ~HasBegin(<<>>, s) /\ OwnFrames(<<>>, s, chan[e]) /\ Asks(<<>>, chan) /\ Replies(<<>>, chan)
  BY DEF HasBegin, OwnFrames, Asks, Replies
<1>9. CarriedAt(task'[e], state'[e], sending'[e], links'[e], s, chan[e])
  BY <1>2, <1>3, <1>5, <1>8 DEF CarriedAt
<1>10. Emits(p, s)
  BY <1>2, <1>5, <1>8, <1>9 DEF Emits, HasEnded
<1>11. Takes(p, s)
  BY <1>5, <1>8 DEF Takes, Looping
<1> QED
  BY <1>2, <1>5, <1>6, <1>7, <1>10, <1>11, OneAdvances DEF Advances

\* A begin() cancelled, or refused, keeps the invariant.
LEMMA KeepDrops ==
  ASSUME Inv, NEW s \in Sessions, CancelBegin(s) \/ Refuse(s)
  PROVE  Inv'
<1>1. Client \in Peer /\ Listener \in Peer
  BY PeerFacts
<1>2. CASE CancelBegin(s)
  <2>1. TypeOK'
    BY <1>2, TypeBegin
  <2> QED
    BY <1>1, <1>2, <2>1, KeepDropped DEF CancelBegin
<1>3. CASE Refuse(s)
  <2>1. TypeOK'
    BY <1>3, TypeAnswer
  <2> QED
    BY <1>1, <1>3, <2>1, KeepDropped DEF Refuse
<1> QED
  BY <1>2, <1>3

\* or is joined by one request more.
LEMMA ControlAppend ==
  ASSUME Inv, Quiet, \A q \in Peer, t \in Sessions : Moves(q, t),
         NEW p \in Peer, NEW r \in Requests, control' = [control EXCEPT ![p] = Append(@, r)],
         RequestOK(r, p, task'[<<p, r.s>>], conn[p], by_out[p]),
         \A i \in 1 .. Len(control[p]) : ~(control[p][i].op = r.op /\ control[p][i].s = r.s),
         \A q \in Peer, t \in Sessions : conn[q] = "Opened" /\ task'[<<q, t>>] = "gone" =>
           \/ task[<<q, t>>] = "gone"
           \/ q = p /\ r.op = "deallocate" /\ r.s = t /\ r.ch = chan[<<q, t>>]
  PROVE  Holder' /\ Requested'
<1> DEFINE C(q) == control[q]
           D(q) == control'[q]
           n == Len(C(p))
<1>1. UNCHANGED <<conn, by_out, vacant, by_in, outgoing, wire, forwarding, chan>>
  BY DEF Quiet
<1>2. control \in [Peer -> Seq(Requests)] /\ C(p) \in Seq(Requests)
  BY DEF Inv, TypeOK
<1>3. D(p) = Append(C(p), r) /\ \A q \in Peer : q # p => D(q) = C(q)
  BY <1>2
<1>4. n \in Nat /\ Len(D(p)) = n + 1 /\ D(p)[n + 1] = r /\ \A i \in 1 .. n : D(p)[i] = C(p)[i]
  BY <1>2, <1>3, Appended
<1>5. \A i \in 1 .. Len(D(p)) : (i \in 1 .. n /\ D(p)[i] = C(p)[i]) \/ (i = n + 1 /\ D(p)[i] = r)
  BY <1>4
<1>6. n + 1 \in 1 .. Len(D(p)) /\ \A i \in 1 .. n : i \in 1 .. Len(D(p))
  BY <1>4
<1> HIDE DEF n
<1>7. ASSUME NEW q \in Peer, NEW i \in 1 .. Len(C(q))
      PROVE  i \in 1 .. Len(D(q)) /\ D(q)[i] = C(q)[i]
  BY <1>3, <1>4, <1>6 DEF n
<1>8. ASSUME NEW q \in Peer, NEW i \in 1 .. Len(C(q))
      PROVE  RequestOK(C(q)[i], q, task'[<<q, C(q)[i].s>>], conn[q], by_out[q])
  <2>1. C(q)[i].s \in Sessions
    BY RequestFacts DEF Inv
  <2>2. RequestOK(C(q)[i], q, task[<<q, C(q)[i].s>>], conn[q], by_out[q])
    BY DEF Inv, Requested
  <2>3. Moves(q, C(q)[i].s)
    BY <2>1
  <2> HIDE DEF C
  <2> QED
    BY <2>2, <2>3 DEF Moves, RequestOK
<1>9. ASSUME NEW q \in Peer
      PROVE  Distinct(C(q))
  BY DEF Inv, Requested
<1>10. ASSUME NEW q \in Peer, NEW c \in Channel, NEW s \in Sessions, by_out[q][c] = s
       PROVE  /\ chan[<<q, s>>] = c
              /\ task[<<q, s>>] \notin {"none", "alloc"}
              /\ conn[q] = "Opened" /\ task[<<q, s>>] = "gone" =>
                   \E i \in 1 .. Len(C(q)) : C(q)[i].op = "deallocate" /\ C(q)[i].ch = c
  BY <1>10 DEF Inv, Holder
<1> HIDE DEF C, D
<1>11. ASSUME NEW q \in Peer, NEW c \in Channel, NEW s \in Sessions, by_out[q][c] = s
       PROVE  /\ chan[<<q, s>>] = c
              /\ task'[<<q, s>>] \notin {"none", "alloc"}
              /\ conn[q] = "Opened" /\ task'[<<q, s>>] = "gone" =>
                   \E i \in 1 .. Len(D(q)) : D(q)[i].op = "deallocate" /\ D(q)[i].ch = c
  <2>1. chan[<<q, s>>] = c /\ task[<<q, s>>] \notin {"none", "alloc"}
    BY <1>10, <1>11
  <2>2. Moves(q, s)
    OBVIOUS
  <2>3. task'[<<q, s>>] \notin {"none", "alloc"}
    BY <2>1, <2>2 DEF Moves
  <2>4. ASSUME conn[q] = "Opened", task[<<q, s>>] = "gone"
        PROVE  \E i \in 1 .. Len(D(q)) : D(q)[i].op = "deallocate" /\ D(q)[i].ch = c
    <3>1. PICK i \in 1 .. Len(C(q)) : C(q)[i].op = "deallocate" /\ C(q)[i].ch = c
      BY <1>10, <1>11, <2>4
    <3> QED
      BY <1>7, <3>1
  <2>5. ASSUME q = p, r.op = "deallocate", r.ch = chan[<<q, s>>]
        PROVE  \E i \in 1 .. Len(D(q)) : D(q)[i].op = "deallocate" /\ D(q)[i].ch = c
    BY <1>4, <1>6, <2>1, <2>5
  <2> QED
    BY <2>1, <2>3, <2>4, <2>5
<1>12. Holder'
  BY <1>1, <1>11 DEF Holder, D
<1>13. ASSUME NEW q \in Peer, NEW i \in 1 .. Len(D(q))
       PROVE  RequestOK(D(q)[i], q, task'[<<q, D(q)[i].s>>], conn[q], by_out[q])
  BY <1>3, <1>5, <1>8 DEF n
<1>14. ASSUME NEW q \in Peer
       PROVE  Distinct(D(q))
  <2>1. CASE q # p
    BY <1>3, <1>9, <2>1
  <2>2. CASE q = p
    <3> SUFFICES ASSUME NEW i \in 1 .. Len(D(p)), NEW j \in 1 .. Len(D(p)),
                        D(p)[j].op = D(p)[i].op, D(p)[j].s = D(p)[i].s
                 PROVE  i = j
      BY <2>2 DEF Distinct
    <3>1. \A k \in 1 .. n : ~(C(p)[k].op = r.op /\ C(p)[k].s = r.s)
      BY DEF C, n
    <3>2. Distinct(C(p))
      BY <1>9
    <3>3. CASE i \in 1 .. n /\ D(p)[i] = C(p)[i]
      BY <1>5, <3>1, <3>2, <3>3 DEF Distinct, n
    <3>4. CASE i = n + 1 /\ D(p)[i] = r
      BY <1>5, <3>1, <3>4
    <3> QED
      BY <1>5, <3>3, <3>4
  <2> QED
    BY <2>1, <2>2
<1>15. Requested'
  BY <1>1, <1>13, <1>14 DEF Requested, D
<1> QED
  BY <1>12, <1>15

\* A begin() that asks for a channel keeps the invariant.
LEMMA KeepBegin ==
  ASSUME Inv, NEW s \in Sessions, Begin(s)
  PROVE  Inv'
<1> DEFINE e == <<Client, s>>
           r == [op |-> "allocate", s |-> s]
<1>1. TypeOK'
  BY TypeBegin
<1>2. e \in Endpoint /\ Client \in Peer /\ Client # Listener
  BY EndpointFacts, PeerFacts
<1>3. /\ task[e] = "none" /\ task' = Set(task, e, "alloc")
      /\ control' = [control EXCEPT ![Client] = Append(@, r)]
      /\ UNCHANGED <<conn, by_out, vacant, by_in, outgoing, wire, forwarding, state, chan, remote,
                     incoming, sending, links, ends, left, outcome, late>>
  BY DEF Begin
<1>4. Quiet
  BY <1>3 DEF Quiet
<1>5. task'[e] = "alloc" /\ \A x \in Endpoint : x # e => task'[x] = task[x]
  <2>1. task \in [Endpoint -> Tasks]
    BY DEF Inv, TypeOK
  <2> HIDE DEF e
  <2> QED
    BY <1>2, <1>3, <2>1 DEF Set
<1>6. sending[e] = <<>> /\ links[e] = <<>>
  BY <1>2, <1>3 DEF Inv, Carried, Looping
<1>7. Advances(Client, s)
  <2>1. Moves(Client, s)
    BY <1>2, <1>3, <1>5 DEF Moves, Holding, Looping, Begun
  <2>2. CarriedAt(task[e], state[e], sending[e], links[e], s, chan[e])
    BY <1>2 DEF Inv, Carried, CarriedAt, Ended
  <2>3. ~HasBegin(<<>>, s) /\ Asks(<<>>, chan)
    BY DEF HasBegin, Asks
  <2>4. CarriedAt(task'[e], state'[e], sending'[e], links'[e], s, chan[e])
    BY <1>3, <1>6, <2>2, <2>3 DEF CarriedAt
  <2>5. Emits(Client, s)
    BY <1>2, <1>3, <1>5, <1>6, <2>3, <2>4 DEF Emits, HasEnded
  <2>6. Takes(Client, s)
    BY <1>2, <1>3, <1>5 DEF Takes, Looping, Inv, Delivered
  <2> QED
    BY <2>1, <2>5, <2>6 DEF Advances
<1>8. ASSUME NEW q \in Peer, NEW t \in Sessions
      PROVE  Advances(q, t) /\ (task'[<<q, t>>] = "gone" => task[<<q, t>>] = "gone")
  <2>1. CASE q = Client /\ t = s
    BY <1>5, <1>7, <2>1
  <2>2. CASE ~(q = Client /\ t = s)
    <3>1. <<q, t>> # e /\ <<q, t>> \in Endpoint
      BY <2>2, EndpointFacts
    <3> QED
      BY <1>3, <1>5, <3>1, Bystander
  <2> QED
    BY <2>1, <2>2
<1>9. r \in Requests /\ r.op = "allocate" /\ r.s = s
  BY DEF Requests
<1> HIDE DEF r
<1>10. RequestOK(r, Client, task'[<<Client, r.s>>], conn[Client], by_out[Client])
  BY <1>2, <1>3, <1>5, <1>9 DEF RequestOK, Inv, Holder
<1>11. \A i \in 1 .. Len(control[Client]) : ~(control[Client][i].op = r.op /\ control[Client][i].s = r.s)
  BY <1>2, <1>3, <1>9 DEF Inv, Requested, RequestOK
<1>12. Holder' /\ Requested'
  BY <1>2, <1>3, <1>4, <1>8, <1>9, <1>10, <1>11, ControlAppend DEF Advances
<1> QED
  BY <1>1, <1>4, <1>8, <1>12, AdvancesKeep

\* A session that stops, and asks to release its channel, keeps the invariant.
LEMMA KeepStop ==
  ASSUME Inv, NEW p \in Peer, NEW s \in Sessions, Stop(p, s)
  PROVE  Inv'
<1> DEFINE e == <<p, s>>
           r == [op |-> "deallocate", s |-> s, ch |-> chan[e]]
<1>1. TypeOK'
  BY TypeHandOver
<1>2. e \in Endpoint /\ e[2] = s /\ Client # Listener
  BY EndpointFacts, PeerFacts
<1>3. /\ conn[p] = "Opened" /\ task[e] = "stopping" /\ sending[e] = <<>>
      /\ task' = Set(task, e, "gone")
      /\ incoming' = Set(incoming, e, <<>>)
      /\ control' = [control EXCEPT ![p] = Append(@, r)]
      /\ UNCHANGED <<conn, by_out, vacant, by_in, outgoing, wire, forwarding, state, chan, remote,
                     sending, links, ends, left, outcome, late>>
  BY <1>2 DEF Stop, Deallocation
<1>4. Quiet
  BY <1>3 DEF Quiet
<1>5. task'[e] = "gone" /\ incoming'[e] = <<>>
      /\ \A x \in Endpoint : x # e => task'[x] = task[x] /\ incoming'[x] = incoming[x]
  <2>1. task \in [Endpoint -> Tasks] /\ incoming \in [Endpoint -> Seq(Frames)]
    BY DEF Inv, TypeOK
  <2> HIDE DEF e, r
  <2> QED
    BY <1>2, <1>3, <2>1 DEF Set
<1>6. Advances(p, s)
  <2>1. Moves(p, s)
    BY <1>2, <1>3, <1>5 DEF Moves, Holding, Looping, Begun
  <2>2. CarriedAt(task[e], state[e], sending[e], links[e], s, chan[e])
    BY DEF Inv, Carried, CarriedAt, Ended
  <2>3. ~HasBegin(<<>>, s) /\ ~HasEnd(<<>>) /\ Asks(<<>>, chan) /\ Replies(<<>>, chan)
    BY DEF HasBegin, HasEnd, Asks, Replies
  <2>4. CarriedAt(task'[e], state'[e], sending'[e], links'[e], s, chan[e])
    BY <1>3, <1>5, <2>2, <2>3 DEF CarriedAt
  <2>5. Emits(p, s)
    BY <1>3, <2>3, <2>4 DEF Emits, Ended, HasEnded
  <2>6. Takes(p, s)
    BY <1>3, <1>5, <2>3 DEF Takes, Looping, Begun
  <2> QED
    BY <2>1, <2>5, <2>6 DEF Advances
<1>7. ASSUME NEW q \in Peer, NEW t \in Sessions
      PROVE  Advances(q, t) /\ (task'[<<q, t>>] = "gone" => task[<<q, t>>] = "gone" \/ (q = p /\ t = s))
  <2>1. CASE q = p /\ t = s
    BY <1>5, <1>6, <2>1
  <2>2. CASE ~(q = p /\ t = s)
    <3>1. <<q, t>> # e /\ <<q, t>> \in Endpoint
      BY <2>2, EndpointFacts
    <3> QED
      BY <1>3, <1>5, <3>1, Bystander
  <2> QED
    BY <2>1, <2>2
<1>8. chan[e] \in Channel /\ by_out[p][chan[e]] = s
  BY <1>3 DEF Inv, Held, Holding
<1>9. r \in Requests /\ r.op = "deallocate" /\ r.s = s /\ r.ch = chan[e]
  BY <1>8 DEF Requests
<1> HIDE DEF r
<1>10. RequestOK(r, p, task'[<<p, r.s>>], conn[p], by_out[p])
  BY <1>5, <1>8, <1>9 DEF RequestOK
<1>11. \A i \in 1 .. Len(control[p]) : ~(control[p][i].op = r.op /\ control[p][i].s = r.s)
  BY <1>3, <1>9 DEF Inv, Requested, RequestOK
<1>12. Holder' /\ Requested'
  BY <1>3, <1>4, <1>7, <1>9, <1>10, <1>11, ControlAppend, ZenonT(60) DEF Advances
<1> QED
  BY <1>1, <1>4, <1>7, <1>12, AdvancesKeep

\* All sessions of a connection that has stopped.
LEMMA KeepStopped ==
  ASSUME Inv, NEW p \in Peer, OnConnectionStopped(p)
  PROVE  Inv'
<1>1. TypeOK'
  BY TypeStopped
<1>2. conn[p] # "Opened" /\ UNCHANGED <<conns, state, chan, remote, links, ends, left, late>>
  BY DEF OnConnectionStopped
<1>3. Quiet /\ UNCHANGED <<control, state, remote, links>>
  BY <1>2 DEF conns, Quiet
<1>4. ASSUME NEW q \in Peer, NEW s \in Sessions
      PROVE  /\ Advances(q, s)
             /\ conn[q] = "Opened" /\ task'[<<q, s>>] = "gone" => task[<<q, s>>] = "gone"
  <2> DEFINE e == <<q, s>>
             stopped == {x \in Endpoint : x[1] = p /\ Listening(x)}
  <2>1. e \in Endpoint /\ e[1] = q /\ Client # Listener
    BY EndpointFacts, PeerFacts
  <2>2. /\ task'[e] = IF e \notin stopped THEN task[e]
                      ELSE IF task[e] \in {"alloc", "begin", "answer", "offered"} THEN "failed"
                      ELSE "gone"
        /\ sending'[e] = IF e \in stopped THEN <<>> ELSE sending[e]
        /\ incoming'[e] = IF e \in stopped THEN <<>> ELSE incoming[e]
    BY <2>1 DEF OnConnectionStopped
  <2>3. CASE e \notin stopped
    <3>1. task'[e] = task[e] /\ sending'[e] = sending[e] /\ incoming'[e] = incoming[e]
      BY <2>2, <2>3
    <3> QED
      BY <1>3, <3>1, Bystander
  <2>4. CASE e \in stopped
    <3>1. q = p /\ Listening(e)
      BY <2>1, <2>4
    <3>2. task'[e] = (IF task[e] \in {"alloc", "begin", "answer", "offered"} THEN "failed" ELSE "gone")
          /\ sending'[e] = <<>> /\ incoming'[e] = <<>>
      BY <2>2, <2>4
    <3> HIDE DEF stopped
    <3>3. Moves(q, s)
      BY <1>2, <1>3, <2>1, <3>1, <3>2 DEF Moves, Holding, Looping, Begun, Listening
    <3>4. CarriedAt(task[e], state[e], sending[e], links[e], s, chan[e])
      BY DEF Inv, Carried, CarriedAt, Ended
    <3>5. ~HasBegin(<<>>, s) /\ OwnFrames(<<>>, s, chan[e]) /\ Asks(<<>>, chan) /\ Replies(<<>>, chan)
      BY DEF HasBegin, OwnFrames, Asks, Replies
    <3>6. CarriedAt(task'[e], state'[e], sending'[e], links'[e], s, chan[e])
      BY <1>3, <3>1, <3>2, <3>4, <3>5 DEF CarriedAt, Looping, Listening
    <3>7. Emits(q, s)
      BY <1>2, <3>1, <3>2, <3>5, <3>6 DEF Emits
    <3>8. Takes(q, s)
      BY <3>1, <3>2, <3>5 DEF Takes, Looping, Begun, Listening
    <3> QED
      BY <1>2, <3>1, <3>3, <3>7, <3>8 DEF Advances
  <2> QED
    BY <2>3, <2>4
<1>5. Holder' /\ Requested'
  BY <1>3, <1>4, ControlSame DEF Advances
<1> QED
  BY <1>1, <1>3, <1>4, <1>5, AdvancesKeep

-----------------------------------------------------------------------------
(* Frames on their way.                                                    *)

\* Adding to the second part of a pipe adds to the pipe.
LEMMA PipeAppend ==
  ASSUME NEW S, NEW u \in Seq(S), NEW v \in Seq(S), NEW f \in S
  PROVE  u \o Append(v, f) = Append(u \o v, f)
OBVIOUS

\* Moving a frame from the second part to the first leaves the pipe as it is.
LEMMA PipeShift ==
  ASSUME NEW S, NEW u \in Seq(S), NEW v \in Seq(S), v # <<>>
  PROVE  Append(u, Head(v)) \o Tail(v) = u \o v
OBVIOUS

\* Taking from the first part takes from the pipe.
LEMMA PipeTake ==
  ASSUME NEW S, NEW u \in Seq(S), NEW v \in Seq(S), u # <<>>
  PROVE  Tail(u) \o v = Tail(u \o v) /\ Head(u \o v) = Head(u) /\ u \o v # <<>>
OBVIOUS

\* Pipes are sequences of frames.
LEMMA PipeType ==
  ASSUME TypeOK, NEW p \in Peer
  PROVE  Pipe(p) \in Seq(Frames) /\ wire[p] \in Seq(Frames) /\ outgoing[p] \in Seq(Frames)
<1>1. wire[p] \in Seq(Frames) /\ outgoing[p] \in Seq(Frames)
  BY DEF TypeOK
<1> QED
  BY <1>1 DEF Pipe

\* The frame that the session s of p hands over, and the channel it is for.
LEMMA HandedOver ==
  ASSUME Inv, NEW p \in Peer, NEW s \in Sessions, HandOver(p, s)
  PROVE  LET e == <<p, s>>
             f == Head(sending[e])
         IN /\ sending[e] \in Seq(Frames) /\ sending[e] # <<>> /\ f \in Frames
            /\ f.s = s /\ f.ch = chan[e] /\ chan[e] \in Channel /\ by_out[p][chan[e]] = s
            /\ task[e] \in Looping \cup {"answer"}
            /\ Pipe(p)' = Append(Pipe(p), f) /\ Pipe(Other(p))' = Pipe(Other(p))
            /\ sending'[e] = Tail(sending[e])
            /\ \A x \in Endpoint : x # e => sending'[x] = sending[x]
            /\ UNCHANGED <<conn, by_out, vacant, by_in, control, forwarding, task, state, chan,
                           remote, incoming, links>>
<1> DEFINE e == <<p, s>>
           f == Head(sending[e])
<1>1. e \in Endpoint /\ sending[e] \in Seq(Frames) /\ sending \in [Endpoint -> Seq(Frames)]
      /\ outgoing \in [Peer -> Seq(Frames)] /\ Other(p) \in Peer /\ Other(p) # p
  BY EndpointTypes, PeerFacts DEF Inv, TypeOK
<1>2. /\ sending[e] # <<>>
      /\ outgoing' = [outgoing EXCEPT ![p] = Append(@, f)]
      /\ sending' = [sending EXCEPT ![e] = Tail(@)]
      /\ UNCHANGED <<conn, by_out, vacant, by_in, control, wire, forwarding, task, state, chan,
                     remote, incoming, links>>
  BY DEF HandOver
<1>3. OwnFrames(sending[e], s, chan[e]) /\ task[e] \in Looping \cup {"answer"}
  BY <1>2 DEF Inv, Carried
<1>4. chan[e] \in Channel /\ by_out[p][chan[e]] = s
  BY <1>3 DEF Inv, Held, Holding, Looping
<1>5. f = sending[e][1] /\ 1 \in 1 .. Len(sending[e]) /\ f \in Frames
  BY <1>1, <1>2
<1>6. f.s = s /\ f.ch = chan[e]
  BY <1>3, <1>5 DEF OwnFrames
<1> HIDE DEF f
<1>7. Pipe(p)' = Append(Pipe(p), f)
  <2>1. wire[p] \in Seq(Frames) /\ outgoing[p] \in Seq(Frames)
    BY PipeType DEF Inv
  <2>2. outgoing'[p] = Append(outgoing[p], f) /\ wire'[p] = wire[p]
    BY <1>1, <1>2
  <2>3. wire[p] \o Append(outgoing[p], f) = Append(wire[p] \o outgoing[p], f)
    <3> DEFINE u == wire[p]
               v == outgoing[p]
    <3>1. u \in Seq(Frames) /\ v \in Seq(Frames) /\ f \in Frames
      BY <1>5, <2>1
    <3> HIDE DEF u, v
    <3>2. u \o Append(v, f) = Append(u \o v, f)
      BY <3>1, PipeAppend
    <3> QED
      BY <3>2 DEF u, v
  <2> QED
    BY <2>2, <2>3 DEF Pipe
<1>8. Pipe(Other(p))' = Pipe(Other(p))
  BY <1>1, <1>2 DEF Pipe
<1>9. sending'[e] = Tail(sending[e]) /\ \A x \in Endpoint : x # e => sending'[x] = sending[x]
  <2> HIDE DEF e
  <2> QED
    BY <1>1, <1>2
<1> QED
  BY <1>1, <1>2, <1>3, <1>4, <1>5, <1>6, <1>7, <1>8, <1>9 DEF f

\* Ends in a sequence that loses its first frame.
LEMMA EndTake ==
  ASSUME NEW S, NEW P \in Seq(S), P # <<>>, HasEnd(P), ~HasEnd(Tail(P))
  PROVE  Head(P).type = "end"
<1>1. /\ Len(P) \in Nat /\ Len(P) >= 1 /\ Head(P) = P[1] /\ Len(Tail(P)) = Len(P) - 1
      /\ \A i \in 1 .. Len(P) - 1 : Tail(P)[i] = P[i + 1]
  BY Dropped
<1>2. PICK k \in 1 .. Len(P) : P[k].type = "end"
  BY DEF HasEnd
<1>3. CASE k = 1
  BY <1>1, <1>2, <1>3
<1>4. CASE k # 1
  <2>1. k - 1 \in 1 .. Len(Tail(P)) /\ Tail(P)[k - 1] = P[k]
    BY <1>1, <1>4
  <2> QED
    BY <1>2, <2>1 DEF HasEnd
<1> QED
  BY <1>3, <1>4

\* Conditions on every frame of a sequence that grows or shrinks.
LEMMA NamesAppend ==
  ASSUME NEW S, NEW P \in Seq(S), NEW f \in S, NEW ch
  PROVE  /\ Asks(P, ch) /\ (f.type = "begin" => f.remote = NoChannel /\ f.ch = ch[<<Client, f.s>>])
              => Asks(Append(P, f), ch)
         /\ Replies(P, ch) /\ (f.type = "begin" => f.remote = ch[<<Client, f.s>>])
              => Replies(Append(P, f), ch)
<1> DEFINE Q == Append(P, f)
<1>1. Len(P) \in Nat /\ Len(Q) = Len(P) + 1 /\ Q[Len(P) + 1] = f /\ \A i \in 1 .. Len(P) : Q[i] = P[i]
  BY Appended
<1> HIDE DEF Q
<1>2. \A i \in 1 .. Len(Q) : (i \in 1 .. Len(P) /\ Q[i] = P[i]) \/ Q[i] = f
  BY <1>1
<1> QED
  BY <1>2 DEF Asks, Replies, Q

\* What Begins name in a pipe is still right in its tail.
LEMMA NamesTake ==
  ASSUME NEW S, NEW P \in Seq(S), P # <<>>, NEW ch
  PROVE  /\ Asks(P, ch) => Asks(Tail(P), ch)
         /\ Asks(P, ch) /\ Head(P).type = "begin" =>
              Head(P).remote = NoChannel /\ Head(P).ch = ch[<<Client, Head(P).s>>]
         /\ Replies(P, ch) => Replies(Tail(P), ch)
         /\ Replies(P, ch) /\ Head(P).type = "begin" => Head(P).remote = ch[<<Client, Head(P).s>>]
<1>1. \A i \in 1 .. Len(Tail(P)) : i + 1 \in 1 .. Len(P) /\ Tail(P)[i] = P[i + 1]
  BY TailFacts
<1>2. Head(P) = P[1] /\ 1 \in 1 .. Len(P)
  OBVIOUS
<1> HIDE DEF Asks, Replies
<1>3. Asks(P, ch) => Asks(Tail(P), ch)
  BY <1>1 DEF Asks
<1>4. Replies(P, ch) => Replies(Tail(P), ch)
  BY <1>1 DEF Replies
<1> QED
  BY <1>2, <1>3, <1>4 DEF Asks, Replies

\* A frame handed from a session to the connection keeps the invariant.
LEMMA KeepHandOver ==
  ASSUME Inv, NEW p \in Peer, NEW s \in Sessions, HandOver(p, s)
  PROVE  Inv'
<1> DEFINE e == <<p, s>>
           q == sending[e]
           f == Head(q)
           P == Pipe(p)
           bi == by_in[Other(p)]
<1>1. TypeOK'
  BY TypeHandOver
<1>2. /\ q \in Seq(Frames) /\ q # <<>> /\ f \in Frames
      /\ f.s = s /\ f.ch = chan[e] /\ chan[e] \in Channel /\ by_out[p][chan[e]] = s
      /\ task[e] \in Looping \cup {"answer"}
      /\ Pipe(p)' = Append(P, f) /\ Pipe(Other(p))' = Pipe(Other(p))
      /\ sending'[e] = Tail(q)
      /\ \A x \in Endpoint : x # e => sending'[x] = sending[x]
  BY HandedOver
<1>3. UNCHANGED <<conn, by_out, vacant, by_in, control, forwarding, task, state, chan,
                  remote, incoming, links>>
  BY HandedOver
<1>4. /\ P \in Seq(Frames) /\ e \in Endpoint /\ Other(p) \in Peer /\ Other(p) # p
      /\ \A r \in Peer : r = p \/ r = Other(p)
  BY PipeType, EndpointFacts, PeerFacts DEF Inv
<1>5. /\ CarriedAt(task[e], state[e], q, links[e], s, chan[e])
      /\ p = Client => Asks(q, chan)
      /\ p = Listener => Replies(q, chan)
  BY DEF Inv, Carried, CarriedAt, Ended, Named
<1>6. Separated(P) /\ Inbound(P, bi) /\ \A c \in Channel : Clean(P, bi, c, by_out[p][c])
  BY DEF Inv, Routed
<1> HIDE DEF q, f, P, bi
<1>7. /\ HasBegin(Tail(q), s) => HasBegin(q, s)
      /\ BeginOf(f, s) => HasBegin(q, s)
  BY <1>2, BeginTake DEF f
<1>8. \A i \in 1 .. Len(Tail(q)) : i + 1 \in 1 .. Len(q) /\ Tail(q)[i] = q[i + 1]
  BY <1>2, TailFacts
<1>9. f.type = "begin" => HasBegin(q, s) /\ ~Ended(e) /\ ~HasBegin(Tail(q), s)
  <2> SUFFICES ASSUME f.type = "begin"
               PROVE  HasBegin(q, s) /\ ~Ended(e) /\ ~HasBegin(Tail(q), s)
    OBVIOUS
  <2>1. HasBegin(q, s)
    BY <1>2, <1>7 DEF BeginOf
  <2>2. ~Ended(e) /\ Len(q) = 1
    BY <1>5, <2>1 DEF CarriedAt, Ended
  <2>3. Len(Tail(q)) = 0
    BY <1>2, <2>2
  <2>4. ~HasBegin(Tail(q), s)
    BY <2>3 DEF HasBegin
  <2> QED
    BY <2>1, <2>2, <2>4
<1>10. CarriedAt(task[e], state[e], Tail(q), links[e], s, chan[e])
  <2>1. OwnFrames(Tail(q), s, chan[e])
    BY <1>5, <1>8 DEF OwnFrames, CarriedAt
  <2>2. ~HasBegin(Tail(q), s)
    <3>1. CASE HasBegin(q, s)
      <4>1. Len(q) = 1
        BY <1>5, <3>1 DEF CarriedAt
      <4>2. Len(Tail(q)) = 0
        BY <1>2, <4>1
      <4> QED
        BY <4>2 DEF HasBegin
    <3> QED
      BY <1>7, <3>1
  <2> QED
    BY <1>2, <1>5, <2>1, <2>2 DEF CarriedAt
<1>11. /\ Separated(Append(P, f)) /\ Inbound(Append(P, f), bi)
       /\ \A c, t : Clean(P, bi, c, t) /\ (f.type = "begin" /\ f.ch = c => f.s = t) =>
            Clean(Append(P, f), bi, c, t)
       /\ f.type = "end" => \A t : Clean(Append(P, f), bi, f.ch, t)
  <2>1. Clean(P, bi, f.ch, f.s)
    BY <1>2, <1>6
  <2> QED
    BY <1>2, <1>4, <1>6, <2>1, CleanAppend
<1>12. Held' /\ Holder' /\ Vacancies' /\ Requested' /\ Delivered'
  BY <1>3 DEF Held, Holder, Vacancies, Requested, Delivered, Inv
<1>13. Carried'
  <2>1. ASSUME NEW r \in Peer, NEW t \in Sessions
        PROVE  CarriedAt(task[<<r, t>>], state[<<r, t>>], sending'[<<r, t>>], links[<<r, t>>], t,
                         chan[<<r, t>>])
    <3>1. CASE <<r, t>> = e
      BY <1>2, <1>10, <3>1
    <3>2. CASE <<r, t>> # e
      <4>1. sending'[<<r, t>>] = sending[<<r, t>>]
        BY <1>2, <3>2, EndpointFacts
      <4> QED
        BY <4>1 DEF Inv, Carried, CarriedAt, Ended
    <3> QED
      BY <3>1, <3>2
  <2> QED
    BY <1>3, <2>1 DEF Carried, CarriedAt, Ended
<1>14. Routed'
  <2>1. \A c \in Channel : Clean(Append(P, f), bi, c, by_out[p][c])
    BY <1>2, <1>6, <1>11
  <2>2. /\ Separated(Pipe(p)') /\ Inbound(Pipe(p)', by_in'[Other(p)])
        /\ \A c \in Channel : Clean(Pipe(p)', by_in'[Other(p)], c, by_out'[p][c])
    BY <1>2, <1>3, <1>11, <2>1 DEF bi
  <2>3. /\ Separated(Pipe(Other(p))') /\ Inbound(Pipe(Other(p))', by_in'[Other(Other(p))])
        /\ \A c \in Channel : Clean(Pipe(Other(p))', by_in'[Other(Other(p))], c, by_out'[Other(p)][c])
    BY <1>2, <1>3, <1>4 DEF Inv, Routed
  <2> QED
    BY <1>4, <2>2, <2>3 DEF Routed
<1>15. Closed'
  <2> SUFFICES ASSUME NEW r \in Peer, NEW t \in Sessions,
                      conn[r] = "Opened", Ended(<<r, t>>), ~HasEnd(sending'[<<r, t>>]),
                      chan[<<r, t>>] \in Channel, by_out[r][chan[<<r, t>>]] = t
               PROVE  Clean(Pipe(r)', by_in[Other(r)], chan[<<r, t>>], NoSession)
    BY <1>3 DEF Closed, Ended
  <2>1. CASE r # p
    <3>1. sending'[<<r, t>>] = sending[<<r, t>>] /\ Pipe(r)' = Pipe(r)
      BY <1>2, <1>4, <2>1, EndpointFacts
    <3> QED
      BY <3>1 DEF Inv, Closed
  <2>2. CASE r = p /\ t # s
    <3>1. sending'[<<r, t>>] = sending[<<r, t>>]
      BY <1>2, <2>2, EndpointFacts
    <3>2. Clean(P, bi, chan[<<p, t>>], NoSession)
      BY <2>2, <3>1 DEF Inv, Closed, P, bi
    <3>3. chan[<<p, t>>] # f.ch
      BY <1>2, <2>2
    <3> QED
      BY <1>2, <1>11, <2>2, <3>2, <3>3 DEF bi
  <2>3. CASE r = p /\ t = s
    <3>1. CASE HasEnd(q)
      <4>1. f.type = "end"
        BY <1>2, <2>3, <3>1, EndTake DEF f
      <4> QED
        BY <1>2, <1>11, <2>3, <4>1 DEF bi
    <3>2. CASE ~HasEnd(q)
      <4>1. Clean(P, bi, chan[e], NoSession)
        BY <2>3, <3>2 DEF Inv, Closed, P, bi, q
      <4>2. f.type # "begin"
        BY <1>9, <2>3
      <4> QED
        BY <1>2, <1>11, <2>3, <4>1, <4>2 DEF bi
    <3> QED
      BY <3>1, <3>2
  <2> QED
    BY <2>1, <2>2, <2>3
<1>16. \A r \in Peer, t \in Sessions :
         /\ HasBegin(sending'[<<r, t>>], t) => HasBegin(sending[<<r, t>>], t)
         /\ HasBegin(Pipe(r)', t) => HasBegin(Pipe(r), t) \/ (r = p /\ t = s /\ f.type = "begin")
         /\ Once(Pipe(r), t) /\ (r = p /\ t = s /\ f.type = "begin" => ~HasBegin(Pipe(r), t)) =>
              Once(Pipe(r)', t)
  <2> SUFFICES ASSUME NEW r \in Peer, NEW t \in Sessions
               PROVE  /\ HasBegin(sending'[<<r, t>>], t) => HasBegin(sending[<<r, t>>], t)
                      /\ HasBegin(Pipe(r)', t) => HasBegin(Pipe(r), t) \/ (r = p /\ t = s /\ f.type = "begin")
                      /\ Once(Pipe(r), t) /\ (r = p /\ t = s /\ f.type = "begin" => ~HasBegin(Pipe(r), t)) =>
                           Once(Pipe(r)', t)
    OBVIOUS
  <2>1. HasBegin(sending'[<<r, t>>], t) => HasBegin(sending[<<r, t>>], t)
    <3>1. CASE <<r, t>> = e
      BY <1>2, <1>7, <3>1 DEF q
    <3>2. CASE <<r, t>> # e
      BY <1>2, <3>2, EndpointFacts
    <3> QED
      BY <3>1, <3>2
  <2>2. CASE r # p
    BY <1>2, <1>4, <2>1, <2>2
  <2>3. CASE r = p
    <3>1. /\ HasBegin(Append(P, f), t) => HasBegin(P, t) \/ BeginOf(f, t)
          /\ (BeginOf(f, t) => ~HasBegin(P, t)) /\ Once(P, t) => Once(Append(P, f), t)
      BY <1>2, <1>4, BeginAppend
    <3>2. BeginOf(f, t) <=> t = s /\ f.type = "begin"
      BY <1>2 DEF BeginOf
    <3> QED
      BY <1>2, <2>1, <2>3, <3>1, <3>2 DEF P
  <2> QED
    BY <2>2, <2>3
<1>17. Client \in Peer /\ Listener \in Peer /\ Client # Listener
  BY PeerFacts
<1>18. ASSUME NEW t \in Sessions
       PROVE  /\ M0(t) => M0(t)'
              /\ M1(t) => M1(t)' /\ ~(p = Client /\ t = s /\ f.type = "begin")
              /\ N4(t) => N4(t)' /\ ~(p = Listener /\ t = s /\ f.type = "begin")
  BY <1>3, <1>9, <1>16, <1>17 DEF M0, M1, N3, N4, q
<1>19. ASSUME NEW t \in Sessions
       PROVE  (M2(t) => M2(t)') /\ (N5(t) => N5(t)') /\ (N6(t) => N6(t)')
  BY <1>3, <1>16, <1>17, <1>18 DEF M2, N5, N6
<1>20. Handshake'
  <2> SUFFICES ASSUME NEW t \in Sessions
               PROVE  /\ HasBegin(Pipe(Client)', t) => M1(t)' /\ Once(Pipe(Client)', t)
                      /\ task[<<Listener, t>>] # "none" =>
                           M2(t)' /\ remote[<<Listener, t>>] = chan[<<Client, t>>]
                      /\ HasBegin(Pipe(Listener)', t) => N4(t)' /\ Once(Pipe(Listener)', t)
                      /\ Relayed(forwarding[Client], t) => N5(t)'
                      /\ HasBegin(incoming[<<Client, t>>], t) \/ Begun(<<Client, t>>) => N6(t)'
    BY <1>3 DEF Handshake, Begun
  <2>1. /\ HasBegin(Pipe(Client), t) => M1(t) /\ Once(Pipe(Client), t)
        /\ task[<<Listener, t>>] # "none" => M2(t) /\ remote[<<Listener, t>>] = chan[<<Client, t>>]
        /\ HasBegin(Pipe(Listener), t) => N4(t) /\ Once(Pipe(Listener), t)
        /\ Relayed(forwarding[Client], t) => N5(t)
        /\ HasBegin(incoming[<<Client, t>>], t) \/ Begun(<<Client, t>>) => N6(t)
    BY DEF Inv, Handshake
  <2>2. \A P1 : Len(P1) = 0 => Once(P1, t)
    BY DEF Once
  <2>3. \A P1 : ~HasBegin(P1, t) => Once(P1, t)
    BY DEF Once, HasBegin
  <2>4. ASSUME p = Client, t = s, f.type = "begin"
        PROVE  M1(t)' /\ ~HasBegin(Pipe(Client), t)
    <3>1. HasBegin(sending[<<Client, t>>], t) /\ ~HasBegin(sending'[<<Client, t>>], t)
      BY <1>2, <1>9, <2>4 DEF q
    <3>2. M0(t)'
      BY <1>2, <1>3, <2>4 DEF M0, Looping
    <3> QED
      BY <2>1, <3>1, <3>2 DEF M1
  <2>5. ASSUME p = Listener, t = s, f.type = "begin"
        PROVE  N4(t)' /\ ~HasBegin(Pipe(Listener), t)
    <3>1. HasBegin(sending[<<Listener, t>>], t) /\ ~HasBegin(sending'[<<Listener, t>>], t)
      BY <1>2, <1>9, <2>5 DEF q
    <3>2. N3(t)'
      BY <1>2, <1>3, <2>5 DEF N3, Looping
    <3> QED
      BY <2>1, <3>1, <3>2 DEF N4
  <2>6. HasBegin(Pipe(Client)', t) => M1(t)' /\ Once(Pipe(Client)', t)
    BY <1>16, <1>17, <1>18, <2>1, <2>3, <2>4
  <2>7. HasBegin(Pipe(Listener)', t) => N4(t)' /\ Once(Pipe(Listener)', t)
    BY <1>16, <1>17, <1>18, <2>1, <2>3, <2>5
  <2>8. (M2(t) => M2(t)') /\ (N5(t) => N5(t)') /\ (N6(t) => N6(t)')
    BY <1>19
  <2> QED
    BY <2>1, <2>6, <2>7, <2>8
<1>21. Awaited'
  <2> SUFFICES ASSUME NEW t \in Sessions, Pending(t)'
               PROVE  /\ chan[<<Client, t>>] \in Channel
                      /\ Begun(<<Client, t>>) \/ by_out[Client][chan[<<Client, t>>]] = t
    BY <1>3 DEF Awaited, Begun
  <2>1. Pending(t)
    BY <1>3, <1>9, <1>16, <1>17 DEF Pending, q
  <2> QED
    BY <2>1 DEF Inv, Awaited
<1>22. Named'
  <2>1. ASSUME NEW t \in Sessions
        PROVE  Asks(sending'[<<Client, t>>], chan) /\ Replies(sending'[<<Listener, t>>], chan)
    <3>1. Asks(sending[<<Client, t>>], chan) /\ Replies(sending[<<Listener, t>>], chan)
      BY DEF Inv, Named
    <3>2. <<Client, t>> \in Endpoint /\ <<Listener, t>> \in Endpoint
      BY <1>17, EndpointFacts
    <3>3. (Asks(q, chan) => Asks(Tail(q), chan)) /\ (Replies(q, chan) => Replies(Tail(q), chan))
      BY <1>2, NamesTake
    <3>4. Asks(sending'[<<Client, t>>], chan)
      BY <1>2, <3>1, <3>2, <3>3 DEF q
    <3>5. Replies(sending'[<<Listener, t>>], chan)
      BY <1>2, <3>1, <3>2, <3>3 DEF q
    <3> QED
      BY <3>4, <3>5
  <2>2. Asks(Pipe(Client)', chan) /\ Replies(Pipe(Listener)', chan)
    <3>1. Asks(Pipe(Client), chan) /\ Replies(Pipe(Listener), chan)
      BY DEF Inv, Named
    <3>2. CASE p = Client
      <4>1. f.type = "begin" => f.remote = NoChannel /\ f.ch = chan[<<Client, f.s>>]
        BY <1>2, <1>5, <3>2, NamesTake DEF f
      <4>2. Asks(Append(P, f), chan)
        BY <1>2, <1>4, <3>1, <3>2, <4>1, NamesAppend DEF P
      <4> QED
        BY <1>2, <1>17, <3>1, <3>2, <4>2, PeerFacts
    <3>3. CASE p = Listener
      <4>1. f.type = "begin" => f.remote = chan[<<Client, f.s>>]
        BY <1>2, <1>5, <3>3, NamesTake DEF f
      <4>2. Replies(Append(P, f), chan)
        BY <1>2, <1>4, <3>1, <3>3, <4>1, NamesAppend DEF P
      <4> QED
        BY <1>2, <1>17, <3>1, <3>3, <4>2, PeerFacts
    <3> QED
      BY <3>2, <3>3, PeerFacts
  <2> QED
    BY <1>3, <2>1, <2>2 DEF Named
<1> QED
  BY <1>1, <1>12, <1>13, <1>14, <1>15, <1>20, <1>21, <1>22 DEF Inv

-----------------------------------------------------------------------------
(* Steps of the connection.                                                *)

\* Frames stay on their way, at most one is handed to its session, at most the engine stops.
LEMMA EngineKeeps ==
  ASSUME Inv, TypeOK',
         UNCHANGED <<by_out, vacant, by_in, control, task, state, chan, remote, sending, links>>,
         \A q \in Peer : Pipe(q)' = Pipe(q),
         \A q \in Peer : conn'[q] = "Opened" => conn[q] = "Opened",
         Delivered',
         \A s \in Sessions :
           /\ Relayed(forwarding'[Client], s) => Relayed(forwarding[Client], s)
           /\ HasBegin(incoming'[<<Client, s>>], s) =>
                \/ HasBegin(incoming[<<Client, s>>], s)
                \/ Relayed(forwarding[Client], s) /\ ~Relayed(forwarding'[Client], s)
  PROVE  Inv'
<1>1. Client \in Peer /\ Listener \in Peer /\ \A q \in Peer : Other(q) \in Peer
  BY PeerFacts
<1>2. Held' /\ Vacancies'
  BY DEF Inv, Held, Vacancies
<1>3. Holder'
  BY DEF Inv, Holder
<1>4. Requested'
  <2>1. ASSUME NEW p \in Peer, NEW i \in 1 .. Len(control[p])
        PROVE  RequestOK(control[p][i], p, task[<<p, control[p][i].s>>], conn'[p], by_out[p])
    <3>1. RequestOK(control[p][i], p, task[<<p, control[p][i].s>>], conn[p], by_out[p])
      BY DEF Inv, Requested
    <3> QED
      BY <3>1 DEF RequestOK
  <2> QED
    BY <2>1 DEF Inv, Requested
<1>5. Carried'
  BY DEF Inv, Carried, Ended
<1>6. Routed'
  BY DEF Inv, Routed
<1>7. Closed'
  BY DEF Inv, Closed, Ended
<1>8. ASSUME NEW s \in Sessions
      PROVE  /\ M1(s) <=> M1(s)'
             /\ M2(s) <=> M2(s)'
             /\ N4(s) <=> N4(s)'
             /\ N5(s) <=> N5(s)'
             /\ N6(s) => N6(s)'
  BY <1>1 DEF M0, M1, M2, N3, N4, N5, N6
<1>9. Handshake'
  <2> SUFFICES ASSUME NEW s \in Sessions
               PROVE  /\ HasBegin(Pipe(Client), s) => M1(s)' /\ Once(Pipe(Client), s)
                      /\ task[<<Listener, s>>] # "none" =>
                           M2(s)' /\ remote[<<Listener, s>>] = chan[<<Client, s>>]
                      /\ HasBegin(Pipe(Listener), s) => N4(s)' /\ Once(Pipe(Listener), s)
                      /\ Relayed(forwarding'[Client], s) => N5(s)'
                      /\ HasBegin(incoming'[<<Client, s>>], s) \/ Begun(<<Client, s>>) => N6(s)'
    BY <1>1 DEF Handshake, Begun
  <2>1. /\ HasBegin(Pipe(Client), s) => M1(s) /\ Once(Pipe(Client), s)
        /\ task[<<Listener, s>>] # "none" => M2(s) /\ remote[<<Listener, s>>] = chan[<<Client, s>>]
        /\ HasBegin(Pipe(Listener), s) => N4(s) /\ Once(Pipe(Listener), s)
        /\ Relayed(forwarding[Client], s) => N5(s)
        /\ HasBegin(incoming[<<Client, s>>], s) \/ Begun(<<Client, s>>) => N6(s)
    BY DEF Inv, Handshake
  <2>2. (M1(s) <=> M1(s)') /\ (M2(s) <=> M2(s)') /\ (N4(s) <=> N4(s)') /\ (N5(s) <=> N5(s)')
        /\ (N6(s) => N6(s)')
    BY <1>8
  <2>3. N5(s)' /\ ~Relayed(forwarding'[Client], s) => N6(s)'
    BY DEF N6
  <2> QED
    BY <2>1, <2>2, <2>3
<1>10. Awaited'
  BY <1>1 DEF Inv, Awaited, Pending, Begun
<1>11. Named'
  BY <1>1 DEF Inv, Named
<1> QED
  BY <1>2, <1>3, <1>4, <1>5, <1>6, <1>7, <1>9, <1>10, <1>11 DEF Inv

\* Writing the frames of the sessions to the wire keeps the invariant.
LEMMA KeepOutgoing ==
  ASSUME Inv, NEW p \in Peer, OnOutgoingSessionFrames(p)
  PROVE  Inv'
<1>1. TypeOK'
  BY TypeOutgoing
<1>2. /\ outgoing[p] # <<>>
      /\ outgoing' = [outgoing EXCEPT ![p] = Tail(@)]
      /\ wire' = [wire EXCEPT ![p] = Append(@, Head(outgoing[p]))]
      /\ UNCHANGED <<conn, by_out, vacant, by_in, control, forwarding, tasks>>
  BY DEF OnOutgoingSessionFrames
<1>3. ASSUME NEW q \in Peer
      PROVE  Pipe(q)' = Pipe(q)
  <2>1. wire \in [Peer -> Seq(Frames)] /\ outgoing \in [Peer -> Seq(Frames)]
    BY DEF Inv, TypeOK
  <2>2. CASE q = p
    <3> DEFINE u == wire[p]
               v == outgoing[p]
    <3>1. u \in Seq(Frames) /\ v \in Seq(Frames) /\ v # <<>>
      BY <1>2, <2>1
    <3>2. wire'[p] = Append(u, Head(v)) /\ outgoing'[p] = Tail(v)
      BY <1>2, <2>1
    <3>3. Pipe(p) = u \o v
      BY DEF Pipe
    <3> HIDE DEF u, v
    <3>4. Append(u, Head(v)) \o Tail(v) = u \o v
      BY <3>1, PipeShift
    <3> QED
      BY <2>2, <3>2, <3>3, <3>4 DEF Pipe
  <2>3. CASE q # p
    BY <1>2, <2>1, <2>3 DEF Pipe
  <2> QED
    BY <2>2, <2>3
<1>4. Delivered'
  BY <1>2 DEF Inv, Delivered, tasks
<1> QED
  BY <1>1, <1>2, <1>3, <1>4, EngineKeeps DEF tasks

\* The peer's Close keeps the invariant.
LEMMA KeepClose ==
  ASSUME Inv, NEW p \in Peer, OnIncomingClose(p)
  PROVE  Inv'
<1>1. TypeOK'
  BY TypeClose
<1>2. /\ conn' = Set(conn, p, "RemoteClosed")
      /\ UNCHANGED <<by_out, vacant, by_in, control, outgoing, wire, forwarding, tasks>>
  BY DEF OnIncomingClose, Fail
<1>3. \A q \in Peer : conn'[q] = "Opened" => conn[q] = "Opened"
  BY <1>2 DEF Inv, TypeOK, Set
<1>4. \A q \in Peer : Pipe(q)' = Pipe(q)
  BY <1>2 DEF Pipe
<1>5. Delivered'
  BY <1>2 DEF Inv, Delivered, tasks
<1> QED
  BY <1>1, <1>2, <1>3, <1>4, <1>5, EngineKeeps DEF tasks

\* A step that changes nothing keeps the invariant.
LEMMA KeepStutter ==
  ASSUME Inv, UNCHANGED vars
  PROVE  Inv'
<1>1. UNCHANGED <<conns, tasks>>
  BY DEF vars
<1>2. TypeOK'
  BY <1>1 DEF Inv, TypeOK, conns, tasks
<1>3. \A q \in Peer : Pipe(q)' = Pipe(q)
  BY <1>1 DEF Pipe, conns
<1>4. Delivered'
  BY <1>1 DEF Inv, Delivered, conns, tasks
<1> QED
  BY <1>1, <1>2, <1>3, <1>4, EngineKeeps DEF conns, tasks

\* Delivering a routed frame to its session keeps the invariant.
LEMMA KeepForward ==
  ASSUME Inv, NEW p \in Peer, Forward(p)
  PROVE  Inv'
<1> DEFINE s == forwarding[p][1][1]
           f == forwarding[p][1][2]
           e == <<p, s>>
<1>1. TypeOK'
  BY TypeForward
<1>2. s \in Sessions /\ f \in Frames /\ s = f.s /\ 1 \in 1 .. Len(forwarding[p])
  BY ForwardFacts DEF Forward
<1>3. /\ IF Listening(e) THEN incoming' = [incoming EXCEPT ![e] = Append(@, f)] /\ UNCHANGED conn
         ELSE Fail(p, "NotFound") /\ UNCHANGED incoming
      /\ forwarding' = [forwarding EXCEPT ![p] = <<>>]
      /\ UNCHANGED <<by_out, vacant, by_in, control, outgoing, wire, task, state, chan, remote,
                     sending, links>>
  BY DEF Forward
<1>4. e \in Endpoint /\ incoming[e] \in Seq(Frames) /\ incoming \in [Endpoint -> Seq(Frames)]
  BY <1>2, EndpointTypes DEF Inv, TypeOK
<1>5. BeginOf(f, s) => Relayed(forwarding[p], s)
  BY <1>2 DEF Relayed
<1>6. conn \in [Peer -> {"Opened", "NotFound", "IllegalState", "NotImplemented", "RemoteClosed"}]
      /\ forwarding \in [Peer -> Seq(Sessions \X Frames)]
  BY DEF Inv, TypeOK
<1>7. forwarding'[p] = <<>> /\ \A q \in Peer : q # p => forwarding'[q] = forwarding[q]
  BY <1>3, <1>6
<1> HIDE DEF s, f
<1>8. \A q \in Peer : conn'[q] = "Opened" => conn[q] = "Opened"
  BY <1>3, <1>6 DEF Fail, Set
<1>9. ASSUME NEW q \in Peer, NEW t \in Sessions
      PROVE  \/ incoming'[<<q, t>>] = incoming[<<q, t>>]
             \/ <<q, t>> = e /\ q = p /\ t = s /\ incoming'[<<q, t>>] = Append(incoming[<<q, t>>], f)
  <2>1. <<q, t>> \in Endpoint
    BY EndpointFacts
  <2>2. CASE <<q, t>> = e
    BY <1>3, <1>4, <2>2
  <2>3. CASE <<q, t>> # e
    <3> HIDE DEF e
    <3> QED
      BY <1>3, <1>4, <2>1, <2>3
  <2> QED
    BY <2>2, <2>3
<1>10. ASSUME NEW q \in Peer, NEW t \in Sessions, NEW i \in 1 .. Len(incoming'[<<q, t>>])
       PROVE  incoming'[<<q, t>>][i].s = t
  <2>1. \A j \in 1 .. Len(incoming[<<q, t>>]) : incoming[<<q, t>>][j].s = t
    BY DEF Inv, Delivered
  <2>2. incoming[<<q, t>>] \in Seq(Frames)
    BY EndpointTypes DEF Inv
  <2> DEFINE u == incoming[<<q, t>>]
             v == incoming'[<<q, t>>]
  <2>3. CASE v = u
    BY <1>10, <2>1, <2>3
  <2>4. CASE t = s /\ v = Append(u, f)
    <3>0. i \in 1 .. Len(v)
      BY <1>10
    <3> HIDE DEF u, v
    <3>1. Len(u) \in Nat /\ Len(v) = Len(u) + 1 /\ v[Len(u) + 1] = f
          /\ \A j \in 1 .. Len(u) : v[j] = u[j]
      BY <1>2, <2>2, <2>4, Appended DEF u
    <3>2. (i \in 1 .. Len(u) /\ v[i] = u[i]) \/ v[i] = f
      BY <3>0, <3>1
    <3>3. v[i].s = t
      BY <1>2, <2>1, <2>4, <3>2 DEF u
    <3> QED
      BY <3>3 DEF v
  <2> QED
    BY <1>9, <2>3, <2>4
<1>11. ~(1 \in 1 .. Len(<<>>)) /\ \A i : ~(i \in 1 .. Len(<<>>))
  OBVIOUS
<1>12. Delivered'
  <2>1. ASSUME NEW q \in Peer, NEW i \in 1 .. Len(forwarding'[q])
        PROVE  forwarding'[q][i][1] = forwarding'[q][i][2].s
    <3>1. q # p
      BY <1>7, <1>11, <2>1
    <3> QED
      BY <1>7, <2>1, <3>1 DEF Inv, Delivered
  <2> QED
    BY <1>10, <2>1 DEF Delivered
<1>13. ASSUME NEW t \in Sessions
       PROVE  /\ Relayed(forwarding'[Client], t) => Relayed(forwarding[Client], t)
              /\ HasBegin(incoming'[<<Client, t>>], t) =>
                   \/ HasBegin(incoming[<<Client, t>>], t)
                   \/ Relayed(forwarding[Client], t) /\ ~Relayed(forwarding'[Client], t)
  <2>1. Client \in Peer /\ incoming[<<Client, t>>] \in Seq(Frames)
    BY PeerFacts, EndpointTypes DEF Inv
  <2>2. ~Relayed(<<>>, t)
    BY <1>11 DEF Relayed
  <2>3. Relayed(forwarding'[Client], t) => Relayed(forwarding[Client], t)
    BY <1>7, <2>1, <2>2
  <2>4. CASE incoming'[<<Client, t>>] = incoming[<<Client, t>>]
    BY <2>3, <2>4
  <2>5. CASE p = Client /\ t = s /\ incoming'[<<Client, t>>] = Append(incoming[<<Client, t>>], f)
    <3>1. HasBegin(Append(incoming[<<Client, t>>], f), t) => HasBegin(incoming[<<Client, t>>], t) \/ BeginOf(f, t)
      BY <1>2, <2>1, BeginAppend
    <3> QED
      BY <1>5, <1>7, <2>2, <2>3, <2>5, <3>1
  <2> QED
    BY <1>9, <2>1, <2>4, <2>5
<1>14. \A q \in Peer : Pipe(q)' = Pipe(q)
  BY <1>3 DEF Pipe
<1> QED
  BY <1>1, <1>3, <1>8, <1>12, <1>13, <1>14, EngineKeeps

\* The frame f arrives at p.
Arrives(p, f) ==
  /\ Pipe(Other(p)) # <<>> /\ f = Head(Pipe(Other(p)))
  /\ Pipe(Other(p))' = Tail(Pipe(Other(p))) /\ Pipe(p)' = Pipe(p)

\* The maps of p then name the session that the begin is for, or forget the one that ends.
Registers(p, f) ==
  /\ by_in'[Other(p)] = by_in[Other(p)]
  /\ \A c \in Channel : c # f.ch => by_in'[p][c] = by_in[p][c]
  /\ \/ f.type = "begin" /\ by_in'[p][f.ch] = f.s
     \/ f.type = "end" /\ by_in'[p][f.ch] = NoSession
     \/ f.type # "end" /\ by_in'[p][f.ch] = by_in[p][f.ch]

\* A frame that arrives is the head of the peer's pipe, read by an idle connection.
LEMMA ArrivedPipe ==
  ASSUME Inv, NEW p \in Peer, NEW types, Arrived(p, types), UNCHANGED outgoing
  PROVE  LET f == Head(wire[Other(p)])
         IN /\ Arrives(p, f) /\ f \in Frames /\ f.type \in types
            /\ conn[p] = "Opened" /\ forwarding[p] = <<>>
<1> DEFINE o == Other(p)
           f == Head(wire[o])
           u == wire[o]
           v == outgoing[o]
<1>1. /\ u # <<>> /\ u \in Seq(Frames) /\ f \in Frames /\ f.type \in types
      /\ wire' = [wire EXCEPT ![o] = Tail(@)]
  BY ArrivedFacts
<1>2. conn[p] = "Opened" /\ forwarding[p] = <<>>
  BY DEF Arrived, Runs
<1>3. o \in Peer /\ o # p /\ v \in Seq(Frames) /\ wire \in [Peer -> Seq(Frames)]
  BY PeerFacts, PipeType DEF Inv, TypeOK
<1>4. wire'[o] = Tail(u) /\ wire'[p] = wire[p] /\ outgoing' = outgoing
  BY <1>1, <1>3
<1>5. Pipe(o) = u \o v /\ Pipe(o)' = Tail(u) \o v /\ Pipe(p)' = Pipe(p)
  BY <1>4 DEF Pipe
<1> HIDE DEF u, v
<1>6. Tail(u) \o v = Tail(u \o v) /\ Head(u \o v) = Head(u) /\ u \o v # <<>>
  BY <1>1, <1>3, PipeTake
<1> QED
  BY <1>1, <1>2, <1>5, <1>6 DEF Arrives, u

\* What remains on the way.
LEMMA ArrivalPipes ==
  ASSUME Inv, NEW p \in Peer, NEW f \in Frames, Arrives(p, f), Registers(p, f)
  PROVE  /\ \A q \in Peer : Separated(Pipe(q)') /\ Inbound(Pipe(q)', by_in'[Other(q)])
         /\ \A q \in Peer, c \in Channel : \A t : Clean(Pipe(q), by_in[Other(q)], c, t) =>
              Clean(Pipe(q)', by_in'[Other(q)], c, t)
         /\ \A q \in Peer : \A t : HasBegin(Pipe(q)', t) => HasBegin(Pipe(q), t)
         /\ \A q \in Peer : \A t : Once(Pipe(q), t) => Once(Pipe(q)', t)
         /\ \A t : Once(Pipe(Other(p)), t) /\ BeginOf(f, t) => ~HasBegin(Pipe(Other(p))', t)
         /\ \A t : BeginOf(f, t) => HasBegin(Pipe(Other(p)), t)
         /\ Asks(Pipe(Client)', chan) /\ Replies(Pipe(Listener)', chan)
<1> DEFINE o == Other(p)
           P == Pipe(o)
<1>1. /\ P \in Seq(Frames) /\ o \in Peer /\ o # p /\ Other(o) = p
      /\ \A q \in Peer : q = p \/ q = o
  BY PipeType, PeerFacts DEF Inv
<1>2. P # <<>> /\ f = Head(P) /\ Pipe(o)' = Tail(P) /\ Pipe(p)' = Pipe(p)
  BY DEF Arrives
<1>3. Separated(P) /\ Inbound(P, by_in[p])
  BY <1>1 DEF Inv, Routed
<1>4. Separated(Pipe(p)) /\ Inbound(Pipe(p), by_in[o])
  BY DEF Inv, Routed
<1>5. Asks(Pipe(Client), chan) /\ Replies(Pipe(Listener), chan)
  BY DEF Inv, Named
<1>6. /\ by_in'[o] = by_in[o]
      /\ \A c \in Channel : c # f.ch => by_in'[p][c] = by_in[p][c]
      /\ \/ f.type = "begin" /\ by_in'[p][f.ch] = f.s
         \/ f.type = "end" /\ by_in'[p][f.ch] = NoSession
         \/ f.type # "end" /\ by_in'[p][f.ch] = by_in[p][f.ch]
  BY DEF Registers
<1> HIDE DEF o, P
<1>7. \A i \in 1 .. Len(P) : P[i] \in Frames
  BY <1>1
<1>8. \A i \in 1 .. Len(P) : P[i].ch \in Channel
  BY <1>7, FrameFacts
<1>9. /\ Separated(Tail(P)) /\ Inbound(Tail(P), by_in'[p])
      /\ \A c \in Channel : \A t : Clean(P, by_in[p], c, t) => Clean(Tail(P), by_in'[p], c, t)
  BY <1>1, <1>2, <1>3, <1>6, <1>8, CleanTake
<1>10. \A t : /\ HasBegin(Tail(P), t) => HasBegin(P, t)
              /\ Once(P, t) => Once(Tail(P), t)
              /\ Once(P, t) /\ BeginOf(f, t) => ~HasBegin(Tail(P), t)
              /\ BeginOf(f, t) => HasBegin(P, t)
  BY <1>1, <1>2, BeginTake
<1>11. (Asks(P, chan) => Asks(Tail(P), chan)) /\ (Replies(P, chan) => Replies(Tail(P), chan))
  BY <1>1, <1>2, NamesTake
<1>12. Other(p) = o /\ Client \in Peer /\ Listener \in Peer
  BY PeerFacts DEF o
<1>13. /\ \A q \in Peer : Separated(Pipe(q)') /\ Inbound(Pipe(q)', by_in'[Other(q)])
       /\ \A q \in Peer, c \in Channel : \A t : Clean(Pipe(q), by_in[Other(q)], c, t) =>
            Clean(Pipe(q)', by_in'[Other(q)], c, t)
  <2> SUFFICES ASSUME NEW q \in Peer
               PROVE  /\ Separated(Pipe(q)') /\ Inbound(Pipe(q)', by_in'[Other(q)])
                      /\ \A c \in Channel : \A t : Clean(Pipe(q), by_in[Other(q)], c, t) =>
                           Clean(Pipe(q)', by_in'[Other(q)], c, t)
    OBVIOUS
  <2>1. CASE q = p
    <3>1. Pipe(q)' = Pipe(q) /\ by_in'[Other(q)] = by_in[Other(q)]
      BY <1>2, <1>6, <1>12, <2>1
    <3>2. Separated(Pipe(q)) /\ Inbound(Pipe(q), by_in[Other(q)])
      BY <1>4, <1>12, <2>1
    <3> QED
      BY <3>1, <3>2
  <2>2. CASE q = o
    <3>1. Pipe(q)' = Tail(P) /\ Pipe(q) = P /\ Other(q) = p
      BY <1>1, <1>2, <2>2 DEF P
    <3> QED
      BY <1>9, <3>1
  <2> QED
    BY <1>1, <2>1, <2>2
<1>14. /\ \A q \in Peer : \A t : HasBegin(Pipe(q)', t) => HasBegin(Pipe(q), t)
       /\ \A q \in Peer : \A t : Once(Pipe(q), t) => Once(Pipe(q)', t)
       /\ \A t : Once(Pipe(o), t) /\ BeginOf(f, t) => ~HasBegin(Pipe(o)', t)
       /\ \A t : BeginOf(f, t) => HasBegin(Pipe(o), t)
  BY <1>1, <1>2, <1>10 DEF P
<1>15. Asks(Pipe(Client)', chan) /\ Replies(Pipe(Listener)', chan)
  BY <1>1, <1>2, <1>5, <1>11, <1>12 DEF P
<1> QED
  BY <1>12, <1>13, <1>14, <1>15

\* A frame of a session arrives at the connection, which hands it on or fails.
LEMMA ArrivalKeeps ==
  ASSUME Inv, TypeOK', NEW p \in Peer, NEW f \in Frames, Arrives(p, f), Registers(p, f),
         UNCHANGED <<by_out, vacant, control, tasks>>,
         \A q \in Peer : conn'[q] = "Opened" => conn[q] = "Opened",
         \A q \in Peer : q # p => forwarding'[q] = forwarding[q],
         forwarding[p] = <<>>,
         forwarding'[p] = <<>> \/ forwarding'[p] = <<<<f.s, f>>>>
  PROVE  Inv'
<1> USE DEF tasks
<1>1. /\ \A q \in Peer : Separated(Pipe(q)') /\ Inbound(Pipe(q)', by_in'[Other(q)])
      /\ \A q \in Peer, c \in Channel : \A t : Clean(Pipe(q), by_in[Other(q)], c, t) =>
           Clean(Pipe(q)', by_in'[Other(q)], c, t)
  BY ArrivalPipes
<1>2. /\ \A q \in Peer : \A t : HasBegin(Pipe(q)', t) => HasBegin(Pipe(q), t)
      /\ \A q \in Peer : \A t : Once(Pipe(q), t) => Once(Pipe(q)', t)
      /\ \A t : Once(Pipe(Other(p)), t) /\ BeginOf(f, t) => ~HasBegin(Pipe(Other(p))', t)
      /\ \A t : BeginOf(f, t) => HasBegin(Pipe(Other(p)), t)
  BY ArrivalPipes
<1>3. Asks(Pipe(Client)', chan) /\ Replies(Pipe(Listener)', chan)
  BY ArrivalPipes
<1>4. Client \in Peer /\ Listener \in Peer /\ \A q \in Peer : Other(q) \in Peer
      /\ Other(Client) = Listener
  BY PeerFacts
<1>5. Held' /\ Vacancies' /\ Holder'
  BY DEF Inv, Held, Vacancies, Holder
<1>6. Requested'
  <2>1. ASSUME NEW q \in Peer, NEW i \in 1 .. Len(control[q])
        PROVE  RequestOK(control[q][i], q, task[<<q, control[q][i].s>>], conn'[q], by_out[q])
    <3>1. RequestOK(control[q][i], q, task[<<q, control[q][i].s>>], conn[q], by_out[q])
      BY DEF Inv, Requested
    <3> QED
      BY <3>1 DEF RequestOK
  <2> QED
    BY <2>1 DEF Inv, Requested
<1>7. Carried'
  BY DEF Inv, Carried, Ended
<1>8. Routed'
  BY <1>1 DEF Inv, Routed
<1>9. Closed'
  <2> SUFFICES ASSUME NEW q \in Peer, NEW s \in Sessions,
                      conn[q] = "Opened", Ended(<<q, s>>), ~HasEnd(sending[<<q, s>>]),
                      chan[<<q, s>>] \in Channel, by_out[q][chan[<<q, s>>]] = s
               PROVE  Clean(Pipe(q)', by_in'[Other(q)], chan[<<q, s>>], NoSession)
    BY DEF Closed, Ended
  <2>1. Clean(Pipe(q), by_in[Other(q)], chan[<<q, s>>], NoSession)
    BY DEF Inv, Closed
  <2> QED
    BY <1>1, <2>1
<1>10. ASSUME NEW s \in Sessions
       PROVE  Relayed(forwarding'[Client], s) =>
                \/ Relayed(forwarding[Client], s)
                \/ p = Client /\ BeginOf(f, s)
  <2>1. CASE p # Client
    BY <1>4, <2>1
  <2>2. CASE p = Client /\ forwarding'[Client] = <<>>
    BY <2>2
  <2>3. CASE p = Client /\ forwarding'[Client] = <<<<f.s, f>>>>
    <3>1. \A i \in 1 .. Len(<<<<f.s, f>>>>) : <<<<f.s, f>>>>[i][2] = f
      OBVIOUS
    <3> QED
      BY <2>3, <3>1 DEF Relayed
  <2> QED
    BY <2>1, <2>2, <2>3
<1>11. ASSUME NEW s \in Sessions
       PROVE  /\ M1(s) => M1(s)'
              /\ M2(s) => M2(s)'
              /\ N4(s) => N4(s)'
              /\ N5(s) => N5(s)'
              /\ N5(s) => ~(p = Client /\ BeginOf(f, s))
  BY <1>2, <1>4 DEF M0, M1, M2, N3, N4, N5
<1>12. Handshake'
  <2> SUFFICES ASSUME NEW s \in Sessions
               PROVE  /\ HasBegin(Pipe(Client)', s) => M1(s)' /\ Once(Pipe(Client)', s)
                      /\ task[<<Listener, s>>] # "none" =>
                           M2(s)' /\ remote[<<Listener, s>>] = chan[<<Client, s>>]
                      /\ HasBegin(Pipe(Listener)', s) => N4(s)' /\ Once(Pipe(Listener)', s)
                      /\ Relayed(forwarding'[Client], s) => N5(s)'
                      /\ HasBegin(incoming[<<Client, s>>], s) \/ Begun(<<Client, s>>) => N6(s)'
    BY <1>4 DEF Handshake, Begun
  <2>1. /\ HasBegin(Pipe(Client), s) => M1(s) /\ Once(Pipe(Client), s)
        /\ task[<<Listener, s>>] # "none" => M2(s) /\ remote[<<Listener, s>>] = chan[<<Client, s>>]
        /\ HasBegin(Pipe(Listener), s) => N4(s) /\ Once(Pipe(Listener), s)
        /\ Relayed(forwarding[Client], s) => N5(s)
        /\ HasBegin(incoming[<<Client, s>>], s) \/ Begun(<<Client, s>>) => N6(s)
    BY DEF Inv, Handshake
  <2>2. (M1(s) => M1(s)') /\ (M2(s) => M2(s)') /\ (N4(s) => N4(s)') /\ (N5(s) => N5(s)')
    BY <1>11
  <2>3. HasBegin(Pipe(Client)', s) => M1(s)' /\ Once(Pipe(Client)', s)
    BY <1>2, <1>4, <2>1, <2>2
  <2>4. HasBegin(Pipe(Listener)', s) => N4(s)' /\ Once(Pipe(Listener)', s)
    BY <1>2, <1>4, <2>1, <2>2
  <2>5. p = Client /\ BeginOf(f, s) => N5(s)'
    <3> SUFFICES ASSUME p = Client, BeginOf(f, s)
                 PROVE  N5(s)'
      OBVIOUS
    <3>1. HasBegin(Pipe(Listener), s)
      BY <1>2, <1>4
    <3>2. N4(s)' /\ ~HasBegin(Pipe(Listener)', s)
      BY <1>2, <1>4, <2>1, <2>2, <3>1
    <3> QED
      BY <3>2 DEF N5
  <2>6. Relayed(forwarding'[Client], s) => N5(s)'
    BY <1>10, <2>1, <2>2, <2>5
  <2>7. N6(s) => N6(s)'
    <3>1. N6(s) => N5(s) /\ ~Relayed(forwarding[Client], s)
      BY DEF N6
    <3>2. N5(s)' /\ ~Relayed(forwarding'[Client], s) => N6(s)'
      BY DEF N6
    <3>3. N5(s) => ~(p = Client /\ BeginOf(f, s))
      BY <1>11
    <3> QED
      BY <1>10, <2>2, <3>1, <3>2, <3>3
  <2> QED
    BY <2>1, <2>2, <2>3, <2>4, <2>6, <2>7
<1>13. Awaited'
  <2> SUFFICES ASSUME NEW s \in Sessions, Pending(s)'
               PROVE  /\ chan[<<Client, s>>] \in Channel
                      /\ Begun(<<Client, s>>) \/ by_out[Client][chan[<<Client, s>>]] = s
    BY DEF Awaited, Begun
  <2>1. Pending(s)
    BY <1>2, <1>4 DEF Pending
  <2> QED
    BY <2>1 DEF Inv, Awaited
<1>14. Named'
  BY <1>3 DEF Inv, Named
<1>15. Delivered'
  <2>1. ASSUME NEW q \in Peer, NEW i \in 1 .. Len(forwarding'[q])
        PROVE  forwarding'[q][i][1] = forwarding'[q][i][2].s
    <3>1. CASE q # p
      BY <2>1, <3>1 DEF Inv, Delivered
    <3>2. CASE q = p /\ forwarding'[p] = <<>>
      <4>1. \A j : ~(j \in 1 .. Len(<<>>))
        OBVIOUS
      <4> QED
        BY <2>1, <3>2, <4>1
    <3>3. CASE q = p /\ forwarding'[p] = <<<<f.s, f>>>>
      <4>1. \A j \in 1 .. Len(<<<<f.s, f>>>>) : <<<<f.s, f>>>>[j][1] = f.s /\ <<<<f.s, f>>>>[j][2] = f
        OBVIOUS
      <4> QED
        BY <2>1, <3>3, <4>1
    <3> QED
      BY <3>1, <3>2, <3>3
  <2> QED
    BY <2>1 DEF Inv, Delivered
<1> QED
  BY <1>5, <1>6, <1>7, <1>8, <1>9, <1>12, <1>13, <1>14, <1>15 DEF Inv

\* Only the session that a frame was sent by the counterpart of can be in the way.
LEMMA FirstInbound ==
  ASSUME Inv, NEW p \in Peer, NEW f \in Frames, Arrives(p, f)
  PROVE  by_in[p][f.ch] \in {NoSession, f.s}
<1> DEFINE P == Pipe(Other(p))
<1>1. P \in Seq(Frames) /\ P # <<>> /\ f = Head(P)
  BY PipeType, PeerFacts DEF Inv, Arrives
<1>2. Inbound(P, by_in[p])
  BY PeerFacts DEF Inv, Routed
<1> HIDE DEF P
<1>3. 1 \in 1 .. Len(P) /\ f = P[1] /\ \A k \in 1 .. Len(P) : ~(k < 1)
  BY <1>1
<1> QED
  BY <1>2, <1>3 DEF Inbound

\* Routing a session frame by its incoming channel keeps the invariant.
LEMMA KeepSessionFrame ==
  ASSUME Inv, NEW p \in Peer, OnIncomingSessionFrame(p)
  PROVE  Inv'
<1> DEFINE f == Head(wire[Other(p)])
           s == Recipient(p, f.ch)
<1>1. TypeOK'
  BY TypeSessionFrame
<1>2. /\ Arrived(p, {"end", "ask", "answer", "bad"})
      /\ IF s = NoSession THEN Fail(p, "NotFound") /\ UNCHANGED <<by_in, forwarding>>
         ELSE /\ forwarding' = [forwarding EXCEPT ![p] = <<<<s, f>>>>]
              /\ by_in' = IF f.type = "end" THEN [by_in EXCEPT ![p][f.ch] = NoSession] ELSE by_in
              /\ UNCHANGED conn
      /\ UNCHANGED <<by_out, vacant, control, outgoing, tasks>>
  BY DEF OnIncomingSessionFrame
<1>3. /\ Arrives(p, f) /\ f \in Frames /\ f.type \in {"end", "ask", "answer", "bad"}
      /\ conn[p] = "Opened" /\ forwarding[p] = <<>>
  BY <1>2, ArrivedPipe
<1>4. f.ch \in Channel /\ s \in {NoSession, f.s} /\ s = by_in[p][f.ch]
  BY <1>3, FrameFacts, FirstInbound DEF Recipient
<1> HIDE DEF f, s
<1>5. Other(p) \in Peer /\ Other(p) # p
  BY PeerFacts
<1>6. /\ \A q \in Peer : conn'[q] = "Opened" => conn[q] = "Opened"
      /\ \A q \in Peer : q # p => forwarding'[q] = forwarding[q]
      /\ forwarding'[p] = <<>> \/ forwarding'[p] = <<<<f.s, f>>>>
  <2>1. forwarding \in [Peer -> Seq(Sessions \X Frames)]
        /\ conn \in [Peer -> {"Opened", "NotFound", "IllegalState", "NotImplemented", "RemoteClosed"}]
    BY DEF Inv, TypeOK
  <2> QED
    BY <1>2, <1>3, <1>4, <2>1 DEF Fail, Set
<1>7. Registers(p, f)
  <2>1. CASE s = NoSession
    BY <1>2, <1>4, <2>1 DEF Registers
  <2>2. CASE s # NoSession /\ f.type # "end"
    BY <1>2, <2>2 DEF Registers
  <2>3. CASE s # NoSession /\ f.type = "end"
    <3>1. by_in' = [by_in EXCEPT ![p][f.ch] = NoSession]
      BY <1>2, <2>3
    <3>2. /\ by_in'[p][f.ch] = NoSession
          /\ \A y \in Channel : y # f.ch => by_in'[p][y] = by_in[p][y]
          /\ \A q \in Peer : q # p => by_in'[q] = by_in[q]
      BY <1>4, <3>1, InMap, ZenonT(60) DEF Inv
    <3> QED
      BY <1>5, <2>3, <3>2 DEF Registers
  <2> QED
    BY <2>1, <2>2, <2>3
<1> QED
  BY <1>1, <1>2, <1>3, <1>6, <1>7, ArrivalKeeps

\* An answer names a channel that the client holds for the session.
LEMMA AnswerFor ==
  ASSUME Inv, NEW p \in Peer, NEW f \in Frames, Arrives(p, f), f.type = "begin",
         f.remote # NoChannel
  PROVE  p = Client /\ by_out[p][f.remote] = f.s
<1> DEFINE P == Pipe(Other(p))
           s == f.s
<1>1. P \in Seq(Frames) /\ P # <<>> /\ f = Head(P) /\ s \in Sessions
  BY PipeType, PeerFacts, FrameFacts DEF Inv, Arrives
<1>2. HasBegin(P, s)
  <2>1. BeginOf(f, s)
    BY DEF BeginOf
  <2> HIDE DEF P, s
  <2> QED
    BY <1>1, <2>1, BeginTake
<1>3. p = Client
  <2> SUFFICES ASSUME p # Client PROVE FALSE
    OBVIOUS
  <2>1. P = Pipe(Client)
    BY PeerFacts
  <2>2. Asks(P, chan)
    BY <2>1 DEF Inv, Named
  <2> HIDE DEF P
  <2> QED
    BY <1>1, <2>2, NamesTake
<1>4. P = Pipe(Listener)
  BY <1>3, PeerFacts
<1>5. Replies(P, chan)
  BY <1>4 DEF Inv, Named
<1>6. f.remote = chan[<<Client, s>>]
  <2> HIDE DEF P
  <2> QED
    BY <1>1, <1>5, NamesTake
<1>7. N4(s)
  BY <1>1, <1>2, <1>4 DEF Inv, Handshake
<1>8. Pending(s)
  BY <1>7 DEF N4, N3, Pending
<1>9. ~Begun(<<Client, s>>)
  BY <1>1, <1>2, <1>4 DEF Inv, Handshake, N6, N5
<1>10. by_out[Client][chan[<<Client, s>>]] = s
  BY <1>1, <1>8, <1>9 DEF Inv, Awaited
<1> QED
  BY <1>3, <1>6, <1>10

\* Binding the incoming channel of an answering Begin keeps the invariant.
LEMMA KeepBeginAnswer ==
  ASSUME Inv, NEW p \in Peer, OnIncomingBeginAnswer(p)
  PROVE  Inv'
<1> DEFINE f == Head(wire[Other(p)])
           s == by_out[p][f.remote]
<1>1. TypeOK'
  BY TypeBeginAnswer
<1>2. /\ Arrived(p, {"begin"}) /\ f.remote # NoChannel
      /\ IF s = NoSession THEN Fail(p, "NotFound") /\ UNCHANGED <<by_in, forwarding>>
         ELSE /\ by_in' = [by_in EXCEPT ![p][f.ch] = s]
              /\ forwarding' = [forwarding EXCEPT ![p] = <<<<s, f>>>>]
              /\ UNCHANGED conn
      /\ UNCHANGED <<by_out, vacant, control, outgoing, tasks>>
  BY DEF OnIncomingBeginAnswer
<1>3. /\ Arrives(p, f) /\ f \in Frames /\ f.type = "begin"
      /\ conn[p] = "Opened" /\ forwarding[p] = <<>>
  BY <1>2, ArrivedPipe
<1>4. f.ch \in Channel /\ f.s \in Sessions /\ f.s # NoSession /\ s = f.s
  BY <1>2, <1>3, FrameFacts, AnswerFor
<1> HIDE DEF f, s
<1>5. by_in' = [by_in EXCEPT ![p][f.ch] = f.s]
      /\ forwarding' = [forwarding EXCEPT ![p] = <<<<f.s, f>>>>] /\ UNCHANGED conn
  BY <1>2, <1>4
<1>6. /\ \A q \in Peer : q # p => forwarding'[q] = forwarding[q]
      /\ forwarding'[p] = <<<<f.s, f>>>>
  <2>1. forwarding \in [Peer -> Seq(Sessions \X Frames)]
    BY DEF Inv, TypeOK
  <2> QED
    BY <1>5, <2>1
<1>7. Registers(p, f)
  <2>1. /\ by_in'[p][f.ch] = f.s
        /\ \A y \in Channel : y # f.ch => by_in'[p][y] = by_in[p][y]
        /\ \A q \in Peer : q # p => by_in'[q] = by_in[q]
    BY <1>4, <1>5, InMap, ZenonT(60) DEF Inv
  <2> QED
    BY <1>3, <2>1, PeerFacts DEF Registers
<1> QED
  BY <1>1, <1>2, <1>3, <1>5, <1>6, <1>7, ArrivalKeeps

\* A free channel is clean for anyone.
LEMMA CleanFree ==
  ASSUME NEW P \in Seq(Frames), NEW bi, NEW c, Clean(P, bi, c, NoSession), NEW s
  PROVE  Clean(P, bi, c, s)
<1>1. \A i \in 1 .. Len(P) : P[i] \in Frames
  OBVIOUS
<1>2. \A i \in 1 .. Len(P) : P[i].s # NoSession
  BY <1>1, FrameFacts
<1> QED
  BY <1>2 DEF Clean

\* Connection::allocate_session
LEMMA Allocated ==
  ASSUME Inv, NEW p \in Peer, NEW s \in Sessions, vacant[p] # <<>>, Allocate(p, <<p, s>>)
  PROVE  LET c == Head(vacant[p])
         IN /\ c \in Channel /\ by_out[p][c] = NoSession /\ by_out'[p][c] = s
            /\ \A d \in Channel : d # c => by_out'[p][d] = by_out[p][d]
            /\ \A q \in Peer : q # p => by_out'[q] = by_out[q]
            /\ chan'[<<p, s>>] = c
            /\ \A x \in Endpoint : x # <<p, s>> => chan'[x] = chan[x]
            /\ Vacancies'
<1> DEFINE c == Head(vacant[p])
           V == vacant[p]
           e == <<p, s>>
<1>1. V \in Seq(Channel) /\ V # <<>> /\ vacant \in [Peer -> Seq(Channel)]
      /\ e \in Endpoint /\ e[2] = s /\ chan \in [Endpoint -> Channel \cup {NoChannel}]
  BY EndpointFacts DEF Inv, TypeOK
<1>2. /\ by_out' = [by_out EXCEPT ![p][c] = s]
      /\ vacant' = [vacant EXCEPT ![p] = Tail(@)]
      /\ chan' = Set(chan, e, c)
  BY <1>1 DEF Allocate
<1>3. vacant'[p] = Tail(V) /\ \A q \in Peer : q # p => vacant'[q] = vacant[q]
  BY <1>1, <1>2
<1>4. \A i \in 1 .. Len(V) : /\ by_out[p][V[i]] = NoSession
                             /\ \A j \in 1 .. Len(V) : V[j] = V[i] => i = j
  BY DEF Inv, Vacancies
<1>5. c = Head(V)
  OBVIOUS
<1> HIDE DEF c, V
<1>6. c \in Channel /\ c = V[1] /\ 1 \in 1 .. Len(V)
  BY <1>1, <1>5
<1>7. by_out[p][c] = NoSession
  BY <1>4, <1>6
<1>8. /\ by_out'[p][c] = s
      /\ \A d \in Channel : d # c => by_out'[p][d] = by_out[p][d]
      /\ \A q \in Peer : q # p => by_out'[q] = by_out[q]
  <2>1. s \in Sessions \cup {NoSession} /\ c \in Channel /\ TypeOK
    BY <1>6 DEF Inv
  <2>2. by_out' = [by_out EXCEPT ![p][c] = s]
    BY <1>2
  <2> HIDE DEF e
  <2> QED
    BY <2>1, <2>2, OutMap, ZenonT(60)
<1>9. chan'[e] = c /\ \A x \in Endpoint : x # e => chan'[x] = chan[x]
  <2> HIDE DEF e
  <2> QED
    BY <1>1, <1>2, <1>6 DEF Set
<1>10. \A i \in 1 .. Len(Tail(V)) : i + 1 \in 1 .. Len(V) /\ Tail(V)[i] = V[i + 1] /\ i + 1 # 1
                                    /\ V[i + 1] \in Channel /\ i \in Int
  <2>1. \A i \in 1 .. Len(Tail(V)) : i + 1 \in 1 .. Len(V) /\ Tail(V)[i] = V[i + 1]
    BY <1>1, TailFacts
  <2>2. \A i \in 1 .. Len(Tail(V)) : i + 1 # 1 /\ i \in Int
    BY <1>1
  <2>3. \A i \in 1 .. Len(V) : V[i] \in Channel
    BY <1>1
  <2> QED
    BY <2>1, <2>2, <2>3
<1>11. \A i \in 1 .. Len(Tail(V)) :
         /\ by_out'[p][Tail(V)[i]] = NoSession
         /\ \A j \in 1 .. Len(Tail(V)) : Tail(V)[j] = Tail(V)[i] => i = j
  <2> SUFFICES ASSUME NEW i \in 1 .. Len(Tail(V))
               PROVE  /\ by_out'[p][Tail(V)[i]] = NoSession
                      /\ \A j \in 1 .. Len(Tail(V)) : Tail(V)[j] = Tail(V)[i] => i = j
    OBVIOUS
  <2>1. V[i + 1] # c
    BY <1>4, <1>6, <1>10
  <2>2. by_out'[p][Tail(V)[i]] = NoSession
    BY <1>4, <1>8, <1>10, <2>1
  <2>3. ASSUME NEW j \in 1 .. Len(Tail(V)), Tail(V)[j] = Tail(V)[i]
        PROVE  i = j
    <3>1. i + 1 = j + 1
      BY <1>4, <1>10, <2>3
    <3> QED
      BY <1>10, <3>1
  <2> QED
    BY <2>2, <2>3
<1>12. Vacancies'
  <2> SUFFICES ASSUME NEW q \in Peer, NEW i \in 1 .. Len(vacant'[q])
               PROVE  /\ by_out'[q][vacant'[q][i]] = NoSession
                      /\ \A j \in 1 .. Len(vacant'[q]) : vacant'[q][j] = vacant'[q][i] => i = j
    BY DEF Vacancies
  <2>1. CASE q = p
    BY <1>3, <1>11, <2>1, ZenonT(60)
  <2>2. CASE q # p
    BY <1>3, <1>8, <2>2 DEF Inv, Vacancies
  <2> QED
    BY <2>1, <2>2
<1> QED
  BY <1>6, <1>7, <1>8, <1>9, <1>12 DEF c

\* A session that may still be allocated is unknown on the way.
LEMMA Unbegun ==
  ASSUME Inv, NEW s \in Sessions, task[<<Client, s>>] \in {"alloc", "dropped"},
         \A c \in Channel : by_out[Client][c] # s
  PROVE  /\ ~Pending(s) /\ ~HasBegin(Pipe(Client), s) /\ ~HasBegin(Pipe(Listener), s)
         /\ task[<<Listener, s>>] = "none"
         /\ sending[<<Client, s>>] = <<>> /\ links[<<Client, s>>] = <<>>
         /\ sending[<<Listener, s>>] = <<>>
<1>1. Client \in Peer /\ Listener \in Peer
  BY PeerFacts
<1>2. ~Pending(s)
  BY DEF Inv, Awaited, Begun, Looping
<1>3. task[<<Listener, s>>] = "none" /\ ~HasBegin(Pipe(Client), s)
  BY <1>2 DEF Pending
<1>4. ~HasBegin(Pipe(Listener), s)
  BY <1>3 DEF Inv, Handshake, N4, N3
<1>5. sending[<<Client, s>>] = <<>> /\ links[<<Client, s>>] = <<>>
  BY <1>1 DEF Inv, Carried, Looping
<1>6. sending[<<Listener, s>>] = <<>>
  BY <1>1, <1>3 DEF Inv, Carried, Looping
<1> QED
  BY <1>2, <1>3, <1>4, <1>5, <1>6

\* The items of a sequence over S are in S.
LEMMA ItemsType ==
  ASSUME NEW S, NEW P \in Seq(S)
  PROVE  \A i \in 1 .. Len(P) : P[i] \in S
OBVIOUS

\* Frames that are not of s do not notice a change of the channel of s.
LEMMA NamesKept ==
  ASSUME NEW P \in Seq(Frames), NEW s, NEW ch, NEW dh, ~HasBegin(P, s),
         \A t \in Sessions : t # s => dh[<<Client, t>>] = ch[<<Client, t>>]
  PROVE  (Asks(P, ch) => Asks(P, dh)) /\ (Replies(P, ch) => Replies(P, dh))
<1>1. \A i \in 1 .. Len(P) : P[i] \in Frames
  BY ItemsType
<1>2. \A i \in 1 .. Len(P) : P[i].s \in Sessions /\ (P[i].type = "begin" => P[i].s # s)
  BY <1>1, FrameFacts DEF HasBegin, BeginOf
<1> QED
  BY <1>2 DEF Asks, Replies

\* The first request is done with.
LEMMA RequestTake ==
  ASSUME NEW C \in Seq(Requests), C # <<>>, Distinct(C)
  PROVE  /\ Distinct(Tail(C))
         /\ \A i \in 1 .. Len(Tail(C)) : /\ i + 1 \in 1 .. Len(C) /\ Tail(C)[i] = C[i + 1]
                                         /\ ~(Tail(C)[i].op = Head(C).op /\ Tail(C)[i].s = Head(C).s)
         /\ \A i \in 1 .. Len(C) : C[i] # Head(C) => \E j \in 1 .. Len(Tail(C)) : Tail(C)[j] = C[i]
         /\ Head(C) = C[1] /\ 1 \in 1 .. Len(C)
<1>1. /\ Len(C) \in Nat /\ Len(C) >= 1 /\ Head(C) = C[1] /\ Len(Tail(C)) = Len(C) - 1
      /\ \A i \in 1 .. Len(C) - 1 : Tail(C)[i] = C[i + 1]
  BY Dropped
<1>2. \A i \in 1 .. Len(Tail(C)) : i + 1 \in 1 .. Len(C) /\ Tail(C)[i] = C[i + 1] /\ i + 1 # 1
                                   /\ i \in Int
  BY <1>1
<1>3. 1 \in 1 .. Len(C)
  BY <1>1
<1>4. \A i \in 1 .. Len(Tail(C)) : ~(Tail(C)[i].op = Head(C).op /\ Tail(C)[i].s = Head(C).s)
  BY <1>1, <1>2, <1>3 DEF Distinct
<1>5. Distinct(Tail(C))
  <2> SUFFICES ASSUME NEW i \in 1 .. Len(Tail(C)), NEW j \in 1 .. Len(Tail(C)),
                      Tail(C)[j].op = Tail(C)[i].op, Tail(C)[j].s = Tail(C)[i].s
               PROVE  i = j
    BY DEF Distinct
  <2>1. i + 1 = j + 1
    BY <1>2 DEF Distinct
  <2> QED
    BY <1>2, <2>1
<1>6. ASSUME NEW i \in 1 .. Len(C), C[i] # Head(C)
      PROVE  \E j \in 1 .. Len(Tail(C)) : Tail(C)[j] = C[i]
  <2>1. i # 1
    BY <1>1, <1>6
  <2>2. i - 1 \in 1 .. Len(Tail(C)) /\ Tail(C)[i - 1] = C[i]
    BY <1>1, <2>1
  <2> QED
    BY <2>2
<1> QED
  BY <1>1, <1>2, <1>3, <1>4, <1>5, <1>6

\* Allocating a channel keeps the invariant: it was nobody's.
LEMMA KeepAllocate ==
  ASSUME Inv, NEW p \in Peer, OnControlAllocate(p)
  PROVE  Inv'
<1> DEFINE C == control[p]
           s == Head(C).s
           e == <<p, s>>
           full == vacant[p] = <<>>
<1>1. TypeOK'
  BY TypeAllocate
<1>2. /\ conn[p] = "Opened" /\ C # <<>> /\ Head(C).op = "allocate"
      /\ control' = [control EXCEPT ![p] = Tail(@)]
      /\ IF full THEN UNCHANGED <<by_out, vacant, chan>> ELSE Allocate(p, e)
      /\ IF task[e] = "dropped" THEN Fail(p, "IllegalState") /\ UNCHANGED <<task, outcome>>
         ELSE /\ task' = Set(task, e, IF full THEN "failed" ELSE "begin")
              /\ UNCHANGED conn
      /\ UNCHANGED <<by_in, outgoing, wire, forwarding, state, remote, incoming, sending, links>>
  BY DEF OnControlAllocate, Runs
<1>3. C \in Seq(Requests) /\ Distinct(C) /\ control \in [Peer -> Seq(Requests)]
  BY DEF Inv, TypeOK, Requested
<1>4. ASSUME NEW i \in 1 .. Len(C)
      PROVE  RequestOK(C[i], p, task[<<p, C[i].s>>], conn[p], by_out[p]) /\ C[i].s \in Sessions
  BY RequestFacts DEF Inv, Requested
<1>5. control'[p] = Tail(C) /\ \A q \in Peer : q # p => control'[q] = control[q]
  BY <1>2, <1>3
<1> HIDE DEF C
<1>6. /\ Distinct(Tail(C))
      /\ \A i \in 1 .. Len(Tail(C)) : /\ i + 1 \in 1 .. Len(C) /\ Tail(C)[i] = C[i + 1]
                                      /\ ~(Tail(C)[i].op = Head(C).op /\ Tail(C)[i].s = Head(C).s)
      /\ \A i \in 1 .. Len(C) : C[i] # Head(C) => \E j \in 1 .. Len(Tail(C)) : Tail(C)[j] = C[i]
      /\ Head(C) = C[1] /\ 1 \in 1 .. Len(C)
  BY <1>2, <1>3, RequestTake
<1>7. /\ s \in Sessions /\ p = Client /\ task[e] \in {"alloc", "dropped"}
      /\ \A c \in Channel : by_out[p][c] # s
  <2>1. RequestOK(C[1], p, task[<<p, C[1].s>>], conn[p], by_out[p]) /\ C[1].s \in Sessions
    BY <1>4, <1>6
  <2>2. C[1] = Head(C)
    BY <1>6
  <2> QED
    BY <1>2, <2>1, <2>2 DEF RequestOK
<1>8. /\ ~Pending(s) /\ ~HasBegin(Pipe(Client), s) /\ ~HasBegin(Pipe(Listener), s)
      /\ task[<<Listener, s>>] = "none" /\ sending[e] = <<>> /\ links[e] = <<>>
      /\ sending[<<Listener, s>>] = <<>>
  BY <1>7, Unbegun
<1>9. e \in Endpoint /\ Client \in Peer /\ Listener \in Peer /\ Client # Listener
  BY <1>7, EndpointFacts, PeerFacts
<1> HIDE DEF s
<1>10. /\ task'[e] \in {"begin", "failed", "dropped"} /\ (task'[e] = "begin" => ~full)
       /\ full => task'[e] # "begin"
       /\ \A x \in Endpoint : x # e => task'[x] = task[x]
       /\ \A q \in Peer : conn'[q] = "Opened" => conn[q] = "Opened"
  <2>1. task \in [Endpoint -> Tasks]
        /\ conn \in [Peer -> {"Opened", "NotFound", "IllegalState", "NotImplemented", "RemoteClosed"}]
    BY DEF Inv, TypeOK
  <2> HIDE DEF e, full
  <2>2. CASE task[e] = "dropped"
    <3>1. task' = task /\ conn' = Set(conn, p, "IllegalState")
      BY <1>2, <2>2 DEF Fail
    <3> QED
      BY <2>1, <2>2, <3>1 DEF Set
  <2>3. CASE task[e] # "dropped"
    BY <1>2, <1>9, <2>1, <2>3 DEF Set
  <2> QED
    BY <2>2, <2>3
<1>11. /\ \A d \in Channel : \/ by_out'[p][d] = by_out[p][d]
                             \/ by_out[p][d] = NoSession /\ by_out'[p][d] = s /\ chan'[e] = d
       /\ \A q \in Peer : q # p => by_out'[q] = by_out[q]
       /\ \A x \in Endpoint : x # e => chan'[x] = chan[x]
       /\ Vacancies'
       /\ ~full => chan'[e] \in Channel /\ by_out'[p][chan'[e]] = s
  <2>1. CASE full
    BY <1>2, <2>1 DEF Inv, Vacancies
  <2>2. CASE ~full
    <3>1. Allocate(p, e)
      BY <1>2, <2>2
    <3>2. LET c == Head(vacant[p])
          IN /\ c \in Channel /\ by_out[p][c] = NoSession /\ by_out'[p][c] = s
             /\ \A d \in Channel : d # c => by_out'[p][d] = by_out[p][d]
             /\ \A q \in Peer : q # p => by_out'[q] = by_out[q]
             /\ chan'[<<p, s>>] = c
             /\ \A x \in Endpoint : x # <<p, s>> => chan'[x] = chan[x]
             /\ Vacancies'
      BY <1>7, <2>2, <3>1, Allocated
    <3> QED
      BY <3>2
  <2> QED
    BY <2>1, <2>2
<1> HIDE DEF full
<1>12. ASSUME NEW q \in Peer, NEW t \in Sessions, ~(q = p /\ t = s)
       PROVE  /\ <<q, t>> # e /\ task'[<<q, t>>] = task[<<q, t>>] /\ chan'[<<q, t>>] = chan[<<q, t>>]
              /\ \A c \in Channel : by_out[q][c] = t => by_out'[q][c] = t
              /\ \A c \in Channel : by_out'[q][c] = t => by_out[q][c] = t
  <2>1. <<q, t>> # e /\ <<q, t>> \in Endpoint
    BY <1>12, EndpointFacts
  <2>2. t # NoSession
    BY SubsetAssumption
  <2> QED
    BY <1>10, <1>11, <1>12, <2>1, <2>2
<1>13. Pipe(Client)' = Pipe(Client) /\ Pipe(Listener)' = Pipe(Listener)
       /\ \A q \in Peer : Pipe(q)' = Pipe(q)
  BY <1>2 DEF Pipe
<1>14. Held'
  <2> SUFFICES ASSUME NEW q \in Peer, NEW t \in Sessions, task'[<<q, t>>] \in Holding
               PROVE  chan'[<<q, t>>] \in Channel /\ by_out'[q][chan'[<<q, t>>]] = t
    BY DEF Held
  <2>1. CASE q = p /\ t = s
    BY <1>10, <1>11, <2>1 DEF Holding
  <2>2. CASE ~(q = p /\ t = s)
    <3>1. chan[<<q, t>>] \in Channel /\ by_out[q][chan[<<q, t>>]] = t
      BY <1>12, <2>2 DEF Inv, Held
    <3> QED
      BY <1>12, <2>2, <3>1
  <2> QED
    BY <2>1, <2>2
<1>15. Holder'
  <2> SUFFICES ASSUME NEW q \in Peer, NEW c \in Channel, NEW t \in Sessions, by_out'[q][c] = t
               PROVE  /\ chan'[<<q, t>>] = c
                      /\ task'[<<q, t>>] \notin {"none", "alloc"}
                      /\ conn'[q] = "Opened" /\ task'[<<q, t>>] = "gone" =>
                           \E i \in 1 .. Len(control'[q]) :
                             control'[q][i].op = "deallocate" /\ control'[q][i].ch = c
    BY DEF Holder
  <2>1. CASE q = p /\ t = s
    BY <1>7, <1>10, <1>11, <2>1
  <2>2. CASE ~(q = p /\ t = s)
    <3>1. /\ chan[<<q, t>>] = c
          /\ task[<<q, t>>] \notin {"none", "alloc"}
          /\ conn[q] = "Opened" /\ task[<<q, t>>] = "gone" =>
               \E i \in 1 .. Len(control[q]) :
                 control[q][i].op = "deallocate" /\ control[q][i].ch = c
      BY <1>12, <2>2 DEF Inv, Holder
    <3>2. (\E i \in 1 .. Len(control[q]) : control[q][i].op = "deallocate" /\ control[q][i].ch = c) =>
            \E i \in 1 .. Len(control'[q]) : control'[q][i].op = "deallocate" /\ control'[q][i].ch = c
      <4>1. CASE q # p
        BY <1>5, <4>1
      <4>2. CASE q = p
        <5> SUFFICES ASSUME NEW i \in 1 .. Len(C), C[i].op = "deallocate", C[i].ch = c
                     PROVE  \E j \in 1 .. Len(Tail(C)) : Tail(C)[j].op = "deallocate" /\ Tail(C)[j].ch = c
          BY <1>5, <4>2 DEF C
        <5>1. C[i] # Head(C)
          BY <1>2
        <5>2. PICK j \in 1 .. Len(Tail(C)) : Tail(C)[j] = C[i]
          BY <1>6, <5>1
        <5> QED
          BY <5>2
      <4> QED
        BY <4>1, <4>2
    <3> QED
      BY <1>10, <1>12, <2>2, <3>1, <3>2
  <2> QED
    BY <2>1, <2>2
<1>16. Requested'
  <2>1. ASSUME NEW q \in Peer, NEW i \in 1 .. Len(control'[q])
        PROVE  RequestOK(control'[q][i], q, task'[<<q, control'[q][i].s>>], conn'[q], by_out'[q])
    <3> DEFINE r == control'[q][i]
    <3>1. /\ RequestOK(r, q, task[<<q, r.s>>], conn[q], by_out[q]) /\ r.s \in Sessions
          /\ r.op \in {"allocate", "deallocate"} /\ (r.op = "deallocate" => r.ch \in Channel)
          /\ q = p => ~(r.op = "allocate" /\ r.s = s)
      <4>1. CASE q # p
        <5>1. i \in 1 .. Len(control[q]) /\ r = control[q][i]
          BY <1>5, <2>1, <4>1
        <5> QED
          BY <4>1, <5>1, RequestFacts DEF Inv, Requested
      <4>2. CASE q = p
        <5>1. i + 1 \in 1 .. Len(C) /\ r = C[i + 1] /\ ~(r.op = "allocate" /\ r.s = s)
          <6>1. i \in 1 .. Len(Tail(C)) /\ r = Tail(C)[i]
            BY <1>5, <2>1, <4>2
          <6> HIDE DEF r
          <6> QED
            BY <1>2, <1>6, <6>1 DEF s
        <5> QED
          BY <1>4, <4>2, <5>1, RequestFacts DEF Inv, C
      <4> QED
        BY <4>1, <4>2
    <3> HIDE DEF r
    <3>2. ~(q = p /\ r.s = s)
      BY <1>7, <3>1 DEF RequestOK
    <3> QED
      BY <1>10, <1>12, <3>1, <3>2 DEF RequestOK, r
  <2>2. \A q \in Peer : Distinct(control'[q])
    BY <1>5, <1>6 DEF Inv, Requested
  <2> QED
    BY <2>1, <2>2 DEF Requested
<1>17. ASSUME NEW q \in Peer, NEW t \in Sessions
       PROVE  CarriedAt(task'[<<q, t>>], state[<<q, t>>], sending[<<q, t>>], links[<<q, t>>], t,
                        chan'[<<q, t>>])
  <2>1. CASE q = p /\ t = s
    <3>1. ~HasBegin(<<>>, s) /\ OwnFrames(<<>>, s, chan'[e]) /\ LinkOnly(<<>>)
      BY DEF HasBegin, OwnFrames, LinkOnly
    <3> QED
      BY <1>8, <2>1, <3>1 DEF CarriedAt
  <2>2. CASE ~(q = p /\ t = s)
    <3>1. CarriedAt(task[<<q, t>>], state[<<q, t>>], sending[<<q, t>>], links[<<q, t>>], t, chan[<<q, t>>])
      BY DEF Inv, Carried, CarriedAt, Ended
    <3> QED
      BY <1>12, <2>2, <3>1
  <2> QED
    BY <2>1, <2>2
<1>18. Carried'
  BY <1>2, <1>17 DEF Carried, CarriedAt, Ended
<1>19. Routed'
  <2>1. ASSUME NEW q \in Peer, NEW c \in Channel
        PROVE  Clean(Pipe(q), by_in[Other(q)], c, by_out'[q][c])
    <3>1. Clean(Pipe(q), by_in[Other(q)], c, by_out[q][c])
      BY DEF Inv, Routed
    <3>2. CASE by_out'[q][c] = by_out[q][c]
      BY <3>1, <3>2
    <3>3. CASE by_out[q][c] = NoSession
      <4>1. Pipe(q) \in Seq(Frames)
        BY PipeType DEF Inv
      <4> QED
        BY <3>1, <3>3, <4>1, CleanFree
    <3> QED
      BY <1>11, <3>2, <3>3
  <2> QED
    BY <1>2, <1>13, <2>1 DEF Inv, Routed
<1>20. Closed'
  <2> SUFFICES ASSUME NEW q \in Peer, NEW t \in Sessions,
                      conn'[q] = "Opened", HasEnded(task'[<<q, t>>], state[<<q, t>>]),
                      ~HasEnd(sending[<<q, t>>]),
                      chan'[<<q, t>>] \in Channel, by_out'[q][chan'[<<q, t>>]] = t
               PROVE  Clean(Pipe(q), by_in[Other(q)], chan'[<<q, t>>], NoSession)
    BY <1>2, <1>13 DEF Closed, Ended
  <2>1. ~(q = p /\ t = s)
    BY <1>10 DEF HasEnded
  <2>2. Ended(<<q, t>>) /\ conn[q] = "Opened" /\ chan'[<<q, t>>] = chan[<<q, t>>]
        /\ by_out[q][chan[<<q, t>>]] = t
    BY <1>10, <1>12, <2>1 DEF Ended
  <2> QED
    BY <2>2 DEF Inv, Closed
<1>21. ASSUME NEW t \in Sessions
       PROVE  /\ task'[<<Listener, t>>] = task[<<Listener, t>>]
              /\ t # s => task'[<<Client, t>>] = task[<<Client, t>>]
                          /\ chan'[<<Client, t>>] = chan[<<Client, t>>]
  BY <1>7, <1>9, <1>12
<1>22. Handshake'
  <2> SUFFICES ASSUME NEW t \in Sessions
               PROVE  /\ HasBegin(Pipe(Client), t) => M1(t)' /\ Once(Pipe(Client), t)
                      /\ task[<<Listener, t>>] # "none" =>
                           M2(t)' /\ remote[<<Listener, t>>] = chan'[<<Client, t>>]
                      /\ HasBegin(Pipe(Listener), t) => N4(t)' /\ Once(Pipe(Listener), t)
                      /\ Relayed(forwarding[Client], t) => N5(t)'
                      /\ HasBegin(incoming[<<Client, t>>], t) \/ Begun(<<Client, t>>)' => N6(t)'
    BY <1>2, <1>13, <1>21 DEF Handshake
  <2>1. /\ HasBegin(Pipe(Client), t) => M1(t) /\ Once(Pipe(Client), t)
        /\ task[<<Listener, t>>] # "none" => M2(t) /\ remote[<<Listener, t>>] = chan[<<Client, t>>]
        /\ HasBegin(Pipe(Listener), t) => N4(t) /\ Once(Pipe(Listener), t)
        /\ Relayed(forwarding[Client], t) => N5(t)
        /\ HasBegin(incoming[<<Client, t>>], t) \/ Begun(<<Client, t>>) => N6(t)
    BY DEF Inv, Handshake
  <2>2. (N4(t)' <=> N4(t)) /\ (N5(t)' <=> N5(t)) /\ (N6(t)' <=> N6(t))
    BY <1>2, <1>13, <1>21 DEF N3, N4, N5, N6
  <2>3. t # s => (M1(t)' <=> M1(t)) /\ (M2(t)' <=> M2(t))
    BY <1>2, <1>13, <1>21 DEF M0, M1, M2
  <2>4. Begun(<<Client, t>>)' => Begun(<<Client, t>>)
    BY <1>7, <1>10, <1>21 DEF Begun, Looping
  <2>5. CASE t = s
    BY <1>8, <2>1, <2>2, <2>4, <2>5
  <2>6. CASE t # s
    BY <1>21, <2>1, <2>2, <2>3, <2>4, <2>6
  <2> QED
    BY <2>5, <2>6
<1>23. Awaited'
  <2> SUFFICES ASSUME NEW t \in Sessions, Pending(t)'
               PROVE  /\ chan'[<<Client, t>>] \in Channel
                      /\ Begun(<<Client, t>>)' \/ by_out'[Client][chan'[<<Client, t>>]] = t
    BY DEF Awaited
  <2>1. Pending(t)
    BY <1>2, <1>13, <1>21 DEF Pending
  <2>2. t # s
    BY <1>8, <2>1
  <2>3. chan[<<Client, t>>] \in Channel
        /\ (Begun(<<Client, t>>) \/ by_out[Client][chan[<<Client, t>>]] = t)
    BY <2>1 DEF Inv, Awaited
  <2> QED
    BY <1>7, <1>12, <1>21, <2>2, <2>3 DEF Begun
<1>24. Named'
  <2>1. \A t \in Sessions : t # s => chan'[<<Client, t>>] = chan[<<Client, t>>]
    BY <1>21
  <2>2. Asks(Pipe(Client), chan) /\ Replies(Pipe(Listener), chan)
    BY DEF Inv, Named
  <2>3. Pipe(Client) \in Seq(Frames) /\ Pipe(Listener) \in Seq(Frames)
    BY <1>9, PipeType DEF Inv
  <2>4. Asks(Pipe(Client), chan') /\ Replies(Pipe(Listener), chan')
    BY <1>8, <2>1, <2>2, <2>3, NamesKept
  <2>5. ASSUME NEW t \in Sessions, NEW q \in Peer
        PROVE  /\ Asks(sending[<<q, t>>], chan) => Asks(sending[<<q, t>>], chan')
               /\ Replies(sending[<<q, t>>], chan) => Replies(sending[<<q, t>>], chan')
    <3>1. sending[<<q, t>>] \in Seq(Frames) /\ OwnFrames(sending[<<q, t>>], t, chan[<<q, t>>])
      BY EndpointTypes DEF Inv, Carried
    <3>2. ~HasBegin(sending[<<q, t>>], s)
      <4>1. CASE t = s
        <5>1. sending[<<q, t>>] = <<>>
          BY <1>7, <1>8, <4>1, PeerFacts
        <5> QED
          BY <5>1 DEF HasBegin
      <4>2. CASE t # s
        BY <3>1, <4>2 DEF HasBegin, BeginOf, OwnFrames
      <4> QED
        BY <4>1, <4>2
    <3> QED
      BY <2>1, <3>1, <3>2, NamesKept
  <2>6. \A t \in Sessions : Asks(sending[<<Client, t>>], chan) /\ Replies(sending[<<Listener, t>>], chan)
    BY DEF Inv, Named
  <2>7. \A t \in Sessions : Asks(sending[<<Client, t>>], chan') /\ Replies(sending[<<Listener, t>>], chan')
    BY <1>9, <2>5, <2>6
  <2> QED
    BY <1>2, <1>13, <2>4, <2>7 DEF Named
<1>25. Delivered'
  BY <1>2 DEF Inv, Delivered
<1> QED
  BY <1>1, <1>11, <1>14, <1>15, <1>16, <1>18, <1>19, <1>20, <1>22, <1>23, <1>24, <1>25 DEF Inv

\* The begin that the listener takes is of a session it does not know yet.
LEMMA NewAtListener ==
  ASSUME Inv, NEW f \in Frames, Arrives(Listener, f), f.type = "begin"
  PROVE  /\ task[<<Listener, f.s>>] = "none" /\ HasBegin(Pipe(Client), f.s)
         /\ M1(f.s) /\ Once(Pipe(Client), f.s) /\ f.ch = chan[<<Client, f.s>>]
         /\ \A c \in Channel : by_out[Listener][c] # f.s
         /\ sending[<<Listener, f.s>>] = <<>> /\ links[<<Listener, f.s>>] = <<>>
<1> DEFINE P == Pipe(Client)
           s == f.s
<1>1. P \in Seq(Frames) /\ P # <<>> /\ f = Head(P) /\ s \in Sessions /\ Listener \in Peer
  BY PipeType, PeerFacts, FrameFacts DEF Inv, Arrives
<1>2. Asks(P, chan)
  BY DEF Inv, Named
<1>3. BeginOf(f, s)
  BY DEF BeginOf
<1> HIDE DEF P
<1>4. HasBegin(P, s) /\ f.ch = chan[<<Client, s>>]
  BY <1>1, <1>2, <1>3, BeginTake, NamesTake
<1>5. M1(s) /\ Once(P, s)
  BY <1>1, <1>4 DEF Inv, Handshake, P
<1>6. task[<<Listener, s>>] = "none"
  BY <1>1, <1>4 DEF Inv, Handshake, M2, P
<1>7. \A c \in Channel : by_out[Listener][c] # s
  BY <1>1, <1>6 DEF Inv, Holder
<1>8. sending[<<Listener, s>>] = <<>> /\ links[<<Listener, s>>] = <<>>
  BY <1>1, <1>6 DEF Inv, Carried, Looping
<1> QED
  BY <1>4, <1>5, <1>6, <1>7, <1>8 DEF P

\* Allocating for a remote Begin keeps the invariant.
LEMMA KeepIncomingBegin ==
  ASSUME Inv, NEW p \in Peer, OnIncomingBegin(p)
  PROVE  Inv'
<1> DEFINE f == Head(wire[Other(p)])
           s == f.s
           e == <<p, s>>
<1>1. TypeOK'
  BY TypeIncomingBegin
<1>2. /\ p = Listener /\ Arrived(p, {"begin"})
      /\ IF vacant[p] = <<>>
         THEN Fail(p, "NotImplemented") /\ UNCHANGED <<by_out, vacant, chan, by_in, task, remote>>
         ELSE /\ Allocate(p, e)
              /\ by_in' = [by_in EXCEPT ![p][f.ch] = s]
              /\ task' = Set(task, e, "offered")
              /\ remote' = Set(remote, e, f.ch)
              /\ UNCHANGED conn
      /\ UNCHANGED <<control, outgoing, forwarding, state, incoming, sending, links, ends, left,
                     outcome, late>>
  BY DEF OnIncomingBegin
<1>3. /\ Arrives(p, f) /\ f \in Frames /\ f.type = "begin"
      /\ conn[p] = "Opened" /\ forwarding[p] = <<>>
  BY <1>2, ArrivedPipe
<1> HIDE DEF f
<1>4. /\ f.ch \in Channel /\ s \in Sessions /\ s # NoSession
      /\ Other(p) = Client /\ Client \in Peer /\ Listener \in Peer /\ Client # Listener
  BY <1>2, <1>3, FrameFacts, PeerFacts
<1>5. CASE vacant[p] = <<>>
  <2>1. Fail(p, "NotImplemented") /\ UNCHANGED <<by_out, vacant, by_in, control, forwarding, tasks>>
    BY <1>2, <1>5 DEF tasks
  <2>2. Registers(p, f)
    BY <1>3, <2>1 DEF Registers
  <2>3. \A q \in Peer : conn'[q] = "Opened" => conn[q] = "Opened"
    BY <2>1 DEF Fail, Set, Inv, TypeOK
  <2> QED
    BY <1>1, <1>3, <2>1, <2>2, <2>3, ArrivalKeeps
<1>6. CASE vacant[p] # <<>>
  <2> DEFINE c == Head(vacant[p])
  <2>1. /\ Allocate(p, e) /\ by_in' = [by_in EXCEPT ![p][f.ch] = s]
        /\ task' = Set(task, e, "offered") /\ remote' = Set(remote, e, f.ch) /\ UNCHANGED conn
    BY <1>2, <1>6
  <2>2. /\ task[e] = "none" /\ HasBegin(Pipe(Client), s)
        /\ M1(s) /\ Once(Pipe(Client), s) /\ f.ch = chan[<<Client, s>>]
        /\ \A d \in Channel : by_out[p][d] # s
        /\ sending[e] = <<>> /\ links[e] = <<>>
    BY <1>2, <1>3, NewAtListener
  <2>3. /\ c \in Channel /\ by_out[p][c] = NoSession /\ by_out'[p][c] = s
        /\ \A d \in Channel : d # c => by_out'[p][d] = by_out[p][d]
        /\ \A q \in Peer : q # p => by_out'[q] = by_out[q]
        /\ chan'[e] = c
        /\ \A x \in Endpoint : x # e => chan'[x] = chan[x]
        /\ Vacancies'
    BY <1>4, <1>6, <2>1, Allocated
  <2>4. Registers(p, f)
    <3>1. /\ by_in'[p][f.ch] = s
          /\ \A y \in Channel : y # f.ch => by_in'[p][y] = by_in[p][y]
          /\ \A q \in Peer : q # p => by_in'[q] = by_in[q]
      <4>1. s \in Sessions \cup {NoSession} /\ f.ch \in Channel /\ TypeOK
        BY <1>4 DEF Inv
      <4>2. by_in' = [by_in EXCEPT ![p][f.ch] = s]
        BY <2>1
      <4> HIDE DEF e, s
      <4> QED
        BY <4>1, <4>2, InMap, ZenonT(60)
    <3>2. Other(p) \in Peer /\ Other(p) # p
      BY PeerFacts
    <3> QED
      BY <1>3, <3>1, <3>2 DEF Registers
  <2>5. /\ \A q \in Peer : Separated(Pipe(q)') /\ Inbound(Pipe(q)', by_in'[Other(q)])
        /\ \A q \in Peer, d \in Channel : \A t : Clean(Pipe(q), by_in[Other(q)], d, t) =>
             Clean(Pipe(q)', by_in'[Other(q)], d, t)
    BY <1>3, <2>4, ArrivalPipes
  <2>6. /\ \A q \in Peer : \A t : HasBegin(Pipe(q)', t) => HasBegin(Pipe(q), t)
        /\ \A q \in Peer : \A t : Once(Pipe(q), t) => Once(Pipe(q)', t)
        /\ \A t : Once(Pipe(Client), t) /\ BeginOf(f, t) => ~HasBegin(Pipe(Client)', t)
    BY <1>3, <1>4, <2>4, ArrivalPipes
  <2>7. Asks(Pipe(Client)', chan) /\ Replies(Pipe(Listener)', chan)
    BY <1>3, <2>4, ArrivalPipes
  <2>8. Pipe(Listener)' = Pipe(Listener)
    BY <1>2, <1>3 DEF Arrives
  <2>9. e \in Endpoint
    BY <1>4, EndpointFacts
  <2>10. /\ task'[e] = "offered" /\ remote'[e] = f.ch
         /\ \A x \in Endpoint : x # e => task'[x] = task[x] /\ remote'[x] = remote[x]
    <3>1. task \in [Endpoint -> Tasks] /\ remote \in [Endpoint -> Channel \cup {NoChannel}]
      BY DEF Inv, TypeOK
    <3> HIDE DEF e, s
    <3> QED
      BY <2>1, <2>9, <3>1 DEF Set
  <2>11. UNCHANGED <<conn, control, outgoing, forwarding, state, incoming, sending, links>>
    BY <1>2, <2>1
  <2> HIDE DEF c, s
  <2>12. ASSUME NEW q \in Peer, NEW t \in Sessions, ~(q = p /\ t = s)
         PROVE  /\ task'[<<q, t>>] = task[<<q, t>>] /\ chan'[<<q, t>>] = chan[<<q, t>>]
                /\ remote'[<<q, t>>] = remote[<<q, t>>]
                /\ \A d \in Channel : by_out[q][d] = t => by_out'[q][d] = t
                /\ \A d \in Channel : by_out'[q][d] = t => by_out[q][d] = t
    <3>1. <<q, t>> # e /\ <<q, t>> \in Endpoint
      BY <2>12, EndpointFacts
    <3>2. t # NoSession
      BY SubsetAssumption
    <3> QED
      BY <2>3, <2>10, <2>12, <3>1, <3>2
  <2>13. Held'
    <3> SUFFICES ASSUME NEW q \in Peer, NEW t \in Sessions, task'[<<q, t>>] \in Holding
                 PROVE  chan'[<<q, t>>] \in Channel /\ by_out'[q][chan'[<<q, t>>]] = t
      BY DEF Held
    <3>1. CASE q = p /\ t = s
      BY <2>3, <3>1
    <3>2. CASE ~(q = p /\ t = s)
      <4>1. chan[<<q, t>>] \in Channel /\ by_out[q][chan[<<q, t>>]] = t
        BY <2>12, <3>2 DEF Inv, Held
      <4> QED
        BY <2>12, <3>2, <4>1
    <3> QED
      BY <3>1, <3>2
  <2>14. Holder'
    <3> SUFFICES ASSUME NEW q \in Peer, NEW d \in Channel, NEW t \in Sessions, by_out'[q][d] = t
                 PROVE  /\ chan'[<<q, t>>] = d
                        /\ task'[<<q, t>>] \notin {"none", "alloc"}
                        /\ conn[q] = "Opened" /\ task'[<<q, t>>] = "gone" =>
                             \E i \in 1 .. Len(control[q]) :
                               control[q][i].op = "deallocate" /\ control[q][i].ch = d
      BY <2>11 DEF Holder
    <3>1. CASE q = p /\ t = s
      BY <2>2, <2>3, <2>10, <3>1
    <3>2. CASE ~(q = p /\ t = s)
      BY <2>12, <3>2 DEF Inv, Holder
    <3> QED
      BY <3>1, <3>2
  <2>15. Requested'
    <3>1. ASSUME NEW q \in Peer, NEW i \in 1 .. Len(control[q])
          PROVE  RequestOK(control[q][i], q, task'[<<q, control[q][i].s>>], conn[q], by_out'[q])
      <4> DEFINE r == control[q][i]
      <4>1. /\ RequestOK(r, q, task[<<q, r.s>>], conn[q], by_out[q]) /\ r.s \in Sessions
            /\ r.op \in {"allocate", "deallocate"} /\ (r.op = "deallocate" => r.ch \in Channel)
        BY RequestFacts DEF Inv, Requested
      <4> HIDE DEF r
      <4>2. ~(q = p /\ r.s = s)
        BY <1>2, <1>4, <2>2, <4>1 DEF RequestOK
      <4> QED
        BY <2>12, <4>1, <4>2 DEF RequestOK, r
    <3> QED
      BY <2>11, <3>1 DEF Inv, Requested
  <2>16. ASSUME NEW q \in Peer, NEW t \in Sessions
         PROVE  CarriedAt(task'[<<q, t>>], state[<<q, t>>], sending[<<q, t>>], links[<<q, t>>], t,
                          chan'[<<q, t>>])
    <3>1. CASE q = p /\ t = s
      <4>1. ~HasBegin(<<>>, s) /\ OwnFrames(<<>>, s, chan'[e]) /\ LinkOnly(<<>>)
        BY DEF HasBegin, OwnFrames, LinkOnly
      <4> QED
        BY <2>2, <3>1, <4>1 DEF CarriedAt
    <3>2. CASE ~(q = p /\ t = s)
      <4>1. CarriedAt(task[<<q, t>>], state[<<q, t>>], sending[<<q, t>>], links[<<q, t>>], t, chan[<<q, t>>])
        BY DEF Inv, Carried, CarriedAt, Ended
      <4> QED
        BY <2>12, <3>2, <4>1
    <3> QED
      BY <3>1, <3>2
  <2>17. Carried'
    BY <2>11, <2>16 DEF Carried, CarriedAt, Ended
  <2>18. Routed'
    <3>1. ASSUME NEW q \in Peer, NEW d \in Channel
          PROVE  Clean(Pipe(q)', by_in'[Other(q)], d, by_out'[q][d])
      <4>1. Clean(Pipe(q), by_in[Other(q)], d, by_out[q][d])
        BY DEF Inv, Routed
      <4>2. CASE by_out'[q][d] = by_out[q][d]
        BY <2>5, <4>1, <4>2
      <4>3. CASE by_out[q][d] = NoSession
        <5>1. Pipe(q) \in Seq(Frames)
          BY PipeType DEF Inv
        <5>2. Clean(Pipe(q), by_in[Other(q)], d, by_out'[q][d])
          BY <4>1, <4>3, <5>1, CleanFree
        <5> QED
          BY <2>5, <5>2
      <4> QED
        BY <2>3, <4>2, <4>3
    <3> QED
      BY <2>5, <3>1 DEF Routed
  <2>19. Closed'
    <3> SUFFICES ASSUME NEW q \in Peer, NEW t \in Sessions,
                        conn[q] = "Opened", HasEnded(task'[<<q, t>>], state[<<q, t>>]),
                        ~HasEnd(sending[<<q, t>>]),
                        chan'[<<q, t>>] \in Channel, by_out'[q][chan'[<<q, t>>]] = t
                 PROVE  Clean(Pipe(q)', by_in'[Other(q)], chan'[<<q, t>>], NoSession)
      BY <2>11 DEF Closed, Ended
    <3>1. ~(q = p /\ t = s)
      BY <2>10 DEF HasEnded
    <3>2. Ended(<<q, t>>) /\ chan'[<<q, t>>] = chan[<<q, t>>] /\ by_out[q][chan[<<q, t>>]] = t
      BY <2>12, <3>1 DEF Ended
    <3>3. Clean(Pipe(q), by_in[Other(q)], chan[<<q, t>>], NoSession)
      BY <3>2 DEF Inv, Closed
    <3> QED
      BY <2>5, <3>2, <3>3
  <2>20. ASSUME NEW t \in Sessions
         PROVE  /\ task'[<<Client, t>>] = task[<<Client, t>>] /\ chan'[<<Client, t>>] = chan[<<Client, t>>]
                /\ t # s => task'[<<Listener, t>>] = task[<<Listener, t>>]
                            /\ remote'[<<Listener, t>>] = remote[<<Listener, t>>]
    BY <1>2, <1>4, <2>12
  <2>21. Handshake'
    <3> SUFFICES ASSUME NEW t \in Sessions
                 PROVE  /\ HasBegin(Pipe(Client)', t) => M1(t)' /\ Once(Pipe(Client)', t)
                        /\ task'[<<Listener, t>>] # "none" =>
                             M2(t)' /\ remote'[<<Listener, t>>] = chan[<<Client, t>>]
                        /\ HasBegin(Pipe(Listener), t) => N4(t)' /\ Once(Pipe(Listener), t)
                        /\ Relayed(forwarding[Client], t) => N5(t)'
                        /\ HasBegin(incoming[<<Client, t>>], t) \/ Begun(<<Client, t>>) => N6(t)'
      BY <2>8, <2>11, <2>20 DEF Handshake, Begun
    <3>1. /\ HasBegin(Pipe(Client), t) => M1(t) /\ Once(Pipe(Client), t)
          /\ task[<<Listener, t>>] # "none" => M2(t) /\ remote[<<Listener, t>>] = chan[<<Client, t>>]
          /\ HasBegin(Pipe(Listener), t) => N4(t) /\ Once(Pipe(Listener), t)
          /\ Relayed(forwarding[Client], t) => N5(t)
          /\ HasBegin(incoming[<<Client, t>>], t) \/ Begun(<<Client, t>>) => N6(t)
      BY DEF Inv, Handshake
    <3>2. (M1(t) => M1(t)') /\ (M2(t) => M2(t)')
      BY <1>4, <2>6, <2>11, <2>20 DEF M0, M1, M2
    <3>3. HasBegin(Pipe(Client)', t) => M1(t)' /\ Once(Pipe(Client)', t)
      BY <1>4, <2>6, <3>1, <3>2
    <3>4. CASE t = s
      <4>0. /\ BeginOf(f, t) /\ M1(t) /\ Once(Pipe(Client), t)
            /\ f.ch = chan[<<Client, t>>] /\ task[<<p, t>>] = "none"
        BY <1>3, <2>2, <3>4 DEF BeginOf, s
      <4>1. M2(t)'
        <5>1. ~HasBegin(Pipe(Client)', t)
          BY <2>6, <4>0
        <5>2. M1(t)'
          BY <3>2, <4>0
        <5> QED
          BY <5>1, <5>2 DEF M2
      <4>2. remote'[<<Listener, t>>] = chan[<<Client, t>>]
        BY <1>2, <2>10, <3>4, <4>0
      <4>3. ~N4(t) /\ ~N5(t) /\ ~N6(t)
        BY <1>2, <4>0 DEF N3, N4, N5, N6
      <4> QED
        BY <3>1, <3>3, <3>4, <4>1, <4>2, <4>3
    <3>5. CASE t # s
      <4>1. (N4(t)' <=> N4(t)) /\ (N5(t)' <=> N5(t)) /\ (N6(t)' <=> N6(t))
        BY <2>8, <2>11, <2>20, <3>5 DEF N3, N4, N5, N6
      <4> QED
        BY <2>20, <3>1, <3>2, <3>3, <3>5, <4>1
    <3> QED
      BY <3>4, <3>5
  <2>22. Awaited'
    <3> SUFFICES ASSUME NEW t \in Sessions, Pending(t)'
                 PROVE  /\ chan[<<Client, t>>] \in Channel
                        /\ Begun(<<Client, t>>) \/ by_out[Client][chan[<<Client, t>>]] = t
      BY <1>2, <1>4, <2>3, <2>20, ZenonT(60) DEF Awaited, Begun
    <3>1. Pending(t)
      <4>1. CASE t = s
        BY <2>2, <4>1 DEF Pending
      <4>2. CASE t # s
        BY <1>4, <2>6, <2>11, <2>20, <4>2 DEF Pending
      <4> QED
        BY <4>1, <4>2
    <3> QED
      BY <3>1 DEF Inv, Awaited
  <2>23. Named'
    <3>1. \A t \in Sessions : chan'[<<Client, t>>] = chan[<<Client, t>>]
      BY <2>20
    <3>2. ASSUME NEW P \in Seq(Frames)
          PROVE  (Asks(P, chan) => Asks(P, chan')) /\ (Replies(P, chan) => Replies(P, chan'))
      <4>1. \A i \in 1 .. Len(P) : P[i] \in Frames
        BY ItemsType
      <4>2. \A i \in 1 .. Len(P) : P[i].s \in Sessions
        BY <4>1, FrameFacts
      <4> QED
        BY <3>1, <4>2 DEF Asks, Replies
    <3>3. Pipe(Client)' \in Seq(Frames) /\ Pipe(Listener)' \in Seq(Frames)
      <4>1. wire'[Client] \in Seq(Frames) /\ outgoing'[Client] \in Seq(Frames)
            /\ wire'[Listener] \in Seq(Frames) /\ outgoing'[Listener] \in Seq(Frames)
        BY <1>1, <1>4 DEF TypeOK
      <4> QED
        BY <4>1 DEF Pipe
    <3>4. Asks(Pipe(Client)', chan') /\ Replies(Pipe(Listener)', chan')
      BY <2>7, <3>2, <3>3
    <3>5. \A t \in Sessions : sending[<<Client, t>>] \in Seq(Frames) /\ sending[<<Listener, t>>] \in Seq(Frames)
      BY <1>4, EndpointTypes DEF Inv
    <3>6. \A t \in Sessions : Asks(sending[<<Client, t>>], chan) /\ Replies(sending[<<Listener, t>>], chan)
      BY DEF Inv, Named
    <3>7. \A t \in Sessions : Asks(sending[<<Client, t>>], chan') /\ Replies(sending[<<Listener, t>>], chan')
      BY <3>2, <3>5, <3>6
    <3> QED
      BY <2>11, <3>4, <3>7 DEF Named
  <2>24. Delivered'
    BY <2>11 DEF Inv, Delivered
  <2> QED
    BY <1>1, <2>3, <2>13, <2>14, <2>15, <2>17, <2>18, <2>19, <2>21, <2>22, <2>23, <2>24 DEF Inv
<1> QED
  BY <1>5, <1>6

\* The items of a sequence with one put first.
LEMMA Prepended ==
  ASSUME NEW S, NEW V \in Seq(S), NEW c \in S
  PROVE  LET W == <<c>> \o V
         IN \A i \in 1 .. Len(W) : \/ i = 1 /\ W[i] = c
                                   \/ i - 1 \in 1 .. Len(V) /\ W[i] = V[i - 1]
BY DEF Seq

\* A channel that is given back is clean: its session has sent its End.
LEMMA KeepDeallocate ==
  ASSUME Inv, NEW p \in Peer, OnControlDeallocate(p)
  PROVE  Inv'
<1> DEFINE C == control[p]
           c == Head(C).ch
           s == Head(C).s
           V == vacant[p]
<1>1. TypeOK'
  BY TypeDeallocate
<1>2. /\ conn[p] = "Opened" /\ C # <<>> /\ Head(C).op = "deallocate"
      /\ control' = [control EXCEPT ![p] = Tail(@)]
      /\ by_out' = [by_out EXCEPT ![p][c] = NoSession]
      /\ vacant' = [vacant EXCEPT ![p] = <<c>> \o @]
      /\ UNCHANGED <<conn, by_in, outgoing, wire, forwarding, task, state, chan, remote, incoming,
                     sending, links>>
  BY DEF OnControlDeallocate, Runs, tasks
<1>3. C \in Seq(Requests) /\ Distinct(C) /\ control \in [Peer -> Seq(Requests)]
      /\ vacant \in [Peer -> Seq(Channel)] /\ V \in Seq(Channel)
  BY DEF Inv, TypeOK, Requested
<1>4. ASSUME NEW i \in 1 .. Len(C)
      PROVE  /\ RequestOK(C[i], p, task[<<p, C[i].s>>], conn[p], by_out[p])
             /\ C[i].s \in Sessions /\ (C[i].op = "deallocate" => C[i].ch \in Channel)
  BY RequestFacts DEF Inv, Requested
<1>5. control'[p] = Tail(C) /\ \A q \in Peer : q # p => control'[q] = control[q]
  BY <1>2, <1>3
<1>6. vacant'[p] = <<c>> \o V /\ \A q \in Peer : q # p => vacant'[q] = vacant[q]
  BY <1>2, <1>3
<1>7. \A i \in 1 .. Len(V) : /\ by_out[p][V[i]] = NoSession /\ V[i] \in Channel
                             /\ \A j \in 1 .. Len(V) : V[j] = V[i] => i = j
  BY <1>3 DEF Inv, Vacancies
<1> HIDE DEF C, V
<1>8. /\ Distinct(Tail(C))
      /\ \A i \in 1 .. Len(Tail(C)) : /\ i + 1 \in 1 .. Len(C) /\ Tail(C)[i] = C[i + 1]
                                      /\ ~(Tail(C)[i].op = Head(C).op /\ Tail(C)[i].s = Head(C).s)
      /\ \A i \in 1 .. Len(C) : C[i] # Head(C) => \E j \in 1 .. Len(Tail(C)) : Tail(C)[j] = C[i]
      /\ Head(C) = C[1] /\ 1 \in 1 .. Len(C)
  BY <1>2, <1>3, RequestTake
<1>9. s \in Sessions /\ c \in Channel /\ task[<<p, s>>] = "gone" /\ by_out[p][c] = s /\ s # NoSession
  <2>1. /\ RequestOK(C[1], p, task[<<p, C[1].s>>], conn[p], by_out[p])
        /\ C[1].s \in Sessions /\ (C[1].op = "deallocate" => C[1].ch \in Channel)
    BY <1>4, <1>8
  <2>2. C[1] = Head(C)
    BY <1>8
  <2> QED
    BY <1>2, <2>1, <2>2, SubsetAssumption DEF RequestOK
<1> HIDE DEF c, s
<1>10. /\ by_out'[p][c] = NoSession
       /\ \A d \in Channel : d # c => by_out'[p][d] = by_out[p][d]
       /\ \A q \in Peer : q # p => by_out'[q] = by_out[q]
  <2>1. NoSession \in Sessions \cup {NoSession} /\ TypeOK
    BY DEF Inv
  <2>2. by_out' = [by_out EXCEPT ![p][c] = NoSession]
    BY <1>2
  <2> QED
    BY <1>9, <2>1, <2>2, OutMap, ZenonT(60)
<1>11. ASSUME NEW q \in Peer, NEW d \in Channel, NEW t \in Sessions
       PROVE  /\ by_out'[q][d] = t => by_out[q][d] = t /\ ~(q = p /\ d = c)
              /\ by_out[q][d] = t /\ ~(q = p /\ t = s) => by_out'[q][d] = t
  <2>1. t # NoSession
    BY SubsetAssumption
  <2> QED
    BY <1>9, <1>10, <2>1
<1>12. \A q \in Peer : Pipe(q)' = Pipe(q)
  BY <1>2 DEF Pipe
<1>13. Held'
  <2> SUFFICES ASSUME NEW q \in Peer, NEW t \in Sessions, task[<<q, t>>] \in Holding
               PROVE  chan[<<q, t>>] \in Channel /\ by_out'[q][chan[<<q, t>>]] = t
    BY <1>2 DEF Held
  <2>1. chan[<<q, t>>] \in Channel /\ by_out[q][chan[<<q, t>>]] = t
    BY DEF Inv, Held
  <2>2. ~(q = p /\ t = s)
    BY <1>9 DEF Holding
  <2> QED
    BY <1>11, <2>1, <2>2
<1>14. Holder'
  <2> SUFFICES ASSUME NEW q \in Peer, NEW d \in Channel, NEW t \in Sessions, by_out'[q][d] = t
               PROVE  /\ chan[<<q, t>>] = d
                      /\ task[<<q, t>>] \notin {"none", "alloc"}
                      /\ conn[q] = "Opened" /\ task[<<q, t>>] = "gone" =>
                           \E i \in 1 .. Len(control'[q]) :
                             control'[q][i].op = "deallocate" /\ control'[q][i].ch = d
    BY <1>2 DEF Holder
  <2>1. by_out[q][d] = t /\ ~(q = p /\ d = c)
    BY <1>11
  <2>2. /\ chan[<<q, t>>] = d
        /\ task[<<q, t>>] \notin {"none", "alloc"}
        /\ conn[q] = "Opened" /\ task[<<q, t>>] = "gone" =>
             \E i \in 1 .. Len(control[q]) :
               control[q][i].op = "deallocate" /\ control[q][i].ch = d
    BY <2>1 DEF Inv, Holder
  <2>3. (\E i \in 1 .. Len(control[q]) : control[q][i].op = "deallocate" /\ control[q][i].ch = d) =>
          \E i \in 1 .. Len(control'[q]) : control'[q][i].op = "deallocate" /\ control'[q][i].ch = d
    <3>1. CASE q # p
      BY <1>5, <3>1
    <3>2. CASE q = p
      <4> SUFFICES ASSUME NEW i \in 1 .. Len(C), C[i].op = "deallocate", C[i].ch = d
                   PROVE  \E j \in 1 .. Len(Tail(C)) : Tail(C)[j].op = "deallocate" /\ Tail(C)[j].ch = d
        BY <1>5, <3>2 DEF C
      <4>1. C[i] # Head(C)
        BY <2>1, <3>2 DEF c
      <4>2. PICK j \in 1 .. Len(Tail(C)) : Tail(C)[j] = C[i]
        BY <1>8, <4>1
      <4> QED
        BY <4>2
    <3> QED
      BY <3>1, <3>2
  <2> QED
    BY <2>2, <2>3
<1>15. Vacancies'
  <2>1. ASSUME NEW i \in 1 .. Len(<<c>> \o V), NEW j \in 1 .. Len(<<c>> \o V)
        PROVE  /\ by_out'[p][(<<c>> \o V)[i]] = NoSession
               /\ (<<c>> \o V)[j] = (<<c>> \o V)[i] => i = j
    <3>1. /\ \/ i = 1 /\ (<<c>> \o V)[i] = c
             \/ i - 1 \in 1 .. Len(V) /\ (<<c>> \o V)[i] = V[i - 1]
          /\ \/ j = 1 /\ (<<c>> \o V)[j] = c
             \/ j - 1 \in 1 .. Len(V) /\ (<<c>> \o V)[j] = V[j - 1]
      BY <1>3, <1>9, Prepended
    <3>2. \A k \in 1 .. Len(V) : V[k] # c
      BY <1>7, <1>9
    <3>3. i \in Int /\ j \in Int
      BY <1>3, <1>9
    <3>4. by_out'[p][(<<c>> \o V)[i]] = NoSession
      BY <1>7, <1>10, <3>1, <3>2
    <3>5. ASSUME (<<c>> \o V)[j] = (<<c>> \o V)[i]
          PROVE  i = j
      <4>1. (i = 1 /\ j = 1) \/ i - 1 = j - 1
        BY <1>7, <3>1, <3>2, <3>5
      <4> QED
        BY <3>3, <4>1
    <3> QED
      BY <3>4, <3>5
  <2>2. ASSUME NEW q \in Peer, q # p
        PROVE  \A i \in 1 .. Len(vacant[q]) :
                 /\ by_out[q][vacant[q][i]] = NoSession
                 /\ \A j \in 1 .. Len(vacant[q]) : vacant[q][j] = vacant[q][i] => i = j
    BY DEF Inv, Vacancies
  <2>3. ASSUME NEW q \in Peer
        PROVE  \A i \in 1 .. Len(vacant'[q]) :
                 /\ by_out'[q][vacant'[q][i]] = NoSession
                 /\ \A j \in 1 .. Len(vacant'[q]) : vacant'[q][j] = vacant'[q][i] => i = j
    <3>1. CASE q = p
      BY <1>6, <2>1, <3>1
    <3>2. CASE q # p
      BY <1>6, <1>10, <2>2, <3>2
    <3> QED
      BY <3>1, <3>2
  <2> QED
    BY <2>3 DEF Vacancies
<1>16. Requested'
  <2>1. ASSUME NEW q \in Peer, NEW i \in 1 .. Len(control'[q])
        PROVE  RequestOK(control'[q][i], q, task[<<q, control'[q][i].s>>], conn[q], by_out'[q])
    <3> DEFINE r == control'[q][i]
    <3>1. /\ RequestOK(r, q, task[<<q, r.s>>], conn[q], by_out[q]) /\ r.s \in Sessions
          /\ r.op \in {"allocate", "deallocate"} /\ (r.op = "deallocate" => r.ch \in Channel)
          /\ q = p => ~(r.op = "deallocate" /\ r.s = s)
      <4>1. CASE q # p
        <5>1. i \in 1 .. Len(control[q]) /\ r = control[q][i]
          BY <1>5, <2>1, <4>1
        <5> QED
          BY <4>1, <5>1, RequestFacts DEF Inv, Requested
      <4>2. CASE q = p
        <5>1. i + 1 \in 1 .. Len(C) /\ r = C[i + 1] /\ ~(r.op = "deallocate" /\ r.s = s)
          <6>1. i \in 1 .. Len(Tail(C)) /\ r = Tail(C)[i]
            BY <1>5, <2>1, <4>2
          <6> HIDE DEF r
          <6> QED
            BY <1>2, <1>8, <6>1 DEF s
        <5> QED
          BY <1>4, <4>2, <5>1, RequestFacts DEF Inv, C
      <4> QED
        BY <4>1, <4>2
    <3> HIDE DEF r
    <3>2. r.op = "deallocate" => by_out[q][r.ch] = r.s /\ ~(q = p /\ r.s = s)
      BY <3>1 DEF RequestOK
    <3>3. r.op = "deallocate" => by_out'[q][r.ch] = r.s
      BY <1>11, <3>1, <3>2
    <3> QED
      BY <1>11, <3>1, <3>3 DEF RequestOK, r
  <2>2. \A q \in Peer : Distinct(control'[q])
    BY <1>5, <1>8 DEF Inv, Requested
  <2> QED
    BY <1>2, <2>1, <2>2 DEF Requested
<1>17. Carried'
  BY <1>2 DEF Inv, Carried, Ended
<1>18. Clean(Pipe(p), by_in[Other(p)], c, NoSession)
  <2>1. chan[<<p, s>>] = c
    BY <1>9 DEF Inv, Holder
  <2>2. sending[<<p, s>>] = <<>>
    BY <1>9 DEF Inv, Carried, Looping
  <2>3. Ended(<<p, s>>) /\ ~HasEnd(sending[<<p, s>>])
    BY <1>9, <2>2 DEF Ended, HasEnded, HasEnd
  <2> QED
    BY <1>2, <1>9, <2>1, <2>3 DEF Inv, Closed
<1>19. Routed'
  <2>1. ASSUME NEW q \in Peer, NEW d \in Channel
        PROVE  Clean(Pipe(q), by_in[Other(q)], d, by_out'[q][d])
    <3>1. CASE q = p /\ d = c
      BY <1>10, <1>18, <3>1
    <3>2. CASE ~(q = p /\ d = c)
      BY <1>10, <3>2 DEF Inv, Routed
    <3> QED
      BY <3>1, <3>2
  <2> QED
    BY <1>2, <1>12, <2>1 DEF Inv, Routed
<1>20. Closed'
  <2> SUFFICES ASSUME NEW q \in Peer, NEW t \in Sessions, conn[q] = "Opened", Ended(<<q, t>>),
                      ~HasEnd(sending[<<q, t>>]),
                      chan[<<q, t>>] \in Channel, by_out'[q][chan[<<q, t>>]] = t
               PROVE  Clean(Pipe(q), by_in[Other(q)], chan[<<q, t>>], NoSession)
    BY <1>2, <1>12 DEF Closed, Ended
  <2>1. by_out[q][chan[<<q, t>>]] = t
    BY <1>11
  <2> QED
    BY <2>1 DEF Inv, Closed
<1>21. Pipe(Client)' = Pipe(Client) /\ Pipe(Listener)' = Pipe(Listener)
  BY <1>12, PeerFacts
<1>22. Handshake'
  BY <1>2, <1>21 DEF Inv, Handshake, Begun, M0, M1, M2, N3, N4, N5, N6
<1>23. Awaited'
  <2> SUFFICES ASSUME NEW t \in Sessions, Pending(t)
               PROVE  /\ chan[<<Client, t>>] \in Channel
                      /\ Begun(<<Client, t>>) \/ by_out'[Client][chan[<<Client, t>>]] = t
    BY <1>2, <1>21 DEF Awaited, Pending, Begun
  <2>1. chan[<<Client, t>>] \in Channel
        /\ (Begun(<<Client, t>>) \/ by_out[Client][chan[<<Client, t>>]] = t)
    BY DEF Inv, Awaited
  <2>2. CASE p = Client /\ t = s
    BY <1>9, <2>1, <2>2 DEF Begun
  <2>3. CASE ~(p = Client /\ t = s)
    BY <1>11, <2>1, <2>3, PeerFacts
  <2> QED
    BY <2>2, <2>3
<1>24. Named'
  BY <1>2, <1>21 DEF Inv, Named
<1>25. Delivered'
  BY <1>2 DEF Inv, Delivered
<1> QED
  BY <1>1, <1>13, <1>14, <1>15, <1>16, <1>17, <1>19, <1>20, <1>22, <1>23, <1>24, <1>25 DEF Inv

-----------------------------------------------------------------------------
(* The invariant holds.                                                    *)

\* The invariant holds before the first Begin.
LEMMA InitInv ==
  ASSUME Init
  PROVE  Inv
<1>1. \A p \in Peer : Pipe(p) = <<>>
  BY DEF Init, Pipe
<1>2. Client \in Peer /\ Listener \in Peer /\ \A p \in Peer : Other(p) \in Peer
  BY PeerFacts
<1>3. TypeOK
  <2>1. [i \in 1 .. ChannelMax + 1 |-> i - 1] \in Seq(Channel)
    <3>1. ChannelMax + 1 \in Nat /\ ChannelMax \in Nat
      BY BoundsAreNat
    <3>2. \A i \in 1 .. ChannelMax + 1 : i - 1 \in Channel
      BY <3>1 DEF Channel
    <3> QED
      BY <3>1, <3>2 DEF Seq
  <2>2. vacant \in [Peer -> Seq(Channel)]
    BY <2>1 DEF Init
  <2>3. left \in [Endpoint -> [frames : Seq({"ask", "bad"}), ends : Seq(BOOLEAN)]]
    BY BoundsAreNat DEF Init
  <2>4. /\ conn \in [Peer -> {"Opened", "NotFound", "IllegalState", "NotImplemented", "RemoteClosed"}]
        /\ by_out \in [Peer -> [Channel -> Sessions \cup {NoSession}]]
        /\ by_in \in [Peer -> [Channel -> Sessions \cup {NoSession}]]
    BY DEF Init
  <2>5. /\ control \in [Peer -> Seq(Requests)] /\ outgoing \in [Peer -> Seq(Frames)]
        /\ wire \in [Peer -> Seq(Frames)] /\ forwarding \in [Peer -> Seq(Sessions \X Frames)]
    BY DEF Init
  <2>6. /\ task \in [Endpoint -> Tasks] /\ state \in [Endpoint -> States]
        /\ chan \in [Endpoint -> Channel \cup {NoChannel}]
        /\ remote \in [Endpoint -> Channel \cup {NoChannel}]
        /\ outcome \in [Endpoint -> Outcomes] /\ late \subseteq Endpoint
    BY DEF Init, Tasks, States, Outcomes
  <2>7. /\ incoming \in [Endpoint -> Seq(Frames)] /\ sending \in [Endpoint -> Seq(Frames)]
        /\ links \in [Endpoint -> Seq(Frames)] /\ ends \in [Endpoint -> Seq(BOOLEAN)]
    BY DEF Init
  <2> QED
    BY <2>2, <2>3, <2>4, <2>5, <2>6, <2>7 DEF TypeOK
<1>4. ASSUME NEW p \in Peer, NEW s \in Sessions
      PROVE  /\ task[<<p, s>>] = "none" /\ sending[<<p, s>>] = <<>> /\ links[<<p, s>>] = <<>>
             /\ incoming[<<p, s>>] = <<>>
  BY EndpointFacts DEF Init
<1>5. \A p \in Peer, c \in Channel : by_out[p][c] = NoSession /\ by_in[p][c] = NoSession
  BY DEF Init
<1>6. \A p \in Peer : control[p] = <<>> /\ forwarding[p] = <<>>
  BY DEF Init
<1>7. \A s : ~HasBegin(<<>>, s) /\ ~Relayed(<<>>, s)
  BY DEF HasBegin, Relayed
<1>8. Held /\ Holder
  BY <1>4, <1>5, SubsetAssumption DEF Held, Holder, Holding
<1>9. Vacancies
  <2> SUFFICES ASSUME NEW p \in Peer, NEW i \in 1 .. Len(vacant[p])
               PROVE  /\ by_out[p][vacant[p][i]] = NoSession
                      /\ \A j \in 1 .. Len(vacant[p]) : vacant[p][j] = vacant[p][i] => i = j
    BY DEF Vacancies
  <2>1. vacant[p] = [k \in 1 .. ChannelMax + 1 |-> k - 1] /\ vacant[p] \in Seq(Channel)
    BY <1>3 DEF Init, TypeOK
  <2>2. vacant[p][i] \in Channel
    BY <2>1, ItemsType
  <2>3. Len(vacant[p]) = ChannelMax + 1
    <3> DEFINE V == vacant[p]
               n == ChannelMax + 1
    <3>1. DOMAIN V = 1 .. n
      BY <2>1
    <3>2. V \in Seq(Channel) /\ n \in Nat
      BY <2>1, BoundsAreNat
    <3> HIDE DEF V, n
    <3>3. Len(V) = n
      BY <3>1, <3>2
    <3> QED
      BY <3>3 DEF V, n
  <2>4. ASSUME NEW j \in 1 .. Len(vacant[p])
        PROVE  vacant[p][j] = j - 1 /\ j \in Int
    <3>1. j \in 1 .. ChannelMax + 1
      BY <2>3
    <3>2. [k \in 1 .. ChannelMax + 1 |-> k - 1][j] = j - 1
      BY <3>1
    <3> QED
      BY <2>1, <3>1, <3>2
  <2> QED
    BY <1>5, <2>2, <2>4
<1>10. Requested
  BY <1>6 DEF Requested, Distinct
<1>11. Carried
  <2>1. \A s, c : OwnFrames(<<>>, s, c)
    BY DEF OwnFrames
  <2>2. LinkOnly(<<>>)
    BY DEF LinkOnly
  <2> QED
    BY <1>4, <1>7, <2>1, <2>2 DEF Carried
<1>12. Routed
  <2>1. ASSUME NEW p \in Peer
        PROVE  /\ Separated(<<>>) /\ Inbound(<<>>, by_in[Other(p)])
               /\ \A c \in Channel : Clean(<<>>, by_in[Other(p)], c, by_out[p][c])
    BY <1>2, <1>5 DEF Separated, Inbound, Clean
  <2> QED
    BY <1>1, <2>1 DEF Routed
<1>13. Closed
  BY <1>4 DEF Closed, Ended, HasEnded
<1>14. Handshake
  BY <1>1, <1>2, <1>4, <1>6, <1>7 DEF Handshake, Begun, Looping
<1>15. Awaited
  BY <1>1, <1>2, <1>4, <1>7 DEF Awaited, Pending
<1>16. Named
  <2>1. \A ch : Asks(<<>>, ch) /\ Replies(<<>>, ch)
    BY DEF Asks, Replies
  <2> QED
    BY <1>1, <1>2, <1>4, <2>1 DEF Named
<1>17. Delivered
  BY <1>4, <1>6 DEF Delivered
<1> QED
  BY <1>3, <1>8, <1>9, <1>10, <1>11, <1>12, <1>13, <1>14, <1>15, <1>16, <1>17 DEF Inv

\* Every step of sessions, connections and application keeps the invariant.
LEMMA NextInv ==
  ASSUME Inv, [Next]_vars
  PROVE  Inv'
<1>1. ASSUME NEW p \in Peer, ConnectionStep(p)
      PROVE  Inv'
  BY <1>1, KeepAllocate, KeepDeallocate, KeepOutgoing, KeepBeginAnswer, KeepIncomingBegin,
     KeepSessionFrame, KeepForward, KeepClose, KeepStopped DEF ConnectionStep
<1>2. ASSUME NEW p \in Peer, NEW s \in Sessions, SessionStep(p, s)
      PROVE  Inv'
  <2>1. CASE HandOver(p, s)
    BY <2>1, KeepHandOver
  <2>2. CASE Stop(p, s)
    BY <2>2, KeepStop
  <2>3. CASE OnOutgoingLinkFrames(p, s)
    BY <2>3, LocalLinkFrames, KeepLocal
  <2>4. CASE OnControlEnd(p, s)
    BY <2>4, LocalControlEnd, KeepLocal
  <2>5. CASE OnIncomingAsk(p, s)
    BY <2>5, LocalAsk, KeepLocal
  <2>6. CASE OnIncomingAnswer(p, s) \/ Discard(p, s)
    BY <2>6, LocalTake, KeepLocal
  <2>7. CASE OnIncomingBad(p, s)
    BY <2>7, LocalBad, KeepLocal
  <2>8. CASE OnIncomingEndFirst(p, s)
    BY <2>8, LocalEndFirst, KeepLocal
  <2>9. CASE OnIncomingEndSecond(p, s)
    BY <2>9, LocalEndSecond, KeepLocal
  <2> QED
    BY <1>2, <2>1, <2>2, <2>3, <2>4, <2>5, <2>6, <2>7, <2>8, <2>9 DEF SessionStep
<1>3. ASSUME NEW s \in Sessions, BeginStep(s)
      PROVE  Inv'
  BY <1>3, KeepSendBegin, KeepBeginFrame, KeepAccept DEF BeginStep
<1>4. ASSUME NEW s \in Sessions, Begin(s) \/ CancelBegin(s) \/ Refuse(s)
      PROVE  Inv'
  BY <1>4, KeepBegin, KeepDrops
<1>5. ASSUME NEW p \in Peer, NEW s \in Sessions, LinkSends(p, s) \/ AskEnd(p, s)
      PROVE  Inv'
  BY <1>5, LocalLinkSends, LocalAskEnd, KeepLocal
<1>6. ASSUME UNCHANGED vars
      PROVE  Inv'
  BY <1>6, KeepStutter
<1> QED
  BY <1>1, <1>2, <1>3, <1>4, <1>5, <1>6 DEF Next

\* The invariant holds in every state of the two connections, their sessions and the frames
\* between them (allocate_session, on_incoming_begin, on_incoming_end, event_loop).
THEOREM Invariance == Spec => []Inv
BY InitInv, NextInv, PTL DEF Spec

\* Whatever the engines and the sessions of the two peers do, in any order, their state
\* stays within its types; every frame under way is on a channel both sides can have.
THEOREM TypeCorrect == Spec => []TypeOK
<1>1. Inv => TypeOK
  BY DEF Inv
<1> QED
  BY <1>1, Invariance, PTL

\* The engine of a connection hands every frame to the counterpart of the session that sent
\* it, for any number of sessions and channels and however channels are given back and
\* handed out again (session_by_outgoing_channel and session_by_incoming_channel).
THEOREM Routing == Spec => []RoutedToPartner
<1>1. ASSUME Inv
      PROVE  RoutedToPartner
  <2>1. ASSUME NEW e \in Endpoint, NEW i \in DOMAIN incoming[e]
        PROVE  incoming[e][i].s = e[2]
    <3>1. PICK p \in Peer, s \in Sessions : e = <<p, s>>
      BY DEF Endpoint
    <3>2. incoming[<<p, s>>] \in Seq(Frames)
      BY <1>1, EndpointTypes DEF Inv
    <3>3. i \in 1 .. Len(incoming[<<p, s>>])
      BY <3>1, <3>2
    <3>4. incoming[<<p, s>>][i].s = s
      BY <1>1, <3>3 DEF Inv, Delivered
    <3> QED
      BY <3>1, <3>4
  <2>2. ASSUME NEW p \in Peer, NEW i \in DOMAIN forwarding[p]
        PROVE  forwarding[p][i][1] = forwarding[p][i][2].s
    <3>1. forwarding[p] \in Seq(Sessions \X Frames)
      BY <1>1 DEF Inv, TypeOK
    <3>2. i \in 1 .. Len(forwarding[p])
      BY <3>1
    <3> QED
      BY <1>1, <3>2 DEF Inv, Delivered
  <2> QED
    BY <2>1, <2>2 DEF RoutedToPartner
<1> QED
  BY <1>1, Invariance, PTL

\* No channel leaks from a connection that is up: who is entered for it in the slab lives,
\* gives it back, or is a begin() that failed or was dropped; and none is given back by a
\* session that does not hold it, or twice (allocate_session, deallocate_session and the end
\* of event_loop).
THEOREM Accounting == Spec => []NoChannelLost
<1>1. ASSUME Inv
      PROVE  NoChannelLost
  <2>1. ASSUME NEW p \in Peer, NEW c \in Channel,
               conn[p] = "Opened", by_out[p][c] # NoSession
        PROVE  LET e == <<p, by_out[p][c]>>
               IN \/ Listening(e) /\ chan[e] = c
                  \/ task[e] \in {"dropped", "failed"}
                  \/ \E i \in DOMAIN control[p] : GivesBack(p, i) /\ control[p][i].ch = c
    <3> DEFINE s == by_out[p][c]
    <3>1. s \in Sessions /\ control[p] \in Seq(Requests)
      BY <1>1, <2>1 DEF Inv, TypeOK
    <3>2. task[<<p, s>>] \in Tasks
      BY <1>1, <3>1, EndpointTypes DEF Inv
    <3>3. /\ chan[<<p, s>>] = c
          /\ task[<<p, s>>] \notin {"none", "alloc"}
          /\ task[<<p, s>>] = "gone" =>
               \E i \in 1 .. Len(control[p]) :
                 control[p][i].op = "deallocate" /\ control[p][i].ch = c
      BY <1>1, <2>1, <3>1 DEF Inv, Holder
    <3>4. DOMAIN control[p] = 1 .. Len(control[p])
      BY <3>1
    <3> HIDE DEF s
    <3>5. \/ Listening(<<p, s>>)
          \/ task[<<p, s>>] \in {"dropped", "failed", "gone"}
      BY <3>2, <3>3 DEF Tasks, Listening
    <3> QED
      BY <3>3, <3>4, <3>5 DEF s, GivesBack
  <2>2. ASSUME NEW p \in Peer, NEW i \in DOMAIN control[p], NEW j \in DOMAIN control[p],
               GivesBack(p, i)
        PROVE  /\ by_out[p][control[p][i].ch] = control[p][i].s
               /\ GivesBack(p, j) /\ control[p][j].ch = control[p][i].ch => i = j
    <3>1. control[p] \in Seq(Requests)
      BY <1>1 DEF Inv, TypeOK
    <3>2. i \in 1 .. Len(control[p]) /\ j \in 1 .. Len(control[p])
      BY <3>1
    <3>3. \A k \in 1 .. Len(control[p]) :
            control[p][k].op = "deallocate" => by_out[p][control[p][k].ch] = control[p][k].s
      BY <1>1 DEF Inv, Requested, RequestOK
    <3>4. control[p][j].op = control[p][i].op /\ control[p][j].s = control[p][i].s => i = j
      BY <1>1, <3>2 DEF Inv, Requested, Distinct
    <3> QED
      BY <2>2, <3>2, <3>3, <3>4 DEF GivesBack
  <2> QED
    BY <2>1, <2>2 DEF NoChannelLost
<1> QED
  BY <1>1, Invariance, PTL

-----------------------------------------------------------------------------
(* The ends of sessions: the inductive invariant.                          *)

\* What an application or a peer has done for good.  (An UnattachedHandle only counts when
\* the session stopped on it: otherwise it waits for the End, and the outcome may change.)
Cause ==
  \/ late # {}
  \/ \E e \in Endpoint : \/ task[e] = "dropped"
                         \/ task[e] \in {"stopping", "gone"} /\ outcome[e] = "UnattachedHandle"
  \/ conn[Listener] = "NotImplemented"

\* Frames and Ends of the session s in P; nothing of s follows its End.
Of(P, s) == \E i \in 1 .. Len(P) : P[i].s = s
EndIn(P, s) == \E i \in 1 .. Len(P) : P[i].type = "end" /\ P[i].s = s
EndLast(P, s) ==
  \A i, j \in 1 .. Len(P) : i < j /\ P[i].type = "end" /\ P[i].s = s => P[j].s # s

\* Frames of s in P come behind its begin, unless the receiver knows s.
Announced(P, s, known) ==
  \A j \in 1 .. Len(P) : P[j].s = s /\ P[j].type # "begin" =>
    known \/ \E i \in 1 .. Len(P) : i < j /\ BeginOf(P[i], s)

OnChannel(P, s, c) == \A i \in 1 .. Len(P) : P[i].s = s => P[i].ch = c

\* What a connection is forwarding.
Relays(fw, s) == \E i \in 1 .. Len(fw) : fw[i][1] = s
RelaysEnd(fw, s) == \E i \in 1 .. Len(fw) : fw[i][1] = s /\ fw[i][2].type = "end"

\* Tasks that have no channel, and those that may have put frames on the way.
Unborn == {"none", "alloc", "failed"}
Active == Looping \cup {"answer"}

\* The receiver of what q sends in s knows s.
Told(q, s) == chan[<<q, s>>] \in Channel /\ by_in[Other(q)][chan[<<q, s>>]] = s

\* Everything q had to send in s, its End included, has arrived.
Over(q, s) == Ended(<<q, s>>) /\ ~Of(Pipe(q), s) /\ sending[<<q, s>>] = <<>>

\* The session s of q sends, or may send,
Speaking(q, s) == \/ sending[<<q, s>>] # <<>>
                  \/ task[<<q, s>>] \in Active /\ ~Ended(<<q, s>>)
SenderOK(q, s) ==
  /\ Ended(<<q, s>>) => state[<<q, s>>] # "Mapped"
  /\ EndIn(sending[<<q, s>>], s) => Ended(<<q, s>>)
  /\ EndLast(sending[<<q, s>>], s)
  /\ Speaking(q, s) => \/ Told(q, s) \/ HasBegin(Pipe(q), s)
                       \/ HasBegin(sending[<<q, s>>], s)

\* what it has sent is on the way to the other peer,
PipeOK(q, s) ==
  /\ OnChannel(Pipe(q), s, chan[<<q, s>>])
  /\ Of(Pipe(q), s) => task[<<q, s>>] \in Active \cup {"gone"}
  /\ EndLast(Pipe(q), s)
  /\ EndIn(Pipe(q), s) => Ended(<<q, s>>) /\ sending[<<q, s>>] = <<>>
  /\ Announced(Pipe(q), s, Told(q, s))

\* and arrives there: behind the End nothing does.
ReceiverOK(q, s) ==
  LET p == Other(q)
      x == <<p, s>>
  IN /\ Relays(forwarding[p], s) => task[x] \notin Unborn
     /\ RelaysEnd(forwarding[p], s) => Over(q, s)
     /\ EndLast(incoming[x], s)
     /\ EndIn(incoming[x], s) => Over(q, s) /\ ~Relays(forwarding[p], s)
     /\ task[x] \in {"stopping", "gone"} =>
          Over(q, s) /\ ~Relays(forwarding[p], s) /\ incoming[x] = <<>>

\* Only sessions that have a channel are in the maps.
MapsOK(q, s) ==
  \A c \in Channel : by_in[q][c] = s \/ by_out[q][c] = s => task[<<q, s>>] \notin Unborn

Good ==
  /\ \A q \in Peer : conn[q] = "Opened"
  /\ \A q \in Peer, s \in Sessions : /\ SenderOK(q, s) /\ PipeOK(q, s)
                                     /\ ReceiverOK(q, s) /\ MapsOK(q, s)

Orderly == Cause \/ Good
-----------------------------------------------------------------------------
(* Sequences of frames.                                                    *)

\* One frame more.
LEMMA Grows ==
  ASSUME NEW S, NEW P \in Seq(S), NEW f \in S, NEW s
  PROVE  /\ Of(Append(P, f), s) => Of(P, s) \/ f.s = s
         /\ EndIn(Append(P, f), s) => EndIn(P, s) \/ (f.type = "end" /\ f.s = s)
         /\ EndLast(P, s) /\ (f.s = s => ~EndIn(P, s)) => EndLast(Append(P, f), s)
         /\ HasBegin(P, s) => HasBegin(Append(P, f), s)
         /\ BeginOf(f, s) => HasBegin(Append(P, f), s)
<1> DEFINE Q == Append(P, f)
           n == Len(P)
<1>1. n \in Nat /\ Len(Q) = n + 1 /\ Q[n + 1] = f /\ \A i \in 1 .. n : Q[i] = P[i]
  BY Appended
<1> HIDE DEF Q, n
<1>2. \A i \in 1 .. Len(Q) : (i \in 1 .. n /\ Q[i] = P[i]) \/ (i = n + 1 /\ Q[i] = f)
  BY <1>1
<1>3. n + 1 \in 1 .. Len(Q) /\ \A i \in 1 .. n : i \in 1 .. Len(Q) /\ Q[i] = P[i]
  BY <1>1
<1>4. Of(Q, s) => Of(P, s) \/ f.s = s
  BY <1>2 DEF Of, n
<1>5. EndIn(Q, s) => EndIn(P, s) \/ (f.type = "end" /\ f.s = s)
  BY <1>2 DEF EndIn, n
<1>6. ASSUME EndLast(P, s), f.s = s => ~EndIn(P, s)
      PROVE  EndLast(Q, s)
  <2> SUFFICES ASSUME NEW i \in 1 .. Len(Q), NEW j \in 1 .. Len(Q), i < j,
                      Q[i].type = "end", Q[i].s = s
               PROVE  Q[j].s # s
    BY DEF EndLast
  <2>1. i \in 1 .. n /\ Q[i] = P[i]
    BY <1>1, <1>2
  <2>2. CASE j = n + 1
    BY <1>1, <1>6, <2>1, <2>2 DEF EndIn, n
  <2>3. CASE j \in 1 .. n /\ Q[j] = P[j]
    BY <1>6, <2>1, <2>3 DEF EndLast, n
  <2> QED
    BY <1>2, <2>2, <2>3
<1>7. HasBegin(P, s) => HasBegin(Q, s)
  BY <1>3 DEF HasBegin, n
<1>8. BeginOf(f, s) => HasBegin(Q, s)
  BY <1>1, <1>3 DEF HasBegin
<1> QED
  BY <1>4, <1>5, <1>6, <1>7, <1>8 DEF Q

\* What is announced, and on its channel, stays so with a frame more.
LEMMA GrowsAnnounced ==
  ASSUME NEW S, NEW P \in Seq(S), NEW f \in S, NEW s, NEW c, NEW known,
         OnChannel(P, s, c), Announced(P, s, known),
         f.s = s => f.ch = c /\ (f.type # "begin" => known \/ HasBegin(P, s))
  PROVE  OnChannel(Append(P, f), s, c) /\ Announced(Append(P, f), s, known)
<1> DEFINE Q == Append(P, f)
           n == Len(P)
<1>1. n \in Nat /\ Len(Q) = n + 1 /\ Q[n + 1] = f /\ \A i \in 1 .. n : Q[i] = P[i]
  BY Appended
<1> HIDE DEF Q, n
<1>2. \A i \in 1 .. Len(Q) : (i \in 1 .. n /\ Q[i] = P[i]) \/ (i = n + 1 /\ Q[i] = f)
  BY <1>1
<1>3. \A i \in 1 .. n : i \in 1 .. Len(Q) /\ Q[i] = P[i] /\ i < n + 1
  BY <1>1
<1>4. OnChannel(Q, s, c)
  BY <1>2 DEF OnChannel, n
<1>5. Announced(Q, s, known)
  <2> SUFFICES ASSUME NEW j \in 1 .. Len(Q), Q[j].s = s, Q[j].type # "begin", ~known
               PROVE  \E i \in 1 .. Len(Q) : i < j /\ BeginOf(Q[i], s)
    BY DEF Announced
  <2>1. CASE j = n + 1
    <3>1. \E i \in 1 .. n : BeginOf(P[i], s)
      BY <1>1, <2>1 DEF HasBegin, n
    <3> QED
      BY <1>3, <2>1, <3>1
  <2>2. CASE j \in 1 .. n /\ Q[j] = P[j]
    <3>1. \E i \in 1 .. n : i < j /\ BeginOf(P[i], s)
      BY <2>2 DEF Announced, n
    <3> QED
      BY <1>3, <3>1
  <2> QED
    BY <1>2, <2>1, <2>2
<1> QED
  BY <1>4, <1>5 DEF Q

\* The first frame taken.
LEMMA Shrinks ==
  ASSUME NEW S, NEW P \in Seq(S), P # <<>>, NEW s
  PROVE  /\ Of(Tail(P), s) => Of(P, s)
         /\ Head(P).s = s => Of(P, s)
         /\ EndIn(Tail(P), s) => EndIn(P, s)
         /\ Head(P).type = "end" /\ Head(P).s = s => EndIn(P, s)
         /\ EndLast(P, s) => EndLast(Tail(P), s)
         /\ EndLast(P, s) /\ Head(P).type = "end" /\ Head(P).s = s => ~Of(Tail(P), s)
         /\ HasBegin(P, s) => BeginOf(Head(P), s) \/ HasBegin(Tail(P), s)
<1> DEFINE Q == Tail(P)
           n == Len(P)
           h == Head(P)
<1>1. /\ n \in Nat /\ n >= 1 /\ Len(Q) = n - 1 /\ h = P[1]
      /\ \A i \in 1 .. n - 1 : Q[i] = P[i + 1]
  BY Dropped
<1> HIDE DEF Q, n, h
<1>2. \A i \in 1 .. Len(Q) : i + 1 \in 1 .. n /\ Q[i] = P[i + 1] /\ 1 < i + 1
  BY <1>1
<1>3. 1 \in 1 .. n /\ \A k \in 1 .. n : k # 1 => k - 1 \in 1 .. Len(Q) /\ Q[k - 1] = P[k]
  BY <1>1
<1>4. (Of(Q, s) => Of(P, s)) /\ (h.s = s => Of(P, s))
  BY <1>1, <1>2, <1>3 DEF Of, n
<1>5. (EndIn(Q, s) => EndIn(P, s)) /\ (h.type = "end" /\ h.s = s => EndIn(P, s))
  BY <1>1, <1>2, <1>3 DEF EndIn, n
<1>6. ASSUME EndLast(P, s)
      PROVE  EndLast(Q, s)
  <2> SUFFICES ASSUME NEW i \in 1 .. Len(Q), NEW j \in 1 .. Len(Q), i < j,
                      Q[i].type = "end", Q[i].s = s
               PROVE  Q[j].s # s
    BY DEF EndLast
  <2>1. i + 1 \in 1 .. n /\ j + 1 \in 1 .. n /\ i + 1 < j + 1 /\ Q[i] = P[i + 1] /\ Q[j] = P[j + 1]
    BY <1>1, <1>2
  <2> QED
    BY <1>6, <2>1 DEF EndLast, n
<1>7. ASSUME EndLast(P, s), h.type = "end", h.s = s, Of(Q, s)
      PROVE  FALSE
  <2>1. PICK i \in 1 .. Len(Q) : Q[i].s = s
    BY <1>7 DEF Of
  <2>2. P[i + 1].s = s /\ i + 1 \in 1 .. n /\ 1 < i + 1
    BY <1>2, <2>1
  <2> QED
    BY <1>1, <1>3, <1>7, <2>2 DEF EndLast, n
<1>8. HasBegin(P, s) => BeginOf(h, s) \/ HasBegin(Q, s)
  BY <1>1, <1>3 DEF HasBegin, n
<1> QED
  BY <1>4, <1>5, <1>6, <1>7, <1>8 DEF Q, h

\* A begin that is taken leaves a receiver that knows its session.
LEMMA ShrinksAnnounced ==
  ASSUME NEW S, NEW P \in Seq(S), P # <<>>, NEW s, NEW c, NEW known, NEW knows,
         OnChannel(P, s, c), Announced(P, s, known),
         Of(Tail(P), s) => (known \/ BeginOf(Head(P), s) => knows)
  PROVE  OnChannel(Tail(P), s, c) /\ Announced(Tail(P), s, knows)
<1> DEFINE Q == Tail(P)
           n == Len(P)
           h == Head(P)
<1>1. /\ n \in Nat /\ n >= 1 /\ Len(Q) = n - 1 /\ h = P[1]
      /\ \A i \in 1 .. n - 1 : Q[i] = P[i + 1]
  BY Dropped
<1>0. Of(Q, s) => (known \/ BeginOf(h, s) => knows)
  OBVIOUS
<1> HIDE DEF Q, n, h
<1>2. \A i \in 1 .. Len(Q) : i + 1 \in 1 .. n /\ Q[i] = P[i + 1]
  BY <1>1
<1>3. \A k \in 1 .. n : k # 1 => k - 1 \in 1 .. Len(Q) /\ Q[k - 1] = P[k]
  BY <1>1
<1>4. OnChannel(Q, s, c)
  BY <1>2 DEF OnChannel, n
<1>5. Announced(Q, s, knows)
  <2> SUFFICES ASSUME NEW j \in 1 .. Len(Q), Q[j].s = s, Q[j].type # "begin", ~knows
               PROVE  \E i \in 1 .. Len(Q) : i < j /\ BeginOf(Q[i], s)
    BY DEF Announced
  <2>1. Of(Q, s)
    BY DEF Of
  <2>2. ~known /\ ~BeginOf(h, s)
    BY <1>0, <2>1
  <2>3. j + 1 \in 1 .. n /\ Q[j] = P[j + 1]
    BY <1>2
  <2>4. PICK i \in 1 .. n : i < j + 1 /\ BeginOf(P[i], s)
    BY <2>2, <2>3 DEF Announced, n
  <2>5. i # 1
    BY <1>1, <2>2, <2>4
  <2>6. i - 1 \in 1 .. Len(Q) /\ Q[i - 1] = P[i] /\ i - 1 < j
    BY <1>3, <2>4, <2>5
  <2> QED
    BY <2>4, <2>6
<1> QED
  BY <1>4, <1>5 DEF Q

\* What comes first and is no begin is for a receiver that knows its session.
LEMMA FirstKnown ==
  ASSUME NEW S, NEW P \in Seq(S), P # <<>>, NEW s, NEW known,
         Announced(P, s, known), Head(P).s = s, Head(P).type # "begin"
  PROVE  known
<1>1. Len(P) \in Nat /\ Len(P) >= 1 /\ Head(P) = P[1]
  BY Dropped
<1>2. 1 \in 1 .. Len(P) /\ \A i \in 1 .. Len(P) : ~(i < 1)
  BY <1>1
<1> QED
  BY <1>1, <1>2 DEF Announced

\* Nothing, and one frame, are in order.
LEMMA FewFrames ==
  ASSUME NEW s
  PROVE  /\ ~Of(<<>>, s) /\ ~EndIn(<<>>, s) /\ EndLast(<<>>, s) /\ ~HasBegin(<<>>, s)
         /\ ~Relays(<<>>, s) /\ ~RelaysEnd(<<>>, s)
         /\ \A f : EndLast(<<f>>, s) /\ (EndIn(<<f>>, s) => f.type = "end")
<1>1. \A i : ~(i \in 1 .. Len(<<>>))
  OBVIOUS
<1>2. \A f : Len(<<f>>) = 1 /\ <<f>>[1] = f
  OBVIOUS
<1>3. \A i \in 1 .. 1 : i = 1
  OBVIOUS
<1>4. \A f : EndLast(<<f>>, s) /\ (EndIn(<<f>>, s) => f.type = "end")
  BY <1>2, <1>3 DEF EndLast, EndIn
<1> QED
  BY <1>1, <1>4 DEF Of, EndIn, EndLast, HasBegin, Relays, RelaysEnd

-----------------------------------------------------------------------------
(* Steps of the sessions.                                                  *)

\* The connections, and what is on the way between them, stay.
Fixed == UNCHANGED <<conn, by_out, by_in, outgoing, wire, forwarding, chan>>

\* How a session goes on: it sends only before its End, and it stops on the peer's End.
Progress(q, s) ==
  LET e == <<q, s>>
      ended == HasEnded(task'[e], state'[e])
  IN /\ Ended(e) => ended
     /\ ended => state'[e] # "Mapped"
     /\ sending'[e] = sending[e] \/ (sending[e] = <<>> /\ ~Ended(e))
     /\ EndIn(sending'[e], s) => ended
     /\ EndLast(sending'[e], s)
     /\ sending'[e] # <<>> \/ (task'[e] \in Active /\ ~ended) =>
          Speaking(q, s) \/ HasBegin(sending'[e], s)
     /\ task[e] \in Active \cup {"gone"} => task'[e] \in Active \cup {"gone"}
     /\ task'[e] \in Unborn => task[e] \in Unborn
     /\ EndLast(incoming'[e], s)
     /\ EndIn(incoming'[e], s) => EndIn(incoming[e], s)
     /\ task'[e] \in {"stopping", "gone"} =>
          /\ task[e] \in {"stopping", "gone"} \/ EndIn(incoming[e], s)
          /\ incoming'[e] = <<>>

\* A session the step does not concern.
LEMMA Unconcerned ==
  ASSUME Good, NEW q \in Peer, NEW s \in Sessions,
         task'[<<q, s>>] = task[<<q, s>>], state'[<<q, s>>] = state[<<q, s>>],
         sending'[<<q, s>>] = sending[<<q, s>>], incoming'[<<q, s>>] = incoming[<<q, s>>]
  PROVE  Progress(q, s)
<1>1. SenderOK(q, s) /\ ReceiverOK(Other(q), s) /\ Other(Other(q)) = q
  BY PeerFacts DEF Good
<1> QED
  BY <1>1 DEF Progress, SenderOK, ReceiverOK, Ended, Speaking

\* Such steps leave the connections in order.
LEMMA ProgressKeeps ==
  ASSUME Good, Fixed, \A q \in Peer, s \in Sessions : Progress(q, s)
  PROVE  Good'
<1>1. /\ conn' = conn /\ by_out' = by_out /\ by_in' = by_in /\ forwarding' = forwarding
      /\ chan' = chan /\ \A q : Pipe(q)' = Pipe(q)
  BY DEF Fixed, Pipe
<1>2. ASSUME NEW q \in Peer, NEW s \in Sessions
      PROVE  SenderOK(q, s)' /\ PipeOK(q, s)' /\ ReceiverOK(q, s)' /\ MapsOK(q, s)'
  <2> DEFINE e == <<q, s>>
             p == Other(q)
             x == <<p, s>>
  <2>1. /\ SenderOK(q, s) /\ PipeOK(q, s) /\ ReceiverOK(q, s) /\ MapsOK(q, s)
        /\ p \in Peer
    BY PeerFacts DEF Good
  <2>2. Progress(q, s) /\ Progress(p, s)
    BY <2>1
  <2>3. Told(q, s)' = Told(q, s) /\ Ended(e)' = HasEnded(task'[e], state'[e])
    BY <1>1 DEF Told, Ended
  <2>4. HasBegin(sending[e], s) => HasBegin(sending'[e], s)
    BY <2>2, FewFrames DEF Progress
  <2>5. Over(q, s) => Over(q, s)'
    BY <1>1, <2>2, <2>3 DEF Over, Progress
  <2>6. SenderOK(q, s)'
    <3>1. Speaking(q, s)' => Speaking(q, s) \/ HasBegin(sending'[e], s)
      BY <2>2, <2>3 DEF Progress, Speaking
    <3>2. Speaking(q, s)' => Told(q, s)' \/ HasBegin(Pipe(q)', s) \/ HasBegin(sending'[e], s)
      BY <1>1, <2>1, <2>3, <2>4, <3>1 DEF SenderOK
    <3> QED
      BY <2>2, <2>3, <3>2 DEF SenderOK, Progress
  <2>7. PipeOK(q, s)'
    BY <1>1, <2>1, <2>2, <2>3 DEF PipeOK, Progress
  <2>8. ReceiverOK(q, s)'
    <3>1. Relays(forwarding'[p], s) => task'[x] \notin Unborn
      BY <1>1, <2>1, <2>2 DEF ReceiverOK, Progress
    <3>2. RelaysEnd(forwarding'[p], s) => Over(q, s)'
      BY <1>1, <2>1, <2>5 DEF ReceiverOK
    <3>3. EndLast(incoming'[x], s)
      BY <2>2 DEF Progress
    <3>4. EndIn(incoming'[x], s) => Over(q, s)' /\ ~Relays(forwarding'[p], s)
      BY <1>1, <2>1, <2>2, <2>5 DEF ReceiverOK, Progress
    <3>5. task'[x] \in {"stopping", "gone"} =>
            Over(q, s)' /\ ~Relays(forwarding'[p], s) /\ incoming'[x] = <<>>
      BY <1>1, <2>1, <2>2, <2>5 DEF ReceiverOK, Progress
    <3> QED
      BY <3>1, <3>2, <3>3, <3>4, <3>5 DEF ReceiverOK
  <2>9. MapsOK(q, s)'
    BY <1>1, <2>1, <2>2 DEF MapsOK, Progress
  <2> QED
    BY <2>6, <2>7, <2>8, <2>9
<1> QED
  BY <1>1, <1>2 DEF Good

\* A step of one session.
LEMMA OneProgress ==
  ASSUME Good, Fixed, NEW q \in Peer, NEW s \in Sessions, Progress(q, s),
         \A x \in Endpoint : x # <<q, s>> =>
           /\ task'[x] = task[x] /\ state'[x] = state[x] /\ sending'[x] = sending[x]
           /\ incoming'[x] = incoming[x]
  PROVE  Good'
<1>1. ASSUME NEW r \in Peer, NEW t \in Sessions
      PROVE  Progress(r, t)
  <2>1. CASE r = q /\ t = s
    BY <2>1
  <2>2. CASE r # q \/ t # s
    <3>1. <<r, t>> # <<q, s>> /\ <<r, t>> \in Endpoint
      BY <2>2, EndpointFacts
    <3> QED
      BY <3>1, Unconcerned
  <2> QED
    BY <2>1, <2>2
<1> QED
  BY <1>1, ProgressKeeps

\* What an event loop does to its own session, unless it gives cause.
Turn(q, s) ==
  LET e == <<q, s>>
      ended == HasEnded(task'[e], state'[e])
  IN /\ ended => state'[e] # "Mapped"
     /\ \/ sending'[e] = sending[e]
        \/ /\ sending[e] = <<>> /\ state[e] = "Mapped"
           /\ EndLast(sending'[e], s) /\ (EndIn(sending'[e], s) => ended)
     /\ task'[e] \in {"stopping", "gone"} =>
          \/ task[e] = "stopping"
          \/ /\ incoming[e] # <<>> /\ Head(incoming[e]).type = "end"
             /\ incoming'[e] = Tail(incoming[e])

\* Such a step leaves the connections in order.
LEMMA TurnKeeps ==
  ASSUME Inv, Good, NEW q \in Peer, NEW s \in Sessions, Local(q, s), Turn(q, s)
  PROVE  Good'
<1> DEFINE e == <<q, s>>
           P == incoming[e]
<1>1. Fixed /\ Elsewhere(q, s)
  BY DEF Local, conns, Fixed
<1>2. SenderOK(q, s) /\ ReceiverOK(Other(q), s) /\ Other(Other(q)) = q
  BY PeerFacts DEF Good
<1>3. P \in Seq(Frames) /\ \A i \in 1 .. Len(P) : P[i].s = s
  BY EndpointTypes DEF Inv, Delivered
<1>4. /\ EndLast(P, s)
      /\ task[e] \in {"stopping", "gone"} => P = <<>>
      /\ Ended(e) => state[e] # "Mapped"
      /\ EndIn(sending[e], s) => Ended(e)
      /\ EndLast(sending[e], s)
  BY <1>2 DEF SenderOK, ReceiverOK
<1>5. /\ task[e] \in Looping /\ task'[e] \in Looping
      /\ Ended(e) => HasEnded(task'[e], state'[e])
      /\ incoming'[e] = P \/ (P # <<>> /\ incoming'[e] = Tail(P))
  BY DEF Local
<1> HIDE DEF P
<1>6. P # <<>> => Head(P).s = s /\ Head(P) \in Frames /\ Tail(P) \in Seq(Frames)
  <2>1. P # <<>> => Head(P) = P[1] /\ 1 \in 1 .. Len(P) /\ Head(P) \in Frames /\ Tail(P) \in Seq(Frames)
    BY <1>3, Dropped
  <2> QED
    BY <1>3, <2>1
<1>7. EndLast(incoming'[e], s) /\ (EndIn(incoming'[e], s) => EndIn(P, s))
  BY <1>3, <1>4, <1>5, Shrinks, ZenonT(60)
<1>8. task'[e] \in {"stopping", "gone"} =>
        /\ task[e] \in {"stopping", "gone"} \/ EndIn(P, s)
        /\ incoming'[e] = <<>>
  <2>1. CASE task[e] = "stopping"
    BY <1>4, <1>5, <2>1
  <2>2. CASE P # <<>> /\ Head(P).type = "end" /\ incoming'[e] = Tail(P)
    <3>1. EndIn(P, s) /\ ~Of(Tail(P), s)
      BY <1>3, <1>4, <1>6, <2>2, Shrinks
    <3>2. \A i \in 1 .. Len(Tail(P)) : Tail(P)[i].s = s
      BY <1>3, <2>2, TailFacts
    <3>3. Tail(P) = <<>>
      <4>1. Tail(P) # <<>> => 1 \in 1 .. Len(Tail(P))
        BY <1>6, <2>2
      <4> QED
        BY <3>1, <3>2, <4>1 DEF Of
    <3> QED
      BY <2>2, <3>1, <3>3
  <2> QED
    BY <2>1, <2>2 DEF Turn, P
<1>9. \/ sending'[e] = sending[e]
      \/ sending[e] = <<>> /\ ~Ended(e) /\ EndLast(sending'[e], s)
         /\ (EndIn(sending'[e], s) => HasEnded(task'[e], state'[e]))
  BY <1>4 DEF Turn
<1>10. EndLast(sending'[e], s) /\ (EndIn(sending'[e], s) => HasEnded(task'[e], state'[e]))
  BY <1>4, <1>5, <1>9
<1>11. sending'[e] # <<>> \/ (task'[e] \in Active /\ ~HasEnded(task'[e], state'[e])) => Speaking(q, s)
  BY <1>5, <1>9 DEF Speaking, Active
<1>12. HasEnded(task'[e], state'[e]) => state'[e] # "Mapped"
  BY DEF Turn
<1>13. Progress(q, s)
  <2>1. task'[e] \in Active /\ task'[e] \notin Unborn
    BY <1>5 DEF Active, Looping, Unborn
  <2> QED
    BY <1>5, <1>7, <1>8, <1>9, <1>10, <1>11, <1>12, <2>1 DEF Progress, P
<1> QED
  BY <1>1, <1>13, OneProgress DEF Elsewhere

\* What is added to the links' or the application's own queues leaves the session as it is.
LEMMA TurnAsks ==
  ASSUME Inv, Good, NEW q \in Peer, NEW s \in Sessions, LinkSends(q, s) \/ AskEnd(q, s)
  PROVE  Good'
<1>1. SenderOK(q, s)
  BY DEF Good
<1>2. task' = task /\ state' = state /\ sending' = sending /\ task[<<q, s>>] = "select"
  BY DEF LinkSends, AskEnd
<1>3. Turn(q, s)
  BY <1>1, <1>2 DEF Turn, SenderOK, Ended
<1> QED
  BY <1>3, LocalLinkSends, LocalAskEnd, TurnKeeps

\* A frame of a link is sent before the End.
LEMMA TurnLinkFrames ==
  ASSUME Inv, Good, NEW q \in Peer, NEW s \in Sessions, OnOutgoingLinkFrames(q, s)
  PROVE  Good'
<1> DEFINE e == <<q, s>>
           L == links[e]
<1>1. SenderOK(q, s)
  BY DEF Good
<1>2. e \in Endpoint /\ L \in Seq(Frames) /\ LinkOnly(L) /\ sending \in [Endpoint -> Seq(Frames)]
  BY EndpointTypes, LocalLinks DEF Inv, TypeOK
<1>3. /\ task' = task /\ state' = state /\ task[e] = "select" /\ state[e] = "Mapped"
      /\ sending[e] = <<>> /\ L # <<>> /\ sending' = [sending EXCEPT ![e] = <<Head(L)>>]
  BY DEF OnOutgoingLinkFrames, Selects, Send, Set
<1> HIDE DEF L, e
<1>4. Head(L).type # "end"
  <2>1. Head(L) = L[1] /\ 1 \in 1 .. Len(L)
    BY <1>2, <1>3
  <2> QED
    BY <1>2, <2>1 DEF LinkOnly
<1>5. sending'[e] = <<Head(L)>>
  BY <1>2, <1>3
<1>6. EndLast(sending'[e], s) /\ ~EndIn(sending'[e], s)
  BY <1>4, <1>5, FewFrames
<1>7. Turn(q, s)
  BY <1>1, <1>3, <1>6 DEF Turn, SenderOK, Ended, e
<1> QED
  BY <1>7, LocalLinkFrames, TurnKeeps

\* An End behind frames of the links is the last of them.
LEMMA EndBehind ==
  ASSUME NEW S, NEW L \in Seq(S), LinkOnly(L), NEW f \in S, NEW s
  PROVE  EndLast(L \o <<f>>, s)
<1> DEFINE Q == L \o <<f>>
           n == Len(L)
<1>1. n \in Nat /\ Len(Q) = n + 1 /\ \A i \in 1 .. n : Q[i] = L[i]
  OBVIOUS
<1> HIDE DEF Q, n
<1>2. \A i, j \in 1 .. Len(Q) : i < j => i \in 1 .. n /\ Q[i] = L[i]
  BY <1>1
<1>3. \A i \in 1 .. n : L[i].type # "end"
  BY DEF LinkOnly, n
<1> QED
  BY <1>2, <1>3 DEF EndLast, Q

\* The End on demand is the last frame, and the session knows that it is.
LEMMA TurnControlEnd ==
  ASSUME Inv, Good, NEW q \in Peer, NEW s \in Sessions, OnControlEnd(q, s)
  PROVE  Good'
<1> DEFINE e == <<q, s>>
           L == links[e]
           err == Head(ends[e])
           f == EndFrame(e, err)
<1>1. SenderOK(q, s)
  BY DEF Good
<1>2. /\ e \in Endpoint /\ L \in Seq(Frames) /\ LinkOnly(L) /\ sending \in [Endpoint -> Seq(Frames)]
      /\ state \in [Endpoint -> States] /\ task \in [Endpoint -> Tasks]
      /\ ends[e] \in Seq(BOOLEAN) /\ chan[e] \in Channel \cup {NoChannel}
  BY EndpointTypes, LocalLinks DEF Inv, TypeOK
<1>3. task[e] = "select" /\ sending[e] = <<>> /\ ends[e] # <<>>
  BY DEF OnControlEnd, Selects
<1>4. CASE state[e] = "Mapped"
  <2>1. /\ state' = [state EXCEPT ![e] = IF err THEN "Discarding" ELSE "EndSent"]
        /\ sending' = [sending EXCEPT ![e] = L \o <<f>>] /\ task' = task
    BY <1>4 DEF OnControlEnd, Send, Set
  <2>2. f \in Frames
    <3>1. chan[e] \in Channel
      BY <1>3 DEF Inv, Held, Holding
    <3>2. err \in BOOLEAN
      BY <1>2, <1>3
    <3> QED
      BY <3>1, <3>2 DEF EndFrame, Frame, Frames
  <2> HIDE DEF e, L, f, err
  <2>3. sending'[e] = L \o <<f>> /\ state'[e] # "Mapped"
    BY <1>2, <2>1
  <2>4. EndLast(sending'[e], s)
    BY <1>2, <2>2, <2>3, EndBehind
  <2>5. Turn(q, s)
    BY <1>3, <1>4, <2>1, <2>3, <2>4 DEF Turn, HasEnded, e
  <2> QED
    BY <2>5, LocalControlEnd, TurnKeeps
<1>5. CASE state[e] # "Mapped"
  <2>1. /\ state' = state /\ sending' = sending
        /\ task' = [task EXCEPT ![e] = IF state[e] = "EndSent" THEN "waiting" ELSE "discarding"]
    BY <1>5 DEF OnControlEnd, Set
  <2> HIDE DEF e
  <2>2. task'[e] \in {"waiting", "discarding"}
    BY <1>2, <2>1
  <2>3. Turn(q, s)
    BY <1>5, <2>1, <2>2 DEF Turn, e
  <2> QED
    BY <2>3, LocalControlEnd, TurnKeeps
<1> QED
  BY <1>4, <1>5

\* An answer is sent before the End, or is late.
LEMMA TurnAsk ==
  ASSUME Inv, Good, NEW q \in Peer, NEW s \in Sessions, OnIncomingAsk(q, s)
  PROVE  Cause' \/ Good'
<1> DEFINE e == <<q, s>>
           f == Frame("answer", s, chan[e], NoChannel, FALSE)
<1>1. SenderOK(q, s)
  BY DEF Good
<1>2. e \in Endpoint /\ sending \in [Endpoint -> Seq(Frames)]
  BY EndpointTypes DEF Inv, TypeOK
<1>3. /\ task[e] \in {"select", "waiting"} /\ sending[e] = <<>> /\ task' = task /\ state' = state
      /\ sending' = [sending EXCEPT ![e] = <<f>>]
  BY DEF OnIncomingAsk, Received, Send, Set
<1>4. CASE state[e] # "Mapped"
  <2>1. late' = late \cup {e}
    BY <1>4 DEF OnIncomingAsk
  <2> QED
    BY <2>1 DEF Cause
<1>5. CASE state[e] = "Mapped"
  <2>1. f.type = "answer"
    BY DEF Frame
  <2> HIDE DEF e, f
  <2>2. sending'[e] = <<f>>
    BY <1>2, <1>3
  <2>3. EndLast(sending'[e], s) /\ ~EndIn(sending'[e], s)
    BY <2>1, <2>2, FewFrames
  <2>4. Turn(q, s)
    BY <1>1, <1>3, <1>5, <2>3 DEF Turn, SenderOK, Ended, e
  <2> QED
    BY <2>4, LocalAsk, TurnKeeps
<1> QED
  BY <1>4, <1>5

\* A frame consumed or discarded changes nothing else.
LEMMA TurnTake ==
  ASSUME Inv, Good, NEW q \in Peer, NEW s \in Sessions, OnIncomingAnswer(q, s) \/ Discard(q, s)
  PROVE  Good'
<1>1. SenderOK(q, s)
  BY DEF Good
<1>2. /\ task' = task /\ state' = state /\ sending' = sending
      /\ task[<<q, s>>] \in {"select", "waiting", "discarding"}
  BY DEF OnIncomingAnswer, Discard
<1>3. Turn(q, s)
  BY <1>1, <1>2 DEF Turn, SenderOK, Ended
<1> QED
  BY <1>3, LocalTake, TurnKeeps

\* An errant frame ends the session, or stops one that had ended: this is a cause.
LEMMA TurnBad ==
  ASSUME Inv, Good, NEW q \in Peer, NEW s \in Sessions, OnIncomingBad(q, s)
  PROVE  Cause' \/ Good'
<1> DEFINE e == <<q, s>>
           f == EndFrame(e, TRUE)
<1>1. SenderOK(q, s)
  BY DEF Good
<1>2. /\ e \in Endpoint /\ sending \in [Endpoint -> Seq(Frames)]
      /\ state \in [Endpoint -> States] /\ task \in [Endpoint -> Tasks]
      /\ outcome \in [Endpoint -> Outcomes]
  BY EndpointTypes DEF Inv, TypeOK
<1>3. /\ task[e] \in {"select", "waiting"} /\ sending[e] = <<>>
      /\ outcome' = [outcome EXCEPT ![e] = "UnattachedHandle"]
  BY DEF OnIncomingBad, Received, Set
<1>4. CASE task[e] = "waiting"
  <2>1. task' = [task EXCEPT ![e] = "stopping"]
    BY <1>4 DEF OnIncomingBad, Set
  <2> HIDE DEF e
  <2>2. task'[e] = "stopping" /\ outcome'[e] = "UnattachedHandle"
    BY <1>2, <1>3, <2>1
  <2> QED
    BY <1>2, <2>2 DEF Cause
<1>5. CASE task[e] = "select" /\ state[e] = "Mapped"
  <2>1. /\ task' = [task EXCEPT ![e] = "waiting"] /\ state' = [state EXCEPT ![e] = "Discarding"]
        /\ sending' = [sending EXCEPT ![e] = <<f>>]
    BY <1>5 DEF OnIncomingBad, Set, Send
  <2> HIDE DEF e, f
  <2>2. task'[e] = "waiting" /\ state'[e] = "Discarding" /\ sending'[e] = <<f>>
    BY <1>2, <2>1
  <2>3. EndLast(sending'[e], s) /\ HasEnded(task'[e], state'[e])
    BY <2>2, FewFrames DEF HasEnded
  <2>4. Turn(q, s)
    BY <1>3, <1>5, <2>2, <2>3 DEF Turn, e
  <2> QED
    BY <2>4, LocalBad, TurnKeeps
<1>6. CASE task[e] = "select" /\ state[e] # "Mapped"
  <2>1. /\ state' = state /\ sending' = sending
        /\ task' = [task EXCEPT ![e] = IF state[e] = "EndSent" THEN "waiting" ELSE "discarding"]
    BY <1>6 DEF OnIncomingBad, Set
  <2> HIDE DEF e
  <2>2. task'[e] \in {"waiting", "discarding"}
    BY <1>2, <2>1
  <2>3. Turn(q, s)
    BY <1>6, <2>1, <2>2 DEF Turn, e
  <2> QED
    BY <2>3, LocalBad, TurnKeeps
<1> QED
  BY <1>3, <1>4, <1>5, <1>6

\* The peer's End ahead of one's own is the last frame taken; its answer the last one sent.
LEMMA TurnEndFirst ==
  ASSUME Inv, Good, NEW q \in Peer, NEW s \in Sessions, OnIncomingEndFirst(q, s)
  PROVE  Good'
<1> DEFINE e == <<q, s>>
           f == EndFrame(e, links[e] # <<>>)
<1>1. /\ e \in Endpoint /\ sending \in [Endpoint -> Seq(Frames)]
      /\ state \in [Endpoint -> States] /\ task \in [Endpoint -> Tasks]
      /\ incoming \in [Endpoint -> Seq(Frames)]
  BY EndpointTypes DEF Inv, TypeOK
<1>2. /\ sending[e] = <<>> /\ incoming[e] # <<>> /\ Head(incoming[e]).type = "end"
      /\ state[e] = "Mapped" /\ incoming' = [incoming EXCEPT ![e] = Tail(@)]
      /\ state' = [state EXCEPT ![e] = "Unmapped"] /\ task' = [task EXCEPT ![e] = "stopping"]
      /\ sending' = [sending EXCEPT ![e] = <<f>>]
  BY DEF OnIncomingEndFirst, Received, Taken, Send, Set
<1> HIDE DEF e, f
<1>3. /\ task'[e] = "stopping" /\ state'[e] = "Unmapped" /\ sending'[e] = <<f>>
      /\ incoming'[e] = Tail(incoming[e])
  BY <1>1, <1>2
<1>4. EndLast(sending'[e], s) /\ HasEnded(task'[e], state'[e])
  BY <1>3, FewFrames DEF HasEnded
<1>5. Turn(q, s)
  BY <1>2, <1>3, <1>4 DEF Turn, e
<1> QED
  BY <1>5, LocalEndFirst, TurnKeeps

\* The peer's End behind one's own is the last frame taken.
LEMMA TurnEndSecond ==
  ASSUME Inv, Good, NEW q \in Peer, NEW s \in Sessions, OnIncomingEndSecond(q, s)
  PROVE  Good'
<1> DEFINE e == <<q, s>>
<1>1. /\ e \in Endpoint /\ state \in [Endpoint -> States] /\ task \in [Endpoint -> Tasks]
      /\ incoming \in [Endpoint -> Seq(Frames)]
  BY EndpointTypes DEF Inv, TypeOK
<1>2. /\ incoming[e] # <<>> /\ Head(incoming[e]).type = "end" /\ sending' = sending
      /\ incoming' = [incoming EXCEPT ![e] = Tail(@)]
      /\ state' = [state EXCEPT ![e] = "Unmapped"] /\ task' = [task EXCEPT ![e] = "stopping"]
  BY DEF OnIncomingEndSecond, Received, Taken, Set
<1> HIDE DEF e
<1>3. task'[e] = "stopping" /\ state'[e] = "Unmapped" /\ incoming'[e] = Tail(incoming[e])
  BY <1>1, <1>2
<1>4. Turn(q, s)
  BY <1>2, <1>3 DEF Turn, e
<1> QED
  BY <1>4, LocalEndSecond, TurnKeeps

\* The begin of the client is announced by itself.
LEMMA GoodSendBegin ==
  ASSUME Inv, Good, NEW s \in Sessions, SendBegin(s)
  PROVE  Good'
<1> DEFINE e == <<Client, s>>
           f == Frame("begin", s, chan[e], NoChannel, FALSE)
<1>1. /\ e \in Endpoint /\ sending \in [Endpoint -> Seq(Frames)] /\ Client \in Peer
      /\ state \in [Endpoint -> States] /\ task \in [Endpoint -> Tasks]
  BY PeerFacts, EndpointTypes DEF Inv, TypeOK
<1>2. /\ task[e] = "begin" /\ task' = [task EXCEPT ![e] = "answer"]
      /\ state' = [state EXCEPT ![e] = "BeginSent"] /\ sending' = [sending EXCEPT ![e] = <<f>>]
      /\ incoming' = incoming /\ Fixed
  BY DEF SendBegin, Set, Fixed, conns
<1>3. BeginOf(f, s) /\ f.type = "begin"
  BY DEF BeginOf, Frame
<1>4. sending[e] = <<>>
  BY <1>1, <1>2 DEF Inv, Carried, Looping
<1>5. ReceiverOK(Listener, s) /\ Other(Listener) = Client
  BY PeerFacts DEF Good
<1>6. EndLast(incoming[e], s)
  BY <1>5 DEF ReceiverOK
<1> HIDE DEF e, f
<1>7. task'[e] = "answer" /\ state'[e] = "BeginSent" /\ sending'[e] = <<f>>
  BY <1>1, <1>2
<1>8. HasBegin(<<f>>, s)
  BY <1>3 DEF HasBegin
<1>9. EndLast(<<f>>, s) /\ ~EndIn(<<f>>, s)
  BY <1>3, FewFrames
<1>10. ~Ended(e) /\ ~HasEnded(task'[e], state'[e])
  BY <1>2, <1>7 DEF Ended, HasEnded
<1>11. Progress(Client, s)
  BY <1>2, <1>4, <1>6, <1>7, <1>8, <1>9, <1>10 DEF Progress, Active, Unborn, e
<1>12. \A x \in Endpoint : x # e =>
         /\ task'[x] = task[x] /\ state'[x] = state[x] /\ sending'[x] = sending[x]
         /\ incoming'[x] = incoming[x]
  BY <1>1, <1>2
<1> QED
  BY <1>1, <1>2, <1>11, <1>12, OneProgress DEF e

\* The client that has its answer goes on as it was announced.
LEMMA GoodBeginFrame ==
  ASSUME Inv, Good, NEW s \in Sessions, OnIncomingBeginFrame(s)
  PROVE  Good'
<1> DEFINE e == <<Client, s>>
           P == incoming[e]
<1>1. /\ e \in Endpoint /\ incoming \in [Endpoint -> Seq(Frames)] /\ Client \in Peer
      /\ state \in [Endpoint -> States] /\ task \in [Endpoint -> Tasks] /\ P \in Seq(Frames)
  BY PeerFacts, EndpointTypes DEF Inv, TypeOK
<1>2. /\ task[e] = "answer" /\ task' = [task EXCEPT ![e] = "select"] /\ P # <<>>
      /\ state' = [state EXCEPT ![e] = "Mapped"] /\ incoming' = [incoming EXCEPT ![e] = Tail(@)]
      /\ sending' = sending /\ sending[e] = <<>> /\ Fixed
  BY DEF OnIncomingBeginFrame, Received, Taken, Set, Fixed, conns
<1>3. ReceiverOK(Listener, s) /\ Other(Listener) = Client
  BY PeerFacts DEF Good
<1>4. EndLast(P, s)
  BY <1>3 DEF ReceiverOK
<1> HIDE DEF P
<1>5. EndLast(Tail(P), s) /\ (EndIn(Tail(P), s) => EndIn(P, s))
  BY <1>1, <1>2, <1>4, Shrinks
<1>6. task'[e] = "select" /\ state'[e] = "Mapped" /\ incoming'[e] = Tail(P)
  BY <1>1, <1>2 DEF P
<1>7. ~Ended(e) /\ ~HasEnded(task'[e], state'[e]) /\ Speaking(Client, s)
  BY <1>2, <1>6 DEF Ended, HasEnded, Speaking, Active
<1>8. ~EndIn(<<>>, s) /\ EndLast(<<>>, s)
  BY FewFrames
<1>9. Progress(Client, s)
  BY <1>2, <1>5, <1>6, <1>7, <1>8 DEF Progress, Active, Looping, Unborn, P
<1>10. \A x \in Endpoint : x # e =>
         /\ task'[x] = task[x] /\ state'[x] = state[x] /\ sending'[x] = sending[x]
         /\ incoming'[x] = incoming[x]
  BY <1>1, <1>2
<1> QED
  BY <1>1, <1>2, <1>9, <1>10, OneProgress

\* The answering begin of the listener is announced by itself.
LEMMA GoodAccept ==
  ASSUME Inv, Good, NEW s \in Sessions, Accept(s)
  PROVE  Good'
<1> DEFINE e == <<Listener, s>>
           f == Frame("begin", s, chan[e], remote[e], FALSE)
<1>1. /\ e \in Endpoint /\ sending \in [Endpoint -> Seq(Frames)] /\ Listener \in Peer
      /\ state \in [Endpoint -> States] /\ task \in [Endpoint -> Tasks]
  BY PeerFacts, EndpointTypes DEF Inv, TypeOK
<1>2. /\ task[e] = "offered" /\ task' = [task EXCEPT ![e] = "select"]
      /\ state' = [state EXCEPT ![e] = "Mapped"] /\ sending' = [sending EXCEPT ![e] = <<f>>]
      /\ incoming' = incoming /\ Fixed
  BY DEF Accept, Set, Fixed, conns
<1>3. BeginOf(f, s) /\ f.type = "begin"
  BY DEF BeginOf, Frame
<1>4. sending[e] = <<>>
  BY <1>1, <1>2 DEF Inv, Carried, Looping
<1>5. ReceiverOK(Client, s) /\ Other(Client) = Listener
  BY PeerFacts DEF Good
<1>6. EndLast(incoming[e], s)
  BY <1>5 DEF ReceiverOK
<1> HIDE DEF e, f
<1>7. task'[e] = "select" /\ state'[e] = "Mapped" /\ sending'[e] = <<f>>
  BY <1>1, <1>2
<1>8. HasBegin(<<f>>, s)
  BY <1>3 DEF HasBegin
<1>9. EndLast(<<f>>, s) /\ ~EndIn(<<f>>, s)
  BY <1>3, FewFrames
<1>10. ~Ended(e) /\ ~HasEnded(task'[e], state'[e])
  BY <1>2, <1>7 DEF Ended, HasEnded
<1>11. Progress(Listener, s)
  BY <1>2, <1>4, <1>6, <1>7, <1>8, <1>9, <1>10 DEF Progress, Active, Looping, Unborn, e
<1>12. \A x \in Endpoint : x # e =>
         /\ task'[x] = task[x] /\ state'[x] = state[x] /\ sending'[x] = sending[x]
         /\ incoming'[x] = incoming[x]
  BY <1>1, <1>2
<1> QED
  BY <1>1, <1>2, <1>11, <1>12, OneProgress DEF e

\* A session that asks for a channel has nothing to send.
LEMMA GoodBegin ==
  ASSUME Inv, Good, NEW s \in Sessions, Begin(s)
  PROVE  Good'
<1> DEFINE e == <<Client, s>>
<1>1. e \in Endpoint /\ Client \in Peer /\ task \in [Endpoint -> Tasks]
  BY PeerFacts, EndpointTypes DEF Inv, TypeOK
<1>2. /\ task[e] = "none" /\ task' = [task EXCEPT ![e] = "alloc"]
      /\ state' = state /\ sending' = sending /\ incoming' = incoming /\ Fixed
  BY DEF Begin, Set, Fixed
<1>3. sending[e] = <<>>
  BY <1>1, <1>2 DEF Inv, Carried, Looping
<1>4. ReceiverOK(Listener, s) /\ Other(Listener) = Client
  BY PeerFacts DEF Good
<1>5. EndLast(incoming[e], s)
  BY <1>4 DEF ReceiverOK
<1> HIDE DEF e
<1>6. task'[e] = "alloc"
  BY <1>1, <1>2
<1>7. ~Ended(e) /\ ~HasEnded(task'[e], state'[e])
  BY <1>2, <1>6 DEF Ended, HasEnded
<1>8. ~EndIn(<<>>, s) /\ EndLast(<<>>, s)
  BY FewFrames
<1>9. Progress(Client, s)
  BY <1>2, <1>3, <1>5, <1>6, <1>7, <1>8 DEF Progress, Active, Looping, Unborn, e
<1>10. \A x \in Endpoint : x # e =>
         /\ task'[x] = task[x] /\ state'[x] = state[x] /\ sending'[x] = sending[x]
         /\ incoming'[x] = incoming[x]
  BY <1>1, <1>2
<1> QED
  BY <1>1, <1>2, <1>9, <1>10, OneProgress DEF e

\* A session that is over has nothing more to send or to receive.
LEMMA GoodStop ==
  ASSUME Inv, Good, NEW q \in Peer, NEW s \in Sessions, Stop(q, s)
  PROVE  Good'
<1> DEFINE e == <<q, s>>
<1>1. /\ e \in Endpoint /\ task \in [Endpoint -> Tasks] /\ incoming \in [Endpoint -> Seq(Frames)]
  BY EndpointTypes DEF Inv, TypeOK
<1>2. /\ task[e] = "stopping" /\ task' = [task EXCEPT ![e] = "gone"] /\ sending[e] = <<>>
      /\ state' = state /\ sending' = sending /\ incoming' = [incoming EXCEPT ![e] = <<>>]
      /\ Fixed
  BY DEF Stop, Set, Fixed
<1>3. SenderOK(q, s)
  BY DEF Good
<1>4. Ended(e) /\ state[e] # "Mapped"
  BY <1>2, <1>3 DEF SenderOK, Ended, HasEnded
<1> HIDE DEF e
<1>5. task'[e] = "gone" /\ incoming'[e] = <<>>
  BY <1>1, <1>2
<1>6. HasEnded(task'[e], state'[e])
  BY <1>5 DEF HasEnded
<1>7. ~EndIn(<<>>, s) /\ EndLast(<<>>, s)
  BY FewFrames
<1>8. Progress(q, s)
  BY <1>2, <1>4, <1>5, <1>6, <1>7 DEF Progress, Unborn, e
<1>9. \A x \in Endpoint : x # e =>
         /\ task'[x] = task[x] /\ state'[x] = state[x] /\ sending'[x] = sending[x]
         /\ incoming'[x] = incoming[x]
  BY <1>1, <1>2
<1> QED
  BY <1>2, <1>8, <1>9, OneProgress DEF e

\* Who drops a begin() or a session offered gives cause.
LEMMA CauseDrops ==
  ASSUME Inv, NEW s \in Sessions, CancelBegin(s) \/ Refuse(s)
  PROVE  Cause'
<1>1. PICK q \in Peer : task' = [task EXCEPT ![<<q, s>>] = "dropped"]
  BY PeerFacts DEF CancelBegin, Refuse, Set
<1>2. <<q, s>> \in Endpoint /\ task \in [Endpoint -> Tasks]
  BY EndpointTypes DEF Inv, TypeOK
<1>3. task'[<<q, s>>] = "dropped"
  BY <1>1, <1>2
<1> QED
  BY <1>2, <1>3 DEF Cause

-----------------------------------------------------------------------------
(* Steps of the connections.                                               *)

\* A sender the step does not concern.
SameSender(q, s) ==
  /\ task'[<<q, s>>] = task[<<q, s>>] /\ state'[<<q, s>>] = state[<<q, s>>]
  /\ sending'[<<q, s>>] = sending[<<q, s>>] /\ chan'[<<q, s>>] = chan[<<q, s>>]

\* It stays in order, and what is over stays over.
LEMMA SenderKeeps ==
  ASSUME Good, NEW q \in Peer, NEW s \in Sessions, SameSender(q, s), Pipe(q)' = Pipe(q),
         by_in'[Other(q)] = by_in[Other(q)]
  PROVE  SenderOK(q, s)' /\ PipeOK(q, s)' /\ (Over(q, s) => Over(q, s)')
<1>1. SenderOK(q, s) /\ PipeOK(q, s)
  BY DEF Good
<1>2. /\ Told(q, s)' = Told(q, s) /\ Ended(<<q, s>>)' = Ended(<<q, s>>)
      /\ Speaking(q, s)' = Speaking(q, s)
  BY DEF SameSender, Told, Ended, Speaking
<1>3. SenderOK(q, s)'
  BY <1>1, <1>2 DEF SenderOK, SameSender
<1>4. PipeOK(q, s)'
  BY <1>1, <1>2 DEF PipeOK, SameSender
<1>5. Over(q, s) => Over(q, s)'
  BY <1>2 DEF Over, SameSender
<1> QED
  BY <1>3, <1>4, <1>5

\* A receiver that the step gives nothing.
LEMMA ReceiverKeeps ==
  ASSUME Good, NEW q \in Peer, NEW s \in Sessions, Over(q, s) => Over(q, s)',
         NEW p, p = Other(q), incoming'[<<p, s>>] = incoming[<<p, s>>],
         Relays(forwarding'[p], s) => Relays(forwarding[p], s),
         RelaysEnd(forwarding'[p], s) => RelaysEnd(forwarding[p], s),
         task'[<<p, s>>] \in {"stopping", "gone"} => task[<<p, s>>] \in {"stopping", "gone"},
         task'[<<p, s>>] \in Unborn => task[<<p, s>>] \in Unborn
  PROVE  ReceiverOK(q, s)'
<1> DEFINE x == <<p, s>>
<1>1. ReceiverOK(q, s)
  BY DEF Good
<1>2. /\ Relays(forwarding[p], s) => task[x] \notin Unborn
      /\ RelaysEnd(forwarding[p], s) => Over(q, s)
      /\ EndLast(incoming[x], s)
      /\ EndIn(incoming[x], s) => Over(q, s) /\ ~Relays(forwarding[p], s)
      /\ task[x] \in {"stopping", "gone"} =>
           Over(q, s) /\ ~Relays(forwarding[p], s) /\ incoming[x] = <<>>
  BY <1>1 DEF ReceiverOK
<1> HIDE DEF x
<1>3. /\ Relays(forwarding'[p], s) => task'[x] \notin Unborn
      /\ RelaysEnd(forwarding'[p], s) => Over(q, s)'
      /\ EndLast(incoming'[x], s)
      /\ EndIn(incoming'[x], s) => Over(q, s)' /\ ~Relays(forwarding'[p], s)
      /\ task'[x] \in {"stopping", "gone"} =>
           Over(q, s)' /\ ~Relays(forwarding'[p], s) /\ incoming'[x] = <<>>
  BY <1>2 DEF x
<1> QED
  BY <1>3 DEF ReceiverOK, x

\* Maps that only lose sessions.
LEMMA MapsKeep ==
  ASSUME Good, NEW q \in Peer, NEW s \in Sessions,
         task'[<<q, s>>] \in Unborn => task[<<q, s>>] \in Unborn,
         \A c \in Channel : /\ by_in'[q][c] = s => by_in[q][c] = s \/ task'[<<q, s>>] \notin Unborn
                            /\ by_out'[q][c] = s => by_out[q][c] = s \/ task'[<<q, s>>] \notin Unborn
  PROVE  MapsOK(q, s)'
BY DEF Good, MapsOK

\* A frame is handed over: it leaves the session for the way to the other peer.
LEMMA GoodHandOver ==
  ASSUME Inv, Good, NEW q \in Peer, NEW s \in Sessions, HandOver(q, s)
  PROVE  Good'
<1> DEFINE e == <<q, s>>
           P == sending[e]
           f == Head(P)
<1>1. /\ e \in Endpoint /\ sending \in [Endpoint -> Seq(Frames)] /\ P \in Seq(Frames)
      /\ outgoing \in [Peer -> Seq(Frames)] /\ Pipe(q) \in Seq(Frames)
      /\ wire[q] \in Seq(Frames) /\ outgoing[q] \in Seq(Frames)
  BY EndpointTypes, PipeType DEF Inv, TypeOK
<1>2. /\ P # <<>> /\ outgoing' = [outgoing EXCEPT ![q] = Append(@, f)]
      /\ sending' = [sending EXCEPT ![e] = Tail(@)]
      /\ UNCHANGED <<conn, by_out, by_in, wire, forwarding, task, state, chan, incoming>>
  BY DEF HandOver
<1>3. /\ \A i \in 1 .. Len(P) : P[i].s = s /\ P[i].ch = chan[e]
      /\ task[e] \in Active
      /\ HasBegin(P, s) => Len(P) = 1
  BY <1>2 DEF Inv, Carried, OwnFrames, Active
<1> HIDE DEF P
<1>4. /\ f \in Frames /\ Tail(P) \in Seq(Frames) /\ f.s = s /\ f.ch = chan[e] /\ f = P[1]
      /\ 1 \in 1 .. Len(P)
      /\ Len(P) = 1 => Tail(P) = <<>>
  <2>1. f = P[1] /\ f \in Frames /\ Tail(P) \in Seq(Frames) /\ 1 \in 1 .. Len(P)
        /\ Len(Tail(P)) = Len(P) - 1
    BY <1>1, <1>2, Dropped
  <2>2. Len(P) = 1 => Tail(P) = <<>>
    <3> DEFINE T == Tail(P)
    <3>1. T \in Seq(Frames) /\ Len(P) \in Nat /\ Len(T) = Len(P) - 1
      BY <1>1, <2>1
    <3> HIDE DEF T
    <3>2. T # <<>> => 1 \in 1 .. Len(T)
      BY <3>1
    <3>3. Len(P) = 1 => T = <<>>
      BY <3>1, <3>2
    <3> QED
      BY <3>3 DEF T
  <2> QED
    BY <1>3, <2>1, <2>2
<1>5. /\ Pipe(q)' = Append(Pipe(q), f) /\ \A r \in Peer : r # q => Pipe(r)' = Pipe(r)
  <2>1. Pipe(q)' = Append(Pipe(q), f) /\ Pipe(Other(q))' = Pipe(Other(q))
    BY HandedOver DEF f, P
  <2>2. \A r \in Peer : r # q => r = Other(q)
    BY PeerFacts
  <2> QED
    BY <2>1, <2>2
<1> HIDE DEF f
<1>6. /\ sending'[e] = Tail(P)
      /\ \A x \in Endpoint : x # e => sending'[x] = sending[x]
  BY <1>1, <1>2 DEF P
<1>7. \A r \in Peer, t \in Sessions : /\ Told(r, t)' = Told(r, t)
                                      /\ Ended(<<r, t>>)' = Ended(<<r, t>>)
  BY <1>2 DEF Told, Ended
<1>8. /\ SenderOK(q, s)' /\ PipeOK(q, s)' /\ ~Over(q, s)
  <2>1. SenderOK(q, s) /\ PipeOK(q, s)
    BY DEF Good
  <2>2. /\ EndIn(P, s) => Ended(e)
        /\ EndLast(P, s)
        /\ Told(q, s) \/ HasBegin(Pipe(q), s) \/ HasBegin(P, s)
        /\ ~EndIn(Pipe(q), s)
    BY <1>2, <2>1 DEF SenderOK, PipeOK, Speaking, P
  <2>3. HasBegin(P, s) => BeginOf(f, s) /\ Tail(P) = <<>>
    <3>1. Len(P) = 1 => \A i \in 1 .. Len(P) : i = 1
      OBVIOUS
    <3> QED
      BY <1>3, <1>4, <3>1 DEF HasBegin
  <2>4. /\ EndIn(Tail(P), s) => EndIn(P, s)
        /\ EndLast(Tail(P), s)
        /\ f.type = "end" => EndIn(P, s) /\ ~Of(Tail(P), s)
    BY <1>1, <1>2, <1>4, <2>2, Shrinks DEF f
  <2>5. f.type = "end" => Tail(P) = <<>>
    <3>1. \A i \in 1 .. Len(Tail(P)) : Tail(P)[i].s = s
      BY <1>1, <1>2, <1>3, TailFacts
    <3>2. Tail(P) # <<>> => 1 \in 1 .. Len(Tail(P))
      BY <1>4
    <3> QED
      BY <2>4, <3>1, <3>2 DEF Of
  <2>6. HasBegin(Append(Pipe(q), f), s) \/ Told(q, s)
    BY <1>1, <1>4, <2>2, <2>3, Grows
  <2>7. SenderOK(q, s)'
    <3>1. Ended(e) => state[e] # "Mapped"
      BY <2>1 DEF SenderOK
    <3> QED
      BY <1>2, <1>5, <1>6, <1>7, <2>2, <2>4, <2>6, <3>1 DEF SenderOK
  <2>8. OnChannel(Append(Pipe(q), f), s, chan[e]) /\ Announced(Append(Pipe(q), f), s, Told(q, s))
    <3>1. f.type # "begin" => Told(q, s) \/ HasBegin(Pipe(q), s)
      BY <2>2, <2>3 DEF BeginOf
    <3>2. OnChannel(Pipe(q), s, chan[e]) /\ Announced(Pipe(q), s, Told(q, s))
      BY <2>1 DEF PipeOK
    <3> HIDE DEF e
    <3> QED
      BY <1>1, <1>4, <3>1, <3>2, GrowsAnnounced
  <2>9. /\ EndLast(Append(Pipe(q), f), s)
        /\ EndIn(Append(Pipe(q), f), s) => f.type = "end"
    <3>1. EndLast(Pipe(q), s)
      BY <2>1 DEF PipeOK
    <3> QED
      BY <1>1, <1>4, <2>2, <3>1, Grows
  <2>10. PipeOK(q, s)'
    BY <1>2, <1>3, <1>5, <1>6, <1>7, <2>2, <2>4, <2>5, <2>8, <2>9 DEF PipeOK
  <2> QED
    BY <1>2, <2>7, <2>10 DEF Over, P
<1>9. ASSUME NEW r \in Peer, NEW t \in Sessions, r # q \/ t # s
      PROVE  SenderOK(r, t)' /\ PipeOK(r, t)' /\ (Over(r, t) => Over(r, t)')
  <2>1. SameSender(r, t)
    <3>1. <<r, t>> # e /\ <<r, t>> \in Endpoint
      BY <1>9, EndpointFacts
    <3> QED
      BY <1>2, <1>6, <3>1 DEF SameSender
  <2>2. CASE r # q
    BY <1>2, <1>5, <2>1, <2>2, SenderKeeps
  <2>3. CASE r = q /\ t # s
    <3>1. SenderOK(q, t) /\ PipeOK(q, t)
      BY <2>3 DEF Good
    <3>2. OnChannel(Pipe(q), t, chan[<<q, t>>]) /\ Announced(Pipe(q), t, Told(q, t)) /\ EndLast(Pipe(q), t)
      BY <3>1 DEF PipeOK
    <3>3. OnChannel(Append(Pipe(q), f), t, chan[<<q, t>>]) /\ Announced(Append(Pipe(q), f), t, Told(q, t))
      BY <1>1, <1>4, <2>3, <3>2, GrowsAnnounced
    <3>4. /\ Of(Append(Pipe(q), f), t) => Of(Pipe(q), t)
          /\ EndIn(Append(Pipe(q), f), t) => EndIn(Pipe(q), t)
          /\ EndLast(Append(Pipe(q), f), t)
          /\ HasBegin(Pipe(q), t) => HasBegin(Append(Pipe(q), f), t)
      BY <1>1, <1>4, <2>3, <3>2, Grows
    <3>5. SenderOK(q, t)'
      BY <1>5, <1>7, <2>1, <2>3, <3>1, <3>4 DEF SenderOK, SameSender, Speaking
    <3>6. PipeOK(q, t)'
      BY <1>5, <1>7, <2>1, <2>3, <3>1, <3>3, <3>4 DEF PipeOK, SameSender
    <3>7. Over(q, t) => Over(q, t)'
      BY <1>5, <1>7, <2>1, <2>3, <3>4 DEF Over, SameSender
    <3> QED
      BY <2>3, <3>5, <3>6, <3>7
  <2> QED
    BY <1>9, <2>2, <2>3
<1>10. ASSUME NEW r \in Peer, NEW t \in Sessions
       PROVE  SenderOK(r, t)' /\ PipeOK(r, t)' /\ (Over(r, t) => Over(r, t)')
  BY <1>8, <1>9
<1>11. ASSUME NEW r \in Peer, NEW t \in Sessions
       PROVE  ReceiverOK(r, t)'
  BY <1>2, <1>10, ReceiverKeeps
<1>12. ASSUME NEW r \in Peer, NEW t \in Sessions
       PROVE  MapsOK(r, t)'
  BY <1>2, MapsKeep
<1> QED
  BY <1>2, <1>10, <1>11, <1>12 DEF Good

\* A step that only moves frames on their way, or forgets a session in the slab.
LEMMA GoodStays ==
  ASSUME Good, UNCHANGED <<conn, by_in, forwarding, task, state, chan, incoming, sending>>,
         \A q \in Peer : Pipe(q)' = Pipe(q),
         \A q \in Peer, c \in Channel : by_out'[q][c] \in {by_out[q][c], NoSession}
  PROVE  Good'
<1>1. ASSUME NEW q \in Peer, NEW s \in Sessions
      PROVE  SenderOK(q, s)' /\ PipeOK(q, s)' /\ ReceiverOK(q, s)' /\ MapsOK(q, s)'
  <2>1. SameSender(q, s)
    BY DEF SameSender
  <2>2. SenderOK(q, s)' /\ PipeOK(q, s)' /\ (Over(q, s) => Over(q, s)')
    BY <2>1, SenderKeeps
  <2>3. ReceiverOK(q, s)'
    BY <2>2, ReceiverKeeps
  <2>4. MapsOK(q, s)'
    <3>1. s # NoSession
      BY SubsetAssumption
    <3>2. \A c \in Channel : by_out'[q][c] = s => by_out[q][c] = s
      BY <3>1
    <3> QED
      BY <3>2, MapsKeep
  <2> QED
    BY <2>2, <2>3, <2>4
<1> QED
  BY <1>1 DEF Good

\* Writing the frames of the sessions.
LEMMA GoodOutgoing ==
  ASSUME Inv, Good, NEW p \in Peer, OnOutgoingSessionFrames(p)
  PROVE  Good'
<1>1. /\ outgoing[p] # <<>>
      /\ outgoing' = [outgoing EXCEPT ![p] = Tail(@)]
      /\ wire' = [wire EXCEPT ![p] = Append(@, Head(outgoing[p]))]
      /\ UNCHANGED <<conn, by_out, by_in, forwarding, task, state, chan, incoming, sending>>
  BY DEF OnOutgoingSessionFrames, tasks
<1>2. ASSUME NEW q \in Peer
      PROVE  Pipe(q)' = Pipe(q)
  <2>1. wire \in [Peer -> Seq(Frames)] /\ outgoing \in [Peer -> Seq(Frames)]
    BY DEF Inv, TypeOK
  <2>2. CASE q = p
    <3> DEFINE u == wire[p]
               v == outgoing[p]
    <3>1. u \in Seq(Frames) /\ v \in Seq(Frames) /\ v # <<>>
      BY <1>1, <2>1
    <3>2. wire'[p] = Append(u, Head(v)) /\ outgoing'[p] = Tail(v)
      BY <1>1, <2>1
    <3>3. Pipe(p) = u \o v
      BY DEF Pipe
    <3>4. Pipe(p)' = Append(u, Head(v)) \o Tail(v)
      BY <3>2 DEF Pipe
    <3> HIDE DEF u, v
    <3> QED
      BY <2>2, <3>1, <3>3, <3>4, PipeShift
  <2>3. CASE q # p
    BY <1>1, <2>1, <2>3 DEF Pipe
  <2> QED
    BY <2>2, <2>3
<1> QED
  BY <1>1, <1>2, GoodStays

\* Giving a channel back.
LEMMA GoodDeallocate ==
  ASSUME Inv, Good, NEW p \in Peer, OnControlDeallocate(p)
  PROVE  Good'
<1> DEFINE h == Head(control[p]).ch
<1>1. /\ by_out' = [by_out EXCEPT ![p][h] = NoSession]
      /\ UNCHANGED <<conn, by_in, outgoing, wire, forwarding, task, state, chan, incoming, sending>>
  BY DEF OnControlDeallocate, tasks
<1>2. by_out \in [Peer -> [Channel -> Sessions \cup {NoSession}]]
  BY DEF Inv, TypeOK
<1> HIDE DEF h
<1>3. \A q \in Peer, c \in Channel : by_out'[q][c] \in {by_out[q][c], NoSession}
  BY <1>1, <1>2
<1>4. \A q \in Peer : Pipe(q)' = Pipe(q)
  BY <1>1 DEF Pipe
<1> QED
  BY <1>1, <1>3, <1>4, GoodStays

\* A session that has not had a channel before has sent nothing, and is sent nothing.
LEMMA FreshSender ==
  ASSUME Inv, Good, NEW q \in Peer, NEW s \in Sessions, task[<<q, s>>] \in {"none", "alloc"},
         task'[<<q, s>>] \in {"begin", "offered", "failed"}, sending'[<<q, s>>] = sending[<<q, s>>],
         Pipe(q)' = Pipe(q)
  PROVE  SenderOK(q, s)' /\ PipeOK(q, s)' /\ ~Over(q, s)
<1> DEFINE e == <<q, s>>
           P == Pipe(q)
<1>1. PipeOK(q, s)
  BY DEF Good
<1>2. ~Of(P, s)
  BY <1>1 DEF PipeOK, Active, Looping
<1>3. sending[e] = <<>>
  BY DEF Inv, Carried, Looping
<1>4. ~HasEnded(task[e], state[e]) /\ ~HasEnded(task'[e], state'[e])
  BY DEF HasEnded
<1>5. ~EndIn(<<>>, s) /\ EndLast(<<>>, s)
  BY FewFrames
<1>6. SenderOK(q, s)'
  BY <1>3, <1>4, <1>5 DEF SenderOK, Ended, Speaking, Active, Looping
<1>7. ~EndIn(P, s) /\ EndLast(P, s) /\ \A c : OnChannel(P, s, c)
  BY <1>2 DEF Of, EndIn, EndLast, OnChannel
<1>8. \A k : Announced(P, s, k)
  BY <1>2 DEF Of, Announced
<1>9. PipeOK(q, s)'
  BY <1>2, <1>7, <1>8 DEF PipeOK
<1> QED
  BY <1>4, <1>6, <1>9 DEF Over, Ended

\* A channel is given out, or there is none; who has dropped the begin() gives cause.
LEMMA GoodAllocate ==
  ASSUME Inv, Good, ~Cause, NEW p \in Peer, OnControlAllocate(p)
  PROVE  Good'
<1> DEFINE C == control[p]
           s == Head(C).s
           e == <<p, s>>
           full == vacant[p] = <<>>
<1>1. /\ C # <<>> /\ Head(C).op = "allocate" /\ conn[p] = "Opened"
      /\ IF full THEN UNCHANGED <<by_out, chan>> ELSE Allocate(p, e)
      /\ task[e] # "dropped" => /\ task' = Set(task, e, IF full THEN "failed" ELSE "begin")
                                /\ UNCHANGED conn
      /\ UNCHANGED <<by_in, outgoing, wire, forwarding, state, incoming, sending>>
  BY DEF OnControlAllocate, Runs
<1>2. /\ s \in Sessions /\ task[e] \in {"alloc", "dropped"}
      /\ \A c \in Channel : by_out[p][c] # s
  <2>1. C \in Seq(Requests)
    BY DEF Inv, TypeOK
  <2>2. Head(C) = C[1] /\ 1 \in 1 .. Len(C)
    BY <1>1, <2>1, Dropped
  <2>3. RequestOK(C[1], p, task[<<p, C[1].s>>], conn[p], by_out[p]) /\ C[1].s \in Sessions
    BY <2>2, RequestFacts DEF Inv, Requested
  <2> QED
    BY <1>1, <2>2, <2>3 DEF RequestOK
<1>3. e \in Endpoint /\ task \in [Endpoint -> Tasks] /\ chan \in [Endpoint -> Channel \cup {NoChannel}]
      /\ by_out \in [Peer -> [Channel -> Sessions \cup {NoSession}]] /\ vacant[p] \in Seq(Channel)
  BY <1>2, EndpointFacts DEF Inv, TypeOK
<1>4. task[e] = "alloc"
  BY <1>2, <1>3 DEF Cause
<1> HIDE DEF C, s
<1>5. /\ task'[e] = (IF full THEN "failed" ELSE "begin") /\ conn' = conn
      /\ \A x \in Endpoint : x # e => task'[x] = task[x]
  BY <1>1, <1>3, <1>4 DEF Set
<1>6. \A x \in Endpoint : x # e => chan'[x] = chan[x]
  BY <1>1, <1>3 DEF Allocate, Set
<1>7. \A q \in Peer, c \in Channel : \/ by_out'[q][c] = by_out[q][c]
                                     \/ q = p /\ by_out'[q][c] = s /\ ~full
  <2>1. CASE full
    BY <1>1, <2>1
  <2>2. CASE ~full
    <3> DEFINE h == Head(vacant[p])
    <3>1. by_out' = [by_out EXCEPT ![p][h] = s] /\ h \in Channel
      BY <1>1, <1>3, <2>2 DEF Allocate
    <3> HIDE DEF h
    <3> QED
      BY <1>3, <2>2, <3>1
  <2> QED
    BY <2>1, <2>2
<1>8. \A q \in Peer : Pipe(q)' = Pipe(q)
  BY <1>1 DEF Pipe
<1>9. ASSUME NEW q \in Peer, NEW t \in Sessions
      PROVE  SenderOK(q, t)' /\ PipeOK(q, t)' /\ (Over(q, t) => Over(q, t)')
  <2>1. CASE q = p /\ t = s
    BY <1>1, <1>4, <1>5, <1>8, <2>1, FreshSender
  <2>2. CASE q # p \/ t # s
    <3>1. <<q, t>> \in Endpoint /\ <<q, t>> # e
      BY <2>2, EndpointFacts
    <3>2. SameSender(q, t)
      BY <1>1, <1>5, <1>6, <3>1 DEF SameSender
    <3> QED
      BY <1>1, <1>8, <3>2, SenderKeeps
  <2> QED
    BY <2>1, <2>2
<1>10. ASSUME NEW q \in Peer, NEW t \in Sessions
       PROVE  /\ task'[<<q, t>>] \in {"stopping", "gone"} => task[<<q, t>>] \in {"stopping", "gone"}
              /\ task'[<<q, t>>] \in Unborn => task[<<q, t>>] \in Unborn
  <2>1. <<q, t>> \in Endpoint
    BY EndpointFacts
  <2> QED
    BY <1>4, <1>5, <2>1 DEF Unborn
<1>11. ASSUME NEW q \in Peer, NEW t \in Sessions
       PROVE  ReceiverOK(q, t)'
  <2>1. Other(q) \in Peer
    BY PeerFacts
  <2> QED
    BY <1>1, <1>9, <1>10, <2>1, ReceiverKeeps
<1>12. ASSUME NEW q \in Peer, NEW t \in Sessions
       PROVE  MapsOK(q, t)'
  <2>1. ASSUME NEW c \in Channel, by_out'[q][c] = t
        PROVE  by_out[q][c] = t \/ task'[<<q, t>>] \notin Unborn
    BY <1>5, <1>7, <2>1 DEF Unborn
  <2> QED
    BY <1>1, <1>10, <2>1, MapsKeep
<1> QED
  BY <1>5, <1>9, <1>11, <1>12 DEF Good

\* The frame f arrives at p, which notes a begin and forgets a session that has ended.
Notes(p, f) ==
  /\ by_in'[Other(p)] = by_in[Other(p)]
  /\ \A c \in Channel : c # f.ch => by_in'[p][c] = by_in[p][c]
  /\ by_in'[p][f.ch] = CASE f.type = "begin" -> f.s
                         [] f.type = "end" -> NoSession
                         [] OTHER -> by_in[p][f.ch]

\* The session of the frame is on the way, on its own channel, and no other one is known
\* there.
LEMMA ArrivedSession ==
  ASSUME Inv, Good, NEW p \in Peer, NEW f \in Frames, Arrives(p, f)
  PROVE  /\ Pipe(Other(p)) \in Seq(Frames) /\ Of(Pipe(Other(p)), f.s)
         /\ chan[<<Other(p), f.s>>] = f.ch
         /\ by_in[p][f.ch] \in {NoSession, f.s}
         /\ f.type # "begin" => by_in[p][f.ch] = f.s
<1> DEFINE q == Other(p)
           P == Pipe(q)
<1>1. q \in Peer /\ Other(q) = p /\ f.s \in Sessions /\ f.ch \in Channel
  BY PeerFacts, FrameFacts
<1>2. P \in Seq(Frames) /\ P # <<>> /\ f = Head(P)
  BY <1>1, PipeType DEF Inv, Arrives
<1>3. PipeOK(q, f.s) /\ Inbound(P, by_in[p])
  BY <1>1 DEF Good, Inv, Routed
<1>4. OnChannel(P, f.s, chan[<<q, f.s>>]) /\ Announced(P, f.s, Told(q, f.s))
  BY <1>3 DEF PipeOK
<1> HIDE DEF P
<1>5. Len(P) \in Nat /\ Len(P) >= 1 /\ f = P[1] /\ 1 \in 1 .. Len(P) /\ \A k \in 1 .. Len(P) : ~(k < 1)
  BY <1>2, Dropped
<1>6. chan[<<q, f.s>>] = f.ch
  BY <1>4, <1>5 DEF OnChannel
<1>7. by_in[p][f.ch] \in {NoSession, f.s}
  BY <1>3, <1>5 DEF Inbound
<1>8. f.type # "begin" => by_in[p][f.ch] = f.s
  <2>1. f.type # "begin" => Told(q, f.s)
    BY <1>2, <1>4, FirstKnown
  <2> QED
    BY <1>1, <1>6, <2>1 DEF Told
<1>9. Of(P, f.s)
  BY <1>5 DEF Of
<1> QED
  BY <1>2, <1>6, <1>7, <1>8, <1>9 DEF P

\* What is left on the way is still in order; behind an End there is nothing left.
LEMMA ArrivalSender ==
  ASSUME Inv, Good, NEW p \in Peer, NEW f \in Frames, Arrives(p, f), Notes(p, f),
         NEW t \in Sessions, SameSender(Other(p), t)
  PROVE  /\ SenderOK(Other(p), t)' /\ PipeOK(Other(p), t)'
         /\ Over(Other(p), t) => Over(Other(p), t)'
         /\ t = f.s => ~Over(Other(p), t)
         /\ t = f.s /\ f.type = "end" => Over(Other(p), t)'
<1> DEFINE q == Other(p)
           P == Pipe(q)
           e == <<q, t>>
<1>1. q \in Peer /\ Other(q) = p /\ f.s \in Sessions /\ f.ch \in Channel /\ t # NoSession
  BY PeerFacts, FrameFacts, SubsetAssumption
<1>2. P \in Seq(Frames) /\ P # <<>> /\ f = Head(P) /\ Pipe(q)' = Tail(P)
  BY <1>1, PipeType DEF Inv, Arrives
<1>3. /\ Of(P, f.s) /\ chan[<<q, f.s>>] = f.ch /\ by_in[p][f.ch] \in {NoSession, f.s}
      /\ f.type # "begin" => by_in[p][f.ch] = f.s
  BY ArrivedSession
<1>4. SenderOK(q, t) /\ PipeOK(q, t)
  BY <1>1 DEF Good
<1>5. /\ OnChannel(P, t, chan[e]) /\ Announced(P, t, Told(q, t)) /\ EndLast(P, t)
      /\ Of(P, t) => task[e] \in Active \cup {"gone"}
      /\ EndIn(P, t) => Ended(e) /\ sending[e] = <<>>
  BY <1>4 DEF PipeOK
<1>6. /\ Told(q, t) <=> chan[e] \in Channel /\ by_in[p][chan[e]] = t
      /\ Told(q, t)' <=> chan[e] \in Channel /\ by_in'[p][chan[e]] = t
      /\ Ended(e)' = Ended(e) /\ Speaking(q, t)' = Speaking(q, t)
  BY <1>1 DEF Told, SameSender, Ended, Speaking
<1> HIDE DEF P
<1>7. /\ Of(Tail(P), t) => Of(P, t)
      /\ EndIn(Tail(P), t) => EndIn(P, t)
      /\ EndLast(Tail(P), t)
      /\ HasBegin(P, t) => BeginOf(f, t) \/ HasBegin(Tail(P), t)
      /\ f.type = "end" /\ f.s = t => EndIn(P, t) /\ ~Of(Tail(P), t)
  BY <1>2, <1>5, Shrinks
<1>8. Told(q, t)' \/ (f.type = "end" /\ f.s = t) \/ ~(Told(q, t) \/ BeginOf(f, t))
  <2>1. CASE BeginOf(f, t)
    <3>1. by_in'[p][f.ch] = t /\ chan[e] = f.ch
      BY <1>3, <2>1 DEF Notes, BeginOf
    <3> QED
      BY <1>1, <1>6, <3>1
  <2>2. CASE Told(q, t) /\ chan[e] # f.ch
    BY <1>6, <2>2 DEF Notes
  <2>3. CASE Told(q, t) /\ chan[e] = f.ch
    <3>1. f.s = t
      BY <1>1, <1>3, <1>6, <2>3
    <3>2. CASE f.type = "end"
      BY <3>1, <3>2
    <3>3. CASE f.type = "begin"
      BY <2>1, <3>1, <3>3 DEF BeginOf
    <3>4. CASE f.type \notin {"begin", "end"}
      <4>1. by_in'[p][f.ch] = by_in[p][f.ch]
        BY <3>4 DEF Notes
      <4> QED
        BY <1>6, <2>3, <4>1
    <3> QED
      BY <3>2, <3>3, <3>4
  <2> QED
    BY <2>1, <2>2, <2>3
<1>9. OnChannel(Tail(P), t, chan[e]) /\ Announced(Tail(P), t, Told(q, t)')
  <2>1. Of(Tail(P), t) => (Told(q, t) \/ BeginOf(f, t) => Told(q, t)')
    BY <1>7, <1>8
  <2> DEFINE k == Told(q, t)
             m == Told(q, t)'
             c == chan[e]
  <2>2. OnChannel(P, t, c) /\ Announced(P, t, k) /\ (Of(Tail(P), t) => (k \/ BeginOf(Head(P), t) => m))
    BY <1>2, <1>5, <2>1
  <2> HIDE DEF k, m, c
  <2>3. OnChannel(Tail(P), t, c) /\ Announced(Tail(P), t, m)
    BY <1>2, <2>2, ShrinksAnnounced
  <2> QED
    BY <2>3 DEF m, c
<1>10. SenderOK(q, t)'
  <2>1. Speaking(q, t) => Told(q, t)' \/ HasBegin(Tail(P), t) \/ HasBegin(sending[e], t)
    <3>1. Speaking(q, t) => ~EndIn(P, t)
      BY <1>5 DEF Speaking
    <3>2. Speaking(q, t) => Told(q, t) \/ HasBegin(P, t) \/ HasBegin(sending[e], t)
      BY <1>4 DEF SenderOK, P
    <3> QED
      BY <1>7, <1>8, <3>1, <3>2
  <2> QED
    BY <1>2, <1>4, <1>6, <2>1 DEF SenderOK, SameSender
<1>11. PipeOK(q, t)'
  BY <1>2, <1>5, <1>6, <1>7, <1>9 DEF PipeOK, SameSender
<1>12. Over(q, t) => Over(q, t)'
  BY <1>2, <1>6, <1>7 DEF Over, SameSender, P
<1>13. t = f.s => ~Over(q, t)
  BY <1>3 DEF Over, P
<1>14. t = f.s /\ f.type = "end" => Over(q, t)'
  BY <1>2, <1>5, <1>6, <1>7 DEF Over, SameSender
<1> QED
  BY <1>10, <1>11, <1>12, <1>13, <1>14

\* The frame goes to its session, which has a channel and has not had the peer's End.
LEMMA GoodRoutes ==
  ASSUME Inv, Good, NEW p \in Peer, NEW f \in Frames, Arrives(p, f), Notes(p, f),
         forwarding' = [forwarding EXCEPT ![p] = <<<<f.s, f>>>>],
         UNCHANGED <<conn, by_out, task, state, chan, incoming, sending>>,
         task[<<p, f.s>>] \notin Unborn
  PROVE  Good'
<1> DEFINE q == Other(p)
<1>1. q \in Peer /\ q # p /\ Other(q) = p /\ f.s \in Sessions /\ f.ch \in Channel
  BY PeerFacts, FrameFacts
<1>2. forwarding \in [Peer -> Seq(Sessions \X Frames)]
  BY DEF Inv, TypeOK
<1>3. forwarding'[p] = <<<<f.s, f>>>> /\ forwarding'[q] = forwarding[q]
  BY <1>1, <1>2
<1>4. \A s \in Sessions : /\ Relays(forwarding'[p], s) => s = f.s
                          /\ RelaysEnd(forwarding'[p], s) => s = f.s /\ f.type = "end"
  <2>1. Len(<<<<f.s, f>>>>) = 1 /\ <<<<f.s, f>>>>[1][1] = f.s /\ <<<<f.s, f>>>>[1][2] = f
        /\ \A i \in 1 .. 1 : i = 1
    OBVIOUS
  <2> QED
    BY <1>3, <2>1 DEF Relays, RelaysEnd
<1>5. ASSUME NEW r \in Peer, NEW t \in Sessions
      PROVE  SenderOK(r, t)' /\ PipeOK(r, t)' /\ (Over(r, t) => Over(r, t)')
  <2>1. SameSender(r, t)
    BY DEF SameSender
  <2>2. CASE r = p
    BY <2>1, <2>2, SenderKeeps DEF Arrives, Notes
  <2>3. CASE r = q
    BY <2>1, <2>3, ArrivalSender
  <2> QED
    BY <2>2, <2>3, PeerFacts
<1>6. SameSender(q, f.s)
  BY DEF SameSender
<1>7. ~Over(q, f.s) /\ (f.type = "end" => Over(q, f.s)')
  BY <1>1, <1>6, ArrivalSender
<1>8. ReceiverOK(q, f.s)'
  <2> DEFINE x == <<p, f.s>>
  <2>1. ReceiverOK(q, f.s) /\ task' = task /\ incoming' = incoming
    BY <1>1 DEF Good
  <2>2. ~EndIn(incoming[x], f.s) /\ task[x] \notin {"stopping", "gone"} /\ EndLast(incoming[x], f.s)
    BY <1>1, <1>7, <2>1 DEF ReceiverOK
  <2>3. RelaysEnd(forwarding'[p], f.s) => Over(q, f.s)'
    BY <1>1, <1>4, <1>7
  <2> QED
    BY <1>1, <2>1, <2>2, <2>3 DEF ReceiverOK
<1>9. ASSUME NEW r \in Peer, NEW t \in Sessions, r # q \/ t # f.s
      PROVE  ReceiverOK(r, t)'
  <2>1. CASE r = q /\ t # f.s
    <3>1. ~Relays(forwarding'[p], t) /\ ~RelaysEnd(forwarding'[p], t)
      BY <1>4, <2>1
    <3> QED
      BY <1>1, <1>5, <2>1, <3>1, ReceiverKeeps
  <2>2. CASE r = p
    BY <1>1, <1>3, <1>5, <2>2, ReceiverKeeps
  <2> QED
    BY <1>9, <2>1, <2>2, PeerFacts
<1>10. ASSUME NEW r \in Peer, NEW t \in Sessions
       PROVE  MapsOK(r, t)'
  <2>1. t # NoSession
    BY SubsetAssumption
  <2>2. ASSUME NEW c \in Channel, by_in'[r][c] = t
        PROVE  by_in[r][c] = t \/ task'[<<r, t>>] \notin Unborn
    <3>1. CASE r = q
      BY <2>2, <3>1 DEF Notes
    <3>2. CASE r = p /\ c # f.ch
      BY <2>2, <3>2 DEF Notes
    <3>3. CASE r = p /\ c = f.ch
      <4>1. t = f.s \/ t = by_in[p][f.ch]
        BY <2>1, <2>2, <3>3 DEF Notes
      <4> QED
        BY <3>3, <4>1
    <3> QED
      BY <3>1, <3>2, <3>3, PeerFacts
  <2> QED
    BY <2>2, MapsKeep
<1>11. ASSUME NEW r \in Peer, NEW t \in Sessions
       PROVE  ReceiverOK(r, t)'
  BY <1>8, <1>9
<1> QED
  BY <1>5, <1>10, <1>11 DEF Good

\* The answer to a begin goes to the session that holds the channel it names.
LEMMA GoodBeginAnswer ==
  ASSUME Inv, Good, NEW p \in Peer, OnIncomingBeginAnswer(p)
  PROVE  Good'
<1> DEFINE f == Head(wire[Other(p)])
           s == by_out[p][f.remote]
<1>1. /\ Arrived(p, {"begin"}) /\ f.remote # NoChannel
      /\ IF s = NoSession THEN Fail(p, "NotFound") /\ UNCHANGED <<by_in, forwarding>>
         ELSE /\ by_in' = [by_in EXCEPT ![p][f.ch] = s]
              /\ forwarding' = [forwarding EXCEPT ![p] = <<<<s, f>>>>]
              /\ UNCHANGED conn
      /\ UNCHANGED <<by_out, vacant, control, outgoing, tasks>>
  BY DEF OnIncomingBeginAnswer
<1>2. Arrives(p, f) /\ f \in Frames /\ f.type = "begin"
  BY <1>1, ArrivedPipe
<1>3. /\ f.ch \in Channel /\ f.s \in Sessions /\ f.s # NoSession /\ s = f.s
      /\ f.remote \in Channel
  BY <1>1, <1>2, FrameFacts, AnswerFor
<1>4. by_out[p][f.remote] = f.s
  BY <1>3
<1> HIDE DEF f, s
<1>5. by_in' = [by_in EXCEPT ![p][f.ch] = f.s]
      /\ forwarding' = [forwarding EXCEPT ![p] = <<<<f.s, f>>>>] /\ UNCHANGED conn
  BY <1>1, <1>3
<1>6. Notes(p, f)
  <2>1. /\ by_in'[p][f.ch] = f.s
        /\ \A y \in Channel : y # f.ch => by_in'[p][y] = by_in[p][y]
        /\ \A q \in Peer : q # p => by_in'[q] = by_in[q]
    BY <1>3, <1>5, InMap, ZenonT(60) DEF Inv
  <2> QED
    BY <1>2, <2>1, PeerFacts DEF Notes
<1>7. task[<<p, f.s>>] \notin Unborn
  <2>1. MapsOK(p, f.s)
    BY <1>3 DEF Good
  <2> QED
    BY <1>3, <1>4, <2>1 DEF MapsOK
<1>8. UNCHANGED <<conn, by_out, task, state, chan, incoming, sending>>
  BY <1>1, <1>5 DEF tasks
<1> QED
  BY <1>2, <1>5, <1>6, <1>7, <1>8, GoodRoutes

\* A frame inside a session finds it.
LEMMA GoodSessionFrame ==
  ASSUME Inv, Good, NEW p \in Peer, OnIncomingSessionFrame(p)
  PROVE  Good'
<1> DEFINE f == Head(wire[Other(p)])
           s == Recipient(p, f.ch)
<1>1. /\ Arrived(p, {"end", "ask", "answer", "bad"})
      /\ IF s = NoSession THEN Fail(p, "NotFound") /\ UNCHANGED <<by_in, forwarding>>
         ELSE /\ forwarding' = [forwarding EXCEPT ![p] = <<<<s, f>>>>]
              /\ by_in' = IF f.type = "end" THEN [by_in EXCEPT ![p][f.ch] = NoSession] ELSE by_in
              /\ UNCHANGED conn
      /\ UNCHANGED <<by_out, vacant, control, outgoing, tasks>>
  BY DEF OnIncomingSessionFrame
<1>2. Arrives(p, f) /\ f \in Frames /\ f.type # "begin"
  BY <1>1, ArrivedPipe
<1>3. /\ f.ch \in Channel /\ f.s \in Sessions /\ f.s # NoSession
      /\ s = f.s /\ by_in[p][f.ch] = f.s
  BY <1>2, FrameFacts, ArrivedSession DEF Recipient
<1> HIDE DEF f, s
<1>4. /\ forwarding' = [forwarding EXCEPT ![p] = <<<<f.s, f>>>>] /\ UNCHANGED conn
      /\ by_in' = IF f.type = "end" THEN [by_in EXCEPT ![p][f.ch] = NoSession] ELSE by_in
  BY <1>1, <1>3
<1>5. Notes(p, f)
  <2>1. CASE f.type = "end"
    <3>1. /\ by_in'[p][f.ch] = NoSession
          /\ \A y \in Channel : y # f.ch => by_in'[p][y] = by_in[p][y]
          /\ \A q \in Peer : q # p => by_in'[q] = by_in[q]
      BY <1>3, <1>4, <2>1, InMap, ZenonT(60) DEF Inv
    <3> QED
      BY <2>1, <3>1, PeerFacts DEF Notes
  <2>2. CASE f.type # "end"
    BY <1>2, <1>4, <2>2 DEF Notes
  <2> QED
    BY <2>1, <2>2
<1>6. task[<<p, f.s>>] \notin Unborn
  <2>1. MapsOK(p, f.s)
    BY <1>3 DEF Good
  <2> QED
    BY <1>3, <2>1 DEF MapsOK
<1>7. UNCHANGED <<conn, by_out, task, state, chan, incoming, sending>>
  BY <1>1, <1>4 DEF tasks
<1> QED
  BY <1>2, <1>4, <1>5, <1>6, <1>7, GoodRoutes

\* A new session at the listener, unless it is short of channels.
LEMMA GoodIncomingBegin ==
  ASSUME Inv, Good, NEW p \in Peer, OnIncomingBegin(p)
  PROVE  Cause' \/ Good'
<1> DEFINE f == Head(wire[Other(p)])
           s == f.s
           e == <<p, s>>
<1>1. /\ p = Listener /\ Arrived(p, {"begin"})
      /\ IF vacant[p] = <<>> THEN Fail(p, "NotImplemented")
         ELSE /\ Allocate(p, e)
              /\ by_in' = [by_in EXCEPT ![p][f.ch] = s]
              /\ task' = Set(task, e, "offered")
              /\ UNCHANGED conn
      /\ UNCHANGED <<outgoing, forwarding, state, incoming, sending>>
  BY DEF OnIncomingBegin
<1>2. Arrives(p, f) /\ f \in Frames /\ f.type = "begin"
  BY <1>1, ArrivedPipe
<1> HIDE DEF f
<1>3. /\ f.ch \in Channel /\ s \in Sessions /\ s # NoSession
      /\ Other(p) = Client /\ Client \in Peer /\ Other(Client) = p /\ Client # p
  BY <1>1, <1>2, FrameFacts, PeerFacts
<1>4. CASE vacant[p] = <<>>
  <2>1. conn'[Listener] = "NotImplemented"
    BY <1>1, <1>4, PeerFacts DEF Fail, Set, Inv, TypeOK
  <2> QED
    BY <2>1 DEF Cause
<1>5. CASE vacant[p] # <<>>
  <2> DEFINE h == Head(vacant[p])
  <2>1. /\ Allocate(p, e) /\ by_in' = [by_in EXCEPT ![p][f.ch] = s]
        /\ task' = Set(task, e, "offered") /\ UNCHANGED conn
    BY <1>1, <1>5
  <2>2. task[e] = "none"
    BY <1>1, <1>2, NewAtListener
  <2>3. /\ by_out'[p][h] = s
        /\ \A d \in Channel : d # h => by_out'[p][d] = by_out[p][d]
        /\ \A q \in Peer : q # p => by_out'[q] = by_out[q]
        /\ \A x \in Endpoint : x # e => chan'[x] = chan[x]
    BY <1>3, <1>5, <2>1, Allocated
  <2>4. e \in Endpoint /\ task \in [Endpoint -> Tasks]
    BY <1>3, EndpointFacts DEF Inv, TypeOK
  <2> HIDE DEF h, e
  <2>5. task'[e] = "offered" /\ \A x \in Endpoint : x # e => task'[x] = task[x]
    BY <2>1, <2>4 DEF Set
  <2>6. /\ by_in'[p][f.ch] = s
        /\ \A y \in Channel : y # f.ch => by_in'[p][y] = by_in[p][y]
        /\ \A q \in Peer : q # p => by_in'[q] = by_in[q]
    BY <1>3, <2>1, InMap, ZenonT(60) DEF Inv
  <2>7. Notes(p, f)
    BY <1>2, <1>3, <2>6 DEF Notes
  <2>8. ASSUME NEW q \in Peer, NEW t \in Sessions
        PROVE  SenderOK(q, t)' /\ PipeOK(q, t)' /\ (Over(q, t) => Over(q, t)')
    <3>1. CASE q = p /\ t = s
      BY <1>1, <1>2, <2>2, <2>5, <3>1, FreshSender DEF Arrives, e
    <3>2. CASE q # p \/ t # s
      <4>1. <<q, t>> \in Endpoint /\ <<q, t>> # e
        BY <3>2, EndpointFacts DEF e
      <4>2. SameSender(q, t)
        BY <1>1, <2>3, <2>5, <4>1 DEF SameSender
      <4>3. CASE q = p
        BY <1>2, <1>3, <2>6, <4>2, <4>3, SenderKeeps DEF Arrives
      <4>4. CASE q = Client
        BY <1>2, <1>3, <2>7, <4>2, <4>4, ArrivalSender
      <4> QED
        BY <1>1, <4>3, <4>4, PeerFacts
    <3> QED
      BY <3>1, <3>2
  <2>9. ASSUME NEW q \in Peer, NEW t \in Sessions
        PROVE  /\ task'[<<q, t>>] \in {"stopping", "gone"} => task[<<q, t>>] \in {"stopping", "gone"}
               /\ task'[<<q, t>>] \in Unborn => task[<<q, t>>] \in Unborn
    <3>1. <<q, t>> \in Endpoint
      BY EndpointFacts
    <3> QED
      BY <2>5, <3>1 DEF Unborn
  <2>10. ASSUME NEW q \in Peer, NEW t \in Sessions
         PROVE  ReceiverOK(q, t)'
    <3>1. Other(q) \in Peer
      BY PeerFacts
    <3> QED
      BY <1>1, <2>8, <2>9, <3>1, ReceiverKeeps
  <2>11. ASSUME NEW q \in Peer, NEW t \in Sessions
         PROVE  MapsOK(q, t)'
    <3>1. task'[<<p, s>>] \notin Unborn
      BY <2>5 DEF Unborn, e
    <3>2. ASSUME NEW c \in Channel, by_out'[q][c] = t
          PROVE  by_out[q][c] = t \/ task'[<<q, t>>] \notin Unborn
      BY <2>3, <3>1, <3>2
    <3>3. ASSUME NEW c \in Channel, by_in'[q][c] = t
          PROVE  by_in[q][c] = t \/ task'[<<q, t>>] \notin Unborn
      BY <2>6, <3>1, <3>3
    <3> QED
      BY <2>9, <3>2, <3>3, MapsKeep
  <2> QED
    BY <2>1, <2>8, <2>10, <2>11 DEF Good
<1> QED
  BY <1>4, <1>5

\* The session takes the frame: it is there, and its peer's End is the last it gets.
LEMMA GoodForward ==
  ASSUME Inv, Good, ~Cause, NEW p \in Peer, Forward(p)
  PROVE  Good'
<1>0. PICK s, f : s = forwarding[p][1][1] /\ f = forwarding[p][1][2]
  OBVIOUS
<1> DEFINE q == Other(p)
           fw == forwarding[p]
           e == <<p, s>>
<1>1. /\ fw # <<>>
      /\ IF Listening(e) THEN incoming' = [incoming EXCEPT ![e] = Append(@, f)] /\ UNCHANGED conn
         ELSE Fail(p, "NotFound") /\ UNCHANGED incoming
      /\ forwarding' = [forwarding EXCEPT ![p] = <<>>]
      /\ UNCHANGED <<by_out, by_in, outgoing, wire, task, state, chan, sending>>
  BY <1>0 DEF Forward
<1>2. s \in Sessions /\ f \in Frames /\ s = f.s /\ 1 \in 1 .. Len(fw)
  BY <1>0, <1>1, ForwardFacts
<1>3. q \in Peer /\ q # p /\ Other(q) = p
  BY PeerFacts
<1>4. /\ forwarding \in [Peer -> Seq(Sessions \X Frames)] /\ incoming \in [Endpoint -> Seq(Frames)]
      /\ e \in Endpoint /\ task[e] \in Tasks
  BY <1>2, EndpointTypes DEF Inv, TypeOK
<1>5. Relays(fw, s) /\ (f.type = "end" => RelaysEnd(fw, s))
  BY <1>0, <1>2 DEF Relays, RelaysEnd
<1> HIDE DEF fw
<1>6. ReceiverOK(q, s)
  BY <1>2, <1>3 DEF Good
<1>7. /\ task[e] \notin Unborn \cup {"stopping", "gone"} /\ ~EndIn(incoming[e], s)
      /\ EndLast(incoming[e], s) /\ (f.type = "end" => Over(q, s))
  BY <1>3, <1>5, <1>6 DEF ReceiverOK, fw
<1>8. task[e] # "dropped"
  BY <1>4 DEF Cause
<1>9. Listening(e)
  BY <1>4, <1>7, <1>8 DEF Listening, Tasks, Unborn
<1>10. /\ incoming' = [incoming EXCEPT ![e] = Append(incoming[e], f)] /\ UNCHANGED conn
       /\ forwarding'[p] = <<>> /\ forwarding'[q] = forwarding[q]
  BY <1>1, <1>3, <1>4, <1>9
<1>11. incoming'[e] = Append(incoming[e], f) /\ \A x \in Endpoint : x # e => incoming'[x] = incoming[x]
  BY <1>4, <1>10
<1>12. \A r \in Peer : Pipe(r)' = Pipe(r)
  BY <1>1 DEF Pipe
<1>13. ASSUME NEW r \in Peer, NEW t \in Sessions
       PROVE  SenderOK(r, t)' /\ PipeOK(r, t)' /\ (Over(r, t) => Over(r, t)')
  <2>1. SameSender(r, t)
    BY <1>1 DEF SameSender
  <2> QED
    BY <1>1, <1>12, <2>1, SenderKeeps
<1>14. \A t \in Sessions : ~Relays(forwarding'[p], t) /\ ~RelaysEnd(forwarding'[p], t)
  BY <1>10, FewFrames
<1>15. ReceiverOK(q, s)'
  <2>1. incoming[e] \in Seq(Frames)
    BY <1>4
  <2>2. /\ EndLast(incoming'[e], s)
        /\ EndIn(incoming'[e], s) => f.type = "end"
    BY <1>2, <1>7, <1>11, <2>1, Grows
  <2>3. task'[e] \notin {"stopping", "gone"}
    BY <1>1, <1>7
  <2>4. EndIn(incoming'[e], s) => Over(q, s)'
    BY <1>2, <1>3, <1>7, <1>13, <2>2
  <2> QED
    BY <1>2, <1>3, <1>14, <2>2, <2>3, <2>4 DEF ReceiverOK
<1>16. ASSUME NEW r \in Peer, NEW t \in Sessions, r # q \/ t # s
       PROVE  ReceiverOK(r, t)'
  <2>1. Other(r) \in Peer /\ (Other(r) # p \/ t # s)
    BY <1>3, <1>16, PeerFacts
  <2>2. <<Other(r), t>> \in Endpoint /\ <<Other(r), t>> # e
    BY <2>1, EndpointFacts
  <2>3. incoming'[<<Other(r), t>>] = incoming[<<Other(r), t>>]
    BY <1>11, <2>2
  <2>4. /\ Relays(forwarding'[Other(r)], t) => Relays(forwarding[Other(r)], t)
        /\ RelaysEnd(forwarding'[Other(r)], t) => RelaysEnd(forwarding[Other(r)], t)
    <3>1. CASE Other(r) = p
      BY <1>14, <3>1
    <3>2. CASE Other(r) = q
      BY <1>10, <3>2
    <3> QED
      BY <1>3, <2>1, <3>1, <3>2, PeerFacts
  <2> QED
    BY <1>1, <1>13, <2>3, <2>4, ReceiverKeeps
<1>17. ASSUME NEW r \in Peer, NEW t \in Sessions
       PROVE  ReceiverOK(r, t)' /\ MapsOK(r, t)'
  <2>1. MapsOK(r, t)'
    BY <1>1, MapsKeep
  <2> QED
    BY <1>15, <1>16, <2>1
<1> QED
  BY <1>10, <1>13, <1>17 DEF Good

-----------------------------------------------------------------------------
(* A cause is there for good.                                              *)

\* Who has dropped a session, and who has stopped, does not come back.
Lasts(x) ==
  /\ task[x] = "dropped" => task'[x] = "dropped"
  /\ task[x] \in {"stopping", "gone"} =>
       task'[x] \in {"stopping", "gone"} /\ outcome'[x] = outcome[x]
Lasting ==
  /\ late \subseteq late'
  /\ \A x \in Endpoint : Lasts(x)
  /\ conn[Listener] # "Opened" => conn'[Listener] = conn[Listener]

\* What lasts stays a cause.
LEMMA LastingCause ==
  ASSUME Cause, Lasting
  PROVE  Cause'
<1>1. CASE late # {}
  <2>1. late' # {}
    BY <1>1 DEF Lasting
  <2> QED
    BY <2>1 DEF Cause
<1>2. ASSUME NEW e \in Endpoint, task[e] = "dropped"
      PROVE  Cause'
  <2>1. task'[e] = "dropped"
    BY <1>2 DEF Lasting, Lasts
  <2> QED
    BY <2>1 DEF Cause
<1>3. ASSUME NEW e \in Endpoint, task[e] \in {"stopping", "gone"}, outcome[e] = "UnattachedHandle"
      PROVE  Cause'
  <2>1. task'[e] \in {"stopping", "gone"} /\ outcome'[e] = "UnattachedHandle"
    BY <1>3 DEF Lasting, Lasts
  <2> QED
    BY <2>1 DEF Cause
<1>4. CASE conn[Listener] = "NotImplemented"
  <2>1. conn'[Listener] = "NotImplemented"
    BY <1>4 DEF Lasting
  <2> QED
    BY <2>1 DEF Cause
<1> QED
  BY <1>1, <1>2, <1>3, <1>4 DEF Cause

\* A step of a session that runs changes its own task and outcome.
LEMMA OneLasts ==
  ASSUME TypeOK, NEW e \in Endpoint, task[e] \notin {"dropped", "stopping", "gone"},
         \/ task' = task
         \/ \E t : task' = [task EXCEPT ![e] = t],
         \/ outcome' = outcome
         \/ \E o : outcome' = [outcome EXCEPT ![e] = o]
  PROVE  \A x \in Endpoint : Lasts(x)
<1>1. task \in [Endpoint -> Tasks] /\ outcome \in [Endpoint -> Outcomes]
  BY DEF TypeOK
<1>2. \A x \in Endpoint : x # e => task'[x] = task[x] /\ outcome'[x] = outcome[x]
  BY <1>1
<1> QED
  BY <1>2 DEF Lasts

\* The steps of the sessions.
LEMMA SessionLasting ==
  ASSUME TypeOK, NEW p \in Peer, NEW s \in Sessions, SessionStep(p, s)
  PROVE  Lasting
<1> DEFINE e == <<p, s>>
<1>0. e \in Endpoint /\ e[1] = p
  BY EndpointFacts
<1>1. CASE HandOver(p, s)
  BY <1>1 DEF HandOver, Lasting, Lasts
<1>2. CASE OnOutgoingLinkFrames(p, s)
  BY <1>2 DEF OnOutgoingLinkFrames, Lasting, Lasts, conns
<1>3. CASE OnControlEnd(p, s)
  <2>1. /\ task[e] = "select" /\ conn' = conn /\ late' = late
        /\ task' = task \/ \E t : task' = [task EXCEPT ![e] = t]
        /\ outcome' = outcome \/ \E o : outcome' = [outcome EXCEPT ![e] = o]
    BY <1>3 DEF OnControlEnd, Selects, conns, Set
  <2> QED
    BY <1>0, <2>1, OneLasts DEF Lasting
<1>4. CASE OnIncomingAsk(p, s)
  BY <1>4 DEF OnIncomingAsk, Lasting, Lasts, conns
<1>5. CASE OnIncomingAnswer(p, s) \/ Discard(p, s)
  BY <1>5 DEF OnIncomingAnswer, Discard, Lasting, Lasts, conns
<1>6. CASE OnIncomingBad(p, s)
  <2>1. /\ task[e] \in {"select", "waiting"} /\ conn' = conn /\ late' = late
        /\ outcome' = [outcome EXCEPT ![e] = "UnattachedHandle"]
    BY <1>6 DEF OnIncomingBad, conns, Set
  <2>2. \E t : task' = [task EXCEPT ![e] = t]
    BY <1>6 DEF OnIncomingBad, Set
  <2> QED
    BY <1>0, <2>1, <2>2, OneLasts DEF Lasting
<1>7. CASE OnIncomingEndFirst(p, s)
  <2>1. /\ task[e] = "select" /\ conn' = conn /\ late' = late
        /\ task' = [task EXCEPT ![e] = "stopping"]
        /\ \E o : outcome' = [outcome EXCEPT ![e] = o]
    BY <1>7 DEF OnIncomingEndFirst, conns, Set
  <2> QED
    BY <1>0, <2>1, OneLasts DEF Lasting
<1>8. CASE OnIncomingEndSecond(p, s)
  <2>1. /\ task[e] \in {"select", "waiting", "discarding"} /\ conn' = conn /\ late' = late
        /\ task' = [task EXCEPT ![e] = "stopping"]
        /\ \E o : outcome' = [outcome EXCEPT ![e] = o]
    BY <1>8 DEF OnIncomingEndSecond, conns, Set
  <2> QED
    BY <1>0, <2>1, OneLasts DEF Lasting
<1>9. CASE Stop(p, s)
  <2>1. /\ task[e] = "stopping" /\ task' = [task EXCEPT ![e] = "gone"]
        /\ UNCHANGED <<conn, outcome, late>>
    BY <1>9 DEF Stop, Set
  <2>2. \A x \in Endpoint : Lasts(x)
    BY <1>0, <2>1 DEF Lasts, TypeOK
  <2> QED
    BY <2>1, <2>2 DEF Lasting
<1> QED
  BY <1>1, <1>2, <1>3, <1>4, <1>5, <1>6, <1>7, <1>8, <1>9 DEF SessionStep

\* Beginning a session and asking something of it.
LEMMA BeginLasting ==
  ASSUME TypeOK, NEW s \in Sessions,
         BeginStep(s) \/ Begin(s) \/ CancelBegin(s) \/ Refuse(s)
  PROVE  Lasting
<1> DEFINE c == <<Client, s>>
           l == <<Listener, s>>
<1>1. c \in Endpoint /\ l \in Endpoint
  BY PeerFacts, EndpointFacts
<1>2. /\ conn' = conn /\ late' = late /\ outcome' = outcome
      /\ \/ task[c] \in {"none", "alloc", "begin", "answer"} /\ \E t : task' = [task EXCEPT ![c] = t]
         \/ task[l] = "offered" /\ \E t : task' = [task EXCEPT ![l] = t]
  <2>1. CASE SendBegin(s)
    BY <2>1 DEF SendBegin, conns, Set
  <2>2. CASE OnIncomingBeginFrame(s)
    BY <2>2 DEF OnIncomingBeginFrame, conns, Set
  <2>3. CASE Accept(s)
    BY <2>3 DEF Accept, conns, Set
  <2>4. CASE Begin(s)
    BY <2>4 DEF Begin, Set
  <2>5. CASE CancelBegin(s)
    BY <2>5 DEF CancelBegin, conns, Set
  <2>6. CASE Refuse(s)
    BY <2>6 DEF Refuse, conns, Set
  <2> QED
    BY <2>1, <2>2, <2>3, <2>4, <2>5, <2>6 DEF BeginStep
<1> HIDE DEF c, l
<1>3. \A x \in Endpoint : Lasts(x)
  BY <1>1, <1>2, OneLasts
<1> QED
  BY <1>2, <1>3 DEF Lasting

\* The steps of the engines: one that has stopped does nothing but stop its sessions.
LEMMA ConnectionLasting ==
  ASSUME Inv, NEW p \in Peer, ConnectionStep(p)
  PROVE  Lasting
<1>0. /\ TypeOK /\ task \in [Endpoint -> Tasks] /\ outcome \in [Endpoint -> Outcomes]
      /\ conn \in [Peer -> {"Opened", "NotFound", "IllegalState", "NotImplemented", "RemoteClosed"}]
      /\ Listener \in Peer
  BY PeerFacts DEF Inv, TypeOK
<1>1. CASE conn[p] = "Opened" /\ UNCHANGED <<task, outcome, late>>
           /\ (conn' = conn \/ \E r : conn' = [conn EXCEPT ![p] = r])
  BY <1>0, <1>1 DEF Lasting, Lasts
<1>2. CASE OnControlAllocate(p)
  <2> DEFINE C == control[p]
             s == Head(C).s
             e == <<p, s>>
  <2>1. /\ C # <<>> /\ Head(C).op = "allocate" /\ conn[p] = "Opened" /\ late' = late
        /\ \/ task[e] = "dropped" /\ (\E r : conn' = [conn EXCEPT ![p] = r]) /\ UNCHANGED <<task, outcome>>
           \/ /\ task[e] # "dropped" /\ conn' = conn
              /\ \E t : task' = [task EXCEPT ![e] = t]
              /\ outcome' = outcome \/ \E o : outcome' = [outcome EXCEPT ![e] = o]
    BY <1>2 DEF OnControlAllocate, Runs, Fail, Set
  <2>2. s \in Sessions /\ task[e] \in {"alloc", "dropped"}
    <3>1. C \in Seq(Requests)
      BY DEF Inv, TypeOK
    <3>2. Head(C) = C[1] /\ 1 \in 1 .. Len(C)
      BY <2>1, <3>1, Dropped
    <3>3. RequestOK(C[1], p, task[<<p, C[1].s>>], conn[p], by_out[p]) /\ C[1].s \in Sessions
      BY <3>2, RequestFacts DEF Inv, Requested
    <3> QED
      BY <2>1, <3>2, <3>3 DEF RequestOK
  <2>3. e \in Endpoint
    BY <2>2, EndpointFacts
  <2> HIDE DEF C, s, e
  <2>4. CASE task[e] = "dropped"
    BY <1>1, <2>1, <2>4
  <2>5. CASE task[e] # "dropped"
    <3>1. \A x \in Endpoint : Lasts(x)
      BY <1>0, <2>1, <2>2, <2>3, <2>5, OneLasts DEF e
    <3> QED
      BY <2>1, <2>5, <3>1 DEF Lasting
  <2> QED
    BY <2>4, <2>5
<1>3. CASE OnControlDeallocate(p) \/ OnOutgoingSessionFrames(p)
  BY <1>1, <1>3 DEF OnControlDeallocate, OnOutgoingSessionFrames, Runs, tasks
<1>4. CASE OnIncomingBeginAnswer(p) \/ OnIncomingSessionFrame(p) \/ OnIncomingClose(p)
  BY <1>1, <1>4 DEF OnIncomingBeginAnswer, OnIncomingSessionFrame, OnIncomingClose, Arrived, Runs,
                    Fail, Set, tasks
<1>5. CASE Forward(p)
  BY <1>1, <1>5 DEF Forward, Fail, Set
<1>6. CASE OnIncomingBegin(p)
  <2> DEFINE f == Head(wire[Other(p)])
             e == <<p, f.s>>
  <2>1. /\ p = Listener /\ Arrived(p, {"begin"}) /\ conn[p] = "Opened"
        /\ UNCHANGED <<outgoing, outcome, late>>
        /\ \/ (\E r : conn' = [conn EXCEPT ![p] = r]) /\ task' = task
           \/ conn' = conn /\ \E t : task' = [task EXCEPT ![e] = t]
    BY <1>6 DEF OnIncomingBegin, Arrived, Runs, Fail, Set
  <2>2. Arrives(p, f) /\ f \in Frames /\ f.type = "begin"
    BY <2>1, ArrivedPipe
  <2>3. task[e] = "none" /\ e \in Endpoint
    BY <2>1, <2>2, NewAtListener, FrameFacts, EndpointFacts
  <2> HIDE DEF f, e
  <2>4. \A x \in Endpoint : Lasts(x)
    BY <1>0, <2>1, <2>3, OneLasts
  <2> QED
    BY <2>1, <2>4 DEF Lasting
<1>7. CASE OnConnectionStopped(p)
  <2>1. /\ UNCHANGED <<conn, late>>
        /\ \A x \in Endpoint :
             /\ task'[x] \in {task[x], "failed", "gone"}
             /\ task[x] \in {"dropped", "gone"} => task'[x] = task[x] /\ outcome'[x] = outcome[x]
             /\ task[x] = "stopping" => task'[x] \in {"stopping", "gone"} /\ outcome'[x] = outcome[x]
    BY <1>7 DEF OnConnectionStopped, conns, Listening
  <2> QED
    BY <2>1 DEF Lasting, Lasts
<1> QED
  BY <1>2, <1>3, <1>4, <1>5, <1>6, <1>7 DEF ConnectionStep

\* A cause is there for good.
LEMMA CauseStays ==
  ASSUME Inv, Cause, [Next]_vars
  PROVE  Cause'
<1>1. TypeOK
  BY DEF Inv
<1>2. ASSUME NEW p \in Peer, NEW s \in Sessions, LinkSends(p, s) \/ AskEnd(p, s)
      PROVE  Lasting
  BY <1>2 DEF LinkSends, AskEnd, conns, Lasting, Lasts
<1>3. ASSUME UNCHANGED vars
      PROVE  Lasting
  BY <1>3 DEF vars, conns, tasks, Lasting, Lasts
<1>4. Lasting
  BY <1>1, <1>2, <1>3, ConnectionLasting, SessionLasting, BeginLasting DEF Next
<1> QED
  BY <1>4, LastingCause

-----------------------------------------------------------------------------
(* The theorem.                                                            *)

\* At the start nothing is under way.
LEMMA InitGood ==
  ASSUME Init
  PROVE  Good
<1>1. \A q \in Peer : conn[q] = "Opened" /\ forwarding[q] = <<>> /\ Pipe(q) = <<>>
  BY DEF Init, Pipe
<1>2. ASSUME NEW q \in Peer, NEW s \in Sessions
      PROVE  SenderOK(q, s) /\ PipeOK(q, s) /\ ReceiverOK(q, s) /\ MapsOK(q, s)
  <2> DEFINE e == <<q, s>>
             x == <<Other(q), s>>
  <2>1. e \in Endpoint /\ x \in Endpoint /\ Other(q) \in Peer /\ s # NoSession
    BY PeerFacts, EndpointFacts, SubsetAssumption
  <2>2. /\ task[e] = "none" /\ sending[e] = <<>> /\ task[x] = "none" /\ incoming[x] = <<>>
        /\ Pipe(q) = <<>> /\ forwarding[Other(q)] = <<>>
    BY <1>1, <2>1 DEF Init
  <2>3. /\ ~Of(<<>>, s) /\ ~EndIn(<<>>, s) /\ EndLast(<<>>, s) /\ ~HasBegin(<<>>, s)
        /\ ~Relays(<<>>, s) /\ ~RelaysEnd(<<>>, s)
    BY FewFrames
  <2>4. \A i : ~(i \in 1 .. Len(<<>>))
    OBVIOUS
  <2>5. ~Ended(e) /\ ~Speaking(q, s)
    BY <2>2 DEF Ended, HasEnded, Speaking, Active, Looping
  <2>6. SenderOK(q, s)
    BY <2>2, <2>3, <2>5 DEF SenderOK
  <2>7. PipeOK(q, s)
    BY <2>2, <2>3, <2>4 DEF PipeOK, OnChannel, Announced
  <2>8. ReceiverOK(q, s)
    BY <2>2, <2>3 DEF ReceiverOK
  <2>9. MapsOK(q, s)
    BY <2>1 DEF Init, MapsOK
  <2> QED
    BY <2>6, <2>7, <2>8, <2>9
<1> QED
  BY <1>1, <1>2 DEF Good

\* Every step keeps the order or gives cause.
LEMMA GoodNext ==
  ASSUME Inv, Good, ~Cause, [Next]_vars
  PROVE  Cause' \/ Good'
<1>1. ASSUME NEW p \in Peer, ConnectionStep(p)
      PROVE  Cause' \/ Good'
  <2>1. conn[p] = "Opened" /\ conn[Other(p)] = "Opened"
    BY PeerFacts DEF Good
  <2>2. ~OnIncomingClose(p) /\ ~OnConnectionStopped(p)
    BY <2>1 DEF OnIncomingClose, OnConnectionStopped
  <2> QED
    BY <1>1, <2>2, GoodAllocate, GoodDeallocate, GoodOutgoing, GoodBeginAnswer, GoodIncomingBegin,
       GoodSessionFrame, GoodForward DEF ConnectionStep
<1>2. ASSUME NEW p \in Peer, NEW s \in Sessions, SessionStep(p, s)
      PROVE  Cause' \/ Good'
  BY <1>2, GoodHandOver, TurnLinkFrames, TurnControlEnd, TurnAsk, TurnTake, TurnBad, TurnEndFirst,
     TurnEndSecond, GoodStop DEF SessionStep
<1>3. ASSUME NEW s \in Sessions, BeginStep(s) \/ Begin(s) \/ CancelBegin(s) \/ Refuse(s)
      PROVE  Cause' \/ Good'
  BY <1>3, GoodSendBegin, GoodBeginFrame, GoodAccept, GoodBegin, CauseDrops DEF BeginStep
<1>4. ASSUME NEW p \in Peer, NEW s \in Sessions, LinkSends(p, s) \/ AskEnd(p, s)
      PROVE  Cause' \/ Good'
  BY <1>4, TurnAsks
<1>5. ASSUME UNCHANGED vars
      PROVE  Good'
  <2>1. UNCHANGED <<conn, by_in, by_out, outgoing, wire, forwarding, task, state, chan, incoming, sending>>
    BY <1>5 DEF vars, conns, tasks
  <2>2. \A q \in Peer : Pipe(q)' = Pipe(q)
    BY <2>1 DEF Pipe
  <2> QED
    BY <2>1, <2>2, GoodStays
<1> QED
  BY <1>1, <1>2, <1>3, <1>4, <1>5 DEF Next

\* Sessions of any number begin and end over a connection in any order, with their frames
\* crossing in both directions, and neither engine meets a frame for a session it does not
\* know: its NotFound and IllegalState errors come behind a dropped begin() or
\* IncomingSession, an errant link, a frame sent behind an End or a listener without a free
\* channel (forward_to_session, on_incoming_begin and on_incoming_end of the engines).
THEOREM Outliving == Spec => []ConnectionOutlivesSessions
<1>1. Init => Orderly
  BY InitGood DEF Orderly
<1>2. Inv /\ Orderly /\ [Next]_vars => Orderly'
  BY CauseStays, GoodNext DEF Orderly
<1>3. Orderly => ConnectionOutlivesSessions
  BY DEF Orderly, Cause, Good, ConnectionOutlivesSessions, Provoked
<1> QED
  BY <1>1, <1>2, <1>3, Invariance, PTL DEF Spec

=============================================================================
