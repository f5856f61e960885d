-------------------------- MODULE NegotiationProofs --------------------------
(***************************************************************************)
(* Proofs about Negotiation, for every set of configurations and limits:   *)
(* what the exchange of Open agrees on, who is authenticated, and that     *)
(* nobody reads one layer with the codec of another.  The first invariant  *)
(* says what every item in the streams and buffers may hold, given the     *)
(* configuration and who has passed the SASL layer; the second one, at the *)
(* end, which items may follow each other and where their writer and their *)
(* reader are while they are unread.                                       *)
(***************************************************************************)
EXTENDS Negotiation, SequenceTheorems, TLAPS

-----------------------------------------------------------------------------
(* The invariant.                                                          *)

\* What the contents of the streams depend on.
Config ==
  [open |-> [p \in Party |-> LocalOpen(p)], mech |-> SaslMechanisms, prof |-> Profile,
   resp |-> InitialResponse, pw |-> plan.client.password, key |-> StoredPassword.server_key,
   tr |-> trust["server"]]

\* What an item written by p may be.
Good(p, i, c) ==
  /\ i.k = "open" => i.v = c.open[p]
  /\ i.k = "full" => i.v = c.open[Peer(p)].frame
  /\ p = "server" =>
       /\ i.k = "mechanisms" => i.v = c.mech
       /\ i.k = "outcome" /\ i.v.code = "ok" =>
            /\ c.tr
            /\ i.v.data = <<>> \/ \E a : i.v.data = Hmac(c.key, a)
  /\ p = "client" =>
       /\ i.k = "init" => c.prof \in c.mech /\ i.v = [mechanism |-> c.prof, response |-> c.resp]
       /\ i.k = "response" /\ c.prof \in Scrams =>
            \E salt, a : i.v.proof = ClientProof(Salted(c.prof, c.pw, salt), a)

\* A sequence of items that p wrote.
Holds(p, s, c) == \E S : s \in Seq(S) /\ \A i \in S : Good(p, i, c)

Streams == \A p \in Party : Holds(p, wire[p], Config) /\ Holds(Peer(p), buf[p], Config)

Domains ==
  /\ DOMAIN pc = Party /\ DOMAIN result = Party /\ DOMAIN wire = Party /\ DOMAIN buf = Party
  /\ DOMAIN scram = Party /\ trust \in [Party -> BOOLEAN] /\ DOMAIN limits = Party
  /\ DOMAIN hungup = Party

PlanOK == plan \in [client : Builders, server : Acceptors, fault : {"none", "cut", "slow"}]

\* The SASL layer is entered by who has one.
Layered == \A p \in Party : pc[p] \in {"saslHeader", "sasl"} => HasSasl(p)

\* What the two authenticators remember.
Remembered ==
  /\ scram["server"].at = "ServerFirstSent" =>
       Profile = plan.server.sasl /\ plan.client.user = plan.server.user
  /\ scram["client"].at = "ClientFinalSent" =>
       \E salt, a : scram["client"].signature =
                      Hmac(ServerKey(Salted(Profile, plan.client.password, salt)), a)

\* What the Open of the other side leaves in the connection.
Agreed(p) ==
  [encoder   |-> EncoderSize(LocalOpen(Peer(p)).frame),
   decoder   |-> DecoderSize(LocalOpen(p).frame),
   channels  |-> Min2(plan[p].channels, LocalOpen(Peer(p)).channels),
   heartbeat |-> LocalOpen(Peer(p)).idle]

Exchange == \A p \in Party : result[p] = "ok" \/ pc[p] = "opened" => limits[p] = Agreed(p)

Inv == /\ PlanOK /\ Domains /\ Streams /\ Layered /\ Remembered /\ Authenticated /\ Exchange

-----------------------------------------------------------------------------
(* Items and sequences.                                                    *)

\* There are two parties, each the other's peer.
LEMMA PartyFacts ==
  /\ "client" \in Party /\ "server" \in Party /\ Peer("client") = "server" /\ Peer("server") = "client"
  /\ \A p \in Party : Peer(p) \in Party /\ Peer(p) # p /\ Peer(Peer(p)) = p
BY DEF Party, Peer

\* A sequence of good items is good.
LEMMA HoldsBy ==
  ASSUME NEW p, NEW c, NEW S, NEW s \in Seq(S), \A i \in S : Good(p, i, c)
  PROVE  Holds(p, s, c)
BY DEF Holds

\* Nothing sent is good.
LEMMA HoldsEmpty ==
  ASSUME NEW p, NEW c
  PROVE  Holds(p, <<>>, c)
<1> DEFINE S == {}
<1>1. <<>> \in Seq(S) /\ \A i \in S : Good(p, i, c)
  OBVIOUS
<1> HIDE DEF S
<1> QED
  BY <1>1, HoldsBy

\* Every part of a good sequence is good, its head included.
LEMMA HoldsPart ==
  ASSUME NEW p, NEW s, NEW c, Holds(p, s, c)
  PROVE  /\ s # <<>> => Good(p, Head(s), c) /\ Holds(p, Tail(s), c)
         /\ \A n \in 1 .. Len(s) : /\ Holds(p, SubSeq(s, 1, n), c)
                                   /\ Holds(p, SubSeq(s, n + 1, Len(s)), c)
<1>1. PICK S : s \in Seq(S) /\ \A i \in S : Good(p, i, c)
  BY DEF Holds
<1>2. s # <<>> => Head(s) \in S /\ Tail(s) \in Seq(S)
  BY <1>1
<1>3. ASSUME NEW n \in 1 .. Len(s)
      PROVE  SubSeq(s, 1, n) \in Seq(S) /\ SubSeq(s, n + 1, Len(s)) \in Seq(S)
  BY <1>1
<1> QED
  BY <1>1, <1>2, <1>3 DEF Holds

\* Two good sequences after each other are good.
LEMMA HoldsMore ==
  ASSUME NEW p, NEW s, NEW c, Holds(p, s, c), NEW t, Holds(p, t, c)
  PROVE  Holds(p, s \o t, c)
<1>1. PICK S : s \in Seq(S) /\ \A i \in S : Good(p, i, c)
  BY DEF Holds
<1>2. PICK T : t \in Seq(T) /\ \A i \in T : Good(p, i, c)
  BY DEF Holds
<1>3. s \in Seq(S \cup T) /\ t \in Seq(S \cup T)
  BY <1>1, <1>2
<1>4. s \o t \in Seq(S \cup T)
  BY <1>3
<1>5. \A i \in S \cup T : Good(p, i, c)
  BY <1>1, <1>2
<1> QED
  BY <1>4, <1>5 DEF Holds

\* One or two good items make a good sequence.
LEMMA HoldsItems ==
  ASSUME NEW p, NEW c, NEW a, Good(p, a, c)
  PROVE  /\ Holds(p, <<a>>, c)
         /\ \A b : Good(p, b, c) => Holds(p, <<a, b>>, c)
<1>1. Holds(p, <<a>>, c)
  <2> DEFINE S == {a}
             s == <<a>>
  <2>1. s \in Seq(S) /\ \A i \in S : Good(p, i, c)
    OBVIOUS
  <2> HIDE DEF S, s
  <2>2. Holds(p, s, c)
    BY <2>1, HoldsBy
  <2> QED
    BY <2>2 DEF s
<1>2. ASSUME NEW b, Good(p, b, c)
      PROVE  Holds(p, <<a, b>>, c)
  <2> DEFINE S == {a, b}
             s == <<a, b>>
  <2>1. s \in Seq(S) /\ \A i \in S : Good(p, i, c)
    BY <1>2
  <2> HIDE DEF S, s
  <2>2. Holds(p, s, c)
    BY <2>1, HoldsBy
  <2> QED
    BY <2>2 DEF s
<1> QED
  BY <1>1, <1>2

-----------------------------------------------------------------------------
(* What the parts of an action do to the streams, the buffers and control. *)

\* The streams and the buffers hold what they may.
Wires(w, c) == \A q \in Party : Holds(q, w[q], c)
Buffers(b, c) == \A q \in Party : Holds(Peer(q), b[q], c)

\* Sending good items leaves the streams good.
LEMMA Sends ==
  ASSUME DOMAIN wire = Party, NEW c, Wires(wire, c), NEW p \in Party, NEW items,
         Holds(p, items, c), Sent(p, items)
  PROVE  DOMAIN wire' = Party /\ Wires(wire', c)
<1>1. DOMAIN wire' = Party
  BY DEF Sent
<1>2. ASSUME NEW q \in Party
      PROVE  Holds(q, wire'[q], c)
  <2>1. CASE q # p
    BY <2>1 DEF Sent, Wires
  <2>2. CASE q = p /\ cut
    BY <2>2 DEF Sent, Wires
  <2>3. CASE q = p /\ ~cut
    <3>1. wire'[q] = wire[p] \o items
      BY <2>3 DEF Sent
    <3>2. Holds(p, wire[p], c)
      BY DEF Wires
    <3> QED
      BY <2>3, <3>1, <3>2, HoldsMore
  <2> QED
    BY <2>1, <2>2, <2>3
<1> QED
  BY <1>1, <1>2 DEF Wires

\* Reading one item and answering with good ones leaves the streams good.
LEMMA Exchanges ==
  ASSUME DOMAIN wire = Party, NEW c, Wires(wire, c), NEW p \in Party, NEW items,
         Holds(p, items, c), Exchanged(p, items), wire[Peer(p)] # <<>>
  PROVE  DOMAIN wire' = Party /\ Wires(wire', c)
<1>1. DOMAIN wire' = Party
  BY DEF Exchanged
<1>2. ASSUME NEW q \in Party
      PROVE  Holds(q, wire'[q], c)
  <2>1. CASE q # p
    <3>1. q = Peer(p) /\ wire'[q] = Tail(wire[q])
      BY <2>1 DEF Exchanged, Party, Peer
    <3>2. Holds(q, wire[q], c) /\ wire[q] # <<>>
      BY <3>1 DEF Wires
    <3> QED
      BY <3>1, <3>2, HoldsPart
  <2>2. CASE q = p /\ cut
    <3>1. wire'[q] = wire[q]
      BY <2>2, PartyFacts DEF Exchanged
    <3> QED
      BY <3>1 DEF Wires
  <2>3. CASE q = p /\ ~cut
    <3>1. wire'[q] = wire[p] \o items
      BY <2>3, PartyFacts DEF Exchanged
    <3>2. Holds(p, wire[p], c)
      BY DEF Wires
    <3> QED
      BY <2>3, <3>1, <3>2, HoldsMore
  <2> QED
    BY <2>1, <2>2, <2>3
<1> QED
  BY <1>1, <1>2 DEF Wires

\* Taking from the buffer leaves it good, and what is taken is good.
LEMMA Takes ==
  ASSUME DOMAIN buf = Party, NEW c, Buffers(buf, c), NEW p \in Party, buf[p] # <<>>
  PROVE  /\ Taken(p) => DOMAIN buf' = Party /\ Buffers(buf', c)
         /\ Good(Peer(p), Head(buf[p]), c)
<1>1. Holds(Peer(p), buf[p], c)
  BY DEF Buffers
<1>2. Good(Peer(p), Head(buf[p]), c) /\ Holds(Peer(p), Tail(buf[p]), c)
  BY <1>1, HoldsPart
<1>3. ASSUME Taken(p)
      PROVE  DOMAIN buf' = Party /\ Buffers(buf', c)
  <2>1. DOMAIN buf' = Party
    BY <1>3 DEF Taken
  <2>2. ASSUME NEW q \in Party
        PROVE  buf'[q] = IF q = p THEN Tail(buf[p]) ELSE buf[q]
    BY <1>3 DEF Taken
  <2> QED
    BY <1>2, <2>1, <2>2 DEF Buffers
<1> QED
  BY <1>2, <1>3

\* A party that fails ends, drops its buffer, and has no success to report.
LEMMA Fails ==
  ASSUME Domains, NEW c, Buffers(buf, c), NEW p \in Party, NEW why, why # "ok", Fail(p, why)
  PROVE  /\ DOMAIN pc' = Party /\ DOMAIN result' = Party /\ DOMAIN hungup' = Party
         /\ DOMAIN buf' = Party /\ Buffers(buf', c)
         /\ \A q \in Party : /\ result'[q] = "ok" => result[q] = "ok"
                             /\ pc'[q] = pc[q] \/ pc'[q] = "done"
<1>1. DOMAIN pc' = Party /\ DOMAIN result' = Party /\ DOMAIN hungup' = Party /\ DOMAIN buf' = Party
  BY DEF Fail, Domains
<1>2. \A q \in Party : /\ result'[q] = "ok" => result[q] = "ok"
                       /\ pc'[q] = pc[q] \/ pc'[q] = "done"
                       /\ buf'[q] = buf[q] \/ buf'[q] = <<>>
  BY DEF Fail, Domains
<1>3. Buffers(buf', c)
  BY <1>2, HoldsEmpty DEF Buffers
<1> QED
  BY <1>1, <1>2, <1>3

\* Going on changes where one party is and nothing else.
LEMMA Goes ==
  ASSUME Domains, NEW p \in Party, NEW there, GoTo(p, there)
  PROVE  /\ DOMAIN pc' = Party /\ result' = result /\ hungup' = hungup
         /\ pc'[p] = there /\ \A q \in Party : q # p => pc'[q] = pc[q]
BY DEF GoTo, Domains

\* What the plan decides stays while the plan does.
LEMMA ConfigKept ==
  ASSUME UNCHANGED plan
  PROVE  /\ \A p : LocalOpen(p)' = LocalOpen(p) /\ Agreed(p)' = Agreed(p) /\ HasSasl(p)' = HasSasl(p)
         /\ Profile' = Profile /\ StoredPassword' = StoredPassword
         /\ SaslMechanisms' = SaslMechanisms /\ InitialResponse' = InitialResponse
         /\ trust'["server"] = trust["server"] => Config' = Config
<1>1. \A p : LocalOpen(p)' = LocalOpen(p)
  BY DEF LocalOpen
<1>2. \A p : Agreed(p)' = Agreed(p)
  BY <1>1 DEF Agreed
<1>3. Profile' = Profile /\ StoredPassword' = StoredPassword
  BY DEF Profile, StoredPassword
<1>4. SaslMechanisms' = SaslMechanisms /\ InitialResponse' = InitialResponse
  BY <1>3 DEF SaslMechanisms, InitialResponse
<1>5. \A p : HasSasl(p)' = HasSasl(p)
  BY <1>3 DEF HasSasl
<1>6. trust'["server"] = trust["server"] => Config' = Config
  BY <1>1, <1>3, <1>4 DEF Config
<1> QED
  BY <1>1, <1>2, <1>3, <1>4, <1>5, <1>6

\* A step that neither trusts nor opens.
PlainStep ==
  /\ UNCHANGED <<plan, scram, trust, limits>>
  /\ DOMAIN pc' = Party /\ DOMAIN result' = Party /\ DOMAIN hungup' = Party
  /\ DOMAIN wire' = Party /\ Wires(wire', Config)
  /\ DOMAIN buf' = Party /\ Buffers(buf', Config)
  /\ \A q \in Party : /\ result'[q] = "ok" => result[q] = "ok"
                      /\ pc'[q] = pc[q] \/ pc'[q] # "opened"
                      /\ pc'[q] = pc[q] \/ (pc'[q] \in {"saslHeader", "sasl"} => HasSasl(q))

\* A step that sends no credentials and opens nothing keeps the invariant.
LEMMA PlainKeeps ==
  ASSUME Inv, PlainStep
  PROVE  Inv'
<1>1. PlanOK' /\ UNCHANGED <<plan, scram, trust, limits>>
  BY DEF Inv, PlanOK, PlainStep
<1>2. Config' = Config /\ Profile' = Profile
      /\ \A p : Agreed(p)' = Agreed(p) /\ HasSasl(p)' = HasSasl(p)
  BY <1>1, ConfigKept
<1>3. Domains'
  BY DEF Inv, Domains, PlainStep
<1>4. Streams'
  BY <1>2 DEF Streams, PlainStep, Wires, Buffers
<1>5. Layered'
  <2> SUFFICES ASSUME NEW p \in Party, pc'[p] \in {"saslHeader", "sasl"}
               PROVE  HasSasl(p)
    BY <1>2 DEF Layered
  <2> QED
    BY DEF PlainStep, Inv, Layered
<1>6. Remembered'
  BY <1>1, <1>2 DEF Inv, Remembered
<1>7. Authenticated'
  BY <1>1, <1>2 DEF Inv, Authenticated, CredentialsFit
<1>8. Exchange'
  <2> SUFFICES ASSUME NEW p \in Party, result'[p] = "ok" \/ pc'[p] = "opened"
               PROVE  limits[p] = Agreed(p)
    BY <1>1, <1>2 DEF Exchange
  <2> QED
    BY DEF PlainStep, Inv, Exchange
<1> QED
  BY <1>1, <1>3, <1>4, <1>5, <1>6, <1>7, <1>8 DEF Inv

-----------------------------------------------------------------------------
(* The actions that neither trust nor open.                                *)

\* The parts of the invariant the steps need most.
LEMMA InnerFacts ==
  ASSUME Inv
  PROVE  /\ Domains /\ Wires(wire, Config) /\ Buffers(buf, Config)
         /\ DOMAIN wire = Party /\ DOMAIN buf = Party
         /\ DOMAIN pc = Party /\ DOMAIN result = Party /\ DOMAIN hungup = Party
BY DEF Inv, Domains, Streams, Wires, Buffers

\* Headers, records and frames without a secret or a limit are anybody's.
LEMMA AnyItem ==
  ASSUME NEW p, NEW c, NEW i, i.k \in {"header", "hello", "torn", "close"}
  PROVE  Good(p, i, c)
BY DEF Good

\* Headers, handshakes, torn bytes and Close claim nothing, so they are good.
LEMMA PlainItems ==
  ASSUME NEW p, NEW c
  PROVE  /\ Good(p, Hello, c) /\ Good(p, Item("close", 0), c)
         /\ \A id : Good(p, Header(id), c) /\ Good(p, Item("torn", id), c)
         /\ \A id : Holds(p, <<Header(id)>>, c) /\ Holds(p, <<Hello, Header(id)>>, c)
         /\ Holds(p, <<Hello>>, c) /\ Holds(p, <<Item("close", 0)>>, c)
         /\ Holds(p, <<Item("torn", 1), Item("torn", 2)>>, c) /\ Holds(p, <<>>, c)
<1>1. /\ Good(p, Hello, c) /\ Good(p, Item("close", 0), c)
      /\ \A id : Good(p, Header(id), c) /\ Good(p, Item("torn", id), c)
  BY AnyItem DEF Hello, Item, Header
<1> QED
  BY <1>1, HoldsItems, HoldsEmpty

\* An unexpected header is an error.
LEMMA HeaderErrors ==
  ASSUME NEW i
  PROVE  HeaderError(i) # "ok"
BY DEF HeaderError

\* Filling the buffer from the stream is a plain step.
LEMMA PlainFill ==
  ASSUME Inv, NEW p \in Party, Fill(p)
  PROVE  PlainStep
<1>1. PICK n \in 1 .. Len(wire[Peer(p)]) :
        /\ buf' = [buf EXCEPT ![p] = SubSeq(wire[Peer(p)], 1, n)]
        /\ wire' = [wire EXCEPT ![Peer(p)] = SubSeq(@, n + 1, Len(@))]
  BY DEF Fill
<1>2. Peer(p) \in Party /\ Peer(p) # p
  BY PartyFacts
<1>3. Wires(wire, Config) /\ Buffers(buf, Config) /\ DOMAIN wire = Party /\ DOMAIN buf = Party
  BY InnerFacts
<1>4. Holds(Peer(p), wire[Peer(p)], Config)
  BY <1>2, <1>3 DEF Wires
<1>5. /\ Holds(Peer(p), SubSeq(wire[Peer(p)], 1, n), Config)
      /\ Holds(Peer(p), SubSeq(wire[Peer(p)], n + 1, Len(wire[Peer(p)])), Config)
  BY <1>4, HoldsPart
<1>6. /\ DOMAIN wire' = Party /\ DOMAIN buf' = Party
      /\ wire'[Peer(p)] = SubSeq(wire[Peer(p)], n + 1, Len(wire[Peer(p)]))
      /\ buf'[p] = SubSeq(wire[Peer(p)], 1, n)
      /\ \A q \in Party : (q # Peer(p) => wire'[q] = wire[q]) /\ (q # p => buf'[q] = buf[q])
  BY <1>1, <1>2, <1>3
<1>7. Wires(wire', Config) /\ Buffers(buf', Config)
  BY <1>3, <1>5, <1>6 DEF Wires, Buffers
<1>8. UNCHANGED <<plan, pc, result, scram, trust, limits, hungup, cut>>
  BY DEF Fill
<1> QED
  BY <1>6, <1>7, <1>8, InnerFacts DEF PlainStep

\* What is left when the parts of an action are known.
LEMMA PlainBy ==
  ASSUME Inv, UNCHANGED <<plan, scram, trust, limits>>,
         DOMAIN wire' = Party, Wires(wire', Config),
         DOMAIN buf' = Party, Buffers(buf', Config), NEW p \in Party,
         \/ \E there : /\ GoTo(p, there) /\ there # "opened"
                       /\ there \in {"saslHeader", "sasl"} => HasSasl(p)
         \/ \E why : Fail(p, why) /\ why # "ok"
  PROVE  PlainStep
<1>1. CASE \E there : /\ GoTo(p, there) /\ there # "opened"
                      /\ there \in {"saslHeader", "sasl"} => HasSasl(p)
  <2>1. PICK there : /\ GoTo(p, there) /\ there # "opened"
                     /\ there \in {"saslHeader", "sasl"} => HasSasl(p)
    BY <1>1
  <2> QED
    BY <2>1, Goes, InnerFacts DEF PlainStep
<1>2. CASE \E why : Fail(p, why) /\ why # "ok"
  <2>1. PICK why : Fail(p, why) /\ why # "ok"
    BY <1>2
  <2>2. /\ DOMAIN pc' = Party /\ DOMAIN result' = Party /\ DOMAIN hungup' = Party
        /\ \A q \in Party : /\ result'[q] = "ok" => result[q] = "ok"
                            /\ pc'[q] = pc[q] \/ pc'[q] = "done"
    BY <2>1, Fails, InnerFacts
  <2> QED
    BY <2>2 DEF PlainStep
<1> QED
  BY <1>1, <1>2

\* The buffer of a party that fails is still good.
LEMMA FailedBuffer ==
  ASSUME Inv, NEW p \in Party, NEW why, Fail(p, why)
  PROVE  DOMAIN buf' = Party /\ Buffers(buf', Config)
<1>1. DOMAIN buf' = Party /\ \A q \in Party : buf'[q] = buf[q] \/ buf'[q] = <<>>
  BY InnerFacts DEF Fail
<1> QED
  BY <1>1, InnerFacts, HoldsEmpty DEF Buffers

\* Failing is a plain step, whatever was sent with it.
LEMMA PlainFails ==
  ASSUME Inv, NEW p \in Party, NEW why, why # "ok", Fail(p, why),
         UNCHANGED <<plan, scram, trust, limits>>, DOMAIN wire' = Party, Wires(wire', Config)
  PROVE  PlainStep
BY FailedBuffer, PlainBy

\* The end of the stream is a plain step.
LEMMA PlainEof ==
  ASSUME Inv, NEW p \in Party, OnEof(p) \/ Closing(p)
  PROVE  PlainStep
<1>1. PICK why : why # "ok" /\ Fail(p, why) /\ UNCHANGED <<plan, wire, scram, trust, limits>>
  BY DEF OnEof, Closing
<1> QED
  BY <1>1, PlainFails, InnerFacts

\* The idle timeout is a plain step.
LEMMA PlainIdle ==
  ASSUME Inv, NEW p \in Party, OnIdleTimeout(p)
  PROVE  PlainStep
<1>1. /\ Sent(p, <<Item("close", 0)>>) /\ Fail(p, "timeout")
      /\ UNCHANGED <<plan, scram, trust, limits>>
  BY DEF OnIdleTimeout
<1>2. DOMAIN wire' = Party /\ Wires(wire', Config)
  BY <1>1, Sends, PlainItems, InnerFacts
<1> QED
  BY <1>1, <1>2, PlainFails

\* Losing the end of a stream is a plain step.
LEMMA PlainCut ==
  ASSUME Inv, Cut
  PROVE  PlainStep
<1>1. wire' = [p \in Party |-> <<>>]
      /\ UNCHANGED <<plan, pc, result, buf, scram, trust, limits, hungup>>
  BY DEF Cut
<1>2. DOMAIN wire' = Party /\ Wires(wire', Config)
  BY <1>1, HoldsEmpty DEF Wires
<1> QED
  BY <1>1, <1>2, InnerFacts DEF PlainStep

\* After its first header a party awaits SASL only when it was configured for it.
LEMMA Awaits ==
  ASSUME NEW p \in Party, AwaitHeader(p)
  PROVE  \E there : /\ GoTo(p, there) /\ there # "opened"
                    /\ there \in {"saslHeader", "sasl"} => HasSasl(p)
<1>1. CASE HasSasl(p)
  BY <1>1 DEF AwaitHeader
<1>2. CASE ~HasSasl(p)
  BY <1>2 DEF AwaitHeader
<1> QED
  BY <1>1, <1>2

\* What a party begins with is a header.
LEMMA Firsts ==
  ASSUME NEW p
  PROVE  \E id : FirstHeader(p) = Header(id)
BY DEF FirstHeader

\* Connecting and accepting are plain steps.
LEMMA PlainOpen ==
  ASSUME Inv, OpenWithStream \/ Accept
  PROVE  PlainStep
<1>1. "client" \in Party /\ "server" \in Party
  BY PartyFacts
<1>2. CASE OpenWithStream
  <2>1. UNCHANGED <<plan, scram, trust, limits>>
    BY <1>2 DEF OpenWithStream
  <2>2. CASE OpenOverTls /\ UNCHANGED buf
    <3>1. \/ Sent("client", <<Header("tls")>>) /\ GoTo("client", "tlsHeader")
          \/ Sent("client", <<Hello>>) /\ GoTo("client", "tlsHello")
      BY <2>2 DEF OpenOverTls
    <3>2. DOMAIN wire' = Party /\ Wires(wire', Config)
      BY <1>1, <3>1, Sends, PlainItems, InnerFacts
    <3>3. \E there : /\ GoTo("client", there) /\ there # "opened"
                     /\ there \in {"saslHeader", "sasl"} => HasSasl("client")
      BY <3>1
    <3> QED
      BY <1>1, <2>1, <2>2, <3>2, <3>3, PlainBy, InnerFacts
  <2>3. CASE Sent("client", <<FirstHeader("client")>>) /\ AwaitHeader("client") /\ UNCHANGED buf
    <3>1. DOMAIN wire' = Party /\ Wires(wire', Config)
      BY <1>1, <2>3, Sends, Firsts, PlainItems, InnerFacts
    <3>2. \E there : /\ GoTo("client", there) /\ there # "opened"
                     /\ there \in {"saslHeader", "sasl"} => HasSasl("client")
      BY <1>1, <2>3, Awaits
    <3> QED
      BY <1>1, <2>1, <2>3, <3>1, <3>2, PlainBy, InnerFacts
  <2>4. CASE Fail("client", "config") /\ UNCHANGED wire
    BY <1>1, <2>1, <2>4, PlainFails, InnerFacts
  <2> QED
    BY <1>2, <2>2, <2>3, <2>4 DEF OpenWithStream
<1>3. CASE Accept
  <2>1. UNCHANGED <<plan, buf, scram, trust, limits>>
    BY <1>3 DEF Accept
  <2>2. CASE Sent("server", <<FirstHeader("server")>>) /\ AwaitHeader("server")
    <3>1. DOMAIN wire' = Party /\ Wires(wire', Config)
      BY <1>1, <2>2, Sends, Firsts, PlainItems, InnerFacts
    <3>2. \E there : /\ GoTo("server", there) /\ there # "opened"
                     /\ there \in {"saslHeader", "sasl"} => HasSasl("server")
      BY <1>1, <2>2, Awaits
    <3> QED
      BY <1>1, <2>1, <3>1, <3>2, PlainBy, InnerFacts
  <2>3. CASE (GoTo("server", "tlsHeader") \/ GoTo("server", "tlsHello")) /\ UNCHANGED wire
    <3>1. \E there : /\ GoTo("server", there) /\ there # "opened"
                     /\ there \in {"saslHeader", "sasl"} => HasSasl("server")
      BY <2>3
    <3> QED
      BY <1>1, <2>1, <2>3, <3>1, PlainBy, InnerFacts
  <2> QED
    BY <1>3, <2>2, <2>3 DEF Accept
<1> QED
  BY <1>2, <1>3

\* The exchange of TLS headers is a plain step.
LEMMA PlainTlsHeader ==
  ASSUME Inv, TlsHeaderClient \/ TlsHeaderServer
  PROVE  PlainStep
<1>1. PICK p \in Party :
        /\ wire[Peer(p)] # <<>> /\ UNCHANGED <<plan, scram, trust, limits>>
        /\ \/ /\ \/ Exchanged(p, <<Hello>>) \/ Exchanged(p, <<Header("tls")>>)
              /\ GoTo(p, "tlsHello") /\ UNCHANGED buf
           \/ /\ \/ Exchanged(p, <<>>) \/ Exchanged(p, <<Header("tls")>>)
              /\ \E i : Fail(p, HeaderError(i))
  <2>1. CASE TlsHeaderClient
    <3>1. "client" \in Party /\ Peer("client") = "server"
      BY PartyFacts
    <3> QED
      BY <2>1, <3>1 DEF TlsHeaderClient
  <2>2. CASE TlsHeaderServer
    <3>1. "server" \in Party /\ Peer("server") = "client"
      BY PartyFacts
    <3> QED
      BY <2>2, <3>1 DEF TlsHeaderServer
  <2> QED
    BY <2>1, <2>2
<1>2. DOMAIN wire' = Party /\ Wires(wire', Config)
  BY <1>1, Exchanges, PlainItems, InnerFacts
<1>3. CASE GoTo(p, "tlsHello") /\ UNCHANGED buf
  <2>1. \E there : /\ GoTo(p, there) /\ there # "opened"
                   /\ there \in {"saslHeader", "sasl"} => HasSasl(p)
    BY <1>3
  <2> QED
    BY <1>1, <1>2, <1>3, <2>1, PlainBy, InnerFacts
<1>4. CASE \E i : Fail(p, HeaderError(i))
  BY <1>1, <1>2, <1>4, HeaderErrors, PlainFails
<1> QED
  BY <1>1, <1>3, <1>4

\* The TLS handshake is a plain step.
LEMMA PlainHandshake ==
  ASSUME Inv, NEW p \in Party, TlsHandshake(p)
  PROVE  PlainStep
<1>1. /\ wire[Peer(p)] # <<>> /\ UNCHANGED <<plan, scram, trust, limits>>
      /\ \/ /\ Exchanged(p, <<FirstHeader(p)>>) \/ Exchanged(p, <<Hello, FirstHeader(p)>>)
            /\ AwaitHeader(p) /\ UNCHANGED buf
         \/ /\ Exchanged(p, <<>>)
            /\ Fail(p, "tls") \/ Fail(p, "garbled")
  BY DEF TlsHandshake
<1>2. DOMAIN wire' = Party /\ Wires(wire', Config)
  BY <1>1, Exchanges, Firsts, PlainItems, InnerFacts
<1>3. CASE AwaitHeader(p) /\ UNCHANGED buf
  <2>1. \E there : /\ GoTo(p, there) /\ there # "opened"
                   /\ there \in {"saslHeader", "sasl"} => HasSasl(p)
    BY <1>3, Awaits
  <2> QED
    BY <1>1, <1>2, <1>3, <2>1, PlainBy, InnerFacts
<1>4. CASE Fail(p, "tls") \/ Fail(p, "garbled")
  BY <1>1, <1>2, <1>4, PlainFails
<1> QED
  BY <1>1, <1>3, <1>4

\* The first items of the layers of SASL and AMQP.
LEMMA OpeningItems ==
  ASSUME NEW p \in Party
  PROVE  /\ Holds(p, OpenItems(p), Config)
         /\ p = "server" => Holds(p, <<Item("mechanisms", SaslMechanisms)>>, Config)
<1>1. Good(p, Item("open", LocalOpen(p)), Config)
  BY DEF Good, Item, Config
<1>2. p = "server" => Good(p, Item("mechanisms", SaslMechanisms), Config)
  BY DEF Good, Item, Config
<1>3. Holds(p, <<Item("open", LocalOpen(p))>>, Config)
  BY <1>1, HoldsItems
<1>4. p = "server" => Holds(p, <<Item("mechanisms", SaslMechanisms)>>, Config)
  BY <1>2, HoldsItems
<1> QED
  BY <1>3, <1>4, PlainItems DEF OpenItems

\* The exchange of SASL and AMQP headers is a plain step.
LEMMA PlainHeaders ==
  ASSUME Inv, NEW p \in Party, SaslHeader(p) \/ AmqpHeader(p)
  PROVE  PlainStep
<1>1. /\ buf[p] # <<>> /\ UNCHANGED <<plan, scram, trust, limits>>
      /\ \/ /\ \/ Sent(p, <<>>) /\ pc[p] = "saslHeader" /\ GoTo(p, "sasl")
               \/ p = "server" /\ Sent(p, <<Item("mechanisms", SaslMechanisms)>>)
                  /\ pc[p] = "saslHeader" /\ GoTo(p, "sasl")
               \/ Sent(p, OpenItems(p)) /\ GoTo(p, "open")
            /\ Taken(p)
         \/ UNCHANGED wire /\ \E i : Fail(p, HeaderError(i))
  BY DEF SaslHeader, AmqpHeader
<1>2. DOMAIN wire' = Party /\ Wires(wire', Config)
  BY <1>1, Sends, OpeningItems, PlainItems, InnerFacts
<1>3. CASE Taken(p) /\ ((pc[p] = "saslHeader" /\ GoTo(p, "sasl")) \/ GoTo(p, "open"))
  <2>1. DOMAIN buf' = Party /\ Buffers(buf', Config)
    BY <1>1, <1>3, Takes, InnerFacts
  <2>2. pc[p] = "saslHeader" => HasSasl(p)
    BY DEF Inv, Layered
  <2>3. \E there : /\ GoTo(p, there) /\ there # "opened"
                   /\ there \in {"saslHeader", "sasl"} => HasSasl(p)
    BY <1>3, <2>2
  <2> QED
    BY <1>1, <1>2, <2>1, <2>3, PlainBy
<1>4. CASE \E i : Fail(p, HeaderError(i))
  BY <1>1, <1>2, <1>4, HeaderErrors, PlainFails
<1> QED
  BY <1>1, <1>3, <1>4

\* Frames read on an open connection are plain steps.
LEMMA PlainIncoming ==
  ASSUME Inv, NEW p \in Party, OnIncoming(p)
  PROVE  PlainStep
<1> DEFINE i == Head(buf[p])
<1>1. buf[p] # <<>> /\ UNCHANGED <<plan, scram, trust, limits>>
  BY DEF OnIncoming
<1>2. CASE Taken(p) /\ UNCHANGED <<pc, result, wire, hungup>>
  BY <1>1, <1>2, Takes, InnerFacts DEF PlainStep
<1>3. CASE /\ pc' = [pc EXCEPT ![p] = "done"]
           /\ hungup' = [hungup EXCEPT ![p] = TRUE]
           /\ buf' = [buf EXCEPT ![p] = <<>>]
           /\ Sent(p, IF i.k = "close" THEN <<i>> ELSE <<>>)
           /\ result' = [result EXCEPT ![p] = CASE i.k = "close" -> @
                                                [] i.k = "full"  -> "oversized"
                                                [] OTHER         -> "garbled"]
  <2>1. /\ DOMAIN pc' = Party /\ DOMAIN hungup' = Party /\ DOMAIN buf' = Party
        /\ DOMAIN result' = Party
        /\ \A q \in Party : /\ buf'[q] = buf[q] \/ buf'[q] = <<>>
                            /\ pc'[q] = pc[q] \/ pc'[q] = "done"
    BY <1>3, InnerFacts
  <2>2. Buffers(buf', Config)
    BY <2>1, InnerFacts, HoldsEmpty DEF Buffers
  <2>3. ASSUME NEW q \in Party
        PROVE  result'[q] = "ok" => result[q] = "ok"
    <3>1. CASE q # p
      BY <1>3, <3>1, InnerFacts
    <3>2. CASE q = p
      <4>1. result'[p] = CASE i.k = "close" -> result[p]
                           [] i.k = "full"  -> "oversized"
                           [] OTHER         -> "garbled"
        BY <1>3, InnerFacts
      <4> HIDE DEF i
      <4> QED
        BY <3>2, <4>1
    <3> QED
      BY <3>1, <3>2
  <2>4. Holds(p, IF i.k = "close" THEN <<i>> ELSE <<>>, Config)
    <3> HIDE DEF i
    <3>1. i.k = "close" => Good(p, i, Config)
      BY AnyItem
    <3> QED
      BY <3>1, HoldsItems, HoldsEmpty
  <2>5. DOMAIN wire' = Party /\ Wires(wire', Config)
    BY <1>3, <2>4, Sends, InnerFacts
  <2> QED
    BY <1>1, <2>1, <2>2, <2>3, <2>5 DEF PlainStep
<1> QED
  BY <1>2, <1>3 DEF OnIncoming

-----------------------------------------------------------------------------
(* Opening.                                                                *)

\* The peer's Open, with the limits taken from it, keeps the invariant.
LEMMA KeepOpenInner ==
  ASSUME Inv, NEW p \in Party, OpenInner(p)
  PROVE  Inv'
<1> DEFINE i == Head(buf[p])
<1>1. buf[p] # <<>> /\ Taken(p) /\ UNCHANGED <<plan, scram, trust, cut>>
  BY DEF OpenInner
<1>2. /\ DOMAIN buf' = Party /\ Buffers(buf', Config)
      /\ Good(Peer(p), Head(buf[p]), Config)
  BY <1>1, Takes, InnerFacts
<1>3. CASE Sent(p, <<Item("close", 0)>>) /\ GoTo(p, "closing") /\ UNCHANGED limits
  <2>1. DOMAIN wire' = Party /\ Wires(wire', Config)
    BY <1>3, Sends, PlainItems, InnerFacts
  <2>2. \E there : /\ GoTo(p, there) /\ there # "opened"
                   /\ there \in {"saslHeader", "sasl"} => HasSasl(p)
    BY <1>3
  <2> QED
    BY <1>1, <1>2, <1>3, <2>1, <2>2, PlainBy, PlainKeeps
<1>4. CASE /\ i.k = "open"
           /\ OnIncomingOpen(p, i.v)
           /\ pc' = [pc EXCEPT ![p] = "opened"]
           /\ result' = [result EXCEPT ![p] = "ok"]
           /\ UNCHANGED <<wire, hungup>>
  <2>1. i.v = LocalOpen(Peer(p)) /\ Peer(p) \in Party
    <3>1. i.v = Config.open[Peer(p)] /\ Peer(p) \in Party
      BY <1>2, <1>4, PartyFacts DEF Good
    <3> HIDE DEF i
    <3> QED
      BY <3>1 DEF Config
  <2>2. limits' = [limits EXCEPT ![p] = Agreed(p)]
    BY <1>4, <2>1 DEF OnIncomingOpen, Agreed
  <2>3. /\ Config' = Config /\ Profile' = Profile
        /\ \A q : Agreed(q)' = Agreed(q) /\ HasSasl(q)' = HasSasl(q)
    BY <1>1, ConfigKept
  <2>4. /\ DOMAIN limits' = Party /\ DOMAIN pc' = Party /\ DOMAIN result' = Party
        /\ limits'[p] = Agreed(p) /\ pc'[p] = "opened" /\ result'[p] = "ok"
        /\ \A q \in Party : q # p => /\ limits'[q] = limits[q] /\ pc'[q] = pc[q]
                                     /\ result'[q] = result[q]
    BY <1>4, <2>2 DEF Inv, Domains
  <2>5. PlanOK' /\ Remembered' /\ Authenticated'
    BY <1>1, <2>3 DEF Inv, PlanOK, Remembered, Authenticated, CredentialsFit
  <2>6. Domains'
    BY <1>1, <1>2, <1>4, <2>4 DEF Inv, Domains
  <2>7. Streams'
    BY <1>2, <1>4, <2>3, InnerFacts DEF Streams, Wires, Buffers
  <2>8. Layered'
    BY <2>3, <2>4 DEF Inv, Layered
  <2>9. Exchange'
    BY <2>3, <2>4 DEF Inv, Exchange
  <2> QED
    BY <2>5, <2>6, <2>7, <2>8, <2>9 DEF Inv
<1> QED
  BY <1>3, <1>4 DEF OpenInner

\* Sending changes nothing in the configuration that matters to the rest.
LEMMA SendsKept ==
  ASSUME PlanOK, NEW p \in Party, plan' = [plan EXCEPT ![p].sends = FALSE]
  PROVE  /\ PlanOK'
         /\ \A q \in Party : /\ plan'[q].frame = plan[q].frame /\ plan'[q].channels = plan[q].channels
                             /\ plan'[q].idle = plan[q].idle
                             /\ plan'[q].user = plan[q].user /\ plan'[q].password = plan[q].password
         /\ plan'.client.url = plan.client.url /\ plan'.client.profile = plan.client.profile
         /\ plan'.server.sasl = plan.server.sasl /\ plan'.server.verifier = plan.server.verifier
         /\ plan'.client.scheme = plan.client.scheme /\ plan'.client.alt = plan.client.alt
         /\ plan'.server.tls = plan.server.tls
<1>1. plan.client \in Builders /\ plan.server \in Acceptors
  BY DEF PlanOK
<1>2. CASE p = "client"
  <2>1. plan' = [plan EXCEPT !.client = [plan.client EXCEPT !.sends = FALSE]]
    BY <1>2 DEF PlanOK
  <2>2. [plan.client EXCEPT !.sends = FALSE] \in Builders
    BY <1>1 DEF Builders
  <2>3. plan'.client = [plan.client EXCEPT !.sends = FALSE] /\ plan'.server = plan.server
        /\ PlanOK'
    BY <2>1, <2>2 DEF PlanOK
  <2>4. \A f \in {"frame", "channels", "idle", "user", "password", "url", "profile",
             "scheme", "alt"} :
          plan'.client[f] = plan.client[f]
    BY <1>1, <2>3 DEF Builders
  <2> QED
    BY <2>3, <2>4 DEF Party
<1>3. CASE p = "server"
  <2>1. plan' = [plan EXCEPT !.server = [plan.server EXCEPT !.sends = FALSE]]
    BY <1>3 DEF PlanOK
  <2>2. [plan.server EXCEPT !.sends = FALSE] \in Acceptors
    BY <1>1 DEF Acceptors
  <2>3. plan'.server = [plan.server EXCEPT !.sends = FALSE] /\ plan'.client = plan.client
        /\ PlanOK'
    BY <2>1, <2>2 DEF PlanOK
  <2>4. \A f \in {"frame", "channels", "idle", "user", "password", "sasl", "verifier",
             "tls"} :
          plan'.server[f] = plan.server[f]
    BY <1>1, <2>3 DEF Acceptors
  <2> QED
    BY <2>3, <2>4 DEF Party
<1> QED
  BY <1>2, <1>3 DEF Party

\* A frame as long as the encoder admits has the size that the other side announced.
LEMMA LongestFrame ==
  ASSUME PlanOK, NEW p \in Party
  PROVE  /\ EncoderSize(LocalOpen(p).frame) + LenField = LocalOpen(p).frame
         /\ DecoderSize(LocalOpen(p).frame) = LocalOpen(p).frame
<1>1. plan[p].frame \in Nat
  BY SizesAssumption DEF PlanOK, Party, Builders, Acceptors
<1>2. MinFrame \in Nat /\ LenField \in Nat
  BY FrameAssumption
<1>3. LocalOpen(p).frame = Max2(MinFrame, plan[p].frame)
  BY DEF LocalOpen
<1> QED
  BY <1>1, <1>2, <1>3 DEF EncoderSize, DecoderSize, Max2

\* Writing a frame of full size keeps the invariant.
LEMMA KeepSendFull ==
  ASSUME Inv, NEW p \in Party, SendFull(p)
  PROVE  Inv'
<1>1. /\ pc[p] = "opened" /\ plan' = [plan EXCEPT ![p].sends = FALSE]
      /\ Sent(p, <<Item("full", limits[p].encoder + LenField)>>)
      /\ UNCHANGED <<pc, result, buf, scram, trust, limits, hungup, cut>>
  BY DEF SendFull
<1>2. /\ PlanOK'
      /\ \A q \in Party : /\ plan'[q].frame = plan[q].frame /\ plan'[q].channels = plan[q].channels
                          /\ plan'[q].idle = plan[q].idle
                          /\ plan'[q].user = plan[q].user /\ plan'[q].password = plan[q].password
      /\ plan'.client.url = plan.client.url /\ plan'.client.profile = plan.client.profile
      /\ plan'.server.sasl = plan.server.sasl /\ plan'.server.verifier = plan.server.verifier
  BY <1>1, SendsKept DEF Inv
<1>3. \A q \in Party : LocalOpen(q)' = LocalOpen(q)
  BY <1>2 DEF LocalOpen
<1>4. \A q \in Party : Agreed(q)' = Agreed(q)
  BY <1>2, <1>3, PartyFacts DEF Agreed
<1>5. plan'.client.user = plan.client.user /\ plan'.client.password = plan.client.password
      /\ plan'.server.user = plan.server.user /\ plan'.server.password = plan.server.password
  BY <1>2, PartyFacts
<1>6. Profile' = Profile /\ StoredPassword' = StoredPassword
  BY <1>2, <1>5 DEF Profile, StoredPassword
<1>7. SaslMechanisms' = SaslMechanisms /\ InitialResponse' = InitialResponse
  BY <1>2, <1>5, <1>6 DEF SaslMechanisms, InitialResponse
<1>8. \A q : HasSasl(q)' = HasSasl(q)
  BY <1>2, <1>6 DEF HasSasl
<1>9. Config' = Config
  BY <1>1, <1>3, <1>5, <1>6, <1>7 DEF Config
<1>10. Good(p, Item("full", limits[p].encoder + LenField), Config)
  <2>1. limits[p] = Agreed(p)
    BY <1>1 DEF Inv, Exchange
  <2>2. limits[p].encoder = EncoderSize(LocalOpen(Peer(p)).frame)
    BY <2>1 DEF Agreed
  <2>3. limits[p].encoder + LenField = LocalOpen(Peer(p)).frame /\ Peer(p) \in Party
    BY <2>2, LongestFrame, PartyFacts DEF Inv
  <2>4. Config.open[Peer(p)] = LocalOpen(Peer(p))
    BY <2>3 DEF Config
  <2> QED
    BY <2>3, <2>4 DEF Good, Item
<1>11. DOMAIN wire' = Party /\ Wires(wire', Config)
  BY <1>1, <1>10, HoldsItems, Sends, InnerFacts
<1>12. Domains'
  BY <1>1, <1>11 DEF Inv, Domains
<1>13. Streams'
  BY <1>1, <1>9, <1>11, InnerFacts DEF Streams, Wires, Buffers
<1>14. Layered' /\ Exchange'
  BY <1>1, <1>4, <1>8 DEF Inv, Layered, Exchange
<1>15. Remembered' /\ Authenticated'
  BY <1>1, <1>2, <1>5, <1>6 DEF Inv, Remembered, Authenticated, CredentialsFit
<1> QED
  BY <1>2, <1>12, <1>13, <1>14, <1>15 DEF Inv

-----------------------------------------------------------------------------
(* The SASL layer.                                                         *)

\* The terms are free: what is built differently differs.
LEMMA HmacFacts ==
  ASSUME NEW k, NEW a, NEW l, NEW b, Hmac(k, a) = Hmac(l, b)
  PROVE  k = l /\ a = b
BY DEF Hmac

\* Keys of SCRAM are equal only for the same version, password and salt.
LEMMA KeyFacts ==
  ASSUME NEW v, NEW w, NEW x, NEW y, NEW s, NEW t
  PROVE  /\ ClientKey(Salted(v, x, s)) = ClientKey(Salted(w, y, t)) => v = w /\ x = y /\ s = t
         /\ ServerKey(Salted(v, x, s)) = ServerKey(Salted(w, y, t)) => v = w /\ x = y /\ s = t
BY DEF ClientKey, ServerKey, Salted, Hmac

\* The proof is a key, hidden by a signature over its own hash.
LEMMA ProofForm ==
  ASSUME NEW salted, NEW a
  PROVE  ClientProof(salted, a) = <<"xor", ClientKey(salted), Hmac(H(ClientKey(salted)), a)>>
<1>1. ClientKey(salted) = <<"hmac", salted, "Client Key">>
  BY DEF ClientKey, Hmac
<1>2. ClientKey(salted)[1] # "xor"
  <2>1. <<"hmac", salted, "Client Key">>[1] = "hmac"
    OBVIOUS
  <2> QED
    BY <1>1, <2>1
<1> QED
  BY <1>2 DEF ClientProof, Xor

\* A proof that the stored key accepts was made with the stored password.
LEMMA ProofIsKnowledge ==
  ASSUME NEW v, NEW pw, NEW salt, NEW a, NEW w, NEW st, NEW s, NEW b,
         LET stored == H(ClientKey(Salted(w, st, s)))
         IN  H(Xor(ClientProof(Salted(v, pw, salt), a), Hmac(stored, b))) = stored
  PROVE  pw = st /\ v = w
<1> DEFINE K == ClientKey(Salted(v, pw, salt))
           L == ClientKey(Salted(w, st, s))
           P == ClientProof(Salted(v, pw, salt), a)
           M == Hmac(H(L), b)
<1>1. P = <<"xor", K, Hmac(H(K), a)>>
  BY ProofForm
<1>2. Xor(P, M) = L
  BY DEF H
<1>3. L = <<"hmac", Salted(w, st, s), "Client Key">>
  BY DEF ClientKey, Hmac
<1> HIDE DEF K, L, P, M
<1>4. Xor(P, M) = P[2] \/ Xor(P, M) = <<"xor", P, M>>
  BY DEF Xor
<1>5. L[1] # "xor"
  BY <1>3
<1>6. Xor(P, M) # <<"xor", P, M>>
  BY <1>2, <1>5
<1>7. K = L
  BY <1>1, <1>2, <1>4, <1>6
<1> QED
  BY <1>7, KeyFacts DEF K, L

\* A step of the SASL layer keeps the limits and opens nothing.
LEMMA SaslKeeps ==
  ASSUME Inv, UNCHANGED <<plan, limits, cut>>,
         DOMAIN scram' = Party, trust' \in [Party -> BOOLEAN],
         DOMAIN wire' = Party, Wires(wire', Config'), DOMAIN buf' = Party, Buffers(buf', Config'),
         DOMAIN pc' = Party, DOMAIN result' = Party, DOMAIN hungup' = Party,
         \A q \in Party : /\ result'[q] = "ok" => result[q] = "ok"
                          /\ pc'[q] = pc[q] \/ pc'[q] \in {"amqpHeader", "done"},
         Remembered', Authenticated'
  PROVE  Inv'
<1>1. \A p : Agreed(p)' = Agreed(p) /\ HasSasl(p)' = HasSasl(p)
  BY ConfigKept
<1>2. PlanOK' /\ Domains'
  BY DEF Inv, PlanOK, Domains
<1>3. Streams'
  BY DEF Streams, Wires, Buffers
<1>4. Layered'
  BY <1>1 DEF Inv, Layered
<1>5. Exchange'
  <2> SUFFICES ASSUME NEW p \in Party, result'[p] = "ok" \/ pc'[p] = "opened"
               PROVE  limits[p] = Agreed(p)
    BY <1>1 DEF Exchange
  <2> QED
    BY DEF Inv, Exchange
<1> QED
  BY <1>2, <1>3, <1>4, <1>5 DEF Inv

\* A SASL step of the client keeps the invariant: it trusts a proof only a holder of the password can make.
LEMMA KeepSaslClient ==
  ASSUME Inv, SaslClient
  PROVE  Inv'
<1> DEFINE i == Head(buf["client"])
<1>1. buf["client"] # <<>> /\ UNCHANGED <<plan, limits, cut>>
  BY DEF SaslClient
<1>2. "client" \in Party /\ "server" \in Party /\ Peer("client") = "server"
  BY PartyFacts
<1>3. Good("server", i, Config) /\ (Taken("client") => DOMAIN buf' = Party /\ Buffers(buf', Config))
  BY <1>1, <1>2, Takes, InnerFacts
<1>4. /\ Config.mech = SaslMechanisms /\ Config.prof = Profile /\ Config.resp = InitialResponse
      /\ Config.pw = plan.client.password /\ Config.key = StoredPassword.server_key
      /\ Config.tr = trust["server"]
  BY DEF Config
<1>5. /\ Profile' = Profile /\ (trust'["server"] = trust["server"] => Config' = Config)
      /\ plan' = plan
  BY <1>1, ConfigKept
<1>6. DOMAIN scram = Party /\ trust \in [Party -> BOOLEAN]
  BY DEF Inv, Domains
<1> HIDE DEF i
<1>7. CASE i.k = "mechanisms" /\ OnMechanisms(i.v) /\ Taken("client")
  <2>1. /\ Profile \in i.v /\ UNCHANGED <<pc, result, hungup, trust>>
        /\ Sent("client", <<Item("init", [mechanism |-> Profile, response |-> InitialResponse])>>)
        /\ \/ scram' = [scram EXCEPT !.client = [at |-> "ClientFirstSent"]]
           \/ scram' = scram
    BY <1>7 DEF OnMechanisms
  <2>2. Good("client", Item("init", [mechanism |-> Profile, response |-> InitialResponse]), Config)
    BY <1>3, <1>4, <1>7, <2>1 DEF Good, Item
  <2>3. DOMAIN wire' = Party /\ Wires(wire', Config)
    BY <1>2, <2>1, <2>2, HoldsItems, Sends, InnerFacts
  <2>4. DOMAIN scram' = Party /\ scram'["server"] = scram["server"]
        /\ (scram'["client"].at = "ClientFinalSent" => scram'["client"] = scram["client"])
    BY <1>2, <1>6, <2>1
  <2>5. Remembered' /\ Authenticated'
    BY <1>5, <2>1, <2>4 DEF Inv, Remembered, Authenticated, CredentialsFit
  <2> QED
    BY <1>1, <1>3, <1>5, <1>6, <1>7, <2>1, <2>3, <2>4, <2>5, SaslKeeps, InnerFacts
<1>8. CASE i.k = "challenge" /\ OnChallenge(i.v) /\ Taken("client")
  <2>1. UNCHANGED <<pc, result, hungup, trust>>
    BY <1>8 DEF OnChallenge
  <2>2. CASE Profile \in Scrams /\ OnServerFirst(i.v)
    <3> DEFINE first == i.v
               salted == Salted(Profile, plan.client.password, first.salt)
               auth == AuthMessage(<<plan.client.user, "cnonce">>, first, first.nonce)
               r == Item("response", [nonce |-> first.nonce, proof |-> ClientProof(salted, auth)])
    <3>1. /\ Sent("client", <<r>>)
          /\ scram' = [scram EXCEPT !.client = [at |-> "ClientFinalSent",
                                                signature |-> Hmac(ServerKey(salted), auth)]]
      BY <2>2 DEF OnServerFirst
    <3>2. r.k = "response" /\ r.v.proof = ClientProof(salted, auth)
      BY DEF Item
    <3> HIDE DEF auth, r
    <3>3. Good("client", r, Config)
      BY <1>4, <3>2 DEF Good
    <3>4. DOMAIN wire' = Party /\ Wires(wire', Config)
      BY <1>2, <3>1, <3>3, HoldsItems, Sends, InnerFacts
    <3>5. DOMAIN scram' = Party /\ scram'["server"] = scram["server"]
          /\ scram'["client"].signature = Hmac(ServerKey(salted), auth)
      BY <1>2, <1>6, <3>1
    <3>6. Remembered' /\ Authenticated'
      BY <1>5, <2>1, <3>5 DEF Inv, Remembered, Authenticated, CredentialsFit
    <3> QED
      BY <1>1, <1>3, <1>5, <1>6, <1>8, <2>1, <3>4, <3>5, <3>6, SaslKeeps, InnerFacts
  <2>3. CASE Profile = "External" /\ Sent("client", <<Item("response", <<>>)>>) /\ UNCHANGED scram
    <3>1. Good("client", Item("response", <<>>), Config)
      BY <1>4, <2>3 DEF Good, Item, Scrams
    <3>2. DOMAIN wire' = Party /\ Wires(wire', Config)
      BY <1>2, <2>3, <3>1, HoldsItems, Sends, InnerFacts
    <3>3. Remembered' /\ Authenticated'
      BY <1>5, <2>1, <2>3 DEF Inv, Remembered, Authenticated, CredentialsFit
    <3> QED
      BY <1>1, <1>3, <1>5, <1>6, <1>8, <2>1, <2>3, <3>2, <3>3, SaslKeeps, InnerFacts
  <2> QED
    BY <1>8, <2>2, <2>3 DEF OnChallenge
<1>9. CASE i.k = "outcome" /\ OnOutcome(i.v) /\ Taken("client")
  <2>1. /\ i.v.code = "ok" /\ ServerIsGenuine(i.v)
        /\ scram' = [scram EXCEPT !.client = [at |-> "Complete"]]
        /\ trust' = [trust EXCEPT !.client = TRUE]
        /\ Sent("client", <<Header("amqp")>>) /\ GoTo("client", "amqpHeader")
    BY <1>9 DEF OnOutcome
  <2>2. trust["server"] /\ (i.v.data = <<>> \/ \E a : i.v.data = Hmac(StoredPassword.server_key, a))
    BY <1>3, <1>4, <1>9, <2>1 DEF Good
  <2>3. Profile \in Scrams => plan.server.verifier = plan.client.password
    <3> SUFFICES ASSUME Profile \in Scrams
                 PROVE  plan.server.verifier = plan.client.password
      OBVIOUS
    <3>1. /\ i.v.data # <<>> /\ scram["client"].at = "ClientFinalSent"
          /\ i.v.data = scram["client"].signature
      BY <2>1 DEF ServerIsGenuine
    <3>2. PICK a : i.v.data = Hmac(StoredPassword.server_key, a)
      BY <2>2, <3>1
    <3>3. PICK salt, b : scram["client"].signature =
                           Hmac(ServerKey(Salted(Profile, plan.client.password, salt)), b)
      BY <3>1 DEF Inv, Remembered
    <3> DEFINE k == StoredPassword.server_key
               l == ServerKey(Salted(Profile, plan.client.password, salt))
    <3>4. Hmac(k, a) = Hmac(l, b)
      BY <3>1, <3>2, <3>3
    <3>5. k = ServerKey(Salted(plan.server.sasl, plan.server.verifier, Salt))
      BY DEF StoredPassword
    <3> HIDE DEF k
    <3>6. k = l
      <4> HIDE DEF l
      <4> QED
        BY <3>4, HmacFacts
    <3>7. ServerKey(Salted(plan.server.sasl, plan.server.verifier, Salt))
            = ServerKey(Salted(Profile, plan.client.password, salt))
      BY <3>5, <3>6
    <3> DEFINE v == plan.server.verifier
               x == plan.client.password
               w == plan.server.sasl
               y == Profile
    <3> HIDE DEF v, x, w, y
    <3>8. v = x
      BY <3>7, KeyFacts DEF v, x, w, y
    <3> QED
      BY <3>8 DEF v, x
  <2>4. /\ DOMAIN scram' = Party /\ scram'["server"] = scram["server"]
        /\ scram'["client"].at = "Complete"
        /\ trust' \in [Party -> BOOLEAN] /\ trust'["server"] = trust["server"]
    BY <1>2, <1>6, <2>1
  <2>5. DOMAIN wire' = Party /\ Wires(wire', Config)
    BY <1>2, <2>1, PlainItems, Sends, InnerFacts
  <2>6. Remembered'
    BY <1>5, <2>4 DEF Inv, Remembered
  <2>7. Authenticated'
    BY <1>5, <2>2, <2>3, <2>4 DEF Inv, Authenticated, CredentialsFit
  <2>8. /\ DOMAIN pc' = Party /\ result' = result /\ hungup' = hungup
        /\ pc'["client"] = "amqpHeader" /\ \A q \in Party : q # "client" => pc'[q] = pc[q]
    BY <1>2, <2>1, Goes, InnerFacts
  <2> QED
    BY <1>1, <1>3, <1>5, <1>9, <2>4, <2>5, <2>6, <2>7, <2>8, SaslKeeps, InnerFacts
<1>10. CASE /\ Fail("client", IF i.k \in SaslKinds THEN "sasl" ELSE "garbled")
            /\ UNCHANGED <<wire, scram, trust>>
  BY <1>1, <1>2, <1>10, PlainFails, PlainKeeps, InnerFacts
<1> QED
  BY <1>7, <1>8, <1>9, <1>10 DEF SaslClient, i

\* What an acceptor may rely on when it answers.
Deserved(answer) ==
  /\ answer.k \in {"challenge", "outcome"}
  /\ answer.k = "outcome" /\ answer.v.code = "ok" =>
       /\ answer.v.data = <<>> \/ \E a : answer.v.data = Hmac(StoredPassword.server_key, a)
       /\ plan.server.sasl \in Scrams \cup {"Plain"} => Profile = plan.server.sasl /\ CredentialsFit

\* The parts of an outcome.
LEMMA OutcomeFacts ==
  ASSUME NEW code, NEW data
  PROVE  /\ Outcome(code, data).k = "outcome" /\ Outcome(code, data).v.code = code
         /\ Outcome(code, data).v.data = data
BY DEF Outcome, Item

\* A server configured for SASL has one of the five kinds of profile.
LEMMA SaslNames ==
  ASSUME PlanOK, HasSasl("server")
  PROVE  plan.server.sasl \in Scrams \cup {"Anonymous", "Lax", "Plain", "External"}
BY DEF PlanOK, HasSasl, Acceptors

\* What the server answers to an init is deserved by what the client has.
LEMMA AnswersInit ==
  ASSUME Inv, HasSasl("server"), NEW i, i.k = "init", Good("client", i, Config)
  PROVE  /\ Deserved(OnInit(i.v))
         /\ OnInit(i.v).k = "challenge" /\ plan.server.sasl \in Scrams =>
              Profile = plan.server.sasl /\ plan.client.user = plan.server.user
<1> DEFINE sasl == plan.server.sasl
           init == i.v
<1>1. Profile \in SaslMechanisms /\ init = [mechanism |-> Profile, response |-> InitialResponse]
  BY DEF Good, Config
<1>2. init.mechanism = Profile /\ init.response = InitialResponse
  BY <1>1
<1>3. sasl \in Scrams \cup {"Anonymous", "Lax", "Plain", "External"}
  BY SaslNames DEF Inv
<1>4. sasl # "Lax" => Profile = sasl
  BY <1>1 DEF SaslMechanisms
<1> HIDE DEF init, sasl
<1>5. CASE sasl = "Plain"
  <2>1. OnInit(init) = PlainOutcome(init)
    BY <1>5 DEF OnInit, sasl, Scrams
  <2>2. InitialResponse = <<plan.client.user, plan.client.password>>
    BY <1>4, <1>5 DEF InitialResponse, Scrams
  <2>3. CASE init.response = <<plan.server.user, plan.server.password>>
    <3>1. CredentialsFit
      BY <1>2, <2>2, <2>3 DEF CredentialsFit
    <3>2. OnInit(init) = Outcome("ok", <<>>)
      BY <2>1, <2>3 DEF PlainOutcome
    <3> QED
      BY <1>4, <1>5, <3>1, <3>2, OutcomeFacts DEF Deserved, sasl, init
  <2>4. CASE init.response # <<plan.server.user, plan.server.password>>
    <3>1. OnInit(init) = Outcome("auth", <<>>)
      BY <2>1, <2>4 DEF PlainOutcome
    <3> QED
      BY <3>1, OutcomeFacts DEF Deserved, init
  <2> QED
    BY <2>3, <2>4
<1>6. CASE sasl \in Scrams
  <2>1. OnInit(init) = ScramOnInit(init)
    BY <1>6 DEF OnInit, sasl, Scrams
  <2>2. Profile = sasl
    BY <1>4, <1>6 DEF Scrams
  <2>3. InitialResponse = <<plan.client.user, "cnonce">>
    BY <1>6, <2>2 DEF InitialResponse, Scrams
  <2>4. CASE /\ init.mechanism = plan.server.sasl /\ Len(init.response) = 2
             /\ init.response[1] = plan.server.user
    <3>1. OnInit(init) = Item("challenge", ServerFirst(init.response))
      BY <2>1, <2>4 DEF ScramOnInit
    <3>2. OnInit(init).k = "challenge"
      BY <3>1 DEF Item
    <3>3. plan.client.user = plan.server.user
      BY <1>2, <2>3, <2>4
    <3> QED
      BY <2>2, <3>2, <3>3 DEF Deserved, sasl, init
  <2>5. CASE ~ /\ init.mechanism = plan.server.sasl /\ Len(init.response) = 2
               /\ init.response[1] = plan.server.user
    <3>1. OnInit(init) = Outcome("auth", <<>>)
      BY <2>1, <2>5 DEF ScramOnInit
    <3> QED
      BY <3>1, OutcomeFacts DEF Deserved, init
  <2> QED
    BY <2>4, <2>5
<1>7. CASE sasl \in {"External", "Lax", "Anonymous"}
  <2>1. sasl \notin Scrams \cup {"Plain"}
    BY <1>7 DEF Scrams
  <2>2. OnInit(init) = Item("challenge", <<>>) \/ OnInit(init) = Outcome("ok", <<>>)
    <3>1. CASE sasl = "Anonymous"
      BY <2>1, <3>1 DEF OnInit, sasl
    <3>2. CASE sasl \in {"External", "Lax"}
      <4>1. OnInit(init) = CustomOnInit(init)
        BY <2>1, <3>2 DEF OnInit, sasl
      <4> QED
        BY <4>1 DEF CustomOnInit
    <3> QED
      BY <1>7, <3>1, <3>2
  <2>3. Item("challenge", <<>>).k = "challenge"
    BY DEF Item
  <2> QED
    BY <2>1, <2>2, <2>3, OutcomeFacts DEF Deserved, sasl, init
<1> QED
  BY <1>3, <1>5, <1>6, <1>7

\* What the server answers to a response is deserved, and is the outcome.
LEMMA AnswersResponse ==
  ASSUME Inv, HasSasl("server"), NEW i, i.k = "response", Good("client", i, Config)
  PROVE  Deserved(OnResponse(i.v)) /\ OnResponse(i.v).k = "outcome"
<1> DEFINE sasl == plan.server.sasl
           response == i.v
<1>1. sasl \in Scrams \cup {"Anonymous", "Lax", "Plain", "External"}
  BY SaslNames DEF Inv
<1>2. Profile \in Scrams =>
        \E salt, a : response.proof = ClientProof(Salted(Profile, plan.client.password, salt), a)
  BY DEF Good, Config
<1> HIDE DEF response, sasl
<1>3. CASE sasl = "Plain"
  <2>1. OnResponse(response) = Outcome("sys", <<>>)
    BY <1>3 DEF OnResponse, sasl, Scrams
  <2> QED
    BY <2>1, OutcomeFacts DEF Deserved, response
<1>4. CASE sasl \in Scrams
  <2> DEFINE s == scram["server"]
  <2>1. OnResponse(response) = ScramOnResponse(response)
    BY <1>4 DEF OnResponse, sasl, Scrams
  <2>2. CASE s.at = "ServerFirstSent" /\ ProofHolds(response, s)
    <3> DEFINE auth == AuthMessage(s.bare, s.first, response.nonce)
               stored == H(ClientKey(Salted(sasl, plan.server.password, Salt)))
    <3>1. OnResponse(response) = Outcome("ok", Hmac(StoredPassword.server_key, auth))
      BY <2>1, <2>2 DEF ScramOnResponse
    <3>2. Profile = sasl /\ plan.client.user = plan.server.user
      BY <2>2 DEF Inv, Remembered, sasl
    <3>3. PICK salt, a : response.proof = ClientProof(Salted(Profile, plan.client.password, salt), a)
      BY <1>2, <1>4, <3>2
    <3>4. StoredPassword.stored_key = stored
      BY DEF StoredPassword, sasl
    <3>5. H(Xor(response.proof, Hmac(stored, auth))) = stored
      BY <2>2, <3>4 DEF ProofHolds
    <3>6. plan.client.password = plan.server.password
      <4> DEFINE v == Profile
                 x == plan.client.password
                 y == plan.server.password
      <4>1. H(Xor(ClientProof(Salted(v, x, salt), a), Hmac(H(ClientKey(Salted(sasl, y, Salt))), auth)))
              = H(ClientKey(Salted(sasl, y, Salt)))
        BY <3>3, <3>5
      <4> HIDE DEF v, x, y, auth
      <4>2. x = y
        BY <4>1, ProofIsKnowledge
      <4> QED
        BY <4>2 DEF x, y
    <3>7. CredentialsFit
      BY <3>2, <3>6 DEF CredentialsFit
    <3> HIDE DEF auth
    <3> QED
      BY <3>1, <3>2, <3>7, OutcomeFacts DEF Deserved, sasl, response
  <2>3. CASE ~(s.at = "ServerFirstSent" /\ ProofHolds(response, s))
    <3>1. OnResponse(response) = Outcome("auth", <<>>)
      BY <2>1, <2>3 DEF ScramOnResponse
    <3> QED
      BY <3>1, OutcomeFacts DEF Deserved, response
  <2> QED
    BY <2>2, <2>3
<1>5. CASE sasl \in {"External", "Lax", "Anonymous"}
  <2>1. sasl \notin Scrams \cup {"Plain"}
    BY <1>5 DEF Scrams
  <2>2. OnResponse(response) = Outcome("ok", <<>>)
    BY <1>5, <2>1 DEF OnResponse, sasl
  <2> QED
    BY <2>1, <2>2, OutcomeFacts DEF Deserved, sasl, response
<1> QED
  BY <1>1, <1>3, <1>4, <1>5

\* A SASL step of the server keeps the invariant: it grants only what is deserved.
LEMMA KeepSaslServer ==
  ASSUME Inv, SaslServer
  PROVE  Inv'
<1> DEFINE i == Head(buf["server"])
           answer == CASE i.k = "init"     -> OnInit(i.v)
                       [] i.k = "response" -> OnResponse(i.v)
                       [] OTHER            -> Outcome("sys", <<>>)
           passed == answer.k = "outcome" /\ answer.v.code = "ok"
<1>1. /\ pc["server"] = "sasl" /\ buf["server"] # <<>> /\ UNCHANGED <<plan, limits, cut>>
      /\ \/ /\ answer.k = "challenge"
            /\ Sent("server", <<answer>>)
            /\ Taken("server")
            /\ scram' = [scram EXCEPT !.server = ScramAfter(i, answer)]
            /\ UNCHANGED <<pc, result, hungup, trust>>
         \/ /\ passed
            /\ Sent("server", <<answer, Header("amqp")>>)
            /\ Taken("server")
            /\ scram' = [scram EXCEPT !.server = ScramAfter(i, answer)]
            /\ trust' = [trust EXCEPT !.server = TRUE]
            /\ GoTo("server", "amqpHeader")
         \/ /\ answer.k = "outcome" /\ ~passed
            /\ Sent("server", IF i.k \in SaslKinds THEN <<answer>> ELSE <<>>)
            /\ Fail("server", IF i.k \in SaslKinds THEN "sasl" ELSE "garbled")
            /\ UNCHANGED <<scram, trust>>
  BY DEF SaslServer
<1>2. "client" \in Party /\ "server" \in Party /\ Peer("server") = "client" /\ "client" # "server"
  BY PartyFacts
<1>3. Good("client", i, Config) /\ (Taken("server") => DOMAIN buf' = Party /\ Buffers(buf', Config))
  BY <1>1, <1>2, Takes, InnerFacts
<1>4. HasSasl("server")
  BY <1>1, <1>2 DEF Inv, Layered
<1>5. DOMAIN scram = Party /\ trust \in [Party -> BOOLEAN]
  BY DEF Inv, Domains
<1>6. Profile' = Profile /\ (trust'["server"] = trust["server"] => Config' = Config) /\ plan' = plan
  BY <1>1, ConfigKept
<1> HIDE DEF i
<1>7. /\ Deserved(answer)
      /\ answer.k = "challenge" => i.k = "init"
      /\ answer.k = "challenge" /\ plan.server.sasl \in Scrams =>
           Profile = plan.server.sasl /\ plan.client.user = plan.server.user
  <2>1. CASE i.k = "init"
    <3>1. answer = OnInit(i.v)
      BY <2>1
    <3> QED
      BY <1>3, <1>4, <2>1, <3>1, AnswersInit
  <2>2. CASE i.k = "response"
    <3>1. answer = OnResponse(i.v)
      BY <2>2
    <3> QED
      BY <1>3, <1>4, <2>2, <3>1, AnswersResponse
  <2>3. CASE i.k \notin {"init", "response"}
    <3>1. answer = Outcome("sys", <<>>)
      BY <2>3
    <3> HIDE DEF answer
    <3> QED
      BY <3>1, OutcomeFacts DEF Deserved
  <2> QED
    BY <2>1, <2>2, <2>3
<1> HIDE DEF answer
<1>8. ScramAfter(i, answer).at = "ServerFirstSent" =>
        \/ Profile = plan.server.sasl /\ plan.client.user = plan.server.user
        \/ ScramAfter(i, answer) = scram["server"]
  <2>1. CASE i.k = "init" /\ answer.k = "challenge" /\ plan.server.sasl \in Scrams
    BY <1>7, <2>1
  <2>2. CASE /\ ~(i.k = "init" /\ answer.k = "challenge" /\ plan.server.sasl \in Scrams)
             /\ i.k = "response" /\ plan.server.sasl \in Scrams /\ answer.v.code = "ok"
    <3>1. ScramAfter(i, answer) = [at |-> "ServerFinalSent"]
      BY <2>2 DEF ScramAfter
    <3> QED
      BY <3>1
  <2>3. CASE /\ ~(i.k = "init" /\ answer.k = "challenge" /\ plan.server.sasl \in Scrams)
             /\ ~(i.k = "response" /\ plan.server.sasl \in Scrams /\ answer.v.code = "ok")
    <3>1. ScramAfter(i, answer) = scram["server"]
      BY <2>3 DEF ScramAfter
    <3> QED
      BY <3>1
  <2> QED
    BY <2>1, <2>2, <2>3
<1>9. ASSUME scram' = [scram EXCEPT !.server = ScramAfter(i, answer)]
      PROVE  DOMAIN scram' = Party /\ Remembered'
  <2>1. /\ DOMAIN scram' = Party /\ scram'["client"] = scram["client"]
        /\ scram'["server"] = ScramAfter(i, answer)
    BY <1>2, <1>5, <1>9
  <2> QED
    BY <1>6, <1>8, <2>1 DEF Inv, Remembered
<1>10. CASE /\ answer.k = "challenge" /\ Sent("server", <<answer>>) /\ Taken("server")
            /\ scram' = [scram EXCEPT !.server = ScramAfter(i, answer)]
            /\ UNCHANGED <<pc, result, hungup, trust>>
  <2>1. Good("server", answer, Config)
    BY <1>10 DEF Good
  <2>2. DOMAIN wire' = Party /\ Wires(wire', Config)
    BY <1>2, <1>10, <2>1, HoldsItems, Sends, InnerFacts
  <2>3. Authenticated'
    BY <1>6, <1>10 DEF Inv, Authenticated, CredentialsFit
  <2> QED
    BY <1>1, <1>3, <1>5, <1>6, <1>9, <1>10, <2>2, <2>3, SaslKeeps, InnerFacts
<1>11. CASE /\ passed /\ Sent("server", <<answer, Header("amqp")>>) /\ Taken("server")
            /\ scram' = [scram EXCEPT !.server = ScramAfter(i, answer)]
            /\ trust' = [trust EXCEPT !.server = TRUE]
            /\ GoTo("server", "amqpHeader")
  <2>1. /\ trust' \in [Party -> BOOLEAN] /\ trust'["server"] /\ trust'["client"] = trust["client"]
    BY <1>2, <1>5, <1>11
  <2>2. /\ answer.v.data = <<>> \/ \E a : answer.v.data = Hmac(StoredPassword.server_key, a)
        /\ plan.server.sasl \in Scrams \cup {"Plain"} => Profile = plan.server.sasl /\ CredentialsFit
    BY <1>7, <1>11 DEF Deserved
  <2>3. /\ Config'.open = Config.open /\ Config'.mech = Config.mech /\ Config'.prof = Config.prof
        /\ Config'.resp = Config.resp /\ Config'.pw = Config.pw /\ Config'.key = Config.key
        /\ Config'.tr /\ Config.key = StoredPassword.server_key
    <3>1. /\ \A p : LocalOpen(p)' = LocalOpen(p)
          /\ Profile' = Profile /\ StoredPassword' = StoredPassword
          /\ SaslMechanisms' = SaslMechanisms /\ InitialResponse' = InitialResponse
      BY <1>1, ConfigKept
    <3> QED
      BY <1>1, <2>1, <3>1 DEF Config
  <2>4. \A p, j : Good(p, j, Config) => Good(p, j, Config')
    BY <2>3 DEF Good
  <2>5. \A p, s : Holds(p, s, Config) => Holds(p, s, Config')
    BY <2>4 DEF Holds
  <2>6. Wires(wire, Config') /\ Buffers(buf', Config')
    BY <1>3, <1>11, <2>5, InnerFacts DEF Wires, Buffers
  <2>7. Good("server", answer, Config')
    BY <1>2, <1>11, <2>2, <2>3 DEF Good
  <2>8. Holds("server", <<answer, Header("amqp")>>, Config')
    BY <2>7, HoldsItems, PlainItems
  <2>9. DOMAIN wire' = Party /\ Wires(wire', Config')
    BY <1>2, <1>11, <2>6, <2>8, Sends, InnerFacts
  <2>10. Authenticated'
    BY <1>6, <2>1, <2>2 DEF Inv, Authenticated, CredentialsFit
  <2>11. /\ DOMAIN pc' = Party /\ result' = result /\ hungup' = hungup
         /\ pc'["server"] = "amqpHeader" /\ \A q \in Party : q # "server" => pc'[q] = pc[q]
    BY <1>2, <1>11, Goes, InnerFacts
  <2> QED
    BY <1>1, <1>3, <1>9, <1>11, <2>1, <2>6, <2>9, <2>10, <2>11, SaslKeeps, InnerFacts
<1>12. CASE /\ answer.k = "outcome" /\ ~passed
            /\ Sent("server", IF i.k \in SaslKinds THEN <<answer>> ELSE <<>>)
            /\ Fail("server", IF i.k \in SaslKinds THEN "sasl" ELSE "garbled")
            /\ UNCHANGED <<scram, trust>>
  <2>1. Good("server", answer, Config)
    BY <1>12 DEF Good
  <2>2. Holds("server", IF i.k \in SaslKinds THEN <<answer>> ELSE <<>>, Config)
    BY <2>1, HoldsItems, HoldsEmpty
  <2>3. DOMAIN wire' = Party /\ Wires(wire', Config)
    BY <1>2, <1>12, <2>2, Sends, InnerFacts
  <2> QED
    BY <1>1, <1>2, <1>12, <2>3, PlainFails, PlainKeeps
<1> QED
  BY <1>1, <1>10, <1>11, <1>12

-----------------------------------------------------------------------------
(* The invariant holds.                                                    *)

\* The invariant holds before the connection is made.
LEMMA InitInv ==
  ASSUME Init
  PROVE  Inv
<1>1. PlanOK
  BY PlansAssumption DEF Init, PlanOK
<1>2. \A p \in Party : /\ wire[p] = <<>> /\ buf[p] = <<>> /\ result[p] = "pending"
                       /\ pc[p] = "start" /\ scram[p].at = "Initial" /\ trust[p] = FALSE
  BY DEF Init
<1>3. Domains
  BY DEF Init, Domains
<1>4. Streams
  BY <1>2, HoldsEmpty, PartyFacts DEF Streams
<1>5. Layered /\ Exchange
  BY <1>2 DEF Layered, Exchange
<1>6. Remembered /\ Authenticated
  BY <1>2, PartyFacts DEF Remembered, Authenticated
<1> QED
  BY <1>1, <1>3, <1>4, <1>5, <1>6 DEF Inv

\* Every step of the negotiation keeps the invariant.
LEMMA NextInv ==
  ASSUME Inv, [Next]_vars
  PROVE  Inv'
<1>1. CASE OpenWithStream \/ Accept
  BY <1>1, PlainOpen, PlainKeeps
<1>2. CASE TlsHeaderClient \/ TlsHeaderServer
  BY <1>2, PlainTlsHeader, PlainKeeps
<1>3. CASE SaslClient
  BY <1>3, KeepSaslClient
<1>4. CASE SaslServer
  BY <1>4, KeepSaslServer
<1>5. ASSUME NEW p \in Party,
             \/ Fill(p) \/ OnEof(p) \/ TlsHandshake(p) \/ SaslHeader(p) \/ AmqpHeader(p)
             \/ Closing(p) \/ OnIncoming(p) \/ OnIdleTimeout(p)
      PROVE  Inv'
  BY <1>5, PlainFill, PlainEof, PlainHandshake, PlainHeaders, PlainIncoming, PlainIdle, PlainKeeps
<1>6. ASSUME NEW p \in Party, OpenInner(p) \/ SendFull(p)
      PROVE  Inv'
  BY <1>6, KeepOpenInner, KeepSendFull
<1>7. CASE Cut
  BY <1>7, PlainCut, PlainKeeps
<1>8. CASE UNCHANGED vars
  <2>1. UNCHANGED <<plan, pc, result, wire, buf, scram, trust, limits, hungup, cut>>
    BY <1>8 DEF vars
  <2> QED
    BY <2>1, PlainKeeps, InnerFacts DEF PlainStep
<1> QED
  BY <1>1, <1>2, <1>3, <1>4, <1>5, <1>6, <1>7, <1>8 DEF Next, Step, Client, Server

\* What every item in flight or read ahead may hold is an invariant of the negotiation
\* (connect_with_stream(), accept() and the SASL profiles).
THEOREM Invariance == Spec => []Inv
BY InitInv, NextInv, PTL DEF Spec

\* Whoever leaves the SASL layer with an outcome of Ok is right to, in every interleaving
\* and with every fault, for all the configurations of the two builders: PLAIN and SCRAM
\* acceptors pass only who holds the password (PlainAuthenticator, ScramAuthenticator), and
\* a SCRAM client accepts only an acceptor with its server key (SaslProfile::on_frame).
THEOREM Authentication == Spec => []Authenticated
<1>1. Inv => Authenticated
  BY DEF Inv
<1> QED
  BY <1>1, Invariance, PTL

\* What two parties agree on: each encodes what the other decodes, and the smaller limit counts.
LEMMA AgreedFields ==
  ASSUME NEW p \in Party
  PROVE  /\ Agreed(p).encoder = EncoderSize(LocalOpen(Peer(p)).frame)
         /\ Agreed(p).decoder = DecoderSize(LocalOpen(p).frame)
         /\ Agreed(p).channels = Min2(plan[p].channels, plan[Peer(p)].channels)
         /\ p = "server" => Agreed(p).heartbeat = plan["client"].idle \div 2
<1>1. /\ LocalOpen(Peer(p)).channels = plan[Peer(p)].channels
      /\ p = "server" => LocalOpen(Peer(p)).idle = plan["client"].idle \div 2
  BY PartyFacts DEF LocalOpen
<1> QED
  BY <1>1 DEF Agreed

\* Two ends that are open agree on channels, frame sizes and the heartbeat, whatever their
\* builders were given and whichever Open came first (on_incoming_open() and open_inner()).
THEOREM Agreement == Spec => []LimitsAgreed
<1>1. ASSUME Inv
      PROVE  LimitsAgreed
  <2> SUFFICES ASSUME Opened("client"), Opened("server")
               PROVE  /\ limits["client"].channels = limits["server"].channels
                      /\ \A p \in Party : limits[p].encoder + LenField <= limits[Peer(p)].decoder
                      /\ plan.client.idle > 1 =>
                           limits["server"].heartbeat \in 1..(plan.client.idle - 1)
    BY DEF LimitsAgreed
  <2>1. \A p \in Party : limits[p] = Agreed(p)
    BY <1>1 DEF Inv, Exchange, Opened, Party
  <2>2. /\ plan["client"].channels \in Int /\ plan["server"].channels \in Int
        /\ plan["client"].idle \in Nat
    BY <1>1, SizesAssumption DEF Inv, PlanOK, Builders, Acceptors, FromSessionMax, Max2
  <2>3. "client" \in Party /\ "server" \in Party /\ Peer("client") = "server"
        /\ Peer("server") = "client"
    BY PartyFacts
  <2>4. limits["client"].channels = limits["server"].channels
    <3>1. limits["client"].channels = Min2(plan["client"].channels, plan["server"].channels)
      BY <2>1, <2>3, AgreedFields
    <3>2. limits["server"].channels = Min2(plan["server"].channels, plan["client"].channels)
      BY <2>1, <2>3, AgreedFields
    <3> QED
      BY <2>2, <3>1, <3>2 DEF Min2
  <2>5. ASSUME NEW p \in Party
        PROVE  limits[p].encoder + LenField <= limits[Peer(p)].decoder
    <3> DEFINE o == LocalOpen(Peer(p)).frame
    <3>1. limits[p].encoder = EncoderSize(o) /\ limits[Peer(p)].decoder = DecoderSize(o)
      BY <2>1, PartyFacts, AgreedFields
    <3>2. EncoderSize(o) + LenField = o /\ DecoderSize(o) = o
      BY <1>1, LongestFrame, PartyFacts DEF Inv
    <3>3. o \in Int
      <4>1. Peer(p) \in Party
        BY PartyFacts
      <4>2. plan[Peer(p)].frame \in Nat
        BY <1>1, <4>1, SizesAssumption DEF Inv, PlanOK, Party, Builders, Acceptors
      <4> QED
        BY <4>2, FrameAssumption DEF LocalOpen, Max2
    <3> HIDE DEF o
    <3> QED
      BY <3>1, <3>2, <3>3
  <2>6. ASSUME plan.client.idle > 1
        PROVE  limits["server"].heartbeat \in 1..(plan.client.idle - 1)
    <3>1. limits["server"].heartbeat = plan["client"].idle \div 2
      BY <2>1, <2>3, AgreedFields
    <3> DEFINE n == plan["client"].idle
    <3>2. n \in Nat /\ n > 1
      BY <2>2, <2>6
    <3> HIDE DEF n
    <3>3. n \div 2 \in 1 .. (n - 1)
      BY <3>2
    <3> QED
      BY <3>1, <3>3 DEF n
  <2> QED
    BY <2>4, <2>5, <2>6
<1> QED
  BY <1>1, Invariance, PTL

-----------------------------------------------------------------------------
(* Nobody reads the items of one layer with the codec of another.          *)

\* What p wrote and its peer has not decoded.
Pipe(p) == buf[Peer(p)] \o wire[p]

Headers == {Header("sasl"), Header("amqp")}

\* What p may have written right behind an item.
Follows(p, i, j) ==
  \/ p = "server" /\ i = Hello /\ j \in Headers
  \/ p = "server" /\ i = Header("sasl") /\ j.k = "mechanisms"
  \/ p = "server" /\ i.k = "outcome" /\ j = Header("amqp")
  \/ i = Header("amqp") /\ j.k \in {"open", "torn"}
  \/ i.k \in {"open", "full"} /\ j.k \in {"full", "close"}
  \/ i.k = "torn" /\ j.k \in AmqpKinds

\* Where a party awaits its first item, and where it does or will await the next.
FirstAwait(p) ==
  IF p = "client" /\ plan.client.scheme # "amqp"
    THEN IF plan.client.alt THEN "tlsHello" ELSE "tlsHeader"
  ELSE IF p = "server" /\ plan.server.tls # "none"
    THEN IF plan.server.tls = "own" THEN "tlsHello" ELSE "tlsHeader"
  ELSE IF HasSasl(p) THEN "saslHeader" ELSE "amqpHeader"

At(p) == IF pc[p] = "start" THEN FirstAwait(p) ELSE pc[p]

\* The items of the layer that is read at a place.
Expects(at, i) ==
  /\ at = "tlsHeader" => i = Header("tls")
  /\ at = "tlsHello" => i = Hello
  /\ at \in {"saslHeader", "amqpHeader"} => i \in Headers
  /\ at = "sasl" => i.k \in SaslKinds
  /\ at = "opened" => i.k \in {"full", "close"}
  /\ at \in {"open", "closing"} => i.k \in AmqpKinds

\* The unread items of p, whose reader is at rt.
Fine(p, T, rt) ==
  /\ \A k \in 1 .. Len(T) - 1 : Follows(p, T[k], T[k + 1])
  /\ T # <<>> => Expects(rt, T[1])

\* The items that are written in turn: the writer waits for the answer.
Calls(i) == i \in {Header("tls"), Hello} \/ i.k \in SaslKinds

\* Where the writer p, at `at`, and the reader, at `rt`, are while i is unread.
Where(p, i, at, rt) ==
  /\ i = Header("tls") => /\ rt = "tlsHeader"
                          /\ at = IF p = "client" THEN "tlsHeader" ELSE "tlsHello"
  /\ i = Hello => /\ rt = "tlsHello"
                  /\ at \in IF p = "client" THEN {"tlsHello"} ELSE {"saslHeader", "amqpHeader"}
  /\ i = Header("sasl") => at \in {"saslHeader", "sasl"}
  /\ i.k \in {"init", "response"} => p = "client" /\ at = "sasl" /\ rt = "sasl"
  /\ i.k = "mechanisms" => p = "server" /\ at = "sasl" /\ rt \in {"saslHeader", "sasl"}
  /\ i.k = "challenge" => p = "server" /\ at = "sasl" /\ rt = "sasl"
  /\ i.k = "outcome" => p = "server" /\ at = "amqpHeader" /\ rt = "sasl"

\* The last item of a writer at `at`, or where that item has brought the reader.
Wrote(at, T, rt, first) ==
  /\ at = "start" => T = <<>> /\ rt = first
  /\ at = "saslHeader" => IF T = <<>> THEN rt = "sasl" ELSE T[Len(T)] = Header("sasl")
  /\ at = "amqpHeader" => IF T = <<>> THEN rt \in {"open", "closing"} ELSE T[Len(T)] = Header("amqp")
  /\ at \in {"open", "opened"} =>
       IF T = <<>> THEN rt \in {"opened", "closing"} ELSE T[Len(T)].k \in {"open", "torn", "full"}

\* The stream T of p, at `at`, against the stream U of its reader, at rt.
Side(p, T, U, at, rt, first) ==
  /\ \A k \in 1 .. Len(T) : Where(p, T[k], at, rt) /\ (Calls(T[k]) => U = <<>>)
  /\ Wrote(at, T, rt, first)

Live == ~cut /\ \A p \in Party : pc[p] # "done"

\* The client begins with TLS before the server has written.
Unstarted == pc["client"] = "start" /\ plan.client.scheme # "amqp" => Pipe("server") = <<>>

Conversation ==
  TlsFits =>
    /\ \A p \in Party : pc[Peer(p)] # "done" => Fine(p, Pipe(p), At(Peer(p)))
    /\ Live => /\ Unstarted
               /\ \A p \in Party : Side(p, Pipe(p), Pipe(Peer(p)), pc[p], At(Peer(p)),
                                        FirstAwait(Peer(p)))

\* Only a FramedRead has a buffer.
Buffered == \A p \in Party : pc[p] \notin Framed => buf[p] = <<>>


-----------------------------------------------------------------------------
(* Unread items: what is added at the end and taken from the front.        *)

IsSeq(T) == \E S : T \in Seq(S)

\* A sequence with one item added.
LEMMA Added ==
  ASSUME NEW T, IsSeq(T), NEW x
  PROVE  /\ IsSeq(T \o <<x>>) /\ T \o <<x>> # <<>>
         /\ Len(T) \in Nat /\ Len(T \o <<x>>) = Len(T) + 1
         /\ (T = <<>>) <=> (Len(T) = 0)
         /\ (T \o <<x>>)[Len(T) + 1] = x
         /\ \A k \in 1 .. Len(T) : (T \o <<x>>)[k] = T[k]
<1>1. PICK S : T \in Seq(S)
  BY DEF IsSeq
<1> DEFINE R == S \cup {x}
           X == <<x>>
<1>2. T \in Seq(R) /\ X \in Seq(R) /\ Len(X) = 1 /\ X[1] = x
  BY <1>1
<1> HIDE DEF R, X
<1>3. T \o X \in Seq(R) /\ Len(T) \in Nat /\ Len(T \o X) = Len(T) + 1
  <2>1. T \o X \in Seq(R) /\ Len(T \o X) = Len(T) + Len(X)
    BY <1>2, ConcatProperties
  <2>2. Len(T) \in Nat
    BY <1>2
  <2> QED
    BY <1>2, <2>1, <2>2
<1>5. /\ (T \o X)[Len(T) + 1] = X[1]
      /\ \A k \in 1 .. Len(T) : (T \o X)[k] = T[k]
  <2>1. \A k \in 1 .. Len(T) + Len(X) :
          (T \o X)[k] = IF k <= Len(T) THEN T[k] ELSE X[k - Len(T)]
    BY <1>2, ConcatProperties
  <2> QED
    BY <1>2, <1>3, <2>1
<1>6. (T = <<>>) <=> (Len(T) = 0)
  BY <1>2, EmptySeq
<1>4. T \o X # <<>>
  BY <1>3
<1> QED
  BY <1>2, <1>3, <1>4, <1>5, <1>6 DEF IsSeq, X

\* Two items added are one added after the other.
LEMMA AddedTwo ==
  ASSUME NEW T, IsSeq(T), NEW x, NEW y
  PROVE  T \o <<x, y>> = (T \o <<x>>) \o <<y>>
<1>1. PICK S : T \in Seq(S)
  BY DEF IsSeq
<1> DEFINE R == S \cup {x, y}
           X == <<x>>
           Y == <<y>>
<1>2. T \in Seq(R) /\ X \in Seq(R) /\ Y \in Seq(R)
  BY <1>1
<1>3. X \o Y = <<x, y>>
  <2> DEFINE Z == <<x, y>>
             Q == X \o Y
  <2>1. Z \in Seq(R) /\ Len(Z) = 2 /\ Z[1] = x /\ Z[2] = y
    OBVIOUS
  <2>2. Q \in Seq(R) /\ Len(Q) = 2 /\ Q[1] = x /\ Q[2] = y
    BY <1>2
  <2> HIDE DEF Z, Q
  <2>3. \A i \in 1 .. Len(Q) : Q[i] = Z[i]
    BY <2>1, <2>2
  <2>4. Q = Z
    BY <2>1, <2>2, <2>3, SeqEqual
  <2> QED
    BY <2>4 DEF Q, Z
<1> HIDE DEF R, X, Y
<1>4. T \o (X \o Y) = (T \o X) \o Y
  BY <1>2
<1> QED
  BY <1>3, <1>4 DEF X, Y

\* Nothing added.
LEMMA AddedNone ==
  ASSUME NEW T, IsSeq(T)
  PROVE  T \o <<>> = T /\ <<>> \o T = T
BY DEF IsSeq

\* A sequence with its head dropped.
LEMMA Dropped ==
  ASSUME NEW U, IsSeq(U), U # <<>>
  PROVE  /\ IsSeq(Tail(U)) /\ Len(U) \in Nat /\ Len(U) >= 1 /\ Len(Tail(U)) = Len(U) - 1
         /\ Head(U) = U[1] /\ \A k \in 1 .. Len(U) - 1 : Tail(U)[k] = U[k + 1]
         /\ (Tail(U) = <<>>) <=> (Len(U) = 1)
<1>1. PICK S : U \in Seq(S)
  BY DEF IsSeq
<1>2. /\ Tail(U) \in Seq(S) /\ Len(U) \in Nat /\ Len(U) >= 1 /\ Len(Tail(U)) = Len(U) - 1
      /\ Head(U) = U[1] /\ \A k \in 1 .. Len(U) - 1 : Tail(U)[k] = U[k + 1]
  BY <1>1
<1>3. (Tail(U) = <<>>) <=> (Len(U) = 1)
  <2> DEFINE R == Tail(U)
  <2>1. R \in Seq(S) /\ Len(R) = Len(U) - 1 /\ Len(U) \in Nat
    BY <1>2
  <2> HIDE DEF R
  <2>2. (R = <<>>) <=> (Len(R) = 0)
    BY <2>1, EmptySeq
  <2> QED
    BY <2>1, <2>2 DEF R
<1> QED
  BY <1>2, <1>3 DEF IsSeq

\* A sequence is empty exactly when its length is 0.
LEMMA Lengths ==
  ASSUME NEW T, IsSeq(T)
  PROVE  Len(T) \in Nat /\ ((T = <<>>) <=> (Len(T) = 0))
BY DEF IsSeq

\* The kinds of items, and the headers, differ.
LEMMA ItemFacts ==
  /\ \A id : Header(id).k = "header"
  /\ Hello.k = "hello"
  /\ \A k, v : Item(k, v).k = k
  /\ Header("tls") # Header("sasl") /\ Header("tls") # Header("amqp")
  /\ Header("sasl") # Header("amqp")
BY DEF Header, Hello, Item

\* The next item fits: it follows the last one, or the reader expects it.
Fits(p, T, x, rt) == IF T = <<>> THEN Expects(rt, x) ELSE Follows(p, T[Len(T)], x)

\* A conversation goes on with any item that fits it.
LEMMA FineMore ==
  ASSUME NEW p, NEW T, IsSeq(T), NEW rt, Fine(p, T, rt), NEW x, Fits(p, T, x, rt)
  PROVE  Fine(p, T \o <<x>>, rt)
<1> DEFINE R == T \o <<x>>
<1>1. /\ R # <<>> /\ Len(T) \in Nat /\ Len(R) = Len(T) + 1 /\ ((T = <<>>) <=> (Len(T) = 0))
      /\ R[Len(T) + 1] = x /\ \A k \in 1 .. Len(T) : R[k] = T[k]
  BY Added
<1> HIDE DEF R
<1>2. ASSUME NEW k \in 1 .. Len(R) - 1
      PROVE  Follows(p, R[k], R[k + 1])
  <2>1. CASE k = Len(T)
    <3>1. T # <<>> /\ R[k] = T[Len(T)] /\ R[k + 1] = x
      BY <1>1, <2>1
    <3> QED
      BY <3>1 DEF Fits
  <2>2. CASE k # Len(T)
    <3>1. k \in 1 .. Len(T) - 1 /\ R[k] = T[k] /\ R[k + 1] = T[k + 1]
      BY <1>1, <2>2
    <3> QED
      BY <3>1 DEF Fine
  <2> QED
    BY <2>1, <2>2
<1>3. Expects(rt, R[1])
  <2>1. CASE T = <<>>
    BY <1>1, <2>1 DEF Fits
  <2>2. CASE T # <<>>
    <3>1. R[1] = T[1]
      BY <1>1, <2>2
    <3> QED
      BY <2>2, <3>1 DEF Fine
  <2> QED
    BY <2>1, <2>2
<1>4. Fine(p, R, rt)
  BY <1>2, <1>3 DEF Fine
<1> QED
  BY <1>4 DEF R

\* The first item has been read: what is next is what the reader now expects.
LEMMA FineRest ==
  ASSUME NEW p, NEW U, IsSeq(U), U # <<>>, NEW at, Fine(p, U, at), NEW there,
         \A j : Follows(p, Head(U), j) => Expects(there, j)
  PROVE  Fine(p, Tail(U), there)
<1> DEFINE R == Tail(U)
<1>1. /\ Len(U) \in Nat /\ Len(U) >= 1 /\ Len(R) = Len(U) - 1
      /\ Head(U) = U[1] /\ (\A k \in 1 .. Len(U) - 1 : R[k] = U[k + 1])
      /\ ((R = <<>>) <=> (Len(U) = 1))
  BY Dropped
<1> HIDE DEF R
<1>2. ASSUME NEW k \in 1 .. Len(R) - 1
      PROVE  Follows(p, R[k], R[k + 1])
  <2>1. k + 1 \in 1 .. Len(U) - 1 /\ R[k] = U[k + 1] /\ R[k + 1] = U[(k + 1) + 1]
    BY <1>1
  <2> QED
    BY <2>1 DEF Fine
<1>3. ASSUME R # <<>>
      PROVE  Expects(there, R[1])
  <2>1. 1 \in 1 .. Len(U) - 1 /\ R[1] = U[1 + 1]
    BY <1>1, <1>3
  <2>2. Follows(p, U[1], U[1 + 1])
    BY <2>1 DEF Fine
  <2> QED
    BY <1>1, <2>1, <2>2
<1>4. Fine(p, R, there)
  BY <1>2, <1>3 DEF Fine
<1> QED
  BY <1>4 DEF R

-----------------------------------------------------------------------------
(* A party reads an item and goes on.                                      *)

\* p, at `at`, reads i without an error, goes to `there` and writes W.
Moves(p, at, i, there, W) ==
  \/ /\ at = "tlsHeader" /\ i = Header("tls") /\ there = "tlsHello"
     /\ W = IF p = "client" THEN <<Hello>> ELSE <<Header("tls")>>
  \/ /\ at = "tlsHello" /\ i = Hello /\ there \in {"saslHeader", "amqpHeader"}
     /\ \E h : /\ h = IF there = "saslHeader" THEN Header("sasl") ELSE Header("amqp")
               /\ W = IF p = "client" THEN <<h>> ELSE <<Hello, h>>
  \/ /\ at = "saslHeader" /\ i = Header("sasl") /\ there = "sasl"
     /\ \/ p = "client" /\ W = <<>>
        \/ p = "server" /\ \E x : x.k = "mechanisms" /\ W = <<x>>
  \/ /\ at = "sasl" /\ p = "client" /\ i.k \in {"mechanisms", "challenge"} /\ there = "sasl"
     /\ \E x : x.k \in {"init", "response"} /\ W = <<x>>
  \/ /\ at = "sasl" /\ p = "client" /\ i.k = "outcome" /\ there = "amqpHeader"
     /\ W = <<Header("amqp")>>
  \/ /\ at = "sasl" /\ p = "server" /\ i.k \in {"init", "response"} /\ there = "sasl"
     /\ \E x : x.k = "challenge" /\ W = <<x>>
  \/ /\ at = "sasl" /\ p = "server" /\ i.k \in {"init", "response"} /\ there = "amqpHeader"
     /\ \E x : x.k = "outcome" /\ W = <<x, Header("amqp")>>
  \/ /\ at = "amqpHeader" /\ i = Header("amqp") /\ there = "open"
     /\ \/ \E x : x.k = "open" /\ W = <<x>>
        \/ \E x, y : x.k = "torn" /\ y.k = "torn" /\ W = <<x, y>>
  \/ /\ at = "open" /\ i.k = "open" /\ there = "opened" /\ W = <<>>
  \/ /\ at = "open" /\ i.k # "open" /\ there = "closing"
     /\ \E x : x.k = "close" /\ W = <<x>>
  \/ /\ at = "opened" /\ i.k = "full" /\ there = "opened" /\ W = <<>>

\* What is behind the item is of the layer that is read next.
LEMMA MovesOn ==
  ASSUME NEW p \in Party, NEW U, IsSeq(U), U # <<>>, NEW at, Fine(Peer(p), U, at),
         NEW there, NEW W, Moves(p, at, Head(U), there, W)
  PROVE  Fine(Peer(p), Tail(U), there)
<1> DEFINE i == Head(U)
           q == Peer(p)
<1>1. Expects(at, i) /\ (p = "client" <=> q = "server") /\ (p = "server" <=> q = "client")
  BY Dropped DEF Fine, Party, Peer
<1> HIDE DEF i, q
<1>2. ASSUME NEW j, Follows(q, i, j)
      PROVE  Expects(there, j)
  <2>1. Moves(p, at, i, there, W)
    BY DEF i
  <2> QED
    BY <1>1, <1>2, <2>1, ItemFacts DEF Moves, Follows, Expects, Headers, SaslKinds, AmqpKinds, Party
<1> QED
  BY <1>2, FineRest DEF i, q

\* The items that call for an answer come first, but for the mechanisms.
LEMMA CallsLater ==
  ASSUME NEW p, NEW U, IsSeq(U), NEW at, Fine(p, U, at), NEW k \in 1 .. Len(U) - 1, Calls(U[k + 1])
  PROVE  p = "server" /\ U[k + 1].k = "mechanisms"
<1>1. Follows(p, U[k], U[k + 1])
  BY DEF Fine
<1> QED
  BY <1>1, ItemFacts DEF Follows, Calls, Headers, SaslKinds, AmqpKinds

\* What the reader's step leaves behind the item it has read.
LEMMA MovesRest ==
  ASSUME NEW p \in Party, NEW T, IsSeq(T), NEW U, IsSeq(U), U # <<>>, NEW at, NEW rt, NEW f, NEW g,
         Fine(Peer(p), U, at), Side(Peer(p), U, T, rt, at, g),
         NEW there, NEW W, Moves(p, at, Head(U), there, W)
  PROVE  Side(Peer(p), Tail(U), T \o W, rt, there, g)
<1> DEFINE i == U[1]
           q == Peer(p)
           R == Tail(U)
<1>1. /\ Len(U) \in Nat /\ Len(U) >= 1 /\ Len(R) = Len(U) - 1
      /\ (\A k \in 1 .. Len(U) - 1 : R[k] = U[k + 1])
      /\ ((R = <<>>) <=> (Len(U) = 1)) /\ IsSeq(R)
  BY Dropped
<1>2. Moves(p, at, i, there, W) /\ Expects(at, i)
  BY Dropped DEF Fine
<1>3. (p = "client" <=> q = "server") /\ (p = "server" <=> q = "client")
  BY DEF Party, Peer
<1>4. Where(q, i, rt, at) /\ (Calls(i) => T = <<>>)
  BY <1>1 DEF Side
<1>5. Fine(q, U, at) /\ Side(q, U, T, rt, at, g)
  OBVIOUS
<1> HIDE DEF i, q, R
<1>6. ASSUME NEW k \in 1 .. Len(R)
      PROVE  Where(q, R[k], rt, there) /\ (Calls(R[k]) => T \o W = <<>>)
  <2> DEFINE j == R[k]
  <2>1. j = U[k + 1] /\ k \in 1 .. Len(U) - 1 /\ k + 1 \in 1 .. Len(U) /\ Len(U) # 1
    BY <1>1
  <2>2. Where(q, j, rt, at) /\ (Calls(j) => T = <<>>)
    BY <1>5, <2>1 DEF Side
  <2>3. Calls(j) => q = "server" /\ j.k = "mechanisms"
    BY <1>5, <2>1, CallsLater
  <2>4. Follows(q, i, U[1 + 1])
    <3>1. 1 \in 1 .. Len(U) - 1
      BY <1>1, <2>1
    <3> QED
      BY <1>5, <3>1 DEF Fine, i
  <2> SUFFICES Where(q, j, rt, there) /\ (Calls(j) => T \o W = <<>>)
    OBVIOUS
  <2> HIDE DEF j
  <2>5. CASE ~Calls(j)
    BY <2>2, <2>5 DEF Where, Calls, SaslKinds
  <2>6. CASE Calls(j)
    <3>1. q = "server" /\ j.k = "mechanisms" /\ rt = "sasl" /\ at \in {"saslHeader", "sasl"}
          /\ T = <<>> /\ p = "client"
      BY <1>3, <2>2, <2>3, <2>6 DEF Where
    <3>2. at = "saslHeader"
      <4> SUFFICES ASSUME at = "sasl" PROVE FALSE
        BY <3>1
      <4>1. i.k \in {"mechanisms", "challenge"}
        BY <1>2, <1>4, <3>1 DEF Expects, Where, SaslKinds
      <4> QED
        BY <2>4, <4>1, ItemFacts DEF Follows
    <3>3. there = "sasl" /\ W = <<>>
      BY <1>2, <3>1, <3>2 DEF Moves
    <3>4. T \o W = <<>>
      BY <3>1, <3>3, AddedNone
    <3> QED
      BY <3>1, <3>3, <3>4, ItemFacts DEF Where
  <2> QED
    BY <2>5, <2>6
<1>7. Wrote(rt, R, there, g)
  <2>1. Wrote(rt, U, at, g)
    BY <1>5 DEF Side
  <2>2. CASE R # <<>>
    <3>1. R[Len(R)] = U[Len(U)]
      BY <1>1, <2>2
    <3> QED
      BY <2>1, <2>2, <3>1 DEF Wrote
  <2>3. CASE R = <<>>
    <3>1. U[Len(U)] = i
      BY <1>1, <2>3 DEF i
    <3>2. rt # "start"
      BY <2>1 DEF Wrote
    <3>3. rt = "saslHeader" => there = "sasl"
      <4>1. rt = "saslHeader" => i = Header("sasl")
        BY <2>1, <3>1 DEF Wrote
      <4> QED
        BY <1>2, <4>1, ItemFacts DEF Moves, Expects, SaslKinds, AmqpKinds
    <3>4. rt = "amqpHeader" => there = "open"
      <4>1. rt = "amqpHeader" => i = Header("amqp")
        BY <2>1, <3>1 DEF Wrote
      <4> QED
        BY <1>2, <4>1, ItemFacts DEF Moves, Expects, SaslKinds, AmqpKinds
    <3>5. rt \in {"open", "opened"} => there \in {"opened", "closing"}
      <4>1. rt \in {"open", "opened"} => i.k \in {"open", "torn", "full"}
        BY <2>1, <3>1 DEF Wrote
      <4> QED
        BY <1>2, <4>1, ItemFacts DEF Moves, Expects, SaslKinds, AmqpKinds
    <3> QED
      BY <2>3, <3>2, <3>3, <3>4, <3>5 DEF Wrote
  <2> QED
    BY <2>2, <2>3
<1> QED
  BY <1>6, <1>7 DEF Side, q, R

\* What the reader itself has unread by then stays in order.
LEMMA MovesKept ==
  ASSUME NEW p \in Party, NEW T, IsSeq(T), NEW U, IsSeq(U), U # <<>>, NEW at, NEW rt, NEW f, NEW g,
         Fine(Peer(p), U, at), Side(Peer(p), U, T, rt, at, g), Side(p, T, U, at, rt, f),
         NEW there, NEW W, Moves(p, at, Head(U), there, W), NEW k \in 1 .. Len(T)
  PROVE  Where(p, T[k], there, rt) /\ ~Calls(T[k])
<1> DEFINE i == U[1]
           j == T[k]
<1>1. Moves(p, at, i, there, W) /\ Expects(at, i)
  BY Dropped DEF Fine
<1>2. 1 \in 1 .. Len(U)
  BY Dropped
<1>3. Calls(i) => T = <<>>
  BY <1>2 DEF Side
<1>4. Where(p, j, at, rt) /\ ~Calls(j)
  BY DEF Side
<1>5. T # <<>>
  BY Lengths
<1> HIDE DEF i, j
<1>6. at # "sasl"
  BY <1>1, <1>3, <1>5 DEF Expects, Calls
<1>7. j = Header("sasl") => there = "sasl"
  BY <1>1, <1>4, <1>6 DEF Where, Moves
<1>8. Where(p, j, there, rt)
  BY <1>4, <1>7 DEF Where, Calls, SaslKinds
<1> QED
  BY <1>4, <1>8 DEF j

\* The side of a writer that has added an item.
LEMMA SideMore ==
  ASSUME NEW p, NEW T, IsSeq(T), NEW x, NEW U, NEW at, NEW rt, NEW f,
         \A k \in 1 .. Len(T) : Where(p, T[k], at, rt) /\ (Calls(T[k]) => U = <<>>),
         Where(p, x, at, rt), Calls(x) => U = <<>>,
         at # "start",
         at = "saslHeader" => x = Header("sasl"), at = "amqpHeader" => x = Header("amqp"),
         at \in {"open", "opened"} => x.k \in {"open", "torn", "full"}
  PROVE  Side(p, T \o <<x>>, U, at, rt, f)
<1> DEFINE R == T \o <<x>>
<1>1. /\ R # <<>> /\ Len(T) \in Nat /\ Len(R) = Len(T) + 1
      /\ R[Len(T) + 1] = x /\ \A k \in 1 .. Len(T) : R[k] = T[k]
  BY Added
<1> HIDE DEF R
<1>2. ASSUME NEW k \in 1 .. Len(R)
      PROVE  Where(p, R[k], at, rt) /\ (Calls(R[k]) => U = <<>>)
  <2>1. k \in 1 .. Len(T) \/ k = Len(T) + 1
    BY <1>1
  <2>2. CASE k \in 1 .. Len(T)
    BY <1>1, <2>2
  <2>3. CASE k = Len(T) + 1
    BY <1>1, <2>3
  <2> QED
    BY <2>1, <2>2, <2>3
<1>3. R[Len(R)] = x
  BY <1>1
<1>4. Wrote(at, R, rt, f)
  BY <1>1, <1>3 DEF Wrote
<1>5. Side(p, R, U, at, rt, f)
  BY <1>2, <1>4 DEF Side
<1> QED
  BY <1>5 DEF R

\* Two items, of which the first one's place is judged after both are written.
LEMMA SideTwo ==
  ASSUME NEW p, NEW T, IsSeq(T), NEW x, NEW y, NEW U, NEW at, NEW rt, NEW f,
         \A k \in 1 .. Len(T) : Where(p, T[k], at, rt) /\ (Calls(T[k]) => U = <<>>),
         Where(p, x, at, rt), Calls(x) => U = <<>>, Where(p, y, at, rt), Calls(y) => U = <<>>,
         at # "start",
         at = "saslHeader" => y = Header("sasl"), at = "amqpHeader" => y = Header("amqp"),
         at \in {"open", "opened"} => y.k \in {"open", "torn", "full"}
  PROVE  Side(p, T \o <<x, y>>, U, at, rt, f)
<1> DEFINE R == T \o <<x>>
<1>1. /\ IsSeq(R) /\ Len(T) \in Nat /\ Len(R) = Len(T) + 1
      /\ R[Len(T) + 1] = x /\ \A k \in 1 .. Len(T) : R[k] = T[k]
  BY Added
<1>2. T \o <<x, y>> = R \o <<y>>
  BY AddedTwo
<1> HIDE DEF R
<1>3. ASSUME NEW k \in 1 .. Len(R)
      PROVE  Where(p, R[k], at, rt) /\ (Calls(R[k]) => U = <<>>)
  <2>1. k \in 1 .. Len(T) \/ k = Len(T) + 1
    BY <1>1
  <2>2. CASE k \in 1 .. Len(T)
    BY <1>1, <2>2
  <2>3. CASE k = Len(T) + 1
    BY <1>1, <2>3
  <2> QED
    BY <2>1, <2>2, <2>3
<1>4. Side(p, R \o <<y>>, U, at, rt, f)
  BY <1>1, <1>3, SideMore
<1> QED
  BY <1>2, <1>4

\* A conversation goes on with an item that fits and one that follows it.
LEMMA FineTwo ==
  ASSUME NEW p, NEW T, IsSeq(T), NEW rt, Fine(p, T, rt), NEW x, Fits(p, T, x, rt), NEW y,
         Follows(p, x, y)
  PROVE  Fine(p, T \o <<x, y>>, rt)
<1> DEFINE R == T \o <<x>>
<1>1. IsSeq(R) /\ R # <<>> /\ R[Len(R)] = x
  BY Added
<1>2. T \o <<x, y>> = R \o <<y>>
  BY AddedTwo
<1>3. Fine(p, R, rt)
  BY FineMore
<1> HIDE DEF R
<1>4. Fits(p, R, y, rt)
  BY <1>1 DEF Fits
<1> QED
  BY <1>1, <1>2, <1>3, <1>4, FineMore

\* What the reader writes is in order, and so is its own side then.
LEMMA MovesSaid ==
  ASSUME NEW p \in Party, NEW T, IsSeq(T), NEW U, IsSeq(U), U # <<>>, NEW at, NEW rt, NEW f, NEW g,
         Fine(Peer(p), U, at), Fine(p, T, rt), Side(Peer(p), U, T, rt, at, g),
         Side(p, T, U, at, rt, f), NEW there, NEW W, Moves(p, at, Head(U), there, W)
  PROVE  Fine(p, T \o W, rt) /\ Side(p, T \o W, Tail(U), there, rt, f)
<1> DEFINE i == U[1]
           q == Peer(p)
           R == Tail(U)
<1>1. /\ Len(U) \in Nat /\ Len(U) >= 1 /\ ((R = <<>>) <=> (Len(U) = 1)) /\ 1 \in 1 .. Len(U)
      /\ Moves(p, at, i, there, W)
  BY Dropped
<1>2. (p = "client" /\ q = "server") \/ (p = "server" /\ q = "client")
  BY DEF Party, Peer
<1>3. Where(q, i, rt, at) /\ (Calls(i) => T = <<>>)
  BY <1>1 DEF Side
<1>4. \A k \in 1 .. Len(T) : Where(p, T[k], there, rt) /\ ~Calls(T[k])
  BY MovesKept
<1>5. Wrote(at, T, rt, f)
  BY DEF Side
<1>6. ASSUME \A j : ~Follows(q, i, j)
      PROVE  R = <<>>
  <2> SUFFICES ASSUME Len(U) # 1 PROVE FALSE
    BY <1>1
  <2>1. 1 \in 1 .. Len(U) - 1
    BY <1>1
  <2>2. Follows(q, i, U[1 + 1])
    BY <2>1 DEF Fine
  <2> QED
    BY <1>6, <2>2
<1>7. IsSeq(T) /\ Fine(p, T, rt)
  OBVIOUS
<1> SUFFICES Fine(p, T \o W, rt) /\ Side(p, T \o W, R, there, rt, f)
  OBVIOUS
<1> HIDE DEF i, q, R
\* Nothing is written.
<1>8. ASSUME W = <<>>, Wrote(there, T, rt, f)
      PROVE  Fine(p, T \o W, rt) /\ Side(p, T \o W, R, there, rt, f)
  <2>1. T \o W = T
    BY <1>7, <1>8, AddedNone
  <2> QED
    BY <1>4, <1>7, <1>8, <2>1 DEF Side
\* One item is written, and two.
<1>9. ASSUME NEW x, W = <<x>>, Fits(p, T, x, rt), Where(p, x, there, rt), Calls(x) => R = <<>>,
             there # "start",
             there = "saslHeader" => x = Header("sasl"),
             there = "amqpHeader" => x = Header("amqp"),
             there \in {"open", "opened"} => x.k \in {"open", "torn", "full"}
      PROVE  Fine(p, T \o W, rt) /\ Side(p, T \o W, R, there, rt, f)
  <2>1. Fine(p, T \o <<x>>, rt)
    BY <1>7, <1>9, FineMore
  <2>2. Side(p, T \o <<x>>, R, there, rt, f)
    BY <1>4, <1>7, <1>9, SideMore
  <2> QED
    BY <1>9, <2>1, <2>2
<1>10. ASSUME NEW x, NEW y, W = <<x, y>>, Fits(p, T, x, rt), Follows(p, x, y),
              Where(p, x, there, rt), Calls(x) => R = <<>>,
              Where(p, y, there, rt), Calls(y) => R = <<>>, there # "start",
              there = "saslHeader" => y = Header("sasl"),
              there = "amqpHeader" => y = Header("amqp"),
              there \in {"open", "opened"} => y.k \in {"open", "torn", "full"}
       PROVE  Fine(p, T \o W, rt) /\ Side(p, T \o W, R, there, rt, f)
  <2>1. Fine(p, T \o <<x, y>>, rt)
    BY <1>7, <1>10, FineTwo
  <2>2. Side(p, T \o <<x, y>>, R, there, rt, f)
    BY <1>4, <1>7, <1>10, SideTwo
  <2> QED
    BY <1>10, <2>1, <2>2
<1>11. CASE at = "tlsHeader" /\ i = Header("tls") /\ there = "tlsHello" /\ p = "client" /\ W = <<Hello>>
  <2>1. at = "tlsHeader" /\ i = Header("tls") /\ there = "tlsHello" /\ p = "client"
    BY <1>11
  <2>2. W = <<Hello>>
    BY <1>11
  <2>3. Fits(p, T, Hello, rt)
    BY <1>2, <1>3, <1>5, <2>1, <2>2, ItemFacts DEF Fits, Expects, Follows, Where, Wrote, Calls, Headers, SaslKinds, AmqpKinds
  <2>4. Where(p, Hello, there, rt)
    BY <1>2, <1>3, <1>5, <2>1, <2>2, ItemFacts DEF Where, Wrote, Headers, SaslKinds
  <2>5. R = <<>>
    BY <1>2, <1>6, <2>1, ItemFacts DEF Follows, Headers, SaslKinds, AmqpKinds
  <2> QED
    BY <1>9, <2>1, <2>2, <2>3, <2>4, <2>5
<1>12. CASE at = "tlsHeader" /\ i = Header("tls") /\ there = "tlsHello" /\ p = "server" /\ W = <<Header("tls")>>
  <2>1. at = "tlsHeader" /\ i = Header("tls") /\ there = "tlsHello" /\ p = "server"
    BY <1>12
  <2>2. W = <<Header("tls")>>
    BY <1>12
  <2>3. Fits(p, T, Header("tls"), rt)
    BY <1>2, <1>3, <1>5, <2>1, <2>2, ItemFacts DEF Fits, Expects, Follows, Where, Wrote, Calls, Headers, SaslKinds, AmqpKinds
  <2>4. Where(p, Header("tls"), there, rt)
    BY <1>2, <1>3, <1>5, <2>1, <2>2, ItemFacts DEF Where, Wrote, Headers, SaslKinds
  <2>5. R = <<>>
    BY <1>2, <1>6, <2>1, ItemFacts DEF Follows, Headers, SaslKinds, AmqpKinds
  <2> QED
    BY <1>9, <2>1, <2>2, <2>3, <2>4, <2>5
<1>13. CASE at = "tlsHello" /\ i = Hello /\ there \in {"saslHeader", "amqpHeader"} /\ p = "client" /\ (\E h : h = (IF there = "saslHeader" THEN Header("sasl") ELSE Header("amqp")) /\ W = <<h>>)
  <2>1. at = "tlsHello" /\ i = Hello /\ there \in {"saslHeader", "amqpHeader"} /\ p = "client"
    BY <1>13
  <2>2. PICK h : h = (IF there = "saslHeader" THEN Header("sasl") ELSE Header("amqp")) /\ W = <<h>>
    BY <1>13
  <2>3. Fits(p, T, h, rt)
    BY <1>2, <1>3, <1>5, <2>1, <2>2, ItemFacts DEF Fits, Expects, Follows, Where, Wrote, Calls, Headers, SaslKinds, AmqpKinds
  <2>4. Where(p, h, there, rt)
    BY <1>2, <1>3, <1>5, <2>1, <2>2, ItemFacts DEF Where, Wrote, Headers, SaslKinds
  <2>5. ~Calls(h)
    BY <2>1, <2>2, ItemFacts DEF Calls, Headers, SaslKinds
  <2> QED
    BY <1>9, <2>1, <2>2, <2>3, <2>4, <2>5
<1>14. CASE at = "tlsHello" /\ i = Hello /\ there \in {"saslHeader", "amqpHeader"} /\ p = "server" /\ (\E h : h = (IF there = "saslHeader" THEN Header("sasl") ELSE Header("amqp")) /\ W = <<Hello, h>>)
  <2>1. at = "tlsHello" /\ i = Hello /\ there \in {"saslHeader", "amqpHeader"} /\ p = "server"
    BY <1>14
  <2>2. PICK h : h = (IF there = "saslHeader" THEN Header("sasl") ELSE Header("amqp")) /\ W = <<Hello, h>>
    BY <1>14
  <2>3. Fits(p, T, Hello, rt)
    BY <1>2, <1>3, <1>5, <2>1, <2>2, ItemFacts DEF Fits, Expects, Follows, Where, Wrote, Calls, Headers, SaslKinds, AmqpKinds
  <2>4. Where(p, Hello, there, rt) /\ Where(p, h, there, rt)
    BY <1>2, <1>3, <1>5, <2>1, <2>2, ItemFacts DEF Where, Wrote, Headers, SaslKinds
  <2>5. R = <<>>
    BY <1>2, <1>6, <2>1, ItemFacts DEF Follows, Headers, SaslKinds, AmqpKinds
  <2>6. Follows(p, Hello, h)
    BY <2>1, <2>2, ItemFacts DEF Follows, Headers, SaslKinds, AmqpKinds
  <2> QED
    BY <1>10, <2>1, <2>2, <2>3, <2>4, <2>5, <2>6
<1>15. CASE at = "saslHeader" /\ i = Header("sasl") /\ there = "sasl" /\ W = <<>>
  <2>1. at = "saslHeader" /\ i = Header("sasl") /\ there = "sasl"
    BY <1>15
  <2>2. W = <<>>
    BY <1>15
  <2>3. Wrote(there, T, rt, f)
    BY <1>5, <2>1 DEF Wrote
  <2> QED
    BY <1>8, <2>2, <2>3
<1>16. CASE at = "saslHeader" /\ i = Header("sasl") /\ there = "sasl" /\ p = "server" /\ (\E x : x.k = "mechanisms" /\ W = <<x>>)
  <2>1. at = "saslHeader" /\ i = Header("sasl") /\ there = "sasl" /\ p = "server"
    BY <1>16
  <2>2. PICK x : x.k = "mechanisms" /\ W = <<x>>
    BY <1>16
  <2>3. Fits(p, T, x, rt)
    BY <1>2, <1>3, <1>5, <2>1, <2>2, ItemFacts DEF Fits, Expects, Follows, Where, Wrote, Calls, Headers, SaslKinds, AmqpKinds
  <2>4. Where(p, x, there, rt)
    BY <1>2, <1>3, <1>5, <2>1, <2>2, ItemFacts DEF Where, Wrote, Headers, SaslKinds
  <2>5. R = <<>>
    BY <1>2, <1>6, <2>1, ItemFacts DEF Follows, Headers, SaslKinds, AmqpKinds
  <2> QED
    BY <1>9, <2>1, <2>2, <2>3, <2>4, <2>5
<1>17. CASE at = "sasl" /\ p = "client" /\ i.k \in {"mechanisms", "challenge"} /\ there = "sasl" /\ (\E x : x.k \in {"init", "response"} /\ W = <<x>>)
  <2>1. at = "sasl" /\ p = "client" /\ i.k \in {"mechanisms", "challenge"} /\ there = "sasl"
    BY <1>17
  <2>2. PICK x : x.k \in {"init", "response"} /\ W = <<x>>
    BY <1>17
  <2>3. Fits(p, T, x, rt)
    BY <1>2, <1>3, <1>5, <2>1, <2>2, ItemFacts DEF Fits, Expects, Follows, Where, Wrote, Calls, Headers, SaslKinds, AmqpKinds
  <2>4. Where(p, x, there, rt)
    BY <1>2, <1>3, <1>5, <2>1, <2>2, ItemFacts DEF Where, Wrote, Headers, SaslKinds
  <2>5. R = <<>>
    BY <1>2, <1>6, <2>1, ItemFacts DEF Follows, Headers, SaslKinds, AmqpKinds
  <2> QED
    BY <1>9, <2>1, <2>2, <2>3, <2>4, <2>5
<1>18. CASE at = "sasl" /\ p = "client" /\ i.k = "outcome" /\ there = "amqpHeader" /\ W = <<Header("amqp")>>
  <2>1. at = "sasl" /\ p = "client" /\ i.k = "outcome" /\ there = "amqpHeader"
    BY <1>18
  <2>2. W = <<Header("amqp")>>
    BY <1>18
  <2>3. Fits(p, T, Header("amqp"), rt)
    BY <1>2, <1>3, <1>5, <2>1, <2>2, ItemFacts DEF Fits, Expects, Follows, Where, Wrote, Calls, Headers, SaslKinds, AmqpKinds
  <2>4. Where(p, Header("amqp"), there, rt)
    BY <1>2, <1>3, <1>5, <2>1, <2>2, ItemFacts DEF Where, Wrote, Headers, SaslKinds
  <2>5. ~Calls(Header("amqp"))
    BY <2>1, <2>2, ItemFacts DEF Calls, Headers, SaslKinds
  <2> QED
    BY <1>9, <2>1, <2>2, <2>3, <2>4, <2>5
<1>19. CASE at = "sasl" /\ p = "server" /\ i.k \in {"init", "response"} /\ there = "sasl" /\ (\E x : x.k = "challenge" /\ W = <<x>>)
  <2>1. at = "sasl" /\ p = "server" /\ i.k \in {"init", "response"} /\ there = "sasl"
    BY <1>19
  <2>2. PICK x : x.k = "challenge" /\ W = <<x>>
    BY <1>19
  <2>3. Fits(p, T, x, rt)
    BY <1>2, <1>3, <1>5, <2>1, <2>2, ItemFacts DEF Fits, Expects, Follows, Where, Wrote, Calls, Headers, SaslKinds, AmqpKinds
  <2>4. Where(p, x, there, rt)
    BY <1>2, <1>3, <1>5, <2>1, <2>2, ItemFacts DEF Where, Wrote, Headers, SaslKinds
  <2>5. R = <<>>
    BY <1>2, <1>6, <2>1, ItemFacts DEF Follows, Headers, SaslKinds, AmqpKinds
  <2> QED
    BY <1>9, <2>1, <2>2, <2>3, <2>4, <2>5
<1>20. CASE at = "sasl" /\ p = "server" /\ i.k \in {"init", "response"} /\ there = "amqpHeader" /\ (\E x : x.k = "outcome" /\ W = <<x, Header("amqp")>>)
  <2>1. at = "sasl" /\ p = "server" /\ i.k \in {"init", "response"} /\ there = "amqpHeader"
    BY <1>20
  <2>2. PICK x : x.k = "outcome" /\ W = <<x, Header("amqp")>>
    BY <1>20
  <2>3. Fits(p, T, x, rt)
    BY <1>2, <1>3, <1>5, <2>1, <2>2, ItemFacts DEF Fits, Expects, Follows, Where, Wrote, Calls, Headers, SaslKinds, AmqpKinds
  <2>4. Where(p, x, there, rt) /\ Where(p, Header("amqp"), there, rt)
    BY <1>2, <1>3, <1>5, <2>1, <2>2, ItemFacts DEF Where, Wrote, Headers, SaslKinds
  <2>5. R = <<>>
    BY <1>2, <1>6, <2>1, ItemFacts DEF Follows, Headers, SaslKinds, AmqpKinds
  <2>6. Follows(p, x, Header("amqp"))
    BY <2>1, <2>2, ItemFacts DEF Follows, Headers, SaslKinds, AmqpKinds
  <2> QED
    BY <1>10, <2>1, <2>2, <2>3, <2>4, <2>5, <2>6
<1>21. CASE at = "amqpHeader" /\ i = Header("amqp") /\ there = "open" /\ (\E x : x.k = "open" /\ W = <<x>>)
  <2>1. at = "amqpHeader" /\ i = Header("amqp") /\ there = "open"
    BY <1>21
  <2>2. PICK x : x.k = "open" /\ W = <<x>>
    BY <1>21
  <2>3. Fits(p, T, x, rt)
    BY <1>2, <1>3, <1>5, <2>1, <2>2, ItemFacts DEF Fits, Expects, Follows, Where, Wrote, Calls, Headers, SaslKinds, AmqpKinds
  <2>4. Where(p, x, there, rt)
    BY <1>2, <1>3, <1>5, <2>1, <2>2, ItemFacts DEF Where, Wrote, Headers, SaslKinds
  <2>5. ~Calls(x)
    BY <2>1, <2>2, ItemFacts DEF Calls, Headers, SaslKinds
  <2> QED
    BY <1>9, <2>1, <2>2, <2>3, <2>4, <2>5
<1>22. CASE at = "amqpHeader" /\ i = Header("amqp") /\ there = "open" /\ (\E x, y : x.k = "torn" /\ y.k = "torn" /\ W = <<x, y>>)
  <2>1. at = "amqpHeader" /\ i = Header("amqp") /\ there = "open"
    BY <1>22
  <2>2. PICK x, y : x.k = "torn" /\ y.k = "torn" /\ W = <<x, y>>
    BY <1>22
  <2>3. Fits(p, T, x, rt)
    BY <1>2, <1>3, <1>5, <2>1, <2>2, ItemFacts DEF Fits, Expects, Follows, Where, Wrote, Calls, Headers, SaslKinds, AmqpKinds
  <2>4. Where(p, x, there, rt) /\ Where(p, y, there, rt)
    BY <1>2, <1>3, <1>5, <2>1, <2>2, ItemFacts DEF Where, Wrote, Headers, SaslKinds
  <2>5. ~Calls(x) /\ ~Calls(y)
    BY <2>1, <2>2, ItemFacts DEF Calls, Headers, SaslKinds
  <2>6. Follows(p, x, y)
    BY <2>1, <2>2, ItemFacts DEF Follows, Headers, SaslKinds, AmqpKinds
  <2> QED
    BY <1>10, <2>1, <2>2, <2>3, <2>4, <2>5, <2>6
<1>23. CASE at = "open" /\ there = "opened" /\ W = <<>>
  <2>1. at = "open" /\ there = "opened"
    BY <1>23
  <2>2. W = <<>>
    BY <1>23
  <2>3. Wrote(there, T, rt, f)
    BY <1>5, <2>1 DEF Wrote
  <2> QED
    BY <1>8, <2>2, <2>3
<1>24. CASE at = "open" /\ there = "closing" /\ (\E x : x.k = "close" /\ W = <<x>>)
  <2>1. at = "open" /\ there = "closing"
    BY <1>24
  <2>2. PICK x : x.k = "close" /\ W = <<x>>
    BY <1>24
  <2>3. Fits(p, T, x, rt)
    BY <1>2, <1>3, <1>5, <2>1, <2>2, ItemFacts DEF Fits, Expects, Follows, Where, Wrote, Calls, Headers, SaslKinds, AmqpKinds
  <2>4. Where(p, x, there, rt)
    BY <1>2, <1>3, <1>5, <2>1, <2>2, ItemFacts DEF Where, Wrote, Headers, SaslKinds
  <2>5. ~Calls(x)
    BY <2>1, <2>2, ItemFacts DEF Calls, Headers, SaslKinds
  <2> QED
    BY <1>9, <2>1, <2>2, <2>3, <2>4, <2>5
<1>25. CASE at = "opened" /\ there = "opened" /\ W = <<>>
  <2>1. at = "opened" /\ there = "opened"
    BY <1>25
  <2>2. W = <<>>
    BY <1>25
  <2>3. Wrote(there, T, rt, f)
    BY <1>5, <2>1 DEF Wrote
  <2> QED
    BY <1>8, <2>2, <2>3
<1> QED
  BY <1>1, <1>2, <1>11, <1>12, <1>13, <1>14, <1>15, <1>16, <1>17, <1>18, <1>19, <1>20, <1>21, <1>22, <1>23, <1>24, <1>25 DEF Moves

-----------------------------------------------------------------------------
(* The steps of the two parties in terms of their unread items.            *)

\* p adds W to what it wrote, unless the network has failed.
Says(p, W) == Pipe(p)' = IF cut THEN Pipe(p) ELSE Pipe(p) \o W

\* The first unread item for p has been decoded.
Reads(p) == Pipe(Peer(p)) # <<>> /\ Pipe(Peer(p))' = Tail(Pipe(Peer(p)))

\* Two sequences are over a common set.
LEMMA TwoSeqs ==
  ASSUME NEW a, IsSeq(a), NEW b, IsSeq(b)
  PROVE  \E S : a \in Seq(S) /\ b \in Seq(S)
<1>1. PICK A : a \in Seq(A)
  BY DEF IsSeq
<1>2. PICK B : b \in Seq(B)
  BY DEF IsSeq
<1>3. a \in Seq(A \cup B) /\ b \in Seq(A \cup B)
  BY <1>1, <1>2
<1> QED
  BY <1>3

\* Two sequences after each other, and the head of the whole.
LEMMA Joined ==
  ASSUME NEW a, IsSeq(a), NEW b, IsSeq(b)
  PROVE  /\ IsSeq(a \o b)
         /\ a # <<>> => /\ a \o b # <<>> /\ Head(a \o b) = Head(a)
                        /\ Tail(a \o b) = Tail(a) \o b
<1>1. PICK S : a \in Seq(S) /\ b \in Seq(S)
  BY TwoSeqs
<1>2. a \o b \in Seq(S)
  BY <1>1
<1>3. ASSUME a # <<>>
      PROVE  /\ a \o b # <<>> /\ Head(a \o b) = Head(a)
             /\ Tail(a \o b) = Tail(a) \o b
  <2> DEFINE s == a \o b
             t == Tail(a) \o b
  <2>1. Len(a) \in Nat /\ Len(a) >= 1 /\ Len(b) \in Nat
    BY <1>1, <1>3
  <2>2. s \in Seq(S) /\ Len(s) = Len(a) + Len(b)
        /\ \A k \in 1 .. Len(a) + Len(b) : s[k] = IF k <= Len(a) THEN a[k] ELSE b[k - Len(a)]
    BY <1>1, ConcatProperties
  <2>3. Tail(a) \in Seq(S) /\ Len(Tail(a)) = Len(a) - 1 /\ Head(a) = a[1]
        /\ \A k \in 1 .. Len(a) - 1 : Tail(a)[k] = a[k + 1]
    BY <1>1, <1>3
  <2>4. t \in Seq(S) /\ Len(t) = Len(Tail(a)) + Len(b)
        /\ \A k \in 1 .. Len(Tail(a)) + Len(b) :
             t[k] = IF k <= Len(Tail(a)) THEN Tail(a)[k] ELSE b[k - Len(Tail(a))]
    BY <1>1, <2>3, ConcatProperties
  <2> HIDE DEF s, t
  <2>5. s # <<>>
    BY <2>1, <2>2
  <2>6. Head(s) = s[1] /\ Tail(s) \in Seq(S) /\ Len(Tail(s)) = Len(s) - 1
        /\ \A k \in 1 .. Len(s) - 1 : Tail(s)[k] = s[k + 1]
    BY <2>2, <2>5
  <2>7. Head(s) = Head(a)
    BY <2>1, <2>2, <2>3, <2>6
  <2>8. Len(Tail(s)) = Len(t)
    BY <2>1, <2>2, <2>3, <2>4, <2>6
  <2>9. ASSUME NEW k \in 1 .. Len(t)
        PROVE  Tail(s)[k] = t[k]
    <3>1. CASE k <= Len(a) - 1
      BY <2>1, <2>2, <2>3, <2>4, <2>6, <3>1
    <3>2. CASE ~(k <= Len(a) - 1)
      <4>1. k \in 1 .. Len(s) - 1 /\ ~(k + 1 <= Len(a)) /\ k + 1 \in 1 .. Len(a) + Len(b)
        BY <2>1, <2>2, <2>3, <2>4, <3>2
      <4>2. Tail(s)[k] = b[(k + 1) - Len(a)]
        BY <2>2, <2>6, <4>1
      <4>3. t[k] = b[k - (Len(a) - 1)]
        BY <2>1, <2>3, <2>4, <3>2
      <4>4. (k + 1) - Len(a) = k - (Len(a) - 1)
        BY <2>1, SMTT(30)
      <4> QED
        BY <4>2, <4>3, <4>4
    <3> QED
      BY <3>1, <3>2
  <2>10. Tail(s) = t
    BY <2>4, <2>6, <2>8, <2>9, SeqEqual
  <2> QED
    BY <2>5, <2>7, <2>10 DEF s, t
<1> QED
  BY <1>2, <1>3 DEF IsSeq

\* Concatenation is associative.
LEMMA Regrouped ==
  ASSUME NEW a, IsSeq(a), NEW b, IsSeq(b), NEW c, IsSeq(c)
  PROVE  a \o (b \o c) = (a \o b) \o c
<1>1. PICK S : a \in Seq(S) /\ b \in Seq(S)
  BY TwoSeqs
<1>2. PICK C : c \in Seq(C)
  BY DEF IsSeq
<1> DEFINE R == S \cup C
<1>3. a \in Seq(R) /\ b \in Seq(R) /\ c \in Seq(R)
  BY <1>1, <1>2
<1> HIDE DEF R
<1> QED
  BY <1>3

\* Streams, buffers and pipes are sequences.
LEMMA PipeFacts ==
  ASSUME Inv
  PROVE  \A p \in Party : IsSeq(wire[p]) /\ IsSeq(buf[p]) /\ IsSeq(Pipe(p))
<1> SUFFICES ASSUME NEW p \in Party
             PROVE  IsSeq(wire[p]) /\ IsSeq(buf[p]) /\ IsSeq(Pipe(p))
  OBVIOUS
<1>1. \A q \in Party : IsSeq(wire[q]) /\ IsSeq(buf[q])
  BY DEF Inv, Streams, Holds, IsSeq
<1>2. IsSeq(buf[Peer(p)] \o wire[p])
  BY <1>1, Joined, PartyFacts
<1> QED
  BY <1>1, <1>2 DEF Pipe

\* A party that keeps its buffer, or drops it, and writes.
LEMMA SaysBy ==
  ASSUME Inv, NEW p \in Party, NEW W, IsSeq(W), buf'[Peer(p)] = buf[Peer(p)],
         Sent(p, W) \/ Exchanged(p, W)
  PROVE  Says(p, W)
<1>1. wire'[p] = IF cut THEN wire[p] ELSE wire[p] \o W
  BY InnerFacts, PartyFacts DEF Sent, Exchanged
<1>2. buf[Peer(p)] \o (wire[p] \o W) = (buf[Peer(p)] \o wire[p]) \o W
  <2>1. IsSeq(buf[Peer(p)]) /\ IsSeq(wire[p])
    BY PipeFacts, PartyFacts
  <2> DEFINE a == buf[Peer(p)]
             b == wire[p]
  <2> HIDE DEF a, b
  <2>2. IsSeq(a) /\ IsSeq(b)
    BY <2>1 DEF a, b
  <2>3. a \o (b \o W) = (a \o b) \o W
    BY <2>2, Regrouped
  <2> QED
    BY <2>3 DEF a, b
<1> QED
  BY <1>1, <1>2 DEF Says, Pipe

\* A party that leaves its stream alone says nothing.
LEMMA SaysNothing ==
  ASSUME Inv, NEW p \in Party, buf'[Peer(p)] = buf[Peer(p)], wire'[p] = wire[p]
  PROVE  Says(p, <<>>)
BY PipeFacts, AddedNone DEF Says, Pipe

\* Taking from the buffer reads the head of the pipe.
LEMMA ReadsBuffer ==
  ASSUME Inv, NEW p \in Party, NEW W, IsSeq(W), buf[p] # <<>>, Taken(p),
         Sent(p, W) \/ (W = <<>> /\ UNCHANGED wire)
  PROVE  Reads(p) /\ Says(p, W) /\ Head(Pipe(Peer(p))) = Head(buf[p])
<1> DEFINE q == Peer(p)
<1>1. q \in Party /\ q # p /\ Peer(q) = p
  BY PartyFacts
<1>2. buf'[p] = Tail(buf[p]) /\ buf'[q] = buf[q] /\ wire'[q] = wire[q]
  BY <1>1, InnerFacts DEF Taken, Sent
<1>3. Says(p, W)
  BY <1>2, SaysBy, SaysNothing
<1>4. Pipe(q) = buf[p] \o wire[q] /\ Pipe(q)' = buf'[p] \o wire'[q]
  BY <1>1 DEF Pipe
<1>5. /\ buf[p] \o wire[q] # <<>> /\ Head(buf[p] \o wire[q]) = Head(buf[p])
      /\ Tail(buf[p] \o wire[q]) = Tail(buf[p]) \o wire[q]
  BY <1>1, PipeFacts, Joined
<1> QED
  BY <1>2, <1>3, <1>4, <1>5 DEF Reads

\* With an empty buffer, reading the stream reads the head of the pipe.
LEMMA ReadsStream ==
  ASSUME Inv, NEW p \in Party, NEW W, IsSeq(W), buf[p] = <<>>, wire[Peer(p)] # <<>>,
         UNCHANGED buf, Exchanged(p, W)
  PROVE  Reads(p) /\ Says(p, W) /\ Head(Pipe(Peer(p))) = Head(wire[Peer(p)])
<1> DEFINE q == Peer(p)
<1>1. q \in Party /\ q # p /\ Peer(q) = p
  BY PartyFacts
<1>2. wire'[q] = Tail(wire[q])
  BY <1>1, InnerFacts DEF Exchanged
<1>3. Says(p, W)
  BY SaysBy
<1>4. Pipe(q) = <<>> \o wire[q] /\ Pipe(q)' = <<>> \o Tail(wire[q])
  BY <1>1, <1>2 DEF Pipe
<1>5. <<>> \o wire[q] = wire[q] /\ <<>> \o Tail(wire[q]) = Tail(wire[q])
  BY <1>1, PipeFacts, AddedNone, Dropped
<1> QED
  BY <1>3, <1>4, <1>5 DEF Reads

\* Sequences written out are sequences.
LEMMA Singles ==
  /\ IsSeq(<<>>)
  /\ \A x : IsSeq(<<x>>)
  /\ \A x, y : IsSeq(<<x, y>>)
<1>1. IsSeq(<<>>)
  <2> DEFINE S == {}
  <2>1. <<>> \in Seq(S)
    OBVIOUS
  <2> HIDE DEF S
  <2> QED
    BY <2>1 DEF IsSeq
<1>2. ASSUME NEW x PROVE IsSeq(<<x>>)
  <2> DEFINE S == {x}
  <2>1. <<x>> \in Seq(S)
    OBVIOUS
  <2> HIDE DEF S
  <2> QED
    BY <2>1 DEF IsSeq
<1>3. ASSUME NEW x, NEW y PROVE IsSeq(<<x, y>>)
  <2> DEFINE S == {x, y}
  <2>1. <<x, y>> \in Seq(S)
    OBVIOUS
  <2> HIDE DEF S
  <2> QED
    BY <2>1 DEF IsSeq
<1> QED
  BY <1>1, <1>2, <1>3

\* What the layers of a configuration are does not change.
Settled ==
  /\ TlsFits' <=> TlsFits
  /\ \A q \in Party : FirstAwait(q)' = FirstAwait(q)
  /\ plan'.client.scheme = plan.client.scheme

\* While the plan stays, what is expected and what fits stay.
LEMMA PlanSettled ==
  ASSUME UNCHANGED plan
  PROVE  Settled
<1>1. \A q : HasSasl(q)' = HasSasl(q)
  BY ConfigKept
<1>2. \A q \in Party : FirstAwait(q)' = FirstAwait(q)
  BY <1>1 DEF FirstAwait
<1> QED
  BY <1>2 DEF Settled, TlsFits

\* A party that stays where it is awaits what it awaited.
LEMMA AwaitKept ==
  ASSUME Settled, NEW q \in Party, pc'[q] = pc[q]
  PROVE  At(q)' = At(q)
BY DEF At, Settled

\* What holds of the two sides while both go on.
LEMMA LiveFacts ==
  ASSUME Conversation, TlsFits, Live, NEW p \in Party
  PROVE  /\ Unstarted
         /\ Side(p, Pipe(p), Pipe(Peer(p)), pc[p], At(Peer(p)), FirstAwait(Peer(p)))
         /\ Side(Peer(p), Pipe(Peer(p)), Pipe(p), pc[Peer(p)], At(p), FirstAwait(p))
         /\ Fine(p, Pipe(p), At(Peer(p))) /\ Fine(Peer(p), Pipe(Peer(p)), At(p))
<1>1. Peer(p) \in Party /\ Peer(Peer(p)) = p
  BY PartyFacts
<1> QED
  BY <1>1 DEF Conversation, Live

\* What is left to show, from the point of view of a party that takes a step.
LEMMA TalkBy ==
  ASSUME NEW p \in Party,
         TlsFits' /\ pc'[Peer(p)] # "done" => Fine(p, Pipe(p)', At(Peer(p))'),
         TlsFits' /\ pc'[p] # "done" => Fine(Peer(p), Pipe(Peer(p))', At(p)'),
         TlsFits' /\ Live' =>
           /\ Unstarted'
           /\ Side(p, Pipe(p)', Pipe(Peer(p))', pc'[p], At(Peer(p))', FirstAwait(Peer(p))')
           /\ Side(Peer(p), Pipe(Peer(p))', Pipe(p)', pc'[Peer(p)], At(p)', FirstAwait(p)')
  PROVE  Conversation'
<1>1. CASE p = "client"
  BY <1>1 DEF Conversation, Party, Peer
<1>2. CASE p = "server"
  BY <1>2 DEF Conversation, Party, Peer
<1> QED
  BY <1>1, <1>2 DEF Party

\* A party that reads and goes on.
LEMMA TalkReads ==
  ASSUME Inv, Conversation, Settled, NEW p \in Party, NEW there, NEW W, Reads(p), Says(p, W),
         pc[p] \notin {"start", "done"}, there \notin {"start", "done"},
         pc'[p] = there, pc'[Peer(p)] = pc[Peer(p)], cut' = cut,
         TlsFits => Moves(p, pc[p], Head(Pipe(Peer(p))), there, W)
  PROVE  Conversation'
<1> DEFINE q == Peer(p)
<1>1. q \in Party /\ Peer(q) = p
  BY PartyFacts
<1>2. At(p) = pc[p] /\ At(p)' = there /\ At(q)' = At(q)
  BY <1>1, AwaitKept DEF At
<1>3. FirstAwait(p)' = FirstAwait(p) /\ FirstAwait(q)' = FirstAwait(q)
  BY <1>1 DEF Settled
<1>4. (TlsFits' <=> TlsFits) /\ (Live' <=> Live)
  BY DEF Settled, Live, Party, Peer
<1>5. IsSeq(Pipe(p)) /\ IsSeq(Pipe(q))
  BY <1>1, PipeFacts
<1>6. Pipe(q) # <<>> /\ Pipe(q)' = Tail(Pipe(q))
  BY DEF Reads
<1>7. TlsFits => Fine(q, Pipe(q), pc[p])
  BY <1>1, <1>2 DEF Conversation
<1>8. TlsFits => Fine(q, Pipe(q)', there)
  BY <1>5, <1>6, <1>7, MovesOn
<1>9. ASSUME TlsFits, Live
      PROVE  /\ Fine(p, Pipe(p)', At(q)')
             /\ Unstarted'
             /\ Side(p, Pipe(p)', Pipe(q)', there, At(q)', FirstAwait(q)')
             /\ Side(q, Pipe(q)', Pipe(p)', pc'[q], At(p)', FirstAwait(p)')
  <2>1. /\ Side(p, Pipe(p), Pipe(q), pc[p], At(q), FirstAwait(q))
        /\ Side(q, Pipe(q), Pipe(p), pc[q], pc[p], FirstAwait(p))
        /\ Fine(p, Pipe(p), At(q)) /\ Fine(q, Pipe(q), pc[p])
    BY <1>2, <1>9, LiveFacts
  <2>2. pc[q] # "start" /\ At(q) = pc[q]
    BY <1>6, <2>1 DEF Side, Wrote, At
  <2>3. Pipe(p)' = Pipe(p) \o W
    BY <1>9 DEF Says, Live
  <2>4. /\ Fine(p, Pipe(p) \o W, At(q))
        /\ Side(p, Pipe(p) \o W, Tail(Pipe(q)), there, At(q), FirstAwait(q))
    BY <1>5, <1>6, <1>9, <2>1, <2>2, MovesSaid
  <2>5. Side(q, Tail(Pipe(q)), Pipe(p) \o W, pc[q], there, FirstAwait(p))
    BY <1>5, <1>6, <1>9, <2>1, <2>2, MovesRest
  <2>6. Unstarted'
    BY <2>2 DEF Unstarted, Party, Peer
  <2> QED
    BY <1>2, <1>3, <1>6, <2>3, <2>4, <2>5, <2>6
<1>10. ASSUME TlsFits, pc[q] # "done", ~Live
       PROVE  Fine(p, Pipe(p)', At(q)')
  <2>1. cut
    BY <1>10 DEF Live, Party, Peer
  <2>2. Fine(p, Pipe(p), At(q))
    BY <1>10 DEF Conversation
  <2> QED
    BY <1>2, <2>1, <2>2 DEF Says
<1> QED
  BY <1>2, <1>4, <1>8, <1>9, <1>10, TalkBy

\* A party that fails, with or without a last word.
LEMMA TalkFails ==
  ASSUME Inv, Conversation, Settled, NEW p \in Party, NEW W, Says(p, W), pc[p] # "done",
         pc'[p] = "done", pc'[Peer(p)] = pc[Peer(p)], cut' = cut,
         TlsFits /\ Live => \/ W = <<>>
                            \/ \E x : W = <<x>> /\ Fits(p, Pipe(p), x, At(Peer(p)))
  PROVE  Conversation'
<1> DEFINE q == Peer(p)
<1>1. q \in Party /\ Peer(q) = p
  BY PartyFacts
<1>2. At(q)' = At(q) /\ IsSeq(Pipe(p))
  BY <1>1, AwaitKept, PipeFacts
<1>3. (TlsFits' <=> TlsFits) /\ ~Live'
  BY DEF Settled, Live
<1>4. ASSUME TlsFits, pc[q] # "done"
      PROVE  Fine(p, Pipe(p)', At(q)')
  <2>1. Fine(p, Pipe(p), At(q))
    BY <1>4 DEF Conversation
  <2>2. CASE cut
    BY <1>2, <2>1, <2>2 DEF Says
  <2>3. CASE ~cut
    <3>1. Live
      BY <1>4, <2>3 DEF Live, Party, Peer
    <3>2. Pipe(p)' = Pipe(p) \o W
      BY <2>3 DEF Says
    <3>3. CASE W = <<>>
      BY <1>2, <2>1, <3>2, <3>3, AddedNone
    <3>4. CASE \E x : W = <<x>> /\ Fits(p, Pipe(p), x, At(q))
      BY <1>2, <2>1, <3>2, <3>4, FineMore
    <3> QED
      BY <1>4, <3>1, <3>3, <3>4
  <2> QED
    BY <2>2, <2>3
<1> QED
  BY <1>3, <1>4, TalkBy

\* A party that starts: nothing has been read of what it writes, which the other one awaits.
LEMMA TalkStarts ==
  ASSUME Inv, Conversation, Settled, NEW p \in Party, NEW there, NEW W, Says(p, W),
         pc[p] = "start", there = FirstAwait(p), there \notin {"start", "done"},
         pc'[p] = there, pc'[Peer(p)] = pc[Peer(p)], cut' = cut,
         Pipe(Peer(p))' = Pipe(Peer(p)),
         TlsFits =>
           \/ /\ there \in {"tlsHeader", "tlsHello"} /\ W = <<>> /\ p = "server"
           \/ /\ p = "client" /\ plan.client.scheme # "amqp"
              /\ \E x : /\ W = <<x>> /\ Expects(FirstAwait(Peer(p)), x)
                        /\ Where(p, x, there, FirstAwait(Peer(p)))
                        /\ there \in {"tlsHeader", "tlsHello"}
           \/ /\ W = <<IF there = "saslHeader" THEN Header("sasl") ELSE Header("amqp")>>
              /\ there \in {"saslHeader", "amqpHeader"}
              /\ FirstAwait(Peer(p)) \in {"saslHeader", "amqpHeader"}
              /\ plan.client.scheme = "amqp"
  PROVE  Conversation'
<1> DEFINE q == Peer(p)
<1>1. q \in Party /\ Peer(q) = p /\ (p = "client" <=> q = "server")
  BY PartyFacts DEF Party, Peer
<1>2. At(p) = there /\ At(p)' = there /\ At(q)' = At(q)
  BY <1>1, AwaitKept DEF At
<1>3. FirstAwait(p)' = FirstAwait(p) /\ FirstAwait(q)' = FirstAwait(q)
      /\ plan'.client.scheme = plan.client.scheme
  BY <1>1 DEF Settled
<1>4. (TlsFits' <=> TlsFits) /\ (Live' <=> Live)
  BY DEF Settled, Live, Party, Peer
<1>5. IsSeq(Pipe(p)) /\ IsSeq(Pipe(q))
  BY <1>1, PipeFacts
<1>6. TlsFits => Fine(q, Pipe(q)', there)
  BY <1>1, <1>2 DEF Conversation
<1>7. ASSUME TlsFits, Live
      PROVE  /\ Fine(p, Pipe(p)', At(q)')
             /\ Unstarted'
             /\ Side(p, Pipe(p)', Pipe(q)', there, At(q)', FirstAwait(q)')
             /\ Side(q, Pipe(q)', Pipe(p)', pc'[q], At(p)', FirstAwait(p)')
  <2>1. /\ Side(p, Pipe(p), Pipe(q), pc[p], At(q), FirstAwait(q))
        /\ Side(q, Pipe(q), Pipe(p), pc[q], there, FirstAwait(p))
        /\ Fine(p, Pipe(p), At(q)) /\ Unstarted
    BY <1>2, <1>7, LiveFacts
  <2>2. Pipe(p) = <<>> /\ At(q) = FirstAwait(q)
    BY <2>1 DEF Side, Wrote
  <2>3. pc[q] \in {"start", FirstAwait(q)}
    BY <2>2 DEF At
  <2>4. Pipe(p)' = <<>> \o W
    BY <1>7, <2>2 DEF Says, Live
  <2> DEFINE T == <<>>
             U == Pipe(q)
             rt == At(q)
             f == FirstAwait(q)
             g == FirstAwait(p)
             qt == pc[q]
  <2>5. IsSeq(T) /\ Len(T) = 0
    BY Singles
  <2>6. Fine(p, T, rt)
    BY <2>1, <2>2
  <2>7. Side(q, U, T, qt, there, g)
    BY <2>1, <2>2
  <2>8. rt = f
    BY <2>2
  <2> SUFFICES /\ Fine(p, T \o W, rt) /\ Unstarted'
               /\ Side(p, T \o W, U, there, rt, f)
               /\ Side(q, U, T \o W, qt, there, g)
    BY <1>2, <1>3, <2>4
  <2> HIDE DEF T, U, rt, f, g, qt
  <2>9. CASE there \in {"tlsHeader", "tlsHello"} /\ W = <<>> /\ p = "server"
    <3>1. T \o W = T
      BY <2>5, <2>9, AddedNone
    <3>2. Side(p, T, U, there, rt, f)
      BY <2>5, <2>9 DEF Side, Wrote
    <3>3. Unstarted'
      <4>1. Pipe(p)' = <<>>
        BY <2>4, <2>9
      <4> QED
        BY <2>9, <4>1 DEF Unstarted
    <3> QED
      BY <2>6, <2>7, <3>1, <3>2, <3>3
  <2>10. CASE /\ p = "client" /\ plan.client.scheme # "amqp"
              /\ \E x : /\ W = <<x>> /\ Expects(f, x) /\ Where(p, x, there, f)
                        /\ there \in {"tlsHeader", "tlsHello"}
    <3>1. PICK x : /\ W = <<x>> /\ Expects(f, x) /\ Where(p, x, there, f)
                   /\ there \in {"tlsHeader", "tlsHello"}
      BY <2>10
    <3>2. U = <<>>
      BY <1>1, <2>1, <2>10 DEF Unstarted, U
    <3>3. Fine(p, T \o <<x>>, rt)
      <4>1. Fits(p, T, x, rt)
        BY <2>8, <3>1 DEF Fits, T
      <4> QED
        BY <2>5, <2>6, <4>1, FineMore
    <3>4. Side(p, T \o <<x>>, U, there, rt, f)
      <4>1. \A k \in 1 .. Len(T) : Where(p, T[k], there, rt) /\ (Calls(T[k]) => U = <<>>)
        BY <2>5
      <4> QED
        BY <2>5, <2>8, <3>1, <3>2, <4>1, SideMore
    <3>5. Side(q, U, T \o <<x>>, qt, there, g)
      <4>1. Len(U) = 0
        BY <3>2
      <4> QED
        BY <2>7, <4>1 DEF Side
    <3>6. Unstarted'
      BY <2>10 DEF Unstarted
    <3> QED
      BY <3>1, <3>3, <3>4, <3>5, <3>6
  <2>11. CASE /\ W = <<IF there = "saslHeader" THEN Header("sasl") ELSE Header("amqp")>>
              /\ there \in {"saslHeader", "amqpHeader"}
              /\ f \in {"saslHeader", "amqpHeader"}
              /\ plan.client.scheme = "amqp"
    <3> DEFINE x == IF there = "saslHeader" THEN Header("sasl") ELSE Header("amqp")
    <3>1. x \in Headers /\ ~Calls(x) /\ Where(p, x, there, rt)
      BY <2>11, ItemFacts DEF Headers, Calls, SaslKinds, Where
    <3>2. there = "saslHeader" => x = Header("sasl")
      OBVIOUS
    <3>3. there = "amqpHeader" => x = Header("amqp")
      OBVIOUS
    <3>4. W = <<x>> /\ there \in {"saslHeader", "amqpHeader"}
      BY <2>11
    <3> HIDE DEF x
    <3>5. Fine(p, T \o <<x>>, rt)
      <4>1. Fits(p, T, x, rt)
        BY <2>8, <2>11, <3>1 DEF Fits, T, Expects
      <4> QED
        BY <2>5, <2>6, <4>1, FineMore
    <3>6. Side(p, T \o <<x>>, U, there, rt, f)
      <4>1. \A k \in 1 .. Len(T) : Where(p, T[k], there, rt) /\ (Calls(T[k]) => U = <<>>)
        BY <2>5
      <4> QED
        BY <2>5, <3>1, <3>2, <3>3, <3>4, <4>1, SideMore
    <3>7. Side(q, U, T \o <<x>>, qt, there, g)
      <4>1. ASSUME NEW k \in 1 .. Len(U)
            PROVE  Where(q, U[k], qt, there) /\ ~Calls(U[k])
        <5>1. Where(q, U[k], qt, there)
          BY <2>7 DEF Side
        <5>2. qt # "sasl" /\ there \in {"saslHeader", "amqpHeader"}
          BY <2>3, <2>11 DEF qt, f
        <5> QED
          BY <5>1, <5>2 DEF Where, Calls, SaslKinds
      <4> QED
        BY <2>7, <4>1 DEF Side
    <3>8. Unstarted'
      BY <1>3, <2>11 DEF Unstarted
    <3> QED
      BY <3>4, <3>5, <3>6, <3>7, <3>8
  <2> QED
    BY <1>7, <2>9, <2>10, <2>11 DEF f
<1>8. ASSUME TlsFits, pc[q] # "done", ~Live
      PROVE  Fine(p, Pipe(p)', At(q)')
  <2>1. cut
    BY <1>8 DEF Live, Party, Peer
  <2>2. Fine(p, Pipe(p), At(q))
    BY <1>8 DEF Conversation
  <2> QED
    BY <1>2, <2>1, <2>2 DEF Says
<1> QED
  BY <1>2, <1>4, <1>6, <1>7, <1>8, TalkBy

\* A frame of an open connection.
LEMMA TalkSends ==
  ASSUME Inv, Conversation, Settled, NEW p \in Party, NEW x, x.k = "full", Says(p, <<x>>),
         pc[p] = "opened", UNCHANGED <<pc, cut>>, Pipe(Peer(p))' = Pipe(Peer(p))
  PROVE  Conversation'
<1> DEFINE q == Peer(p)
<1>1. q \in Party /\ Peer(q) = p
  BY PartyFacts
<1>2. At(p) = "opened" /\ At(p)' = At(p) /\ At(q)' = At(q)
  BY <1>1, AwaitKept DEF At
<1>3. FirstAwait(p)' = FirstAwait(p) /\ FirstAwait(q)' = FirstAwait(q)
      /\ plan'.client.scheme = plan.client.scheme
  BY <1>1 DEF Settled
<1>4. (TlsFits' <=> TlsFits) /\ (Live' <=> Live)
  BY DEF Settled, Live
<1>5. IsSeq(Pipe(p)) /\ IsSeq(Pipe(q))
  BY <1>1, PipeFacts
<1>6. TlsFits => Fine(q, Pipe(q)', At(p)')
  BY <1>1, <1>2 DEF Conversation
<1>7. ASSUME TlsFits, Live
      PROVE  /\ Fine(p, Pipe(p)', At(q)')
             /\ Unstarted'
             /\ Side(p, Pipe(p)', Pipe(q)', pc'[p], At(q)', FirstAwait(q)')
             /\ Side(q, Pipe(q)', Pipe(p)', pc'[q], At(p)', FirstAwait(p)')
  <2>1. /\ Side(p, Pipe(p), Pipe(q), "opened", At(q), FirstAwait(q))
        /\ Side(q, Pipe(q), Pipe(p), pc[q], "opened", FirstAwait(p))
        /\ Fine(p, Pipe(p), At(q)) /\ Unstarted
    BY <1>2, <1>7, LiveFacts
  <2>2. Pipe(p)' = Pipe(p) \o <<x>>
    BY <1>7 DEF Says, Live
  <2>3. Fits(p, Pipe(p), x, At(q))
    BY <2>1 DEF Side, Wrote, Fits, Expects, Follows, AmqpKinds
  <2>4. Where(p, x, "opened", At(q)) /\ ~Calls(x)
    BY ItemFacts DEF Where, Calls, SaslKinds
  <2>5. Fine(p, Pipe(p) \o <<x>>, At(q))
    BY <1>5, <2>1, <2>3, FineMore
  <2>6. Side(p, Pipe(p) \o <<x>>, Pipe(q), "opened", At(q), FirstAwait(q))
    <3>1. \A k \in 1 .. Len(Pipe(p)) : /\ Where(p, Pipe(p)[k], "opened", At(q))
                                       /\ Calls(Pipe(p)[k]) => Pipe(q) = <<>>
      BY <2>1 DEF Side
    <3> QED
      BY <1>5, <2>4, <3>1, SideMore
  <2>7. Side(q, Pipe(q), Pipe(p) \o <<x>>, pc[q], "opened", FirstAwait(p))
    <3>1. ASSUME NEW k \in 1 .. Len(Pipe(q))
          PROVE  Where(q, Pipe(q)[k], pc[q], "opened") /\ ~Calls(Pipe(q)[k])
      <4>1. Where(q, Pipe(q)[k], pc[q], "opened")
        BY <2>1 DEF Side
      <4> QED
        BY <4>1 DEF Where, Calls, SaslKinds
    <3> QED
      BY <2>1, <3>1 DEF Side
  <2>8. Unstarted'
    <3>1. CASE p = "client"
      BY <3>1 DEF Unstarted
    <3>2. CASE p = "server"
      <4>1. pc["client"] # "start"
        <5>1. pc[q] = "start" => FirstAwait(p) = "opened"
          BY <2>1 DEF Side, Wrote
        <5>2. FirstAwait(p) # "opened"
          BY DEF FirstAwait
        <5> QED
          BY <3>2, <5>1, <5>2 DEF Peer
      <4> QED
        BY <4>1 DEF Unstarted
    <3> QED
      BY <3>1, <3>2 DEF Party
  <2> QED
    BY <1>2, <1>3, <2>2, <2>5, <2>6, <2>7, <2>8
<1>8. ASSUME TlsFits, pc[q] # "done", ~Live
      PROVE  Fine(p, Pipe(p)', At(q)')
  <2>1. cut
    BY <1>8 DEF Live, Party, Peer
  <2>2. Fine(p, Pipe(p), At(q))
    BY <1>8 DEF Conversation
  <2> QED
    BY <1>2, <2>1, <2>2 DEF Says
<1> QED
  BY <1>2, <1>4, <1>6, <1>7, <1>8, TalkBy

-----------------------------------------------------------------------------
(* The actions.                                                            *)

FInv == Conversation /\ Buffered /\ FramesUnderstood

\* What a party is about to read is the head of the pipe, and what it expects.
LEMMA FirstUnread ==
  ASSUME Inv, FInv, NEW p \in Party, pc[p] \notin {"start", "done"}
  PROVE  /\ buf[p] # <<>> => /\ Pipe(Peer(p)) # <<>> /\ Head(Pipe(Peer(p))) = Head(buf[p])
                             /\ TlsFits => Expects(pc[p], Head(buf[p]))
         /\ pc[p] \notin Framed /\ wire[Peer(p)] # <<>> =>
              /\ buf[p] = <<>> /\ Pipe(Peer(p)) = wire[Peer(p)]
              /\ TlsFits => Expects(pc[p], Head(wire[Peer(p)]))
<1> DEFINE q == Peer(p)
<1>1. q \in Party /\ Peer(q) = p /\ At(p) = pc[p]
  BY PartyFacts DEF At
<1>2. IsSeq(buf[p]) /\ IsSeq(wire[q]) /\ IsSeq(Pipe(q)) /\ Pipe(q) = buf[p] \o wire[q]
  BY <1>1, PipeFacts DEF Pipe
<1>3. TlsFits /\ Pipe(q) # <<>> => Expects(pc[p], Head(Pipe(q)))
  BY <1>1, <1>2, Dropped DEF FInv, Conversation, Fine
<1>4. ASSUME buf[p] # <<>>
      PROVE  Pipe(q) # <<>> /\ Head(Pipe(q)) = Head(buf[p])
  BY <1>2, <1>4, Joined
<1>5. ASSUME pc[p] \notin Framed
      PROVE  buf[p] = <<>> /\ Pipe(q) = wire[q]
  BY <1>2, <1>5, AddedNone DEF FInv, Buffered
<1> QED
  BY <1>3, <1>4, <1>5

\* Only a party that reads frames has something in its buffer.
LEMMA BufferedBy ==
  ASSUME Buffered, NEW p \in Party, pc'[Peer(p)] = pc[Peer(p)], buf'[Peer(p)] = buf[Peer(p)],
         pc'[p] \in Framed \/ buf'[p] = <<>>
  PROVE  Buffered'
<1> SUFFICES ASSUME NEW q \in Party, pc'[q] \notin Framed
             PROVE  buf'[q] = <<>>
  BY DEF Buffered
<1>1. q = p \/ q = Peer(p)
  BY DEF Party, Peer
<1> QED
  BY <1>1 DEF Buffered

\* A step that reports nothing garbled or oversized keeps the frames understood.
LEMMA UnderstoodBy ==
  ASSUME FramesUnderstood, Settled, NEW p \in Party, result'[Peer(p)] = result[Peer(p)],
         \/ result'[p] = result[p]
         \/ (TlsFits => result'[p] # "garbled") /\ result'[p] # "oversized"
  PROVE  FramesUnderstood'
<1> SUFFICES ASSUME NEW q \in Party
             PROVE  (result'[q] = "garbled" => ~TlsFits) /\ result'[q] # "oversized"
  BY DEF FramesUnderstood, Settled
<1>1. q = p \/ q = Peer(p)
  BY DEF Party, Peer
<1> QED
  BY <1>1 DEF FramesUnderstood

\* Reading what was expected, and saying what fits, keeps the conversation.
LEMMA ReadKeeps ==
  ASSUME Inv, FInv, UNCHANGED <<plan, cut>>, NEW p \in Party, NEW there, NEW W,
         Reads(p), Says(p, W), pc[p] \notin {"start", "done"}, there \in Framed \cup {"tlsHello"},
         pc'[p] = there, pc'[Peer(p)] = pc[Peer(p)], buf'[Peer(p)] = buf[Peer(p)],
         there \in Framed \/ buf'[p] = <<>>,
         result'[Peer(p)] = result[Peer(p)], result'[p] \in {result[p], "ok"},
         TlsFits => Moves(p, pc[p], Head(Pipe(Peer(p))), there, W)
  PROVE  FInv'
<1>1. Settled
  BY PlanSettled
<1>2. there \notin {"start", "done"}
  BY DEF Framed
<1>3. Conversation'
  BY <1>1, <1>2, TalkReads DEF FInv
<1>4. Buffered'
  BY BufferedBy DEF FInv
<1>5. FramesUnderstood'
  BY <1>1, UnderstoodBy DEF FInv
<1> QED
  BY <1>3, <1>4, <1>5 DEF FInv

\* Failing keeps the conversation: what is said last still fits.
LEMMA FailKeeps ==
  ASSUME Inv, FInv, UNCHANGED <<plan, cut>>, NEW p \in Party, NEW W, Says(p, W), pc[p] # "done",
         pc'[p] = "done", pc'[Peer(p)] = pc[Peer(p)], buf'[Peer(p)] = buf[Peer(p)], buf'[p] = <<>>,
         result'[Peer(p)] = result[Peer(p)],
         \/ result'[p] = result[p]
         \/ (TlsFits => result'[p] # "garbled") /\ result'[p] # "oversized",
         TlsFits /\ Live => \/ W = <<>>
                            \/ \E x : W = <<x>> /\ Fits(p, Pipe(p), x, At(Peer(p)))
  PROVE  FInv'
<1>1. Settled
  BY PlanSettled
<1>2. Conversation'
  BY <1>1, TalkFails DEF FInv
<1>3. Buffered'
  BY BufferedBy DEF FInv
<1>4. FramesUnderstood'
  BY <1>1, UnderstoodBy DEF FInv
<1> QED
  BY <1>2, <1>3, <1>4 DEF FInv

\* What Fail() does to the two parties.
LEMMA Failing ==
  ASSUME Inv, NEW p \in Party, NEW why, Fail(p, why)
  PROVE  /\ pc'[p] = "done" /\ pc'[Peer(p)] = pc[Peer(p)]
         /\ buf'[p] = <<>> /\ buf'[Peer(p)] = buf[Peer(p)]
         /\ result'[Peer(p)] = result[Peer(p)] /\ result'[p] \in {result[p], why}
BY InnerFacts, PartyFacts DEF Fail

\* Going on leaves the peer and the results alone.
LEMMA Going ==
  ASSUME Inv, NEW p \in Party, NEW there, GoTo(p, there)
  PROVE  /\ pc'[p] = there /\ pc'[Peer(p)] = pc[Peer(p)] /\ result' = result
BY InnerFacts, PartyFacts DEF GoTo

\* Taking from one's own buffer leaves the peer's alone.
LEMMA TakenBuffer ==
  ASSUME Inv, NEW p \in Party, Taken(p)
  PROVE  buf'[Peer(p)] = buf[Peer(p)]
BY InnerFacts, PartyFacts DEF Taken

\* A failure without a last word.
LEMMA FailSilent ==
  ASSUME Inv, FInv, UNCHANGED <<plan, cut>>, NEW p \in Party, NEW why, Fail(p, why), pc[p] # "done",
         wire'[p] = wire[p] \/ Exchanged(p, <<>>),
         TlsFits => why # "garbled", why # "oversized"
  PROVE  FInv'
<1>1. Says(p, <<>>)
  BY Failing, SaysNothing, SaysBy, Singles
<1> QED
  BY <1>1, Failing, FailKeeps

\* A failure that writes into the stream what its reader awaits.
LEMMA FailSpeaking ==
  ASSUME Inv, FInv, UNCHANGED <<plan, cut>>, NEW p \in Party, NEW why, Fail(p, why), pc[p] # "done",
         NEW x, Sent(p, <<x>>) \/ Exchanged(p, <<x>>),
         TlsFits => why # "garbled", why # "oversized",
         TlsFits /\ Live => Fits(p, Pipe(p), x, At(Peer(p)))
  PROVE  FInv'
<1>1. Says(p, <<x>>)
  BY Failing, SaysBy, Singles
<1> QED
  BY <1>1, Failing, FailKeeps

\* The end of the stream keeps the conversation.
LEMMA EofFrames ==
  ASSUME Inv, FInv, NEW p \in Party, OnEof(p) \/ Closing(p)
  PROVE  FInv'
<1>1. PICK why : Fail(p, why) /\ why \in {"eof", "decode"}
  BY DEF OnEof, Closing
<1>2. pc[p] # "done" /\ UNCHANGED <<plan, wire, cut>>
  BY DEF OnEof, Closing
<1> QED
  BY <1>1, <1>2, FailSilent

\* An open end may write a Close.
LEMMA CloseFits ==
  ASSUME Inv, FInv, NEW p \in Party, pc[p] \in {"open", "opened"}, TlsFits, Live, NEW x, x.k = "close"
  PROVE  Fits(p, Pipe(p), x, At(Peer(p)))
<1>1. Side(p, Pipe(p), Pipe(Peer(p)), pc[p], At(Peer(p)), FirstAwait(Peer(p)))
  BY LiveFacts DEF FInv
<1> QED
  BY <1>1 DEF Side, Wrote, Fits, Expects, Follows, AmqpKinds

\* The idle timeout keeps the conversation.
LEMMA IdleFrames ==
  ASSUME Inv, FInv, NEW p \in Party, OnIdleTimeout(p)
  PROVE  FInv'
<1>1. /\ Sent(p, <<Item("close", 0)>>) /\ Fail(p, "timeout") /\ UNCHANGED <<plan, cut>>
      /\ pc[p] = "open"
  BY DEF OnIdleTimeout
<1>2. TlsFits /\ Live => Fits(p, Pipe(p), Item("close", 0), At(Peer(p)))
  BY <1>1, CloseFits, ItemFacts
<1> QED
  BY <1>1, <1>2, FailSpeaking

\* Filling the buffer keeps the conversation: it moves within the pipe.
LEMMA FillFrames ==
  ASSUME Inv, FInv, NEW p \in Party, Fill(p)
  PROVE  FInv'
<1> DEFINE q == Peer(p)
           w == wire[q]
<1>1. q \in Party /\ q # p /\ Peer(q) = p
  BY PartyFacts
<1>2. PICK n \in 1 .. Len(w) : /\ buf' = [buf EXCEPT ![p] = SubSeq(w, 1, n)]
                               /\ wire' = [wire EXCEPT ![q] = SubSeq(@, n + 1, Len(@))]
  BY DEF Fill
<1>3. /\ buf'[p] = SubSeq(w, 1, n) /\ wire'[q] = SubSeq(w, n + 1, Len(w))
      /\ buf'[q] = buf[q] /\ wire'[p] = wire[p] /\ buf[p] = <<>>
  BY <1>1, <1>2, InnerFacts DEF Fill
<1>4. UNCHANGED <<plan, pc, result, cut>> /\ pc[p] \in Framed
  BY DEF Fill
<1>5. IsSeq(w)
  BY <1>1, PipeFacts, SMTT(30)
<1> HIDE DEF w
<1>6. <<>> \o w = w /\ SubSeq(w, 1, n) \o SubSeq(w, n + 1, Len(w)) = w
  <2>1. PICK S : w \in Seq(S)
    BY <1>5 DEF IsSeq
  <2>2. Len(w) \in Nat
    BY <2>1
  <2>3. SubSeq(w, 1, n) \o SubSeq(w, n + 1, Len(w)) = SubSeq(w, 1, Len(w))
    <3>1. 1 \in 1 .. Len(w) + 1 /\ n \in 1 - 1 .. Len(w) /\ Len(w) \in n .. Len(w)
      BY <2>2
    <3> QED
      BY <2>1, <3>1, ConcatAdjacentSubSeq
  <2>4. SubSeq(w, 1, Len(w)) = w
    BY <2>1, SubSeqFull
  <2> QED
    BY <1>5, <2>3, <2>4, AddedNone
<1>7. Pipe(q)' = Pipe(q) /\ Pipe(p)' = Pipe(p)
  BY <1>1, <1>3, <1>6 DEF Pipe, w
<1>8. Settled
  BY <1>4, PlanSettled
<1>9. At(p)' = At(p) /\ At(q)' = At(q)
  BY <1>1, <1>4, <1>8, AwaitKept
<1>10. Conversation'
  <2>1. \A r \in Party : r = p \/ r = q
    BY DEF Party, Peer
  <2>2. (TlsFits' <=> TlsFits) /\ (Live' <=> Live) /\ FirstAwait(p)' = FirstAwait(p)
        /\ FirstAwait(q)' = FirstAwait(q) /\ plan' = plan /\ pc' = pc
    BY <1>1, <1>4, <1>8 DEF Settled, Live
  <2>3. Unstarted' <=> Unstarted
    <3>1. Pipe("server")' = Pipe("server")
      BY <1>7, <2>1, PartyFacts
    <3> QED
      BY <2>2, <3>1 DEF Unstarted
  <2>4. TlsFits => /\ pc[q] # "done" => Fine(p, Pipe(p), At(q))
                   /\ pc[p] # "done" => Fine(q, Pipe(q), At(p))
    BY <1>1 DEF FInv, Conversation
  <2>5. TlsFits /\ Live =>
           /\ Unstarted
           /\ Side(p, Pipe(p), Pipe(q), pc[p], At(q), FirstAwait(q))
           /\ Side(q, Pipe(q), Pipe(p), pc[q], At(p), FirstAwait(p))
    BY LiveFacts DEF FInv
  <2> QED
    BY <1>7, <1>9, <2>2, <2>3, <2>4, <2>5, TalkBy
<1>11. Buffered'
  BY <1>3, <1>4, BufferedBy DEF FInv
<1>12. FramesUnderstood'
  BY <1>4, <1>8, UnderstoodBy DEF FInv
<1> QED
  BY <1>10, <1>11, <1>12 DEF FInv

\* A part of what was unread, from its beginning.
LEMMA FinePart ==
  ASSUME NEW p, NEW a, IsSeq(a), NEW b, IsSeq(b), NEW rt, Fine(p, a \o b, rt)
  PROVE  Fine(p, a, rt)
<1>1. PICK S : a \in Seq(S) /\ b \in Seq(S)
  BY TwoSeqs
<1>2. Len(a) \in Nat /\ Len(b) \in Nat
  BY <1>1
<1> DEFINE s == a \o b
<1>3. Len(s) = Len(a) + Len(b)
      /\ \A k \in 1 .. Len(a) + Len(b) : s[k] = IF k <= Len(a) THEN a[k] ELSE b[k - Len(a)]
  BY <1>1, ConcatProperties
<1>4. Fine(p, s, rt)
  OBVIOUS
<1>5. a # <<>> => s # <<>> /\ Len(a) # 0
  BY Joined, Lengths
<1> HIDE DEF s
<1>6. ASSUME NEW k \in 1 .. Len(a) - 1
      PROVE  Follows(p, a[k], a[k + 1])
  <2>1. k \in 1 .. Len(s) - 1 /\ s[k] = a[k] /\ s[k + 1] = a[k + 1]
    BY <1>2, <1>3
  <2> QED
    BY <1>4, <2>1 DEF Fine
<1>7. a # <<>> => Expects(rt, a[1])
  <2>1. a # <<>> => s[1] = a[1]
    BY <1>2, <1>3, <1>5
  <2> QED
    BY <1>4, <1>5, <2>1 DEF Fine
<1> QED
  BY <1>6, <1>7 DEF Fine

\* Losing the end of a stream keeps what is before it.
LEMMA CutFrames ==
  ASSUME Inv, FInv, Cut
  PROVE  FInv'
<1>1. /\ cut' = TRUE /\ wire' = [r \in Party |-> <<>>] /\ UNCHANGED <<plan, pc, result, buf>>
  BY DEF Cut
<1>2. Settled
  BY <1>1, PlanSettled
<1>3. ASSUME NEW p \in Party, TlsFits, pc[Peer(p)] # "done"
      PROVE  Fine(p, Pipe(p)', At(Peer(p))')
  <2>1. IsSeq(buf[Peer(p)]) /\ IsSeq(wire[p]) /\ Peer(p) \in Party
    BY PipeFacts, PartyFacts
  <2>2. Pipe(p)' = buf[Peer(p)]
    <3>1. Pipe(p)' = buf[Peer(p)] \o <<>>
      BY <1>1 DEF Pipe
    <3> QED
      BY <2>1, <3>1, AddedNone
  <2>3. At(Peer(p))' = At(Peer(p))
    BY <1>1, <1>2, <2>1, AwaitKept
  <2>4. Fine(p, buf[Peer(p)] \o wire[p], At(Peer(p)))
    BY <1>3 DEF FInv, Conversation, Pipe
  <2> QED
    BY <2>1, <2>2, <2>3, <2>4, FinePart
<1>4. ~Live'
  BY <1>1 DEF Live
<1>5. Conversation'
  BY <1>1, <1>2, <1>3, <1>4 DEF Conversation, Settled
<1>6. Buffered' /\ FramesUnderstood'
  BY <1>1, <1>2 DEF FInv, Buffered, FramesUnderstood, Settled
<1> QED
  BY <1>5, <1>6 DEF FInv

\* A step of p that leaves the other one's stream alone.
LEMMA OtherPipe ==
  ASSUME Inv, NEW p \in Party, buf'[p] = buf[p], NEW W, Sent(p, W)
  PROVE  Pipe(Peer(p))' = Pipe(Peer(p))
BY InnerFacts, PartyFacts DEF Pipe, Sent

\* A frame as large as was agreed keeps the conversation.
LEMMA SendFullFrames ==
  ASSUME Inv, FInv, NEW p \in Party, SendFull(p)
  PROVE  FInv'
<1> DEFINE x == Item("full", limits[p].encoder + LenField)
<1>1. /\ pc[p] = "opened" /\ plan' = [plan EXCEPT ![p].sends = FALSE] /\ Sent(p, <<x>>)
      /\ UNCHANGED <<pc, result, buf, cut>>
  BY DEF SendFull
<1>2. Settled
  <2>1. /\ plan'.client.url = plan.client.url /\ plan'.client.profile = plan.client.profile
        /\ plan'.server.sasl = plan.server.sasl
        /\ plan'.client.scheme = plan.client.scheme /\ plan'.client.alt = plan.client.alt
        /\ plan'.server.tls = plan.server.tls
    BY <1>1, SendsKept DEF Inv
  <2>2. \A q : HasSasl(q)' = HasSasl(q)
    BY <2>1 DEF HasSasl, Profile
  <2>3. \A q \in Party : FirstAwait(q)' = FirstAwait(q)
    BY <2>1, <2>2 DEF FirstAwait
  <2>4. TlsFits' <=> TlsFits
    BY <2>1 DEF TlsFits
  <2> QED
    BY <2>1, <2>3, <2>4 DEF Settled
<1>3. x.k = "full"
  BY ItemFacts
<1> HIDE DEF x
<1>4. Says(p, <<x>>) /\ Pipe(Peer(p))' = Pipe(Peer(p))
  BY <1>1, SaysBy, Singles, OtherPipe
<1>5. Conversation'
  BY <1>1, <1>2, <1>3, <1>4, TalkSends DEF FInv
<1>6. Buffered' /\ FramesUnderstood'
  BY <1>1, <1>2 DEF FInv, Buffered, FramesUnderstood, Settled
<1> QED
  BY <1>5, <1>6 DEF FInv

\* A party that has started.
LEMMA StartKeeps ==
  ASSUME Inv, FInv, UNCHANGED <<plan, cut, buf>>, NEW p \in Party, NEW W, IsSeq(W),
         Sent(p, W) \/ (W = <<>> /\ wire' = wire), pc[p] = "start", GoTo(p, FirstAwait(p)),
         TlsFits =>
           \/ /\ FirstAwait(p) \in {"tlsHeader", "tlsHello"} /\ W = <<>> /\ p = "server"
           \/ /\ p = "client" /\ plan.client.scheme # "amqp"
              /\ \E x : /\ W = <<x>> /\ Expects(FirstAwait(Peer(p)), x)
                        /\ Where(p, x, FirstAwait(p), FirstAwait(Peer(p)))
                        /\ FirstAwait(p) \in {"tlsHeader", "tlsHello"}
           \/ /\ W = <<IF FirstAwait(p) = "saslHeader" THEN Header("sasl") ELSE Header("amqp")>>
              /\ FirstAwait(p) \in {"saslHeader", "amqpHeader"}
              /\ FirstAwait(Peer(p)) \in {"saslHeader", "amqpHeader"}
              /\ plan.client.scheme = "amqp"
  PROVE  FInv'
<1>1. Settled
  BY PlanSettled
<1>2. FirstAwait(p) \notin {"start", "done"}
  BY DEF FirstAwait
<1>3. Says(p, W) /\ Pipe(Peer(p))' = Pipe(Peer(p))
  <2>1. CASE Sent(p, W)
    BY <2>1, SaysBy, OtherPipe
  <2>2. CASE W = <<>> /\ wire' = wire
    BY <2>2, SaysNothing DEF Pipe
  <2> QED
    BY <2>1, <2>2
<1>4. pc'[p] = FirstAwait(p) /\ pc'[Peer(p)] = pc[Peer(p)] /\ result' = result
  BY Going
<1> DEFINE there == FirstAwait(p)
<1>5. Conversation'
  BY <1>1, <1>2, <1>3, <1>4, TalkStarts DEF FInv
<1>6. buf[p] = <<>>
  BY DEF FInv, Buffered, Framed
<1>7. Buffered'
  BY <1>4, <1>6, BufferedBy DEF FInv
<1>8. FramesUnderstood'
  BY <1>1, <1>4, UnderstoodBy DEF FInv
<1> QED
  BY <1>5, <1>7, <1>8 DEF FInv

\* The first header is SASL's exactly when SASL is configured.
LEMMA FirstOf ==
  ASSUME NEW p
  PROVE  FirstHeader(p) = IF HasSasl(p) THEN Header("sasl") ELSE Header("amqp")
BY DEF FirstHeader

\* Accepting starts the conversation.
LEMMA AcceptFrames ==
  ASSUME Inv, FInv, Accept
  PROVE  FInv'
<1>1. pc["server"] = "start" /\ UNCHANGED <<plan, buf, cut>> /\ "server" \in Party
      /\ Peer("server") = "client"
  BY PartyFacts DEF Accept
<1>2. plan.server.tls \in {"none", "header", "own"}
  BY DEF Inv, PlanOK, Acceptors
<1>3. CASE plan.server.tls = "none"
  <2> DEFINE x == FirstHeader("server")
  <2>1. FirstAwait("server") = IF HasSasl("server") THEN "saslHeader" ELSE "amqpHeader"
    BY <1>3 DEF FirstAwait
  <2>2. Sent("server", <<x>>) /\ GoTo("server", FirstAwait("server"))
    BY <1>3, <2>1 DEF Accept, AwaitHeader
  <2>3. x = IF FirstAwait("server") = "saslHeader" THEN Header("sasl") ELSE Header("amqp")
    BY <2>1, FirstOf
  <2>4. ASSUME TlsFits
        PROVE  /\ FirstAwait("client") \in {"saslHeader", "amqpHeader"}
               /\ plan.client.scheme = "amqp"
    <3>1. plan.client.scheme = "amqp"
      BY <1>3, <2>4 DEF TlsFits
    <3> QED
      BY <3>1 DEF FirstAwait
  <2> HIDE DEF x
  <2> QED
    BY <1>1, <2>1, <2>2, <2>3, <2>4, StartKeeps, Singles
<1>4. CASE plan.server.tls \in {"header", "own"}
  <2>1. FirstAwait("server") = IF plan.server.tls = "own" THEN "tlsHello" ELSE "tlsHeader"
    BY <1>4 DEF FirstAwait
  <2>2. wire' = wire /\ GoTo("server", FirstAwait("server"))
    BY <1>4, <2>1 DEF Accept
  <2> QED
    BY <1>1, <2>1, <2>2, StartKeeps, Singles
<1> QED
  BY <1>2, <1>3, <1>4

\* Connecting starts the conversation.
LEMMA OpenFrames ==
  ASSUME Inv, FInv, OpenWithStream
  PROVE  FInv'
<1>1. pc["client"] = "start" /\ UNCHANGED <<plan, cut>> /\ "client" \in Party
      /\ Peer("client") = "server"
  BY PartyFacts DEF OpenWithStream
<1>2. CASE OpenOverTls /\ UNCHANGED buf
  <2> DEFINE x == IF plan.client.alt THEN Hello ELSE Header("tls")
  <2>1. plan.client.scheme = "amqps" /\ plan.client.alt \in BOOLEAN
    BY <1>2 DEF OpenOverTls, Inv, PlanOK, Builders
  <2>2. FirstAwait("client") = IF plan.client.alt THEN "tlsHello" ELSE "tlsHeader"
    BY <2>1 DEF FirstAwait
  <2>3. Sent("client", <<x>>) /\ GoTo("client", FirstAwait("client"))
    BY <1>2, <2>1, <2>2 DEF OpenOverTls
  <2>4. ASSUME TlsFits
        PROVE  /\ Expects(FirstAwait("server"), x)
               /\ Where("client", x, FirstAwait("client"), FirstAwait("server"))
    <3>1. plan.server.tls = IF plan.client.alt THEN "own" ELSE "header"
      BY <2>1, <2>4 DEF TlsFits
    <3>2. FirstAwait("server") = IF plan.client.alt THEN "tlsHello" ELSE "tlsHeader"
      BY <3>1 DEF FirstAwait
    <3> QED
      BY <2>1, <2>2, <3>2, ItemFacts DEF Expects, Where
  <2> HIDE DEF x
  <2>5. \E y : <<x>> = <<y>> /\ y = x
    OBVIOUS
  <2> QED
    BY <1>1, <1>2, <2>1, <2>2, <2>3, <2>4, StartKeeps, Singles
<1>3. CASE /\ plan.client.scheme = "amqp" /\ Profile # "External"
           /\ Sent("client", <<FirstHeader("client")>>) /\ AwaitHeader("client") /\ UNCHANGED buf
  <2> DEFINE x == FirstHeader("client")
  <2>1. FirstAwait("client") = IF HasSasl("client") THEN "saslHeader" ELSE "amqpHeader"
    BY <1>3 DEF FirstAwait
  <2>2. Sent("client", <<x>>) /\ GoTo("client", FirstAwait("client"))
    BY <1>3, <2>1 DEF AwaitHeader
  <2>3. x = IF FirstAwait("client") = "saslHeader" THEN Header("sasl") ELSE Header("amqp")
    BY <2>1, FirstOf
  <2>4. ASSUME TlsFits
        PROVE  FirstAwait("server") \in {"saslHeader", "amqpHeader"}
    <3>1. plan.server.tls = "none"
      BY <1>3, <2>4 DEF TlsFits
    <3> QED
      BY <3>1 DEF FirstAwait
  <2> HIDE DEF x
  <2> QED
    BY <1>1, <1>3, <2>1, <2>2, <2>3, <2>4, StartKeeps, Singles
<1>4. CASE Fail("client", "config") /\ UNCHANGED wire
  BY <1>1, <1>4, FailSilent
<1> QED
  BY <1>2, <1>3, <1>4 DEF OpenWithStream

\* The exchange of TLS headers keeps the conversation.
LEMMA TlsHeaderFrames ==
  ASSUME Inv, FInv, TlsHeaderClient \/ TlsHeaderServer
  PROVE  FInv'
<1>1. PICK p \in Party : /\ p = "client" => TlsHeaderClient
                         /\ p = "server" => TlsHeaderServer
  BY PartyFacts DEF Party
<1> DEFINE i == Head(wire[Peer(p)])
           x == IF p = "client" THEN Hello ELSE Header("tls")
<1>2. /\ pc[p] = "tlsHeader" /\ wire[Peer(p)] # <<>> /\ UNCHANGED <<plan, cut>>
      /\ \/ /\ i = Header("tls") /\ Exchanged(p, <<x>>) /\ GoTo(p, "tlsHello") /\ UNCHANGED buf
         \/ /\ i # Header("tls") /\ Fail(p, HeaderError(i))
            /\ Exchanged(p, <<>>) \/ Exchanged(p, <<Header("tls")>>)
  BY <1>1, PartyFacts DEF TlsHeaderClient, TlsHeaderServer, Party
<1>3. pc[p] \notin Framed /\ pc[p] \notin {"start", "done"}
  BY <1>2 DEF Framed
<1>4. buf[p] = <<>> /\ Pipe(Peer(p)) = wire[Peer(p)] /\ (TlsFits => Expects("tlsHeader", i))
  BY <1>2, <1>3, FirstUnread
<1>5. HeaderError(i) # "oversized"
  BY DEF HeaderError
<1> HIDE DEF i
<1>6. CASE /\ i = Header("tls") /\ Exchanged(p, <<x>>) /\ GoTo(p, "tlsHello") /\ UNCHANGED buf
  <2>1. IsSeq(<<x>>)
    BY Singles
  <2>2. Moves(p, "tlsHeader", i, "tlsHello", <<x>>)
    BY <1>6 DEF Moves
  <2> HIDE DEF x
  <2>3. Reads(p) /\ Says(p, <<x>>)
    BY <1>2, <1>4, <1>6, <2>1, ReadsStream
  <2>4. pc'[p] = "tlsHello" /\ pc'[Peer(p)] = pc[Peer(p)] /\ result' = result
    BY <1>6, Going
  <2> QED
    BY <1>2, <1>3, <1>4, <1>6, <2>2, <2>3, <2>4, ReadKeeps DEF i
<1>7. CASE /\ i # Header("tls") /\ Fail(p, HeaderError(i))
           /\ Exchanged(p, <<>>) \/ Exchanged(p, <<Header("tls")>>)
  <2>1. ~TlsFits
    BY <1>4, <1>7 DEF Expects
  <2> QED
    BY <1>2, <1>3, <1>5, <1>7, <2>1, FailSilent, FailSpeaking
<1> QED
  BY <1>2, <1>6, <1>7

\* The TLS handshake keeps the conversation.
LEMMA HandshakeFrames ==
  ASSUME Inv, FInv, NEW p \in Party, TlsHandshake(p)
  PROVE  FInv'
<1> DEFINE i == Head(wire[Peer(p)])
           h == FirstHeader(p)
           W == IF p = "client" THEN <<h>> ELSE <<Hello, h>>
           there == IF HasSasl(p) THEN "saslHeader" ELSE "amqpHeader"
<1>1. /\ pc[p] = "tlsHello" /\ wire[Peer(p)] # <<>> /\ UNCHANGED <<plan, cut>>
      /\ \/ i = Hello /\ Exchanged(p, W) /\ GoTo(p, there) /\ UNCHANGED buf
         \/ Exchanged(p, <<>>) /\ Fail(p, "tls")
         \/ i # Hello /\ Exchanged(p, <<>>) /\ Fail(p, "garbled")
  BY DEF TlsHandshake, AwaitHeader
<1>2. pc[p] \notin Framed /\ pc[p] \notin {"start", "done"}
  BY <1>1 DEF Framed
<1>3. buf[p] = <<>> /\ Pipe(Peer(p)) = wire[Peer(p)] /\ (TlsFits => Expects("tlsHello", i))
  BY <1>1, <1>2, FirstUnread
<1>4. IsSeq(W) /\ there \in {"saslHeader", "amqpHeader"}
  BY Singles
<1>5. ASSUME i = Hello
      PROVE  Moves(p, "tlsHello", i, there, W)
  <2>1. h = IF there = "saslHeader" THEN Header("sasl") ELSE Header("amqp")
    BY FirstOf
  <2> HIDE DEF h
  <2> QED
    BY <1>4, <1>5, <2>1 DEF Moves
<1> HIDE DEF i, W, there
<1>6. CASE i = Hello /\ Exchanged(p, W) /\ GoTo(p, there) /\ UNCHANGED buf
  <2>1. Reads(p) /\ Says(p, W)
    BY <1>1, <1>3, <1>4, <1>6, ReadsStream
  <2>2. pc'[p] = there /\ pc'[Peer(p)] = pc[Peer(p)] /\ result' = result
    BY <1>6, Going
  <2>3. there \in Framed
    BY <1>4 DEF Framed
  <2> QED
    BY <1>1, <1>2, <1>3, <1>5, <1>6, <2>1, <2>2, <2>3, ReadKeeps DEF i
<1>7. CASE Exchanged(p, <<>>) /\ Fail(p, "tls")
  BY <1>1, <1>2, <1>7, FailSilent
<1>8. CASE i # Hello /\ Exchanged(p, <<>>) /\ Fail(p, "garbled")
  <2>1. ~TlsFits
    BY <1>3, <1>8 DEF Expects
  <2> QED
    BY <1>1, <1>2, <1>8, <2>1, FailSilent
<1> QED
  BY <1>1, <1>6, <1>7, <1>8

\* A step on the head of the buffer that goes on to another place or stays.
LEMMA TakeKeeps ==
  ASSUME Inv, FInv, UNCHANGED <<plan, cut>>, NEW p \in Party, NEW there, NEW W, IsSeq(W),
         pc[p] \notin {"start", "done"}, there \in Framed, buf[p] # <<>>, Taken(p),
         Sent(p, W) \/ (W = <<>> /\ UNCHANGED wire),
         pc'[p] = there, pc'[Peer(p)] = pc[Peer(p)],
         result'[Peer(p)] = result[Peer(p)], result'[p] \in {result[p], "ok"},
         TlsFits => Moves(p, pc[p], Head(buf[p]), there, W)
  PROVE  FInv'
<1>1. Reads(p) /\ Says(p, W) /\ Head(Pipe(Peer(p))) = Head(buf[p])
  BY ReadsBuffer
<1>2. buf'[Peer(p)] = buf[Peer(p)]
  BY TakenBuffer
<1> QED
  BY <1>1, <1>2, ReadKeeps

\* The exchange of SASL and AMQP headers keeps the conversation.
LEMMA HeaderFrames ==
  ASSUME Inv, FInv, NEW p \in Party, SaslHeader(p) \/ AmqpHeader(p)
  PROVE  FInv'
<1> DEFINE i == Head(buf[p])
           at == pc[p]
<1>1. \/ at = "saslHeader" /\ SaslHeader(p)
      \/ at = "amqpHeader" /\ AmqpHeader(p)
  BY DEF SaslHeader, AmqpHeader
<1>2. /\ pc[p] = at /\ buf[p] # <<>> /\ UNCHANGED <<plan, cut>>
      /\ pc[p] \notin {"start", "done"} /\ {"sasl", "open"} \subseteq Framed
  BY <1>1 DEF SaslHeader, AmqpHeader, Framed
<1>3. TlsFits => Expects(at, i)
  BY <1>2, FirstUnread
<1>4. HeaderError(i) # "oversized" /\ (TlsFits => HeaderError(i) # "garbled")
  BY <1>1, <1>3, ItemFacts DEF HeaderError, Expects, Headers
<1> HIDE DEF i, at
<1>5. CASE i # Header(IF at = "saslHeader" THEN "sasl" ELSE "amqp")
  <2>1. Fail(p, HeaderError(i)) /\ UNCHANGED wire
    BY <1>1, <1>5 DEF SaslHeader, AmqpHeader, i
  <2> QED
    BY <1>2, <1>4, <2>1, FailSilent
<1>6. CASE at = "saslHeader" /\ i = Header("sasl")
  <2> DEFINE x == Item("mechanisms", SaslMechanisms)
             W == IF p = "server" THEN <<x>> ELSE <<>>
  <2>1. Sent(p, W) /\ Taken(p) /\ GoTo(p, "sasl")
    BY <1>1, <1>6 DEF SaslHeader, i
  <2>2. IsSeq(W) /\ x.k = "mechanisms"
    BY Singles, ItemFacts
  <2>3. Moves(p, at, i, "sasl", W)
    <3>1. CASE p = "client"
      BY <1>6, <3>1 DEF Moves
    <3>2. CASE p = "server"
      <4> HIDE DEF x
      <4> QED
        BY <1>6, <2>2, <3>2 DEF Moves
    <3> QED
      BY <3>1, <3>2 DEF Party
  <2> HIDE DEF W, x
  <2>4. pc'[p] = "sasl" /\ pc'[Peer(p)] = pc[Peer(p)] /\ result' = result
    BY <2>1, Going
  <2> QED
    BY <1>2, <2>1, <2>2, <2>3, <2>4, TakeKeeps DEF i
<1>7. CASE at = "amqpHeader" /\ i = Header("amqp")
  <2> DEFINE W == OpenItems(p)
  <2>1. Sent(p, W) /\ Taken(p) /\ GoTo(p, "open")
    BY <1>1, <1>7 DEF AmqpHeader, i
  <2>2. IsSeq(W)
    BY Singles DEF OpenItems
  <2>3. Moves(p, at, i, "open", W)
    <3>1. \/ \E x : x.k = "open" /\ W = <<x>>
          \/ \E x, y : x.k = "torn" /\ y.k = "torn" /\ W = <<x, y>>
      BY ItemFacts DEF OpenItems
    <3> HIDE DEF W
    <3> QED
      BY <1>7, <3>1 DEF Moves
  <2> HIDE DEF W
  <2>4. pc'[p] = "open" /\ pc'[Peer(p)] = pc[Peer(p)] /\ result' = result
    BY <2>1, Going
  <2> QED
    BY <1>2, <2>1, <2>2, <2>3, <2>4, TakeKeeps DEF i
<1> QED
  BY <1>1, <1>5, <1>6, <1>7

\* The exchange of Opens keeps the conversation.
LEMMA OpenInnerFrames ==
  ASSUME Inv, FInv, NEW p \in Party, OpenInner(p)
  PROVE  FInv'
<1> DEFINE i == Head(buf[p])
<1>1. /\ pc[p] = "open" /\ buf[p] # <<>> /\ UNCHANGED <<plan, cut>> /\ Taken(p)
      /\ pc[p] \notin {"start", "done"} /\ {"opened", "closing"} \subseteq Framed
  BY DEF OpenInner, Framed
<1>2. CASE i.k = "open"
  <2>1. pc' = [pc EXCEPT ![p] = "opened"] /\ result' = [result EXCEPT ![p] = "ok"] /\ UNCHANGED wire
    BY <1>2 DEF OpenInner
  <2>2. /\ pc'[p] = "opened" /\ pc'[Peer(p)] = pc[Peer(p)]
        /\ result'[p] = "ok" /\ result'[Peer(p)] = result[Peer(p)]
    BY <2>1, InnerFacts, PartyFacts
  <2>3. IsSeq(<<>>) /\ UNCHANGED wire
    BY <2>1, Singles
  <2>4. Moves(p, "open", i, "opened", <<>>)
    BY <1>2 DEF Moves
  <2> HIDE DEF i
  <2> QED
    BY <1>1, <2>2, <2>3, <2>4, TakeKeeps DEF i
<1>3. CASE i.k # "open"
  <2> DEFINE x == Item("close", 0)
  <2>1. Sent(p, <<x>>) /\ GoTo(p, "closing")
    BY <1>3 DEF OpenInner
  <2>2. IsSeq(<<x>>) /\ x.k = "close"
    BY Singles, ItemFacts
  <2> HIDE DEF x, i
  <2>3. Moves(p, "open", i, "closing", <<x>>)
    BY <1>3, <2>2 DEF Moves
  <2>4. pc'[p] = "closing" /\ pc'[Peer(p)] = pc[Peer(p)] /\ result' = result
    BY <2>1, Going
  <2> QED
    BY <1>1, <2>1, <2>2, <2>3, <2>4, TakeKeeps DEF i
<1> QED
  BY <1>2, <1>3

\* A frame as long as its writer's encoder admits is never too long for its reader.
LEMMA FullFits ==
  ASSUME Inv, NEW p \in Party, pc[p] = "opened", buf[p] # <<>>, Head(buf[p]).k = "full"
  PROVE  Head(buf[p]).v <= limits[p].decoder
<1> DEFINE n == LocalOpen(p).frame
<1>1. Peer(p) \in Party /\ Peer(Peer(p)) = p
  BY PartyFacts
<1>2. Good(Peer(p), Head(buf[p]), Config)
  BY InnerFacts, Takes
<1>3. Config.open[p] = LocalOpen(p)
  BY DEF Config
<1>4. Head(buf[p]).v = n
  BY <1>1, <1>2, <1>3 DEF Good
<1>5. limits[p].decoder = DecoderSize(n)
  <2>1. limits[p] = Agreed(p)
    BY DEF Inv, Exchange
  <2> QED
    BY <2>1 DEF Agreed
<1>6. DecoderSize(n) = n
  BY LongestFrame DEF Inv
<1>7. n \in Int
  <2>1. plan[p].frame \in Nat
    BY SizesAssumption DEF Inv, PlanOK, Party, Builders, Acceptors
  <2> QED
    BY <2>1, FrameAssumption DEF LocalOpen, Max2
<1> HIDE DEF n
<1> QED
  BY <1>4, <1>5, <1>6, <1>7

\* Frames read on an open connection keep the conversation.
LEMMA IncomingFrames ==
  ASSUME Inv, FInv, NEW p \in Party, OnIncoming(p)
  PROVE  FInv'
<1> DEFINE i == Head(buf[p])
           fits == i.k = "full" /\ i.v <= limits[p].decoder
<1>1. /\ pc[p] = "opened" /\ buf[p] # <<>> /\ UNCHANGED <<plan, cut>>
      /\ pc[p] \notin {"start", "done"} /\ "opened" \in Framed
  BY DEF OnIncoming, Framed
<1>2. CASE fits
  <2>1. Taken(p) /\ UNCHANGED <<pc, result, wire>>
    BY <1>2 DEF OnIncoming
  <2>2. IsSeq(<<>>) /\ UNCHANGED wire
    BY <2>1, Singles
  <2>3. Moves(p, "opened", i, "opened", <<>>)
    BY <1>2 DEF Moves
  <2> HIDE DEF i
  <2> QED
    BY <1>1, <2>1, <2>2, <2>3, TakeKeeps DEF i
<1>3. CASE ~fits
  <2>1. /\ pc' = [pc EXCEPT ![p] = "done"] /\ buf' = [buf EXCEPT ![p] = <<>>]
        /\ Sent(p, IF i.k = "close" THEN <<i>> ELSE <<>>)
        /\ result' = [result EXCEPT ![p] = CASE i.k = "close" -> @
                                              [] i.k = "full"  -> "oversized"
                                              [] OTHER         -> "garbled"]
    BY <1>3 DEF OnIncoming
  <2>2. TlsFits => Expects("opened", i)
    BY <1>1, FirstUnread
  <2>3. i.k # "full"
    BY <1>1, <1>3, FullFits
  <2> HIDE DEF i, fits
  <2>4. /\ pc'[p] = "done" /\ pc'[Peer(p)] = pc[Peer(p)]
        /\ buf'[p] = <<>> /\ buf'[Peer(p)] = buf[Peer(p)]
        /\ result'[Peer(p)] = result[Peer(p)]
        /\ result'[p] = IF i.k = "close" THEN result[p] ELSE "garbled"
    BY <2>1, <2>3, InnerFacts, PartyFacts
  <2>5. CASE i.k = "close"
    <3>1. Says(p, <<i>>)
      BY <2>1, <2>4, <2>5, SaysBy, Singles
    <3>2. TlsFits /\ Live => Fits(p, Pipe(p), i, At(Peer(p)))
      BY <1>1, <2>5, CloseFits
    <3> QED
      BY <1>1, <2>4, <2>5, <3>1, <3>2, FailKeeps
  <2>6. CASE i.k # "close"
    <3>1. Says(p, <<>>)
      BY <2>1, <2>4, <2>6, SaysBy, Singles
    <3>2. ~TlsFits
      BY <2>2, <2>3, <2>6 DEF Expects
    <3> QED
      BY <1>1, <2>4, <2>6, <3>1, <3>2, FailKeeps
  <2> QED
    BY <2>5, <2>6
<1> QED
  BY <1>2, <1>3

\* A SASL step of the client keeps the conversation.
LEMMA SaslClientFrames ==
  ASSUME Inv, FInv, SaslClient
  PROVE  FInv'
<1> DEFINE p == "client"
           i == Head(buf[p])
<1>1. /\ pc[p] = "sasl" /\ buf[p] # <<>> /\ UNCHANGED <<plan, cut>>
      /\ pc[p] \notin {"start", "done"} /\ {"sasl", "amqpHeader"} \subseteq Framed
      /\ p \in Party
  BY PartyFacts DEF SaslClient, Framed
<1>2. TlsFits => Expects("sasl", i)
  BY <1>1, FirstUnread
<1>3. CASE (i.k = "mechanisms" /\ OnMechanisms(i.v)) \/ (i.k = "challenge" /\ OnChallenge(i.v))
  <2>1. UNCHANGED <<pc, result>>
    BY <1>3 DEF OnMechanisms, OnChallenge
  <2>2. \E x : x.k \in {"init", "response"} /\ Sent(p, <<x>>)
    <3>1. CASE OnMechanisms(i.v)
      <4>1. \E v : Sent(p, <<Item("init", v)>>)
        BY <3>1 DEF OnMechanisms
      <4> QED
        BY <4>1, ItemFacts
    <3>2. CASE OnChallenge(i.v)
      <4>1. \E v : Sent(p, <<Item("response", v)>>)
        BY <3>2 DEF OnChallenge, OnServerFirst
      <4> QED
        BY <4>1, ItemFacts
    <3> QED
      BY <1>3, <3>1, <3>2
  <2>3. PICK x : x.k \in {"init", "response"} /\ Sent(p, <<x>>)
    BY <2>2
  <2>4. CASE Taken(p)
    <3>1. i.k \in {"mechanisms", "challenge"}
      BY <1>3
    <3> HIDE DEF i
    <3>2. Moves(p, "sasl", i, "sasl", <<x>>)
      BY <2>3, <3>1 DEF Moves
    <3>3. IsSeq(<<x>>)
      BY Singles
    <3> QED
      BY <1>1, <2>1, <2>3, <2>4, <3>2, <3>3, TakeKeeps DEF i
  <2>5. CASE ~Taken(p)
    <3>1. Fail(p, IF i.k \in SaslKinds THEN "sasl" ELSE "garbled") /\ UNCHANGED wire
      BY <2>5 DEF SaslClient
    <3>2. i.k \in SaslKinds
      BY <1>3 DEF SaslKinds
    <3> QED
      BY <1>1, <3>1, <3>2, FailSilent
  <2> QED
    BY <2>4, <2>5
<1>4. CASE i.k = "outcome" /\ OnOutcome(i.v) /\ Taken(p)
  <2>1. Sent(p, <<Header("amqp")>>) /\ GoTo(p, "amqpHeader")
    BY <1>4 DEF OnOutcome
  <2>2. pc'[p] = "amqpHeader" /\ pc'[Peer(p)] = pc[Peer(p)] /\ result' = result
    BY <1>1, <2>1, Going
  <2>3. i.k = "outcome"
    BY <1>4
  <2> HIDE DEF i
  <2>4. Moves(p, "sasl", i, "amqpHeader", <<Header("amqp")>>)
    BY <2>3 DEF Moves
  <2> QED
    BY <1>1, <1>4, <2>1, <2>2, <2>4, TakeKeeps, Singles DEF i
<1>5. CASE Fail(p, IF i.k \in SaslKinds THEN "sasl" ELSE "garbled") /\ UNCHANGED wire
  <2>1. TlsFits => i.k \in SaslKinds
    BY <1>2 DEF Expects
  <2> DEFINE why == IF i.k \in SaslKinds THEN "sasl" ELSE "garbled"
  <2>2. why # "oversized" /\ (TlsFits => why # "garbled") /\ Fail(p, why)
    BY <1>5, <2>1
  <2> HIDE DEF why
  <2> QED
    BY <1>1, <1>5, <2>2, FailSilent
<1> QED
  BY <1>3, <1>4, <1>5 DEF SaslClient

\* A SASL step of the server keeps the conversation.
LEMMA SaslServerFrames ==
  ASSUME Inv, FInv, SaslServer
  PROVE  FInv'
<1> DEFINE p == "server"
           i == Head(buf[p])
           answer == CASE i.k = "init"     -> OnInit(i.v)
                       [] i.k = "response" -> OnResponse(i.v)
                       [] OTHER            -> Outcome("sys", <<>>)
           passed == answer.k = "outcome" /\ answer.v.code = "ok"
<1>1. /\ pc[p] = "sasl" /\ buf[p] # <<>> /\ UNCHANGED <<plan, cut>>
      /\ pc[p] \notin {"start", "done"} /\ {"sasl", "amqpHeader"} \subseteq Framed
      /\ p \in Party
  BY PartyFacts DEF SaslServer, Framed
<1>2. /\ Pipe(Peer(p)) # <<>> /\ Head(Pipe(Peer(p))) = i
      /\ TlsFits => Expects("sasl", i)
  BY <1>1, FirstUnread
<1>3. /\ answer.k = "challenge" \/ passed => i.k \in {"init", "response"}
  <2>1. ASSUME i.k \notin {"init", "response"}
        PROVE  answer = Outcome("sys", <<>>)
    BY <2>1
  <2>2. Outcome("sys", <<>>).k = "outcome" /\ Outcome("sys", <<>>).v.code = "sys"
    BY DEF Outcome, Item
  <2> HIDE DEF answer
  <2> QED
    BY <2>1, <2>2
<1>4. \/ answer.k = "challenge" /\ Sent(p, <<answer>>) /\ Taken(p) /\ UNCHANGED <<pc, result>>
      \/ /\ passed /\ Sent(p, <<answer, Header("amqp")>>) /\ Taken(p)
         /\ GoTo(p, "amqpHeader")
      \/ /\ answer.k = "outcome" /\ Sent(p, IF i.k \in SaslKinds THEN <<answer>> ELSE <<>>)
         /\ Fail(p, IF i.k \in SaslKinds THEN "sasl" ELSE "garbled")
  BY DEF SaslServer
<1> HIDE DEF answer
<1>5. CASE answer.k = "challenge" /\ Sent(p, <<answer>>) /\ Taken(p) /\ UNCHANGED <<pc, result>>
  <2>1. i.k \in {"init", "response"} /\ IsSeq(<<answer>>)
    BY <1>3, <1>5, Singles
  <2> HIDE DEF i
  <2>2. Moves(p, "sasl", i, "sasl", <<answer>>)
    BY <1>5, <2>1 DEF Moves
  <2> QED
    BY <1>1, <1>5, <2>1, <2>2, TakeKeeps DEF i
<1>6. CASE passed /\ Sent(p, <<answer, Header("amqp")>>) /\ Taken(p) /\ GoTo(p, "amqpHeader")
  <2>1. i.k \in {"init", "response"} /\ IsSeq(<<answer, Header("amqp")>>) /\ answer.k = "outcome"
    BY <1>3, <1>6, Singles
  <2>2. pc'[p] = "amqpHeader" /\ pc'[Peer(p)] = pc[Peer(p)] /\ result' = result
    BY <1>1, <1>6, Going
  <2> HIDE DEF i
  <2>3. Moves(p, "sasl", i, "amqpHeader", <<answer, Header("amqp")>>)
    BY <2>1 DEF Moves
  <2> QED
    BY <1>1, <1>6, <2>1, <2>2, <2>3, TakeKeeps DEF i
<1>7. CASE /\ answer.k = "outcome" /\ Sent(p, IF i.k \in SaslKinds THEN <<answer>> ELSE <<>>)
           /\ Fail(p, IF i.k \in SaslKinds THEN "sasl" ELSE "garbled")
  <2>1. CASE i.k \in SaslKinds
    <3>1. ASSUME TlsFits, Live
          PROVE  Fits(p, Pipe(p), answer, At(Peer(p)))
      <4>1. Side(Peer(p), Pipe(Peer(p)), Pipe(p), pc[Peer(p)], At(p), FirstAwait(p))
        BY <1>1, <3>1, LiveFacts DEF FInv
      <4>2. IsSeq(Pipe(Peer(p))) /\ Peer(p) = "client"
        BY PipeFacts, PartyFacts
      <4>3. 1 \in 1 .. Len(Pipe(Peer(p))) /\ Pipe(Peer(p))[1] = i
        <5>1. Len(Pipe(Peer(p))) \in Nat /\ Len(Pipe(Peer(p))) >= 1
              /\ Head(Pipe(Peer(p))) = Pipe(Peer(p))[1]
          BY <1>2, <4>2, Dropped
        <5> QED
          BY <1>2, <5>1
      <4>4. Where(Peer(p), i, pc[Peer(p)], At(p)) /\ (Calls(i) => Pipe(p) = <<>>)
        BY <4>1, <4>3 DEF Side
      <4>5. Pipe(p) = <<>> /\ pc[Peer(p)] = "sasl"
        BY <2>1, <4>2, <4>4 DEF Where, Calls, SaslKinds
      <4>6. At(Peer(p)) = "sasl"
        BY <4>5 DEF At
      <4> QED
        BY <1>7, <4>5, <4>6 DEF Fits, Expects, SaslKinds
    <3>2. Sent(p, <<answer>>) /\ Fail(p, "sasl")
      BY <1>7, <2>1
    <3> QED
      BY <1>1, <3>1, <3>2, FailSpeaking
  <2>2. CASE i.k \notin SaslKinds
    <3>1. ~TlsFits
      BY <1>2, <2>2 DEF Expects
    <3>2. Sent(p, <<>>) /\ Fail(p, "garbled")
      BY <1>7, <2>2
    <3>3. Says(p, <<>>)
      BY <1>1, <3>2, Failing, SaysBy, Singles
    <3> QED
      BY <1>1, <3>1, <3>2, <3>3, Failing, FailKeeps
  <2> QED
    BY <2>1, <2>2
<1> QED
  BY <1>4, <1>5, <1>6, <1>7

-----------------------------------------------------------------------------
(* The theorem.                                                            *)

\* Before the connection is made nothing has been said.
LEMMA InitFrames ==
  ASSUME Init
  PROVE  FInv
<1>1. /\ pc = [p \in Party |-> "start"] /\ result = [p \in Party |-> "pending"]
      /\ wire = [p \in Party |-> <<>>] /\ buf = [p \in Party |-> <<>>]
  BY DEF Init
<1>2. \A p \in Party : pc[p] = "start" /\ Pipe(p) = <<>> /\ At(p) = FirstAwait(p)
  <2> SUFFICES ASSUME NEW p \in Party
               PROVE  pc[p] = "start" /\ Pipe(p) = <<>> /\ At(p) = FirstAwait(p)
    OBVIOUS
  <2>1. Pipe(p) = <<>> \o <<>>
    BY <1>1, PartyFacts DEF Pipe
  <2>2. Pipe(p) = <<>>
    BY <2>1, AddedNone, Singles
  <2> QED
    BY <1>1, <2>2 DEF At
<1>3. \A p, rt : Fine(p, <<>>, rt)
  BY DEF Fine
<1>4. \A p, rt : Side(p, <<>>, <<>>, "start", rt, rt)
  BY DEF Side, Wrote
<1>5. Conversation
  <2>1. \A p \in Party : Fine(p, Pipe(p), At(Peer(p)))
    BY <1>2, <1>3
  <2>2. Unstarted
    BY <1>2, PartyFacts DEF Unstarted
  <2>3. ASSUME NEW p \in Party
        PROVE  Side(p, Pipe(p), Pipe(Peer(p)), pc[p], At(Peer(p)), FirstAwait(Peer(p)))
    <3>1. Pipe(p) = <<>> /\ Pipe(Peer(p)) = <<>> /\ pc[p] = "start" /\ At(Peer(p)) = FirstAwait(Peer(p))
      BY <1>2, PartyFacts
    <3> QED
      BY <1>4, <3>1
  <2> QED
    BY <2>1, <2>2, <2>3 DEF Conversation
<1>6. Buffered /\ FramesUnderstood
  BY <1>1 DEF Buffered, FramesUnderstood
<1> QED
  BY <1>5, <1>6 DEF FInv

\* Every step of the negotiation keeps the conversation.
LEMMA NextFrames ==
  ASSUME Inv, FInv, [Next]_vars
  PROVE  FInv'
<1>1. CASE UNCHANGED vars
  BY <1>1 DEF vars, FInv, Conversation, Buffered, FramesUnderstood, TlsFits, Pipe, At, FirstAwait,
     HasSasl, Profile, Live, Unstarted
<1>2. CASE Client \/ Server
  BY <1>2, OpenFrames, AcceptFrames, TlsHeaderFrames, SaslClientFrames, SaslServerFrames
     DEF Client, Server
<1>3. ASSUME NEW p \in Party,
             \/ Fill(p) \/ OnEof(p) \/ TlsHandshake(p) \/ SaslHeader(p)
             \/ AmqpHeader(p) \/ OpenInner(p) \/ Closing(p) \/ OnIncoming(p)
             \/ OnIdleTimeout(p) \/ SendFull(p)
      PROVE  FInv'
  BY <1>3, FillFrames, EofFrames, HandshakeFrames, HeaderFrames, OpenInnerFrames,
     IncomingFrames, IdleFrames, SendFullFrames
<1>4. CASE Cut
  BY <1>4, CutFrames
<1> QED
  BY <1>1, <1>2, <1>3, <1>4 DEF Next, Step

\* Nobody reads the bytes of one layer with the codec of another as long as the two parties agree
\* about TLS, and no frame is longer than its reader allows, whatever the FramedRead has read ahead
\* when its codec is exchanged (the codec that connect_with_stream() drops and keeps the buffer of).
THEOREM Understanding == Spec => []FramesUnderstood
<1>1. Spec => [](Inv /\ FInv)
  <2>1. Init => Inv /\ FInv
    BY InitInv, InitFrames
  <2>2. (Inv /\ FInv) /\ [Next]_vars => (Inv /\ FInv)'
    BY NextInv, NextFrames
  <2> QED
    BY <2>1, <2>2, PTL DEF Spec
<1>2. Inv /\ FInv => FramesUnderstood
  BY DEF FInv
<1> QED
  BY <1>1, <1>2, PTL

=============================================================================
