---------------------------- MODULE Negotiation ----------------------------
(***************************************************************************)
(* How a connection comes to be: the client's connection::Builder against  *)
(* the ConnectionAcceptor, through the optional TLS layer, the optional    *)
(* SASL layer with its profiles and acceptors, the AMQP header and the     *)
(* exchange of Open, up to the first frames of the open connection.        *)
(*                                                                         *)
(* Each party writes into a byte stream, a FIFO sequence of items (a       *)
(* protocol header, a TLS handshake record, a frame), and reads the other  *)
(* one's either straight from the stream (TLS) or through a FramedRead,    *)
(* whose buffer may hold items that belong to the next layer while the     *)
(* codec on top of it is exchanged.  The configuration of the two parties, *)
(* and the fault of the network if there is one, is `plan`.  The           *)
(* cryptographic functions are symbolic: two terms are equal exactly when  *)
(* they were built alike.                                                  *)
(***************************************************************************)
EXTENDS Integers, Sequences, FiniteSets

CONSTANTS Plans,         \* the configurations of the two parties and the fault
          MinFrame,      \* MIN_MAX_FRAME_SIZE
          LenField,      \* what the length field of a frame takes of its size
          FrameSizes,    \* the sizes, session counts and idle time-outs that
          SessionCounts, \* the application asks its builder for
          IdleTimes

ASSUME FrameAssumption == MinFrame \in Nat /\ LenField \in 1..(MinFrame - 1)
ASSUME SizesAssumption == FrameSizes \cup SessionCounts \cup IdleTimes \subseteq Nat

VARIABLES plan,    \* the configuration, chosen at the start
          pc,      \* where open() or accept() awaits, per party
          result,  \* what it returned: "pending", "ok" or the class of error
          wire,    \* items a party wrote that its peer has not read
          buf,     \* the FramedRead's buffer of a party
          scram,   \* the state of ScramClient and of ScramAuthenticator
          trust,   \* the party left the SASL layer with an outcome of Ok
          limits,  \* what the exchange of Open left in the connection
          hungup,  \* the party has dropped its end of the stream
          cut      \* the network has failed

vars == <<plan, pc, result, wire, buf, scram, trust, limits, hungup, cut>>

Party == {"client", "server"}
Peer(p) == IF p = "client" THEN "server" ELSE "client"
Scrams == {"ScramSha1", "ScramSha256", "ScramSha512"}

Max2(a, b) == IF a > b THEN a ELSE b
Min2(a, b) == IF a < b THEN a ELSE b

Item(k, v) == [k |-> k, v |-> v]
Header(id) == Item("header", id)
Hello == Item("hello", 0)
SaslKinds == {"mechanisms", "init", "challenge", "response", "outcome"}
AmqpKinds == {"open", "torn", "close", "full"}

(***************************************************************************)
(* The configurations the two builders can be brought to                   *)
(***************************************************************************)

\* A count of sessions is turned into the highest channel.
FromSessionMax(n) == Max2(n, 1) - 1

\* connection::Builder: besides the layers and the limits, whether the Open
\* it makes (container id, properties, capabilities...) is longer than the
\* least frame, and whether the application goes on to send.  The url counts
\* when it has a username and a password.
Builders ==
    [scheme : {"amqp", "amqps", "other"}, alt : BOOLEAN, domain : BOOLEAN,
     certificate : BOOLEAN, url : BOOLEAN,
     profile : Scrams \cup {"None", "Anonymous", "Plain", "External"},
     user : {"u", "x"}, password : {"p", "q"},
     frame : FrameSizes, channels : {FromSessionMax(n) : n \in SessionCounts},
     idle : IdleTimes, long : BOOLEAN, sends : BOOLEAN]

\* The builder of ConnectionAcceptor: "own" stands for a TLS layer that the
\* application has put under accept() itself; "External" and "Lax", which
\* lists no mechanism, are SASL acceptors of the application; `verifier` is
\* the password that the server key of a ScramCredentialProvider was made of.
Acceptors ==
    [tls : {"none", "header", "own"},
     sasl : Scrams \cup {"None", "Anonymous", "Lax", "Plain", "External"},
     user : {"u"}, password : {"p"}, verifier : {"p", "q"}, asks : BOOLEAN,
     frame : FrameSizes, channels : {FromSessionMax(n) : n \in SessionCounts},
     idle : IdleTimes, long : BOOLEAN, sends : BOOLEAN]

ASSUME PlansAssumption ==
    Plans \subseteq [client : Builders, server : Acceptors,
                      fault : {"none", "cut", "slow"}]

(***************************************************************************)
(* The stream and the codecs                                               *)
(***************************************************************************)

\* A write reaches the stream unless the network has failed; a party that
\* fails drops its half, and the peer reads the end of the stream behind
\* what was written before.
Sent(p, items) ==
    wire' = [wire EXCEPT ![p] = IF cut THEN @ ELSE @ \o items]

Fail(p, why) ==
    /\ pc' = [pc EXCEPT ![p] = "done"]
    /\ result' = [result EXCEPT ![p] = IF @ = "pending" THEN why ELSE @]
    /\ hungup' = [hungup EXCEPT ![p] = TRUE]
    /\ buf' = [buf EXCEPT ![p] = <<>>]

GoTo(p, there) ==
    /\ pc' = [pc EXCEPT ![p] = there]
    /\ UNCHANGED <<result, hungup>>

\* What the codec of the headers makes of a header it did not expect, and of
\* eight bytes that are none.
HeaderError(i) == IF i.k = "header" THEN "mismatch" ELSE "garbled"

Framed == {"saslHeader", "sasl", "amqpHeader", "open", "closing", "opened"}

\* The FramedRead reads only when its decoder finds no whole item in the
\* buffer, and takes whatever the stream holds by then.
Fill(p) ==
    /\ pc[p] \in Framed
    /\ buf[p] = <<>>
    /\ \E n \in 1..Len(wire[Peer(p)]) :
          /\ buf' = [buf EXCEPT ![p] = SubSeq(wire[Peer(p)], 1, n)]
          /\ wire' = [wire EXCEPT ![Peer(p)] =
                         SubSeq(@, n + 1, Len(@))]
    /\ UNCHANGED <<plan, pc, result, scram, trust, limits, hungup, cut>>

\* The item that came out of the decoder leaves the buffer.
Taken(p) == buf' = [buf EXCEPT ![p] = Tail(@)]

Ended(p) ==
    /\ buf[p] = <<>>
    /\ wire[Peer(p)] = <<>>
    /\ hungup[Peer(p)] \/ cut

\* The stream ends while open() or accept() waits for more.
OnEof(p) ==
    /\ pc[p] \notin {"start", "done"}
    /\ Ended(p)
    /\ Fail(p, "eof")
    /\ UNCHANGED <<plan, wire, scram, trust, limits, cut>>

(***************************************************************************)
(* From the stream to the first header                                     *)
(***************************************************************************)

\* The username and password of a url replace the profile of the builder.
Profile ==
    IF plan.client.url THEN "Plain" ELSE plan.client.profile

HasSasl(p) ==
    IF p = "client" THEN Profile # "None" ELSE plan.server.sasl # "None"

\* connect_with_stream() and accept(): SASL if there is a profile or an
\* acceptor, the AMQP header at once otherwise; either writes its header
\* before it reads the other one's.
FirstHeader(p) == Header(IF HasSasl(p) THEN "sasl" ELSE "amqp")

AwaitHeader(p) == GoTo(p, IF HasSasl(p) THEN "saslHeader" ELSE "amqpHeader")

\* Over TLS the client starts with the TLS header, or, in the alternative
\* way of establishment, with the handshake itself.
OpenOverTls ==
    /\ plan.client.scheme = "amqps" /\ plan.client.domain
    /\ \/ /\ ~plan.client.alt
          /\ Sent("client", <<Header("tls")>>)
          /\ GoTo("client", "tlsHeader")
       \/ /\ plan.client.alt
          /\ Sent("client", <<Hello>>)
          /\ GoTo("client", "tlsHello")

\* Builder::open_with_stream(): the scheme decides on TLS.
OpenWithStream ==
    /\ pc["client"] = "start"
    /\ LET c == plan.client
       IN  \/ OpenOverTls /\ UNCHANGED buf
           \/ /\ c.scheme = "amqp"
              /\ Profile # "External"
              /\ Sent("client", <<FirstHeader("client")>>)
              /\ AwaitHeader("client")
              /\ UNCHANGED buf
           \/ /\ \/ c.scheme = "amqp" /\ Profile = "External"
                 \/ c.scheme = "amqps" /\ ~c.domain
                 \/ c.scheme \notin {"amqp", "amqps"}
              /\ Fail("client", "config")
              /\ UNCHANGED wire
    /\ UNCHANGED <<plan, scram, trust, limits, cut>>

\* ConnectionAcceptor::accept(): with a TLS acceptor it awaits the TLS
\* header; the application may also have put the TLS layer under it itself.
Accept ==
    /\ pc["server"] = "start"
    /\ \/ /\ plan.server.tls = "none"
          /\ Sent("server", <<FirstHeader("server")>>)
          /\ AwaitHeader("server")
       \/ /\ plan.server.tls = "header"
          /\ GoTo("server", "tlsHeader")
          /\ UNCHANGED wire
       \/ /\ plan.server.tls = "own"
          /\ GoTo("server", "tlsHello")
          /\ UNCHANGED wire
    /\ UNCHANGED <<plan, buf, scram, trust, limits, cut>>

\* The TLS layer reads the stream itself, an item and no more: what `p`
\* wrote is appended, the item it read is taken off the peer's stream.
Exchanged(p, items) ==
    wire' = [wire EXCEPT ![p] = IF cut THEN @ ELSE @ \o items,
                         ![Peer(p)] = Tail(@)]

\* connect_tls_with_*(): the client has written its TLS header.
TlsHeaderClient ==
    /\ pc["client"] = "tlsHeader"
    /\ wire["server"] # <<>>
    /\ LET i == Head(wire["server"])
       IN    \/ /\ i = Header("tls")
                /\ Exchanged("client", <<Hello>>)
                /\ GoTo("client", "tlsHello")
                /\ UNCHANGED buf
             \/ /\ i # Header("tls")
                /\ Exchanged("client", <<>>)
                /\ Fail("client", HeaderError(i))
    /\ UNCHANGED <<plan, scram, trust, limits, cut>>

\* connect_tls!: the acceptor answers every header with its own and goes on
\* only if they agree.
TlsHeaderServer ==
    /\ pc["server"] = "tlsHeader"
    /\ wire["client"] # <<>>
    /\ LET i == Head(wire["client"])
       IN    \/ /\ i = Header("tls")
                /\ Exchanged("server", <<Header("tls")>>)
                /\ GoTo("server", "tlsHello")
                /\ UNCHANGED buf
             \/ /\ i # Header("tls")
                /\ Exchanged("server", IF i.k = "header" THEN <<Header("tls")>> ELSE <<>>)
                /\ Fail("server", HeaderError(i))
    /\ UNCHANGED <<plan, scram, trust, limits, cut>>

\* The TLS handshake of the library in use: one record each way, and the
\* client checks the certificate against the domain.
TlsHandshake(p) ==
    /\ pc[p] = "tlsHello"
    /\ wire[Peer(p)] # <<>>
    /\ LET i == Head(wire[Peer(p)])
       IN    \/ /\ i = Hello
                /\ p = "client" => plan.client.certificate
                /\ Exchanged(p, IF p = "client" THEN <<FirstHeader(p)>>
                                                ELSE <<Hello, FirstHeader(p)>>)
                /\ AwaitHeader(p)
                /\ UNCHANGED buf
             \/ /\ i = Hello /\ p = "client" /\ ~plan.client.certificate
                /\ Exchanged(p, <<>>)
                /\ Fail(p, "tls")
             \/ /\ i # Hello
                /\ Exchanged(p, <<>>)
                /\ Fail(p, "garbled")
    /\ UNCHANGED <<plan, scram, trust, limits, cut>>

(***************************************************************************)
(* The algebra of SCRAM: ScramVersion's functions over symbolic terms      *)
(***************************************************************************)

Salted(v, password, salt) == <<v, password, salt>>
Hmac(key, text) == <<"hmac", key, text>>
H(text) == <<"h", text>>
Xor(a, b) ==
    IF Len(a) = 3 /\ a[1] = "xor" /\ a[3] = b THEN a[2] ELSE <<"xor", a, b>>

ClientKey(salted) == Hmac(salted, "Client Key")
ServerKey(salted) == Hmac(salted, "Server Key")
AuthMessage(bare, first, nonce) == <<bare, first, nonce>>
ClientProof(salted, auth) ==
    Xor(ClientKey(salted), Hmac(H(ClientKey(salted)), auth))

Salt == "salt"
StoredPassword ==
    [stored_key |-> H(ClientKey(Salted(plan.server.sasl, plan.server.password, Salt))),
     server_key |-> ServerKey(Salted(plan.server.sasl, plan.server.verifier, Salt))]

(***************************************************************************)
(* SaslProfile::on_frame() and the client's negotiate_sasl()               *)
(***************************************************************************)

InitialResponse ==
    CASE Profile = "Plain"     -> <<plan.client.user, plan.client.password>>
      [] Profile \in Scrams    -> <<plan.client.user, "cnonce">>
      [] OTHER                 -> <<>>

OnMechanisms(offered) ==
    /\ Profile \in offered
    /\ Sent("client", <<Item("init", [mechanism |-> Profile,
                                      response  |-> InitialResponse])>>)
    /\ scram' = IF Profile \in Scrams
                THEN [scram EXCEPT !.client = [at |-> "ClientFirstSent"]]
                ELSE scram
    /\ UNCHANGED <<pc, result, hungup, trust>>

\* compute_client_final_message(): the server's nonce must extend the
\* client's; the signature to expect is kept for the outcome.
AcceptsFirst(first) ==
    scram.client.at = "ClientFirstSent" /\ first.nonce[1] = "cnonce"

OnServerFirst(first) ==
    LET salted == Salted(Profile, plan.client.password, first.salt)
        auth   == AuthMessage(<<plan.client.user, "cnonce">>, first, first.nonce)
    IN  /\ AcceptsFirst(first)
        /\ Sent("client", <<Item("response", [nonce |-> first.nonce,
                                              proof |-> ClientProof(salted, auth)])>>)
        /\ scram' = [scram EXCEPT !.client =
                        [at |-> "ClientFinalSent",
                         signature |-> Hmac(ServerKey(salted), auth)]]

OnChallenge(challenge) ==
    /\ \/ Profile \in Scrams /\ OnServerFirst(challenge)
       \/ /\ Profile = "External" /\ challenge = <<>>
          /\ Sent("client", <<Item("response", <<>>)>>)
          /\ UNCHANGED scram
    /\ UNCHANGED <<pc, result, hungup, trust>>

\* Mutant: any signature will do.
ServerSaysSo(outcome) == Profile \in Scrams => outcome.data # <<>>

\* A SCRAM client accepts an outcome of Ok only with the signature it
\* computed itself.
ServerIsGenuine(outcome) ==
    Profile \in Scrams =>
        /\ outcome.data # <<>>
        /\ scram.client.at = "ClientFinalSent"
        /\ outcome.data = scram.client.signature

OnOutcome(outcome) ==
    /\ outcome.code = "ok" /\ ServerIsGenuine(outcome)
    /\ scram' = [scram EXCEPT !.client = [at |-> "Complete"]]
    /\ trust' = [trust EXCEPT !.client = TRUE]
    /\ Sent("client", <<Header("amqp")>>)
    /\ GoTo("client", "amqpHeader")

\* The frames that end the negotiation with an error.
Refused(i) ==
    CASE i.k = "mechanisms" -> Profile \notin i.v
      [] i.k = "challenge"  -> IF Profile \in Scrams THEN ~AcceptsFirst(i.v)
                               ELSE ~(Profile = "External" /\ i.v = <<>>)
      [] i.k = "outcome"    -> ~(i.v.code = "ok" /\ ServerIsGenuine(i.v))
      [] OTHER              -> TRUE

\* Mutant: the AMQP header starts with a FramedRead of its own.
SaslClientAfresh ==
    /\ pc["client"] = "sasl"
    /\ buf["client"] # <<>>
    /\ LET i == Head(buf["client"])
       IN  \/ /\ \/ i.k = "mechanisms" /\ OnMechanisms(i.v)
                 \/ i.k = "challenge"  /\ OnChallenge(i.v)
                 \/ i.k = "outcome"    /\ OnOutcome(i.v)
              /\ buf' = [buf EXCEPT !.client =
                            IF i.k = "outcome" THEN <<>> ELSE Tail(@)]
           \/ /\ Refused(i)
              /\ Fail("client", "sasl")
              /\ UNCHANGED <<wire, scram, trust>>
    /\ UNCHANGED <<plan, limits, cut>>

\* The codec of the header goes on top of the same FramedRead: what its
\* buffer holds behind the outcome stays there.
SaslClient ==
    /\ pc["client"] = "sasl"
    /\ buf["client"] # <<>>
    /\ LET i == Head(buf["client"])
       IN  \/ /\ \/ i.k = "mechanisms" /\ OnMechanisms(i.v)
                 \/ i.k = "challenge"  /\ OnChallenge(i.v)
                 \/ i.k = "outcome"    /\ OnOutcome(i.v)
              /\ Taken("client")
           \/ /\ Refused(i)
              /\ Fail("client", IF i.k \in SaslKinds THEN "sasl" ELSE "garbled")
              /\ UNCHANGED <<wire, scram, trust>>
    /\ UNCHANGED <<plan, limits, cut>>

(***************************************************************************)
(* The SASL acceptors and the server's negotiate_sasl_with_framed()        *)
(***************************************************************************)

Outcome(code, data) == Item("outcome", [code |-> code, data |-> data])

\* The mechanisms an acceptor announces: its own one, and ANONYMOUS if an
\* acceptor of the application lists none.
SaslMechanisms ==
    IF plan.server.sasl = "Lax" THEN {"Anonymous"} ELSE {plan.server.sasl}

PlainOutcome(init) ==
    Outcome(IF init.response = <<plan.server.user, plan.server.password>>
            THEN "ok" ELSE "auth", <<>>)

\* compute_server_first_message(): the nonces of both and the salt.
ServerFirst(response) == [nonce |-> <<response[2], "snonce">>, salt |-> Salt]

\* ScramAuthenticator: a user it knows gets the server's first message.
ScramOnInit(init) ==
    IF /\ init.mechanism = plan.server.sasl
       /\ Len(init.response) = 2
       /\ init.response[1] = plan.server.user
    THEN Item("challenge", ServerFirst(init.response))
    ELSE Outcome("auth", <<>>)

\* An acceptor of the application may ask for a response before it decides.
CustomOnInit(init) ==
    IF plan.server.asks THEN Item("challenge", <<>>) ELSE Outcome("ok", <<>>)

OnInit(init) ==
    CASE plan.server.sasl = "Plain"            -> PlainOutcome(init)
      [] plan.server.sasl \in Scrams           -> ScramOnInit(init)
      [] plan.server.sasl \in {"External", "Lax"} -> CustomOnInit(init)
      [] plan.server.sasl = "Anonymous"        -> Outcome("ok", <<>>)

\* compute_server_final_message(): the proof, less the signature the server
\* computes, is the client's key, whose hash is stored.
ProofHolds(response, s) ==
    LET auth == AuthMessage(s.bare, s.first, response.nonce)
    IN  /\ response.nonce = s.first.nonce
        /\ H(Xor(response.proof, Hmac(StoredPassword.stored_key, auth)))
              = StoredPassword.stored_key

ScramOnResponse(response) ==
    LET s == scram.server
    IN  IF s.at = "ServerFirstSent" /\ ProofHolds(response, s)
        THEN Outcome("ok", Hmac(StoredPassword.server_key,
                                AuthMessage(s.bare, s.first, response.nonce)))
        ELSE Outcome("auth", <<>>)

OnResponse(response) ==
    CASE plan.server.sasl = "Plain"      -> Outcome("sys", <<>>)
      [] plan.server.sasl \in Scrams     -> ScramOnResponse(response)
      [] plan.server.sasl \in {"Anonymous", "Lax", "External"} -> Outcome("ok", <<>>)

\* The state of the authenticator after an init and after a response.
ScramAfter(i, answer) ==
    CASE i.k = "init" /\ answer.k = "challenge" /\ plan.server.sasl \in Scrams ->
             [at |-> "ServerFirstSent", bare |-> i.v.response, first |-> answer.v]
      [] i.k = "response" /\ plan.server.sasl \in Scrams /\ answer.v.code = "ok" ->
             [at |-> "ServerFinalSent"]
      [] OTHER -> scram.server

\* After an outcome of Ok the server goes straight to the AMQP header, which
\* follows the outcome in the stream.
SaslServer ==
    /\ pc["server"] = "sasl"
    /\ buf["server"] # <<>>
    /\ LET i == Head(buf["server"])
           answer == CASE i.k = "init"     -> OnInit(i.v)
                       [] i.k = "response" -> OnResponse(i.v)
                       [] OTHER            -> Outcome("sys", <<>>)
           passed == answer.k = "outcome" /\ answer.v.code = "ok"
       IN  \/ /\ answer.k = "challenge"
              /\ Sent("server", <<answer>>)
              /\ Taken("server")
              /\ scram' = [scram EXCEPT !.server = ScramAfter(i, answer)]
              /\ UNCHANGED <<pc, result, hungup, trust>>
           \/ /\ passed
              /\ Sent("server", <<answer, Header("amqp")>>)
              /\ Taken("server")
              /\ scram' = [scram EXCEPT !.server = ScramAfter(i, answer)]
              /\ trust' = [trust EXCEPT !.server = TRUE]
              /\ GoTo("server", "amqpHeader")
           \/ /\ answer.k = "outcome" /\ ~passed
              /\ Sent("server", IF i.k \in SaslKinds THEN <<answer>> ELSE <<>>)
              /\ Fail("server", IF i.k \in SaslKinds THEN "sasl" ELSE "garbled")
              /\ UNCHANGED <<scram, trust>>
    /\ UNCHANGED <<plan, limits, cut>>

\* negotiate_sasl_header(): the server's mechanisms follow its header.
SaslHeader(p) ==
    /\ pc[p] = "saslHeader"
    /\ buf[p] # <<>>
    /\ LET i == Head(buf[p])
       IN  \/ /\ i = Header("sasl")
              /\ Sent(p, IF p = "server" THEN <<Item("mechanisms", SaslMechanisms)>>
                                         ELSE <<>>)
              /\ Taken(p)
              /\ GoTo(p, "sasl")
           \/ /\ i # Header("sasl")
              /\ Fail(p, HeaderError(i))
              /\ UNCHANGED wire
    /\ UNCHANGED <<plan, scram, trust, limits, cut>>

(***************************************************************************)
(* The AMQP header and the exchange of Open                                *)
(***************************************************************************)

\* Mutant: the idle time-out is announced as it is.
LocalOpenUnhalved(p) ==
    [frame    |-> Max2(MinFrame, plan[p].frame),
     channels |-> plan[p].channels,
     idle     |-> plan[p].idle]

\* What a party announces: both builders raise the frame size to the least
\* one allowed, and the client announces half of its own idle time-out.
LocalOpen(p) ==
    [frame    |-> Max2(MinFrame, plan[p].frame),
     channels |-> plan[p].channels,
     idle     |-> IF p = "client" THEN plan[p].idle \div 2 ELSE plan[p].idle]

\* Until the exchange is over the frames are of the least size; the Sink
\* cuts a longer Open in two and frames each part.
OpenItems(p) ==
    IF plan[p].long THEN <<Item("torn", 1), Item("torn", 2)>>
                    ELSE <<Item("open", LocalOpen(p))>>

\* negotiate_amqp_header() and send_open().
AmqpHeader(p) ==
    /\ pc[p] = "amqpHeader"
    /\ buf[p] # <<>>
    /\ LET i == Head(buf[p])
       IN  \/ /\ i = Header("amqp")
              /\ Sent(p, OpenItems(p))
              /\ Taken(p)
              /\ GoTo(p, "open")
           \/ /\ i # Header("amqp")
              /\ Fail(p, HeaderError(i))
              /\ UNCHANGED wire
    /\ UNCHANGED <<plan, scram, trust, limits, cut>>

\* No size is less than the least one; the encoder counts without the length
\* field, the decoder with it.
EncoderSize(n) == Max2(MinFrame, n) - LenField
DecoderSize(n) == Max2(MinFrame, n)

\* Mutant: the encoder keeps to the size of its own side.
OnIncomingOpenOwn(p, remote) ==
    limits' = [limits EXCEPT ![p] =
                 [encoder   |-> EncoderSize(LocalOpen(p).frame),
                  decoder   |-> DecoderSize(LocalOpen(p).frame),
                  channels  |-> Min2(plan[p].channels, remote.channels),
                  heartbeat |-> remote.idle]]

\* on_incoming_open() and the settings of the transport after it.
OnIncomingOpen(p, remote) ==
    limits' = [limits EXCEPT ![p] =
                 [encoder   |-> EncoderSize(remote.frame),
                  decoder   |-> DecoderSize(LocalOpen(p).frame),
                  channels  |-> Min2(plan[p].channels, remote.channels),
                  heartbeat |-> remote.idle]]

\* open_inner(): anything but an Open sends Close and awaits the other one's.
OpenInner(p) ==
    /\ pc[p] = "open"
    /\ buf[p] # <<>>
    /\ LET i == Head(buf[p])
       IN  \/ /\ i.k = "open"
              /\ OnIncomingOpen(p, i.v)
              /\ pc' = [pc EXCEPT ![p] = "opened"]
              /\ result' = [result EXCEPT ![p] = "ok"]
              /\ UNCHANGED <<wire, hungup>>
           \/ /\ i.k # "open"
              /\ Sent(p, <<Item("close", 0)>>)
              /\ GoTo(p, "closing")
              /\ UNCHANGED limits
    /\ Taken(p)
    /\ UNCHANGED <<plan, scram, trust, cut>>

\* wait_for_remote_close() of a connection that was never open: a Close ends
\* it, and every other frame is an error of its own.
Closing(p) ==
    /\ pc[p] = "closing"
    /\ buf[p] # <<>>
    /\ Fail(p, "decode")
    /\ UNCHANGED <<plan, wire, scram, trust, limits, cut>>

\* The idle timer of the transport runs while the Open is awaited.  It is
\* found elapsed again by the read that awaits the Close.
OnIdleTimeout(p) ==
    /\ plan.fault = "slow"
    /\ pc[p] = "open"
    /\ plan[p].idle > 0
    /\ buf[p] = <<>>
    /\ Sent(p, <<Item("close", 0)>>)
    /\ Fail(p, "timeout")
    /\ UNCHANGED <<plan, scram, trust, limits, cut>>

(***************************************************************************)
(* The first frames of the open connection, and the faults                 *)
(***************************************************************************)

\* A frame as large as the encoder lets through.
SendFull(p) ==
    /\ pc[p] = "opened" /\ plan[p].sends
    /\ plan' = [plan EXCEPT ![p].sends = FALSE]
    /\ Sent(p, <<Item("full", limits[p].encoder + LenField)>>)
    /\ UNCHANGED <<pc, result, buf, scram, trust, limits, hungup, cut>>

\* The open connection reads: a Close is answered, and a frame longer than
\* the decoder allows, or of another layer, ends the connection.
OnIncoming(p) ==
    /\ pc[p] = "opened"
    /\ buf[p] # <<>>
    /\ LET i == Head(buf[p])
           fits == i.k = "full" /\ i.v <= limits[p].decoder
       IN  \/ /\ fits
              /\ Taken(p)
              /\ UNCHANGED <<pc, result, wire, hungup>>
           \/ /\ ~fits
              /\ pc' = [pc EXCEPT ![p] = "done"]
              /\ hungup' = [hungup EXCEPT ![p] = TRUE]
              /\ buf' = [buf EXCEPT ![p] = <<>>]
              /\ Sent(p, IF i.k = "close" THEN <<i>> ELSE <<>>)
              /\ result' = [result EXCEPT ![p] =
                               CASE i.k = "close" -> @
                                 [] i.k = "full"  -> "oversized"
                                 [] OTHER         -> "garbled"]
    /\ UNCHANGED <<plan, scram, trust, limits, cut>>

\* The network fails: what is under way is lost, and later writes with it.
Cut ==
    /\ plan.fault = "cut" /\ ~cut
    /\ cut' = TRUE
    /\ wire' = [p \in Party |-> <<>>]
    /\ UNCHANGED <<plan, pc, result, buf, scram, trust, limits, hungup>>

(***************************************************************************)
(* The specification                                                       *)
(***************************************************************************)

Init ==
    /\ plan \in Plans
    /\ pc = [p \in Party |-> "start"]
    /\ result = [p \in Party |-> "pending"]
    /\ wire = [p \in Party |-> <<>>]
    /\ buf = [p \in Party |-> <<>>]
    /\ scram = [p \in Party |-> [at |-> "Initial"]]
    /\ trust = [p \in Party |-> FALSE]
    /\ limits = [p \in Party |-> [encoder |-> EncoderSize(0), decoder |-> DecoderSize(0),
                                  channels |-> 0, heartbeat |-> 0]]
    /\ hungup = [p \in Party |-> FALSE]
    /\ cut = FALSE

Client == OpenWithStream \/ TlsHeaderClient \/ SaslClient
Server == Accept \/ TlsHeaderServer \/ SaslServer

\* What the tasks of the two parties do as long as they are polled.
Step ==
    \/ Client
    \/ Server
    \/ \E p \in Party :
          \/ Fill(p)
          \/ OnEof(p)
          \/ TlsHandshake(p)
          \/ SaslHeader(p)
          \/ AmqpHeader(p)
          \/ OpenInner(p)
          \/ Closing(p)
          \/ OnIncoming(p)

Next ==
    \/ Step
    \/ Cut
    \/ \E p \in Party : OnIdleTimeout(p) \/ SendFull(p)

Spec == Init /\ [][Next]_vars
FairSpec == Spec /\ WF_vars(Step)

(***************************************************************************)
(* Correctness                                                             *)
(***************************************************************************)

Opened(p) == result[p] = "ok"

\* The layers below AMQP fit: TLS on both sides, established alike, and the
\* client trusts the certificate.
TlsFits ==
    CASE plan.client.scheme = "amqp" -> plan.server.tls = "none"
      [] OTHER -> plan.server.tls = IF plan.client.alt THEN "own" ELSE "header"

\* The credentials of the client are those of the acceptor.
CredentialsFit ==
    /\ plan.client.user = plan.server.user
    /\ plan.client.password = plan.server.password

SaslFits ==
    \/ Profile = "None" /\ plan.server.sasl = "None"
    \/ Profile = "Anonymous" /\ plan.server.sasl \in {"Anonymous", "Lax"} /\ ~plan.server.asks
    \/ Profile = "External" /\ plan.server.sasl = "External"
    \/ Profile = "Plain" /\ plan.server.sasl = "Plain" /\ CredentialsFit
    \/ /\ Profile \in Scrams /\ Profile = plan.server.sasl /\ CredentialsFit
       /\ plan.server.verifier = plan.client.password

Compatible ==
    /\ plan.client.scheme = "amqp" => Profile # "External"
    /\ plan.client.scheme = "amqps" => plan.client.domain /\ plan.client.certificate
    /\ plan.client.scheme \in {"amqp", "amqps"}
    /\ TlsFits
    /\ SaslFits

\* Whoever leaves the SASL layer with an outcome of Ok is right to: an
\* acceptor that checks credentials has a client that holds them (the
\* password for PLAIN, the key of the proof for SCRAM), a client has an
\* acceptor that passed it, and a SCRAM client has one that holds the server
\* key of its password (SaslProfile::on_frame, ScramAuthenticator).
Authenticated ==
    /\ trust["server"] /\ plan.server.sasl \in Scrams \cup {"Plain"} =>
          Profile = plan.server.sasl /\ CredentialsFit
    /\ trust["client"] =>
          /\ trust["server"]
          /\ Profile \in Scrams => plan.server.verifier = plan.client.password

\* Nobody reads the bytes of one layer with the codec of another, and no
\* frame is longer than its reader allows, whatever the FramedRead had read
\* ahead when its codec was exchanged and whichever Open came first: only
\* parties that disagree about TLS misread each other (the NOTE on dropping
\* the codec in connect_with_stream(), the settings in open_inner()).
FramesUnderstood ==
    \A p \in Party :
        /\ result[p] = "garbled" => ~TlsFits
        /\ result[p] # "oversized"

\* Two ends that are both open use the same channels, each encodes frames
\* that the other one's decoder admits, and the acceptor's heartbeat comes
\* before the client's own idle time-out strikes (on_incoming_open() and
\* open_inner()).  An idle time-out of one millisecond is announced as none.
LimitsAgreed ==
    Opened("client") /\ Opened("server") =>
        /\ limits["client"].channels = limits["server"].channels
        /\ \A p \in Party :
              limits[p].encoder + LenField <= limits[Peer(p)].decoder
        /\ plan.client.idle > 1 =>
              limits["server"].heartbeat \in 1..(plan.client.idle - 1)

\* Every open() and every accept() returns, and without a fault of the
\* network both return a connection exactly if the two configurations fit;
\* an Open that is cut in two counts as a fault.
Concluded ==
    /\ \A p \in Party : result[p] # "pending"
    /\ plan.fault = "none" /\ ~plan.client.long /\ ~plan.server.long =>
          \A p \in Party : Opened(p) <=> Compatible

OpensTogether == <>[]Concluded

=============================================================================
