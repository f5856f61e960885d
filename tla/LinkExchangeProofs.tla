------------------------ MODULE LinkExchangeProofs ------------------------
(***************************************************************************)
(* The inductive invariant of LinkLifecycle, and the proof that the link   *)
(* endpoints and the allocation of handles keep it.                        *)
(***************************************************************************)
EXTENDS LinkLifecycle, FiniteSetTheorems, TLAPS

-----------------------------------------------------------------------------
(* What the invariant tells of a link.                                     *)

Attachment == Nat \X Nat
Frame == [type : {"Attach", "Detach"}, from : Attachment, name : Names \cup {""},
          handle : Handle, flag : BOOLEAN]
Entry == [who : Attachment, out : Handle \cup {NoHandle}, taken : BOOLEAN]
LinkRecord ==
  [pc : InUse \cup {"idle", "up", "suspended", "gone"}, goal : {"attach", "resume"},
   name : Names \cup {""}, state : LinkStates, handle : Handle \cup {NoHandle},
   inbox : Seq(Frame), peer : Attachment, life : Nat, resumes : Nat, asked : Nat]
Allocation == [end : Nat, input : Handle \cup {NoHandle}]

\* How far its Attach has come: "asking" awaits the peer's, "heard" has had it.
stage == [x \in Endpoint |->
            IF link[x].pc \in {"idle", "allocating", "allocated"} THEN link[x].pc
            ELSE IF link[x].pc = "attaching" /\ link[x].inbox = <<>> THEN "asking" ELSE "heard"]
\* Its attachment, its name, and the handle it could still detach.
me == [x \in Endpoint |-> <<x[2], link[x].life>>]
called == [x \in Endpoint |-> link[x].name]
held == [x \in Endpoint |-> IF link[x].pc \in {"allocated", "attaching", "up"} THEN link[x].handle ELSE NoHandle]
\* The links whose Detach has been sent, and those that have not had one.
parted == {x \in Endpoint : link[x].asked = link[x].life}
clean == {x \in Endpoint : /\ link[x].pc # "suspended"
                           /\ \A i \in 1 .. Len(link[x].inbox) : link[x].inbox[i].type # "Detach"
                           /\ link[x].pc = "up" => link[x].state = "Attached"}
\* The attachments of p that have sent an Attach, and those that have had one.
Upto(p, S) == {a \in Attachment : /\ a[1] \in End(p) /\ 1 <= a[2] /\ a[2] <= link[<<p, a[1]>>].life
                                  /\ a[2] = link[<<p, a[1]>>].life => stage[<<p, a[1]>>] \in S}
known == [p \in Peer |-> Upto(p, {"asking", "heard"})]
past == [p \in Peer |-> Upto(p, {"heard"})]
\* The attachment of the client that an attachment of the listener answers.
mate == [b \in Attachment |->
           IF b[1] \in End(Listener) /\ b[2] = 1 /\ link[<<Listener, b[1]>>].pc # "idle"
           THEN link[<<Listener, b[1]>>].peer ELSE Nobody]

-----------------------------------------------------------------------------
(* The invariant.                                                          *)

Typed ==
  /\ link \in [Endpoint -> LinkRecord]
  /\ slab \in [Peer -> [Handle -> Attachment]]
  /\ vacant \in [Peer -> Seq(Handle)]
  /\ by_name \in [Peer -> [Names -> Entry]]
  /\ by_in \in [Peer -> [Handle -> Entry]]
  /\ close_pending \in [Peer -> SUBSET Handle]
  /\ control \in [Peer -> Seq(Allocation)]
  /\ frames \in [Peer -> Seq(Frame)] /\ wire \in [Peer -> Seq(Frame)] /\ backlog \in Seq(Frame)
  /\ failure = [p \in Peer |-> "none"]

\* Without a mishap no link closes a second time and the listener resumes none.
Shape(x, l) ==
  /\ l.pc # "reclosing" /\ (l.pc = "idle" <=> l.life = 0) /\ (l.pc # "idle" => l.name \in Names)
  /\ l.pc \in {"idle", "allocating", "allocated"} => l.inbox = <<>>
  /\ l.pc \in {"allocated", "attaching"} \/ (l.pc = "up" /\ l.state = "Attached") => l.handle \in Handle
  /\ l.asked <= l.life /\ (l.pc \in {"allocating", "allocated"} \/ (l.pc = "attaching" /\ l.inbox = <<>>) => l.asked < l.life)
  /\ x[1] = Listener => l.goal = "attach" /\ l.pc # "attaching" /\ l.life <= 1
Shaped == \A x \in Endpoint : Shape(x, link[x])

\* Every allocation in the channel is awaited; the listener's knows the handle that the client attaches with.
Requests ==
  \A p \in Peer : \A i \in 1 .. Len(control[p]) :
    /\ control[p][i].end \in End(p) /\ stage[<<p, control[p][i].end>>] = "allocating"
    /\ p = Client => control[p][i].input = NoHandle
    /\ p = Listener => /\ control[p][i].input \in Handle
                       /\ control[p][i].input = by_name[Client][called[<<p, control[p][i].end>>]].out
    /\ \A j \in 1 .. Len(control[p]) : control[p][j].end = control[p][i].end => j = i

Vacant ==
  \A p \in Peer :
    /\ \A i \in 1 .. Len(vacant[p]) : slab[p][vacant[p][i]] = Nobody
    /\ \A h \in Handle : slab[p][h] = Nobody => \E i \in 1 .. Len(vacant[p]) : vacant[p][i] = h
    /\ \A i, j \in 1 .. Len(vacant[p]) : vacant[p][i] = vacant[p][j] => i = j

DetachOf(f, a, h) == f.type = "Detach" /\ f.from = a /\ f.handle = h

\* A slot is a link's that is attached, or is about to detach.
Slots ==
  /\ \A p \in Peer, h \in Handle : slab[p][h] # Nobody => \E e \in End(p) : slab[p][h] = me[<<p, e>>]
  /\ \A p \in Peer, h \in Handle : \A e \in End(p) : slab[p][h] = me[<<p, e>>] =>
       /\ stage[<<p, e>>] \notin {"idle", "allocating"} /\ <<p, e>> \in clean /\ <<p, e>> \notin parted
       /\ by_name[p][called[<<p, e>>]] # Absent
       /\ \A g \in Handle : \A d \in End(p) :
            slab[p][g] = me[<<p, d>>] /\ called[<<p, d>>] = called[<<p, e>>] => g = h
Holders ==
  \A p \in Peer, h \in Handle : \A e \in End(p) : slab[p][h] = me[<<p, e>>] =>
       \/ held[<<p, e>>] = h
       \/ \E i \in 1 .. Len(frames[p]) : DetachOf(frames[p][i], me[<<p, e>>], h)
Reached ==
  \A p \in Peer, h \in Handle : \A e \in End(p) :
       slab[p][h] = me[<<p, e>>] /\ (p = Client => stage[<<p, e>>] = "heard") =>
         \E g \in Handle : by_in[p][g].who = me[<<p, e>>] /\ by_in[p][g].out = h

\* A relay found by name belongs to a link of the client that awaits an Attach.
Named ==
  /\ \A n \in Names : by_name[Listener][n].who = Nobody
  /\ \A n \in Names : by_name[Client][n].who # Nobody =>
       \E c \in End(Client) :
         /\ by_name[Client][n].who = me[<<Client, c>>] /\ called[<<Client, c>>] = n
         /\ stage[<<Client, c>>] \in {"allocated", "asking"}
         /\ by_name[Client][n].out \in Handle /\ slab[Client][by_name[Client][n].out] = me[<<Client, c>>]
  /\ \A c \in End(Client) : stage[<<Client, c>>] = "allocated" =>
       /\ by_name[Client][called[<<Client, c>>]].who = me[<<Client, c>>]
       /\ by_name[Client][called[<<Client, c>>]].out = held[<<Client, c>>]
  /\ \A e \in End(Listener) : stage[<<Listener, e>>] = "allocated" =>
       slab[Listener][held[<<Listener, e>>]] = me[<<Listener, e>>]

\* A relay found by handle belongs to a link that is attached and has had no Detach yet.
Registered ==
  /\ \A p \in Peer, h \in Handle : by_in[p][h].who = Nobody => by_in[p][h] = Absent
  /\ \A p \in Peer, h \in Handle : by_in[p][h].who # Nobody =>
       /\ \E e \in End(p) :
            /\ by_in[p][h].who = me[<<p, e>>] /\ <<p, e>> \in clean
            /\ stage[<<p, e>>] \notin {"idle", "allocating"} /\ (p = Client => stage[<<p, e>>] = "heard")
            /\ <<p, e>> \in parted \/ slab[p][by_in[p][h].out] = me[<<p, e>>]
       /\ by_in[p][h].out \in Handle
       /\ \A g \in Handle : by_in[p][g].who = by_in[p][h].who => g = h

\* The answer to a Detach is awaited by the link that has sent it.
Pending ==
  \A p \in Peer : \A h \in close_pending[p] : \E g \in Handle : \E e \in End(p) :
    by_in[p][g].who = me[<<p, e>>] /\ by_in[p][g].out = h /\ <<p, e>> \in parted

-----------------------------------------------------------------------------
(* Attach frames.                                                          *)

\* The names by which a link of the client awaits an Attach.
awaited == {n \in Names : \E c \in End(Client) : /\ by_name[Client][n].who = me[<<Client, c>>]
                                                 /\ stage[<<Client, c>>] = "asking"}
All(s, S) == \A i \in 1 .. Len(s) : s[i] \in S
Once(s) == \A i, j \in 1 .. Len(s) : s[i].type = "Attach" /\ s[j].type = "Attach" /\ s[i].from = s[j].from => i = j
Apart(s, t) == \A i \in 1 .. Len(s), j \in 1 .. Len(t) :
    s[i].type = "Attach" /\ t[j].type = "Attach" => s[i].from # t[j].from
NotIn(s, a) == \A i \in 1 .. Len(s) : s[i].type = "Attach" => s[i].from # a

\* The frames that may come from the client: an Attach of a link that awaits its answer.
asks == {f \in Frame : f.type = "Attach" =>
           f.name \in awaited /\ by_name[Client][f.name].who = f.from /\ f.handle = by_name[Client][f.name].out}

\* An Attach of the client is in one place, and its link waits.
Asks ==
  /\ All(frames[Client], asks) /\ All(wire[Client], asks) /\ All(backlog, asks)
  /\ \A i \in 1 .. Len(backlog) : backlog[i].type = "Attach"
  /\ Once(frames[Client]) /\ Once(wire[Client]) /\ Once(backlog)
  /\ Apart(frames[Client], wire[Client]) /\ Apart(frames[Client], backlog) /\ Apart(wire[Client], backlog)

\* It is answered by one link of the listener.
Mates ==
  /\ \A b \in Attachment : mate[b] # Nobody =>
       /\ NotIn(frames[Client], mate[b]) /\ NotIn(wire[Client], mate[b]) /\ NotIn(backlog, mate[b])
       /\ mate[b] \in known[Client]
       /\ \A d \in Attachment : mate[d] = mate[b] => d = b
  /\ \A e \in End(Listener) :
       /\ stage[<<Listener, e>>] # "idle" => mate[me[<<Listener, e>>]] # Nobody
       /\ stage[<<Listener, e>>] \in {"allocating", "allocated"} =>
            /\ called[<<Listener, e>>] \in awaited
            /\ by_name[Client][called[<<Listener, e>>]].who = mate[me[<<Listener, e>>]]
       /\ stage[<<Listener, e>>] = "allocated" =>
            by_in[Listener][by_name[Client][called[<<Listener, e>>]].out].who = me[<<Listener, e>>]

\* The frames that may come from the listener: an Attach that answers such a link.
answers == {f \in Frame : f.type = "Attach" =>
    \E e \in End(Listener) :
      /\ f.from = me[<<Listener, e>>] /\ stage[<<Listener, e>>] = "heard" /\ f.name = called[<<Listener, e>>]
      /\ f.name \in awaited /\ by_name[Client][f.name].who = mate[f.from]
      /\ by_in[Listener][by_name[Client][f.name].out].who = f.from}
\* The answer finds the client waiting; what detaches its link comes behind it.
Replies ==
  /\ All(frames[Listener], answers) /\ All(wire[Listener], answers)
  /\ Once(frames[Listener]) /\ Once(wire[Listener]) /\ Apart(frames[Listener], wire[Listener])
  /\ \A i \in 1 .. Len(frames[Listener]) : frames[Listener][i].type = "Attach" =>
       /\ slab[Listener][frames[Listener][i].handle] = frames[Listener][i].from
       /\ \A j \in 1 .. Len(frames[Listener]) :
            frames[Listener][j].type = "Detach" /\ frames[Listener][j].from = frames[Listener][i].from => i < j
  /\ \A i \in 1 .. Len(wire[Listener]) : wire[Listener][i].type = "Attach" =>
       \/ slab[Listener][wire[Listener][i].handle] = wire[Listener][i].from
       \/ \E j \in 1 .. Len(wire[Listener]) : DetachOf(wire[Listener][j], wire[Listener][i].from, wire[Listener][i].handle)

-----------------------------------------------------------------------------
(* Detach frames.                                                          *)

Detaching ==
  \A p \in Peer :
    /\ \A i \in 1 .. Len(frames[p]) : frames[p][i].type = "Detach" => frames[p][i].from \in past[p]
    /\ \A i \in 1 .. Len(wire[p]) : wire[p][i].type = "Detach" =>
         wire[p][i].from \in past[p] /\ \A h \in Handle : slab[p][h] # wire[p][i].from

\* A handle the client has attached with leads to the listener's link until the Detach arrives.
ToListener ==
  /\ \A h \in Handle : \A c \in End(Client) :
       slab[Client][h] = me[<<Client, c>>] /\ stage[<<Client, c>>] = "heard" =>
         by_in[Listener][h].who # Nobody /\ mate[by_in[Listener][h].who] = me[<<Client, c>>]
  /\ \A j \in 1 .. Len(wire[Client]) : wire[Client][j].type = "Detach" =>
       /\ by_in[Listener][wire[Client][j].handle].who # Nobody
       /\ mate[by_in[Listener][wire[Client][j].handle].who] = wire[Client][j].from
       /\ \A i \in 1 .. j - 1 : wire[Client][i].handle # wire[Client][j].handle
       /\ \A i \in 1 .. Len(backlog) : backlog[i].handle # wire[Client][j].handle
       /\ \A i \in 1 .. Len(control[Listener]) : control[Listener][i].input # wire[Client][j].handle
  /\ \A g \in Handle : by_in[Listener][g].who # Nobody =>
       \/ slab[Client][g] = mate[by_in[Listener][g].who]
       \/ \E j \in 1 .. Len(wire[Client]) : DetachOf(wire[Client][j], mate[by_in[Listener][g].who], g)

\* Once the first j - 1 frames of w have arrived at the relays g, the handle h leads to the link a that b has attached with.
Open(w, j, b, h, g, a) ==
  \/ \E i \in 1 .. j - 1 : /\ w[i].type = "Attach" /\ w[i].from = b /\ w[i].handle = h
                           /\ \A k \in i + 1 .. j - 1 : w[k].handle # h
  \/ (\A k \in 1 .. j - 1 : w[k].handle # h) /\ g[h].who = a

\* The listener hands out a handle again while frames of the last link are on the wire.
ToClient ==
  /\ \A h \in Handle : \A e \in End(Listener) :
       slab[Listener][h] = me[<<Listener, e>>] /\ stage[<<Listener, e>>] # "allocated"
         /\ NotIn(frames[Listener], me[<<Listener, e>>]) =>
         Open(wire[Listener], Len(wire[Listener]) + 1, me[<<Listener, e>>], h, by_in[Client], mate[me[<<Listener, e>>]])
  /\ \A j \in 1 .. Len(wire[Listener]) : wire[Listener][j].type = "Detach" =>
       Open(wire[Listener], j, wire[Listener][j].from, wire[Listener][j].handle, by_in[Client], mate[wire[Listener][j].from])
  /\ \A g \in Handle : by_in[Client][g].who # Nobody =>
       \E b \in Attachment :
         /\ mate[b] = by_in[Client][g].who
         /\ \/ slab[Listener][g] = b
            \/ \E j \in 1 .. Len(wire[Listener]) : DetachOf(wire[Listener][j], b, g)

\* What is in the channel of a link comes from the link it is attached to.
Inboxes ==
  /\ \A c \in End(Client) :
       /\ \A i \in 1 .. Len(link[<<Client, c>>].inbox) :
            /\ mate[link[<<Client, c>>].inbox[i].from] = me[<<Client, c>>]
            /\ link[<<Client, c>>].inbox[i].type = "Attach" =>
                 called[<<Listener, link[<<Client, c>>].inbox[i].from[1]>>] = called[<<Client, c>>]
       /\ link[<<Client, c>>].pc \in {"up", "waiting", "refused"} => mate[link[<<Client, c>>].peer] = me[<<Client, c>>]
  /\ \A e \in End(Listener) : \A i \in 1 .. Len(link[<<Listener, e>>].inbox) :
       /\ link[<<Listener, e>>].inbox[i].type = "Detach"
       /\ link[<<Listener, e>>].inbox[i].from = mate[me[<<Listener, e>>]]

Parts ==
  /\ Typed /\ Shaped /\ Requests /\ Vacant /\ Slots /\ Holders /\ Reached /\ Named /\ Registered /\ Pending
  /\ Asks /\ Mates /\ Replies /\ Detaching /\ ToListener /\ ToClient /\ Inboxes
LinkInv == mishap = {} => Parts

-----------------------------------------------------------------------------
(* Peers, endpoints and attachments.                                       *)

\* The two peers.
LEMMA Peers == /\ Peer = {Client, Listener} /\ Client # Listener
               /\ Other(Client) = Listener /\ Other(Listener) = Client
BY DEF Peer, Client, Listener, Other

\* Endpoints are numbered from 1.
LEMMA Ordinals == \A p \in Peer : Ends[p] \in Nat /\ \A e \in End(p) : e \in Nat /\ e >= 1 /\ e <= Ends[p]
BY BoundsAssumption DEF End

\* An endpoint is a peer and a number.
LEMMA Endpoints ==
  /\ \A p \in Peer : \A e \in End(p) : <<p, e>> \in Endpoint
  /\ \A x \in Endpoint : x[1] \in Peer /\ x[2] \in End(x[1]) /\ x = <<x[1], x[2]>>
BY DEF Endpoint

\* The handles are 0 .. n, one more than either peer has endpoints.
LEMMA HandleRange == \E n \in Nat : Handle = 0 .. n /\ \A p \in Peer : Ends[p] \in Nat /\ Ends[p] <= n
<1> DEFINE S == {Ends[p] : p \in Peer}
<1>1. S = {Ends[Client], Ends[Listener]} /\ Ends[Client] \in Nat /\ Ends[Listener] \in Nat
  BY BoundsAssumption, Peers
<1>2. \E x \in S : \A y \in S : x >= y
  <2>1. CASE Ends[Client] >= Ends[Listener]
    BY <1>1, <2>1
  <2>2. CASE Ends[Listener] >= Ends[Client]
    BY <1>1, <2>2
  <2> QED
    BY <1>1, <2>1, <2>2
<1>3. Max(S) \in S /\ \A y \in S : Max(S) >= y
  BY <1>2 DEF Max
<1>4. Max(S) \in Nat /\ \A p \in Peer : Ends[p] \in Nat /\ Ends[p] <= Max(S)
  BY <1>1, <1>3, Peers
<1>5. Handle = 0 .. Max(S)
  BY DEF Handle
<1> HIDE DEF S
<1> QED
  BY <1>4, <1>5

\* NoHandle is not one of them.
LEMMA Handles == /\ Handle \subseteq Nat /\ NoHandle \notin Handle
                 /\ \A p \in Peer : \A e \in 0 .. Ends[p] : e \in Handle
BY HandleRange DEF NoHandle

\* What the abbreviations say.
LEMMA Abbreviated ==
  ASSUME Typed
  PROVE  /\ \A x \in Endpoint : /\ stage[x] \in {"idle", "allocating", "allocated", "asking", "heard"}
                                /\ me[x] = <<x[2], link[x].life>> /\ called[x] = link[x].name
                                /\ held[x] \in Handle \cup {NoHandle}
         /\ \A p \in Peer : \A e \in End(p) :
              /\ me[<<p, e>>] = <<e, link[<<p, e>>].life>> /\ me[<<p, e>>] \in Attachment /\ me[<<p, e>>] # Nobody
              /\ \A d \in End(p) : me[<<p, d>>] = me[<<p, e>>] => d = e
         /\ \A b \in Attachment : mate[b] \in Attachment
         /\ \A p \in Peer : past[p] \subseteq known[p] /\ known[p] \subseteq Attachment /\ Nobody \notin known[p]
<1> USE Endpoints, Ordinals
<1>1. \A x \in Endpoint : link[x] \in LinkRecord
  BY DEF Typed
<1>2. \A x \in Endpoint : /\ stage[x] \in {"idle", "allocating", "allocated", "asking", "heard"}
                          /\ me[x] = <<x[2], link[x].life>> /\ called[x] = link[x].name
                          /\ held[x] \in Handle \cup {NoHandle}
  BY <1>1 DEF stage, me, called, held, LinkRecord
<1>3. ASSUME NEW p \in Peer, NEW e \in End(p)
      PROVE  /\ me[<<p, e>>] = <<e, link[<<p, e>>].life>> /\ me[<<p, e>>] \in Attachment /\ me[<<p, e>>] # Nobody
             /\ \A d \in End(p) : me[<<p, d>>] = me[<<p, e>>] => d = e
  <2>1. \A d \in End(p) : <<p, d>>[2] = d /\ link[<<p, d>>].life \in Nat
    BY <1>1 DEF LinkRecord
  <2>2. \A d \in End(p) : me[<<p, d>>] = <<d, link[<<p, d>>].life>>
    BY <1>2, <2>1
  <2>3. \A d \in End(p) : d # 0 /\ d \in Nat /\ <<d, link[<<p, d>>].life>>[1] = d
    OBVIOUS
  <2>4. me[<<p, e>>] \in Attachment /\ me[<<p, e>>] # Nobody
    BY <2>1, <2>2, <2>3 DEF Attachment, Nobody
  <2>5. \A d \in End(p) : me[<<p, d>>] = me[<<p, e>>] => d = e
    BY <2>2, <2>3
  <2> QED
    BY <2>2, <2>4, <2>5
<1>4. \A b \in Attachment : mate[b] \in Attachment
  BY <1>1, Peers DEF mate, LinkRecord, Attachment, Nobody
<1>5. ASSUME NEW p \in Peer
      PROVE  past[p] \subseteq known[p] /\ known[p] \subseteq Attachment /\ Nobody \notin known[p]
  BY DEF past, known, Upto, Nobody
<1> QED
  BY <1>2, <1>3, <1>4, <1>5

\* What an attachment has sent and had, read off the stage of its link.
LEMMA Heard ==
  ASSUME Typed, Shaped
  PROVE  /\ \A p \in Peer : \A e \in End(p) :
              /\ me[<<p, e>>] \in past[p] <=> stage[<<p, e>>] = "heard"
              /\ me[<<p, e>>] \in known[p] <=> stage[<<p, e>>] \in {"asking", "heard"}
              /\ stage[<<p, e>>] \in {"allocating", "allocated", "asking"} => <<p, e>> \notin parted
         /\ \A e \in End(Listener) : stage[<<Listener, e>>] # "asking"
<1> USE Endpoints, Ordinals
<1>1. \A x \in Endpoint : link[x] \in LinkRecord
  BY DEF Typed
<1>2. ASSUME NEW p \in Peer, NEW e \in End(p)
      PROVE  /\ me[<<p, e>>] \in past[p] <=> stage[<<p, e>>] = "heard"
             /\ me[<<p, e>>] \in known[p] <=> stage[<<p, e>>] \in {"asking", "heard"}
             /\ stage[<<p, e>>] \in {"allocating", "allocated", "asking"} => <<p, e>> \notin parted
  <2>1. me[<<p, e>>] = <<e, link[<<p, e>>].life>> /\ me[<<p, e>>] \in Attachment
    BY Abbreviated
  <2>2. link[<<p, e>>].life \in Nat /\ (link[<<p, e>>].life = 0 <=> stage[<<p, e>>] = "idle")
    BY <1>1 DEF Shaped, Shape, stage, LinkRecord
  <2>3. stage[<<p, e>>] \in {"allocating", "allocated", "asking"} => <<p, e>> \notin parted
    <3> DEFINE x == <<p, e>>
    <3>1. stage[x] \in {"allocating", "allocated", "asking"} =>
            link[x].pc \in {"allocating", "allocated"} \/ (link[x].pc = "attaching" /\ link[x].inbox = <<>>)
      BY DEF stage
    <3>2. link[x].asked \in Nat /\ link[x].life \in Nat
      BY <1>1 DEF LinkRecord
    <3>3. link[x].pc \in {"allocating", "allocated"} \/ (link[x].pc = "attaching" /\ link[x].inbox = <<>>) => link[x].asked < link[x].life
      BY DEF Shaped, Shape
    <3> QED
      BY <3>1, <3>2, <3>3 DEF parted
  <2>4. <<p, e>>[1] = p /\ <<p, e>>[2] = e /\ <<e, link[<<p, e>>].life>>[1] = e
    OBVIOUS
  <2> QED
    BY <2>1, <2>2, <2>3, <2>4 DEF past, known, Upto
<1>3. \A e \in End(Listener) : stage[<<Listener, e>>] # "asking"
  BY Peers DEF Shaped, Shape, stage
<1> QED
  BY <1>2, <1>3

-----------------------------------------------------------------------------
(* Sequences of frames.                                                    *)

\* A frame added at the end.
LEMMA Grown ==
  ASSUME NEW S, NEW s \in Seq(S), NEW f \in S
  PROVE  /\ Append(s, f) \in Seq(S) /\ Len(s) \in Nat /\ Len(Append(s, f)) = Len(s) + 1
         /\ Append(s, f)[Len(s) + 1] = f /\ \A i \in 1 .. Len(s) : Append(s, f)[i] = s[i]
OBVIOUS

\* The first frame taken away.
LEMMA Shrunk ==
  ASSUME NEW S, NEW s \in Seq(S), s # <<>>
  PROVE  /\ Tail(s) \in Seq(S) /\ Len(s) \in Nat /\ Len(s) >= 1 /\ Len(Tail(s)) = Len(s) - 1
         /\ Head(s) = s[1] /\ s[1] \in S /\ \A i \in 1 .. Len(s) - 1 : Tail(s)[i] = s[i + 1]
OBVIOUS

\* A frame added to a queue: no Attach is in it twice.
LEMMA AttachAdded ==
  ASSUME NEW s \in Seq(Frame), NEW f \in Frame
  PROVE  /\ Once(s) /\ (f.type = "Attach" => NotIn(s, f.from)) => Once(Append(s, f))
         /\ \A a : NotIn(s, a) /\ (f.type = "Attach" => f.from # a) => NotIn(Append(s, f), a)
         /\ \A t \in Seq(Frame) : (f.type = "Attach" => NotIn(t, f.from)) =>
              /\ Apart(s, t) => Apart(Append(s, f), t)
              /\ Apart(t, s) => Apart(t, Append(s, f))
         /\ \A S : All(s, S) /\ f \in S => All(Append(s, f), S)
<1>1. /\ Append(s, f) \in Seq(Frame) /\ Len(s) \in Nat /\ Len(Append(s, f)) = Len(s) + 1
      /\ Append(s, f)[Len(s) + 1] = f /\ \A i \in 1 .. Len(s) : Append(s, f)[i] = s[i]
  BY Grown
<1> DEFINE t1 == Append(s, f)
<1>2. \A i \in 1 .. Len(t1) : (i \in 1 .. Len(s) /\ t1[i] = s[i]) \/ (i = Len(s) + 1 /\ t1[i] = f)
  BY <1>1
<1> HIDE DEF t1
<1>3. Once(s) /\ (f.type = "Attach" => NotIn(s, f.from)) => Once(t1)
  BY <1>2 DEF Once, NotIn
<1>4. \A a : NotIn(s, a) /\ (f.type = "Attach" => f.from # a) => NotIn(t1, a)
  BY <1>2 DEF NotIn
<1>5. ASSUME NEW t \in Seq(Frame), f.type = "Attach" => NotIn(t, f.from)
      PROVE  (Apart(s, t) => Apart(t1, t)) /\ (Apart(t, s) => Apart(t, t1))
  BY <1>2, <1>5 DEF Apart, NotIn
<1>6. \A S : All(s, S) /\ f \in S => All(t1, S)
  BY <1>2 DEF All
<1> QED
  BY <1>3, <1>4, <1>5, <1>6 DEF t1

\* A frame taken from a queue.
LEMMA AttachTaken ==
  ASSUME NEW s \in Seq(Frame), s # <<>>
  PROVE  /\ Once(s) => Once(Tail(s)) /\ (s[1].type = "Attach" => NotIn(Tail(s), s[1].from))
         /\ \A a : NotIn(s, a) => NotIn(Tail(s), a) /\ (s[1].type = "Attach" => s[1].from # a)
         /\ \A t \in Seq(Frame) :
              /\ Apart(s, t) => Apart(Tail(s), t) /\ (s[1].type = "Attach" => NotIn(t, s[1].from))
              /\ Apart(t, s) => Apart(t, Tail(s)) /\ (s[1].type = "Attach" => NotIn(t, s[1].from))
         /\ \A S : All(s, S) => All(Tail(s), S) /\ s[1] \in S
<1>1. /\ Tail(s) \in Seq(Frame) /\ Len(s) \in Nat /\ Len(s) >= 1 /\ Len(Tail(s)) = Len(s) - 1
      /\ \A i \in 1 .. Len(s) - 1 : Tail(s)[i] = s[i + 1]
  BY Shrunk
<1> DEFINE t1 == Tail(s)
<1>2. \A i \in 1 .. Len(t1) : i \in Nat /\ i + 1 \in 1 .. Len(s) /\ t1[i] = s[i + 1] /\ i + 1 # 1
  BY <1>1
<1>3. 1 \in 1 .. Len(s)
  BY <1>1
<1> HIDE DEF t1
<1>4. Once(s) => Once(t1) /\ (s[1].type = "Attach" => NotIn(t1, s[1].from))
  <2>1. SUFFICES ASSUME Once(s)
                 PROVE  Once(t1) /\ (s[1].type = "Attach" => NotIn(t1, s[1].from))
    OBVIOUS
  <2>2. ASSUME NEW i \in 1 .. Len(t1), NEW j \in 1 .. Len(t1),
               t1[i].type = "Attach", t1[j].type = "Attach", t1[i].from = t1[j].from
        PROVE  i = j
    <3>1. i + 1 = j + 1
      BY <1>2, <2>1, <2>2 DEF Once
    <3> QED
      BY <3>1, <1>2
  <2>3. ASSUME NEW i \in 1 .. Len(t1), s[1].type = "Attach", t1[i].type = "Attach", t1[i].from = s[1].from
        PROVE  FALSE
    BY <1>2, <1>3, <2>1, <2>3 DEF Once
  <2> QED
    BY <2>2, <2>3 DEF Once, NotIn
<1>5. \A a : NotIn(s, a) => NotIn(t1, a) /\ (s[1].type = "Attach" => s[1].from # a)
  BY <1>2, <1>3 DEF NotIn
<1>6. ASSUME NEW t \in Seq(Frame)
      PROVE  /\ Apart(s, t) => Apart(t1, t) /\ (s[1].type = "Attach" => NotIn(t, s[1].from))
             /\ Apart(t, s) => Apart(t, t1) /\ (s[1].type = "Attach" => NotIn(t, s[1].from))
  BY <1>2, <1>3 DEF Apart, NotIn
<1>7. \A S : All(s, S) => All(t1, S) /\ s[1] \in S
  BY <1>2, <1>3 DEF All
<1> QED
  BY <1>4, <1>5, <1>6, <1>7 DEF t1

\* What a wire leads to, when a frame is added and when one arrives.
LEMMA OpenGrown ==
  ASSUME NEW w \in Seq(Frame), NEW f \in Frame, NEW b, NEW h, NEW g, NEW a
  PROVE  /\ \A j \in 1 .. Len(w) + 1 : Open(w, j, b, h, g, a) => Open(Append(w, f), j, b, h, g, a)
         /\ f.handle # h /\ Open(w, Len(w) + 1, b, h, g, a) => Open(Append(w, f), Len(w) + 2, b, h, g, a)
         /\ f.type = "Attach" /\ f.from = b /\ f.handle = h => Open(Append(w, f), Len(w) + 2, b, h, g, a)
<1> DEFINE v == Append(w, f)
<1>1. /\ Len(w) \in Nat /\ v[Len(w) + 1] = f /\ \A i \in 1 .. Len(w) : v[i] = w[i]
  BY Grown
<1> HIDE DEF v
<1>2. ASSUME NEW j \in 1 .. Len(w) + 1, Open(w, j, b, h, g, a)
      PROVE  Open(v, j, b, h, g, a)
  <2>1. \A i \in 1 .. j - 1 : v[i] = w[i]
    BY <1>1
  <2>2. \A i \in 1 .. j - 1 : \A k \in i + 1 .. j - 1 : v[k] = w[k]
    BY <1>1
  <2> QED
    BY <1>2, <2>1, <2>2 DEF Open
<1>3. ASSUME f.handle # h, Open(w, Len(w) + 1, b, h, g, a)
      PROVE  Open(v, Len(w) + 2, b, h, g, a)
  <2>1. \A i \in 1 .. Len(w) + 1 : (i \in 1 .. Len(w) /\ v[i] = w[i]) \/ (i = Len(w) + 1 /\ v[i] = f)
    BY <1>1
  <2>2. CASE (\A k \in 1 .. Len(w) : w[k].handle # h) /\ g[h].who = a
    BY <1>1, <1>3, <2>1, <2>2 DEF Open
  <2>3. CASE \E i \in 1 .. Len(w) : /\ w[i].type = "Attach" /\ w[i].from = b /\ w[i].handle = h
                                    /\ \A k \in i + 1 .. Len(w) : w[k].handle # h
    <3>1. PICK i \in 1 .. Len(w) : /\ w[i].type = "Attach" /\ w[i].from = b /\ w[i].handle = h
                                   /\ \A k \in i + 1 .. Len(w) : w[k].handle # h
      BY <2>3
    <3>2. \A k \in i + 1 .. Len(w) + 1 : v[k].handle # h
      <4>1. \A k \in i + 1 .. Len(w) + 1 : k \in 1 .. Len(w) + 1 /\ (k \in i + 1 .. Len(w) \/ k = Len(w) + 1)
        BY <1>1
      <4> QED
        BY <3>1, <4>1, <1>1, <1>3, <2>1
    <3>3. i \in 1 .. Len(w) + 1 /\ v[i] = w[i] /\ Len(w) + 2 - 1 = Len(w) + 1
      BY <1>1
    <3> QED
      BY <3>1, <3>2, <3>3 DEF Open
  <2>4. Len(w) + 1 - 1 = Len(w)
    BY <1>1
  <2> QED
    BY <1>3, <2>2, <2>3, <2>4 DEF Open
<1>4. ASSUME f.type = "Attach", f.from = b, f.handle = h
      PROVE  Open(v, Len(w) + 2, b, h, g, a)
  <2>1. Len(w) + 1 \in 1 .. Len(w) + 2 - 1 /\ \A k \in Len(w) + 1 + 1 .. Len(w) + 2 - 1 : FALSE
    BY <1>1
  <2> QED
    BY <2>1, <1>1, <1>4 DEF Open
<1> QED
  BY <1>2, <1>3, <1>4 DEF v

\* The first frame arrives: what was open behind it is open still.
LEMMA OpenShrunk ==
  ASSUME NEW w \in Seq(Frame), w # <<>>, NEW j \in 2 .. Len(w) + 1, NEW b, NEW h, NEW g, NEW g2, NEW a,
         Open(w, j, b, h, g, a),
         w[1].handle # h => g2[h].who = g[h].who,
         w[1].type = "Attach" /\ w[1].from = b /\ w[1].handle = h => g2[h].who = a
  PROVE  Open(Tail(w), j - 1, b, h, g2, a)
<1> DEFINE v == Tail(w)
<1>1. Len(w) \in Nat /\ Len(w) >= 1 /\ \A i \in 1 .. Len(w) - 1 : v[i] = w[i + 1]
  BY Shrunk
<1>2. j \in Nat /\ j >= 2 /\ \A i \in 1 .. j - 2 : v[i] = w[i + 1] /\ i + 1 \in 1 .. j - 1
  BY <1>1
<1>3. j - 1 - 1 = j - 2 /\ 1 \in 1 .. j - 1
  BY <1>2
<1> SUFFICES Open(v, j - 1, b, h, g2, a)
  OBVIOUS
<1> HIDE DEF v
<1>4. CASE (\A k \in 1 .. j - 1 : w[k].handle # h) /\ g[h].who = a
  BY <1>2, <1>3, <1>4 DEF Open
<1>5. CASE \E i \in 1 .. j - 1 : /\ w[i].type = "Attach" /\ w[i].from = b /\ w[i].handle = h
                                 /\ \A k \in i + 1 .. j - 1 : w[k].handle # h
  <2>1. PICK i \in 1 .. j - 1 : /\ w[i].type = "Attach" /\ w[i].from = b /\ w[i].handle = h
                                /\ \A k \in i + 1 .. j - 1 : w[k].handle # h
    BY <1>5
  <2>2. CASE i = 1
    <3>1. \A k \in 1 .. j - 2 : k + 1 \in i + 1 .. j - 1
      BY <1>2, <2>2
    <3> QED
      BY <2>1, <2>2, <3>1, <1>2, <1>3 DEF Open
  <2>3. CASE i # 1
    <3>1. i - 1 \in 1 .. j - 2 /\ i - 1 + 1 = i
      BY <1>2, <2>3
    <3>2. \A k \in i - 1 + 1 .. j - 2 : k + 1 \in i + 1 .. j - 1 /\ k \in 1 .. j - 2
      BY <1>2, <2>3
    <3>3. v[i - 1] = w[i] /\ \A k \in i - 1 + 1 .. j - 2 : v[k].handle # h
      BY <1>2, <2>1, <3>1, <3>2
    <3>4. /\ v[i - 1].type = "Attach" /\ v[i - 1].from = b /\ v[i - 1].handle = h
          /\ \A k \in i - 1 + 1 .. j - 1 - 1 : v[k].handle # h
      BY <2>1, <3>3, <1>3
    <3>5. i - 1 \in 1 .. j - 1 - 1
      BY <3>1, <1>3
    <3> QED
      BY <3>4, <3>5 DEF Open
  <2> QED
    BY <2>2, <2>3
<1> QED
  BY <1>4, <1>5 DEF Open

-----------------------------------------------------------------------------
(* What a step leaves alone.                                               *)

\* Attachments depend on lives and stages alone,
LEMMA SameLives ==
  ASSUME \A x \in Endpoint : link'[x].life = link[x].life, stage' = stage
  PROVE  me' = me /\ known' = known /\ past' = past
<1>1. me' = me
  BY DEF me
<1>2. ASSUME NEW p \in Peer, NEW S
      PROVE  Upto(p, S)' = Upto(p, S)
  BY Endpoints DEF Upto
<1> QED
  BY <1>1, <1>2 DEF known, past

\* mates on the peers the listener's links have,
LEMMA SameMates ==
  ASSUME \A e \in End(Listener) : /\ link'[<<Listener, e>>].peer = link[<<Listener, e>>].peer
                                  /\ link'[<<Listener, e>>].pc = "idle" <=> link[<<Listener, e>>].pc = "idle"
  PROVE  mate' = mate
BY DEF mate

\* and questions and answers on the links
LEMMA SameAwaited ==
  ASSUME stage' = stage, me' = me, by_name' = by_name
  PROVE  awaited' = awaited /\ asks' = asks
<1>1. awaited' = awaited
  BY DEF awaited
<1> QED
  BY <1>1 DEF asks

\* and the tables.
LEMMA SameAnswers ==
  ASSUME stage' = stage, me' = me, called' = called, mate' = mate, by_name' = by_name, by_in' = by_in
  PROVE  answers' = answers
BY SameAwaited DEF answers

\* A step that leaves the tables, the allocations and the stages alone.
LEMMA SameTables ==
  ASSUME Parts, UNCHANGED <<tables, control>>, stage' = stage, me' = me, called' = called, parted' = parted,
         clean \subseteq clean', \A x \in Endpoint : stage[x] = "allocated" => held'[x] = held[x]
  PROVE  Requests' /\ Vacant' /\ Slots' /\ Reached' /\ Named' /\ Registered' /\ Pending'
<1> USE Endpoints
<1>1. UNCHANGED <<slab, vacant, by_name, by_in, close_pending, control>>
  BY DEF tables
<1>2. Requests'
  BY <1>1 DEF Parts, Requests
<1>3. Vacant'
  BY <1>1 DEF Parts, Vacant
<1>4. Slots'
  BY <1>1 DEF Parts, Slots
<1>5. Reached'
  BY <1>1 DEF Parts, Reached
<1>6. Named'
  BY <1>1, Peers DEF Parts, Named
<1>7. Registered'
  <2>1. \A p \in Peer, h \in Handle : by_in'[p][h].who = Nobody => by_in'[p][h] = Absent
    BY <1>1 DEF Parts, Registered
  <2>2. ASSUME NEW p \in Peer, NEW h \in Handle, by_in[p][h].who # Nobody
        PROVE  /\ \E e \in End(p) :
                    /\ by_in[p][h].who = me[<<p, e>>] /\ <<p, e>> \in clean'
                    /\ stage[<<p, e>>] \notin {"idle", "allocating"} /\ (p = Client => stage[<<p, e>>] = "heard")
                    /\ <<p, e>> \in parted \/ slab[p][by_in[p][h].out] = me[<<p, e>>]
               /\ by_in[p][h].out \in Handle
               /\ \A g \in Handle : by_in[p][g].who = by_in[p][h].who => g = h
    BY <2>2 DEF Parts, Registered
  <2> QED
    BY <1>1, <2>1, <2>2 DEF Registered
<1>8. Pending'
  BY <1>1 DEF Parts, Pending
<1> QED
  BY <1>2, <1>3, <1>4, <1>5, <1>6, <1>7, <1>8

\* Nothing is attached by what is a Detach.
LEMMA DetachAdded ==
  ASSUME NEW s \in Seq(Frame), NEW f \in Frame, f.type = "Detach"
  PROVE  /\ Once(s) => Once(Append(s, f))
         /\ \A a : NotIn(Append(s, f), a) <=> NotIn(s, a)
         /\ \A t \in Seq(Frame) : (Apart(s, t) => Apart(Append(s, f), t)) /\ (Apart(t, s) => Apart(t, Append(s, f)))
         /\ \A S : All(s, S) /\ f \in S => All(Append(s, f), S)
<1>1. f.type # "Attach"
  OBVIOUS
<1>2. ASSUME NEW a, NotIn(Append(s, f), a)
      PROVE  NotIn(s, a)
  <2>1. \A i \in 1 .. Len(s) : i \in 1 .. Len(Append(s, f)) /\ Append(s, f)[i] = s[i]
    BY Grown
  <2> QED
    BY <1>2, <2>1 DEF NotIn
<1>3. /\ Once(s) => Once(Append(s, f))
      /\ \A a : NotIn(s, a) => NotIn(Append(s, f), a)
      /\ \A t \in Seq(Frame) : (Apart(s, t) => Apart(Append(s, f), t)) /\ (Apart(t, s) => Apart(t, Append(s, f)))
      /\ \A S : All(s, S) /\ f \in S => All(Append(s, f), S)
  BY <1>1, AttachAdded
<1> QED
  BY <1>2, <1>3

\* No answer becomes due, none is taken.
LEMMA SamePending ==
  ASSUME Pending, close_pending' = close_pending, by_in' = by_in, me' = me, parted' = parted
  PROVE  Pending'
BY DEF Pending

-----------------------------------------------------------------------------
(* A step changes one link.                                                *)

Becomes(x, m) == m \in LinkRecord /\ link' = [link EXCEPT ![x] = m]

\* What the abbreviations say once one link has changed,
LEMMA OneLink ==
  ASSUME Typed, NEW x \in Endpoint, NEW m, Becomes(x, m)
  PROVE  /\ link' \in [Endpoint -> LinkRecord] /\ link'[x] = m
         /\ \A y \in Endpoint : y # x =>
              /\ link'[y] = link[y] /\ stage'[y] = stage[y] /\ me'[y] = me[y] /\ called'[y] = called[y]
              /\ held'[y] = held[y] /\ (y \in clean' <=> y \in clean) /\ (y \in parted' <=> y \in parted)
         /\ stage'[x] = IF m.pc \in {"idle", "allocating", "allocated"} THEN m.pc
                        ELSE IF m.pc = "attaching" /\ m.inbox = <<>> THEN "asking" ELSE "heard"
         /\ me'[x] = <<x[2], m.life>> /\ called'[x] = m.name
         /\ held'[x] = IF m.pc \in {"allocated", "attaching", "up"} THEN m.handle ELSE NoHandle
         /\ x \in parted' <=> m.asked = m.life
         /\ x \in clean' <=> /\ m.pc # "suspended" /\ \A i \in 1 .. Len(m.inbox) : m.inbox[i].type # "Detach"
                             /\ m.pc = "up" => m.state = "Attached"
<1>1. link' \in [Endpoint -> LinkRecord] /\ link'[x] = m /\ \A y \in Endpoint : y # x => link'[y] = link[y]
  BY DEF Typed, Becomes
<1>2. ASSUME NEW y \in Endpoint, y # x
      PROVE  /\ stage'[y] = stage[y] /\ me'[y] = me[y] /\ called'[y] = called[y] /\ held'[y] = held[y]
             /\ (y \in clean' <=> y \in clean) /\ (y \in parted' <=> y \in parted)
  <2>1. link'[y] = link[y]
    BY <1>1, <1>2
  <2>2. stage'[y] = stage[y]
    BY <2>1 DEF stage
  <2>3. me'[y] = me[y] /\ called'[y] = called[y]
    BY <2>1 DEF me, called
  <2>4. held'[y] = held[y]
    BY <2>1 DEF held
  <2>5. (y \in clean' <=> y \in clean) /\ (y \in parted' <=> y \in parted)
    BY <2>1 DEF clean, parted
  <2> QED
    BY <2>2, <2>3, <2>4, <2>5
<1>3. /\ stage'[x] = IF m.pc \in {"idle", "allocating", "allocated"} THEN m.pc
                     ELSE IF m.pc = "attaching" /\ m.inbox = <<>> THEN "asking" ELSE "heard"
      /\ me'[x] = <<x[2], m.life>> /\ called'[x] = m.name
      /\ held'[x] = IF m.pc \in {"allocated", "attaching", "up"} THEN m.handle ELSE NoHandle
  BY <1>1 DEF stage, me, called, held
<1>4. /\ x \in parted' <=> m.asked = m.life
      /\ x \in clean' <=> /\ m.pc # "suspended" /\ \A i \in 1 .. Len(m.inbox) : m.inbox[i].type # "Detach"
                          /\ m.pc = "up" => m.state = "Attached"
  BY <1>1 DEF parted, clean
<1> QED
  BY <1>1, <1>2, <1>3, <1>4

\* Equal everywhere, hence equal.
LEMMA Extensions ==
  /\ (\A x \in Endpoint : stage'[x] = stage[x]) => stage' = stage
  /\ (\A x \in Endpoint : me'[x] = me[x]) => me' = me
  /\ (\A x \in Endpoint : called'[x] = called[x]) => called' = called
  /\ (\A x \in Endpoint : held'[x] = held[x]) => held' = held
  /\ (\A x \in Endpoint : x \in clean => x \in clean') => clean \subseteq clean'
  /\ (\A x \in Endpoint : x \in parted' <=> x \in parted) => parted' = parted
<1>1. (\A x \in Endpoint : stage'[x] = stage[x]) => stage' = stage
  BY DEF stage
<1>2. (\A x \in Endpoint : me'[x] = me[x]) => me' = me
  BY DEF me
<1>3. (\A x \in Endpoint : called'[x] = called[x]) => called' = called
  BY DEF called
<1>4. (\A x \in Endpoint : held'[x] = held[x]) => held' = held
  BY DEF held
<1>5. clean \subseteq Endpoint /\ parted \subseteq Endpoint /\ parted' \subseteq Endpoint
  BY DEF clean, parted
<1>6. (\A x \in Endpoint : x \in clean => x \in clean') => clean \subseteq clean'
  BY <1>5
<1>7. (\A x \in Endpoint : x \in parted' <=> x \in parted) => parted' = parted
  BY <1>5
<1> QED
  BY <1>1, <1>2, <1>3, <1>4, <1>6, <1>7

\* and the shapes.
LEMMA OneShape ==
  ASSUME Typed, Shaped, NEW x \in Endpoint, NEW m, Becomes(x, m), Shape(x, m)
  PROVE  Shaped'
<1>1. link'[x] = m /\ \A y \in Endpoint : y # x => link'[y] = link[y]
  BY OneLink
<1> QED
  BY <1>1 DEF Shaped

\* Another stage of the same attachment.
LEMMA OneStage ==
  ASSUME Typed, NEW p \in Peer, NEW e \in End(p), NEW m, Becomes(<<p, e>>, m),
         m.life = link[<<p, e>>].life
  PROVE  /\ me' = me
         /\ \A q \in Peer : \A a \in Attachment : q # p \/ a # me[<<p, e>>] =>
              (a \in past'[q] <=> a \in past[q]) /\ (a \in known'[q] <=> a \in known[q])
<1> USE Endpoints
<1>1. <<p, e>> \in Endpoint
  OBVIOUS
<1>2. /\ link'[<<p, e>>] = m /\ me'[<<p, e>>] = <<e, m.life>>
      /\ \A y \in Endpoint : y # <<p, e>> => link'[y] = link[y] /\ stage'[y] = stage[y] /\ me'[y] = me[y]
  <2> DEFINE x == <<p, e>>
  <2>1. x \in Endpoint /\ x[2] = e
    OBVIOUS
  <2> HIDE DEF x
  <2>2. Becomes(x, m)
    BY DEF x
  <2>3. /\ link'[x] = m /\ me'[x] = <<x[2], m.life>>
        /\ \A y \in Endpoint : y # x => link'[y] = link[y] /\ stage'[y] = stage[y] /\ me'[y] = me[y]
    BY <2>1, <2>2, OneLink
  <2> QED
    BY <2>1, <2>3 DEF x
<1>3. me' = me
  <2>1. me'[<<p, e>>] = me[<<p, e>>]
    BY <1>1, <1>2 DEF me
  <2> QED
    BY <1>2, <2>1, Extensions
<1>4. ASSUME NEW q \in Peer, NEW a \in Attachment, q # p \/ a # me[<<p, e>>], NEW S
      PROVE  a \in Upto(q, S)' <=> a \in Upto(q, S)
  <2>1. CASE a[1] \notin End(q)
    BY <2>1 DEF Upto
  <2>2. CASE a[1] \in End(q) /\ <<q, a[1]>> # <<p, e>>
    BY <2>2, <1>2 DEF Upto
  <2>3. CASE a[1] \in End(q) /\ <<q, a[1]>> = <<p, e>>
    <3>1. q = p /\ a[1] = e
      BY <2>3
    <3>2. me[<<p, e>>] = <<e, link[<<p, e>>].life>>
      BY <1>1 DEF me
    <3>3. a[2] # link[<<p, e>>].life
      BY <1>4, <3>1, <3>2 DEF Attachment
    <3> QED
      BY <3>1, <3>3, <1>2 DEF Upto
  <2> QED
    BY <2>1, <2>2, <2>3
<1>5. \A q \in Peer : \A a \in Attachment : q # p \/ a # me[<<p, e>>] =>
              (a \in past'[q] <=> a \in past[q]) /\ (a \in known'[q] <=> a \in known[q])
  BY <1>4 DEF past, known
<1> QED
  BY <1>3, <1>5

-----------------------------------------------------------------------------
(* Attach frames and the links that wait for an answer.                    *)

\* A name that is awaited is the name of a link in its slot.
LEMMA AwaitedLink ==
  ASSUME Parts, NEW n \in awaited
  PROVE  \E c \in End(Client) :
           /\ by_name[Client][n].who = me[<<Client, c>>] /\ stage[<<Client, c>>] = "asking" /\ called[<<Client, c>>] = n
           /\ by_name[Client][n].out \in Handle /\ slab[Client][by_name[Client][n].out] = me[<<Client, c>>]
           /\ n \in Names /\ me[<<Client, c>>] \notin past[Client]
<1>1. PICK c \in End(Client) : by_name[Client][n].who = me[<<Client, c>>] /\ stage[<<Client, c>>] = "asking"
  BY DEF awaited
<1>2. n \in Names /\ Client \in Peer
  BY Peers DEF awaited
<1>3. by_name[Client][n].who # Nobody
  BY <1>1, <1>2, Abbreviated DEF Parts
<1>4. PICK d \in End(Client) :
         /\ by_name[Client][n].who = me[<<Client, d>>] /\ called[<<Client, d>>] = n
         /\ by_name[Client][n].out \in Handle /\ slab[Client][by_name[Client][n].out] = me[<<Client, d>>]
  BY <1>2, <1>3 DEF Parts, Named
<1>5. d = c
  BY <1>1, <1>2, <1>4, Abbreviated DEF Parts
<1>6. me[<<Client, c>>] \notin past[Client]
  BY <1>1, <1>2, Heard DEF Parts
<1> QED
  BY <1>1, <1>2, <1>4, <1>5, <1>6

\* A client's Attach is of a link that asks, under the handle of its slot.
LEMMA AskingLink ==
  ASSUME Parts, NEW f \in asks, f.type = "Attach"
  PROVE  \E c \in End(Client) :
           /\ f.from = me[<<Client, c>>] /\ stage[<<Client, c>>] = "asking" /\ called[<<Client, c>>] = f.name
           /\ f.handle \in Handle /\ slab[Client][f.handle] = f.from /\ f.name \in awaited
           /\ by_name[Client][f.name].who = f.from /\ by_name[Client][f.name].out = f.handle
<1>1. f.name \in awaited /\ by_name[Client][f.name].who = f.from /\ f.handle = by_name[Client][f.name].out
  BY DEF asks
<1>2. PICK c \in End(Client) :
           /\ by_name[Client][f.name].who = me[<<Client, c>>] /\ stage[<<Client, c>>] = "asking" /\ called[<<Client, c>>] = f.name
           /\ by_name[Client][f.name].out \in Handle /\ slab[Client][by_name[Client][f.name].out] = me[<<Client, c>>]
  BY <1>1, AwaitedLink
<1> QED
  BY <1>1, <1>2

\* A link that does not ask has no Attach on the way.
LEMMA NotAsking ==
  ASSUME Parts, NEW c \in End(Client), stage[<<Client, c>>] # "asking", NEW s, All(s, asks)
  PROVE  NotIn(s, me[<<Client, c>>])
<1>1. SUFFICES ASSUME NEW i \in 1 .. Len(s), s[i].type = "Attach", s[i].from = me[<<Client, c>>]
               PROVE  FALSE
  BY DEF NotIn
<1>2. s[i] \in asks
  BY DEF All
<1>3. PICK d \in End(Client) : s[i].from = me[<<Client, d>>] /\ stage[<<Client, d>>] = "asking"
  BY <1>1, <1>2, AskingLink
<1>4. d = c
  BY <1>1, <1>3, Abbreviated, Peers DEF Parts
<1> QED
  BY <1>3, <1>4

\* Frames that may come stay frames that may come.
LEMMA AllMonotone ==
  ASSUME NEW s, NEW S, NEW T, S \subseteq T, All(s, S)
  PROVE  All(s, T)
BY DEF All

-----------------------------------------------------------------------------
(* Steps of a link that has had the Attach of its peer.                    *)

\* The link <<p, e>> becomes m: it stays attached, or detaches once.
Moves(p, e, m) ==
  /\ m \in LinkRecord /\ link' = [link EXCEPT ![<<p, e>>] = m]
  /\ stage[<<p, e>>] = "heard" /\ m.pc \in {"up", "waiting", "refused", "suspended", "gone"}
  /\ m.name = link[<<p, e>>].name /\ m.life = link[<<p, e>>].life /\ m.asked = link[<<p, e>>].asked
  /\ m.goal = link[<<p, e>>].goal /\ (p = Listener => m.peer = link[<<p, e>>].peer)
  /\ \A i \in 1 .. Len(m.inbox) : \E j \in 1 .. Len(link[<<p, e>>].inbox) : m.inbox[i] = link[<<p, e>>].inbox[j]
  /\ m.pc = "up" /\ m.state = "Attached" => m.handle \in Handle
  /\ p = Client /\ m.pc \in {"up", "waiting", "refused"} => mate[m.peer] = me[<<p, e>>]
  /\ <<p, e>> \in clean => m.pc # "suspended" /\ (m.pc = "up" => m.state = "Attached")
  /\ UNCHANGED <<tables, control, wire, backlog, failure, mishap>>
  /\ \/ /\ frames' = frames
        /\ <<p, e>> \in clean /\ held[<<p, e>>] \in Handle => m.pc = "up" /\ m.handle = held[<<p, e>>]
     \/ \E closed \in BOOLEAN :
          /\ link[<<p, e>>].handle \in Handle
          /\ frames' = [frames EXCEPT ![p] = Append(@, DetachFrame(me[<<p, e>>], link[<<p, e>>].handle, closed))]

\* The links afterwards.
LEMMA MoveLinks ==
  ASSUME Parts, NEW p \in Peer, NEW e \in End(p), NEW m, Moves(p, e, m)
  PROVE  /\ Typed' /\ Shaped' /\ stage' = stage /\ me' = me /\ called' = called /\ known' = known /\ past' = past
         /\ mate' = mate /\ parted' = parted /\ clean \subseteq clean'
         /\ \A y \in Endpoint : y # <<p, e>> => link'[y] = link[y] /\ held'[y] = held[y]
         /\ link'[<<p, e>>] = m /\ held'[<<p, e>>] = IF m.pc = "up" THEN m.handle ELSE NoHandle
<1> DEFINE x == <<p, e>>
<1> USE Endpoints
<1>1. x \in Endpoint /\ x[1] = p /\ x[2] = e
  OBVIOUS
<1>2. link \in [Endpoint -> LinkRecord] /\ m \in LinkRecord /\ link' = [link EXCEPT ![x] = m]
  BY DEF Parts, Typed, Moves
<1>3. link' \in [Endpoint -> LinkRecord] /\ link'[x] = m /\ \A y \in Endpoint : y # x => link'[y] = link[y]
  BY <1>1, <1>2
<1> HIDE DEF x
<1>4. /\ stage[x] = "heard" /\ m.pc \in {"up", "waiting", "refused", "suspended", "gone"}
      /\ m.name = link[x].name /\ m.life = link[x].life /\ m.asked = link[x].asked
      /\ m.goal = link[x].goal /\ (p = Listener => m.peer = link[x].peer)
  BY DEF Moves, x
<1>5. link[x].pc \notin {"idle", "allocating", "allocated"}
  BY <1>1, <1>4 DEF stage
<1>6. stage' = stage
  <2>1. stage'[x] = "heard"
    BY <1>1, <1>3, <1>4 DEF stage
  <2>2. \A y \in Endpoint : stage'[y] = stage[y]
    BY <1>3, <1>4, <2>1 DEF stage
  <2> QED
    BY <2>2 DEF stage
<1>7. me' = me /\ known' = known /\ past' = past
  <2>1. \A y \in Endpoint : link'[y].life = link[y].life
    BY <1>3, <1>4
  <2> QED
    BY <2>1, <1>6, SameLives
<1>8. called' = called /\ parted' = parted
  BY <1>3, <1>4 DEF called, parted
<1>9. mate' = mate
  <2>1. ASSUME NEW d \in End(Listener)
        PROVE  /\ link'[<<Listener, d>>].peer = link[<<Listener, d>>].peer
               /\ link'[<<Listener, d>>].pc = "idle" <=> link[<<Listener, d>>].pc = "idle"
    <3>1. CASE <<Listener, d>> = x
      <4>1. p = Listener
        BY <3>1 DEF x
      <4> QED
        BY <3>1, <4>1, <1>3, <1>4, <1>5
    <3>2. CASE <<Listener, d>> # x
      BY <3>2, <1>3, Peers
    <3> QED
      BY <3>1, <3>2
  <2> QED
    BY <2>1, SameMates
<1>10. clean \subseteq clean'
  <2>1. ASSUME x \in clean
        PROVE  x \in clean'
    <3>1. m.pc # "suspended" /\ (m.pc = "up" => m.state = "Attached")
      BY <2>1 DEF Moves, x
    <3>2. \A i \in 1 .. Len(m.inbox) : \E j \in 1 .. Len(link[x].inbox) : m.inbox[i] = link[x].inbox[j]
      BY DEF Moves, x
    <3>3. \A j \in 1 .. Len(link[x].inbox) : link[x].inbox[j].type # "Detach"
      BY <2>1 DEF clean
    <3>4. \A i \in 1 .. Len(m.inbox) : m.inbox[i].type # "Detach"
      BY <3>2, <3>3
    <3> QED
      BY <3>1, <3>4, <1>1, <1>3 DEF clean
  <2>2. ASSUME NEW y \in clean, y # x
        PROVE  y \in clean'
    BY <2>2, <1>3 DEF clean
  <2> QED
    BY <2>1, <2>2
<1>11. Typed'
  <2>1. UNCHANGED <<slab, vacant, by_name, by_in, close_pending, control, wire, backlog, failure>>
    BY DEF Moves, tables
  <2>2. frames' \in [Peer -> Seq(Frame)]
    <3>1. frames \in [Peer -> Seq(Frame)]
      BY DEF Parts, Typed
    <3>2. CASE frames' = frames
      BY <3>1, <3>2
    <3>3. CASE \E closed \in BOOLEAN :
                 /\ link[x].handle \in Handle
                 /\ frames' = [frames EXCEPT ![p] = Append(@, DetachFrame(me[x], link[x].handle, closed))]
      <4>1. PICK closed \in BOOLEAN :
                 /\ link[x].handle \in Handle
                 /\ frames' = [frames EXCEPT ![p] = Append(@, DetachFrame(me[x], link[x].handle, closed))]
        BY <3>3
      <4>2. me[x] \in Attachment
        BY Abbreviated DEF Parts, x
      <4>3. DetachFrame(me[x], link[x].handle, closed) \in Frame
        BY <4>1, <4>2 DEF DetachFrame, Frame
      <4> QED
        BY <3>1, <4>1, <4>3
    <3> QED
      BY <3>2, <3>3 DEF Moves, x
  <2> QED
    BY <1>3, <2>1, <2>2 DEF Parts, Typed
<1>12. Shaped'
  <2>1. Shape(x, link[x]) /\ (m.pc = "up" /\ m.state = "Attached" => m.handle \in Handle)
    BY <1>1 DEF Parts, Shaped, Moves
  <2>2. Shape(x, m)
    BY <1>1, <1>4, <1>5, <2>1 DEF Shape
  <2> QED
    BY <1>3, <2>2 DEF Parts, Shaped
<1>13. /\ \A y \in Endpoint : y # x => held'[y] = held[y]
       /\ held'[x] = IF m.pc = "up" THEN m.handle ELSE NoHandle
  BY <1>1, <1>3, <1>4 DEF held
<1> QED
  BY <1>3, <1>6, <1>7, <1>8, <1>9, <1>10, <1>11, <1>12, <1>13 DEF x

\* The Detach of a link that has been heard, if there is one, goes behind everything of the link.
LEMMA MoveFrames ==
  ASSUME Parts, NEW p \in Peer, NEW e \in End(p), NEW m, Moves(p, e, m)
  PROVE  Holders' /\ Asks' /\ Mates' /\ Replies' /\ Detaching' /\ ToListener' /\ ToClient'
<1> DEFINE x == <<p, e>>
           D(closed) == DetachFrame(me[x], link[x].handle, closed)
<1> USE Endpoints, Peers
<1>1. /\ Typed' /\ stage' = stage /\ me' = me /\ called' = called /\ known' = known /\ past' = past
      /\ mate' = mate /\ parted' = parted
      /\ \A y \in Endpoint : y # x => held'[y] = held[y]
      /\ held'[x] = IF m.pc = "up" THEN m.handle ELSE NoHandle
  BY MoveLinks
<1>2. UNCHANGED <<slab, vacant, by_name, by_in, close_pending, control, wire, backlog>>
  BY DEF Moves, tables
<1>3. awaited' = awaited /\ asks' = asks /\ answers' = answers
  BY <1>1, <1>2, SameAwaited, SameAnswers
<1>4. /\ frames \in [Peer -> Seq(Frame)] /\ wire \in [Peer -> Seq(Frame)] /\ backlog \in Seq(Frame)
      /\ x \in Endpoint /\ stage[x] = "heard" /\ me[x] \in Attachment /\ me[x] \in past[p]
  BY Abbreviated, Heard DEF Parts, Typed, Moves
<1>5. CASE /\ frames' = frames
           /\ x \in clean /\ held[x] \in Handle => m.pc = "up" /\ m.handle = held[x]
  <2>1. Holders'
    <3> SUFFICES ASSUME NEW q \in Peer, NEW h \in Handle, NEW d \in End(q), slab[q][h] = me[<<q, d>>]
                 PROVE  \/ held'[<<q, d>>] = h
                        \/ \E i \in 1 .. Len(frames[q]) : DetachOf(frames[q][i], me[<<q, d>>], h)
      BY <1>1, <1>2, <1>5 DEF Holders
    <3>1. <<q, d>> \in clean
      BY DEF Parts, Slots
    <3>2. \/ held[<<q, d>>] = h
          \/ \E i \in 1 .. Len(frames[q]) : DetachOf(frames[q][i], me[<<q, d>>], h)
      BY DEF Parts, Holders
    <3>3. held[<<q, d>>] = h => held'[<<q, d>>] = h
      BY <1>1, <1>5, <3>1
    <3> QED
      BY <3>2, <3>3
  <2>2. Asks' /\ Mates' /\ Replies' /\ Detaching' /\ ToListener' /\ ToClient'
    <3>1. Asks' /\ Mates'
      BY <1>1, <1>2, <1>3, <1>5 DEF Parts, Asks, Mates
    <3>2. Replies' /\ Detaching'
      BY <1>1, <1>2, <1>3, <1>5 DEF Parts, Replies, Detaching
    <3>3. ToListener' /\ ToClient'
      BY <1>1, <1>2, <1>5 DEF Parts, ToListener, ToClient
    <3> QED
      BY <3>1, <3>2, <3>3
  <2> QED
    BY <2>1, <2>2
<1>6. ASSUME NEW closed \in BOOLEAN, link[x].handle \in Handle, frames' = [frames EXCEPT ![p] = Append(@, D(closed))]
      PROVE  Holders' /\ Asks' /\ Mates' /\ Replies' /\ Detaching' /\ ToListener' /\ ToClient'
  <2> DEFINE f == D(closed)
  <2>1. /\ f \in Frame /\ f.type = "Detach" /\ f.from = me[x] /\ f.handle = link[x].handle
    BY <1>4, <1>6 DEF DetachFrame, Frame
  <2>2. frames'[p] = Append(frames[p], f) /\ \A q \in Peer : q # p => frames'[q] = frames[q]
    BY <1>4, <1>6
  <2> HIDE DEF f
  <2>3. /\ Len(frames[p]) \in Nat /\ Len(frames'[p]) = Len(frames[p]) + 1
        /\ frames'[p][Len(frames[p]) + 1] = f /\ \A i \in 1 .. Len(frames[p]) : frames'[p][i] = frames[p][i]
    BY <1>4, <2>1, <2>2, Grown
  <2>4. \A q \in Peer : \A i \in 1 .. Len(frames'[q]) :
          \/ i \in 1 .. Len(frames[q]) /\ frames'[q][i] = frames[q][i]
          \/ q = p /\ i = Len(frames[p]) + 1 /\ frames'[q][i] = f
    BY <2>2, <2>3
  <2>5. \A q \in Peer : \A i \in 1 .. Len(frames[q]) : i \in 1 .. Len(frames'[q]) /\ frames'[q][i] = frames[q][i]
    BY <2>2, <2>3
  <2>6. /\ Len(frames[p]) + 1 \in 1 .. Len(frames'[p])
        /\ \A q \in Peer : \A i, j \in 1 .. Len(frames'[q]) :
             frames'[q][i].type = "Attach" /\ ~(j \in 1 .. Len(frames[q])) => i < j
    BY <2>1, <2>3, <2>4
  <2>7. Holders'
    <3> SUFFICES ASSUME NEW q \in Peer, NEW h \in Handle, NEW d \in End(q), slab[q][h] = me[<<q, d>>]
                 PROVE  \/ held'[<<q, d>>] = h
                        \/ \E i \in 1 .. Len(frames'[q]) : DetachOf(frames'[q][i], me[<<q, d>>], h)
      BY <1>1, <1>2 DEF Holders
    <3>1. \/ held[<<q, d>>] = h
          \/ \E i \in 1 .. Len(frames[q]) : DetachOf(frames[q][i], me[<<q, d>>], h)
      BY DEF Parts, Holders
    <3>2. CASE \E i \in 1 .. Len(frames[q]) : DetachOf(frames[q][i], me[<<q, d>>], h)
      BY <3>2, <2>5
    <3>3. CASE held[<<q, d>>] = h /\ <<q, d>> # x
      BY <3>3, <1>1
    <3>4. CASE held[<<q, d>>] = h /\ <<q, d>> = x
      <4>1. q = p /\ d = e /\ link[x].handle = h
        BY <3>4, Handles DEF held
      <4>2. DetachOf(frames'[p][Len(frames[p]) + 1], me[x], h)
        BY <2>1, <2>3, <4>1 DEF DetachOf
      <4> QED
        BY <4>1, <4>2, <2>6
    <3> QED
      BY <3>1, <3>2, <3>3, <3>4
  <2>8. /\ \A a : \A q \in Peer : NotIn(frames'[q], a) <=> NotIn(frames[q], a)
        /\ \A q \in Peer : Once(frames[q]) => Once(frames'[q])
        /\ \A q \in Peer : \A t \in Seq(Frame) : Apart(frames[q], t) => Apart(frames'[q], t)
        /\ \A S : \A q \in Peer : All(frames[q], S) /\ f \in S => All(frames'[q], S)
    <3>1. ASSUME NEW q \in Peer
          PROVE  /\ \A a : NotIn(frames'[q], a) <=> NotIn(frames[q], a)
                 /\ Once(frames[q]) => Once(frames'[q])
                 /\ \A t \in Seq(Frame) : Apart(frames[q], t) => Apart(frames'[q], t)
                 /\ \A S : All(frames[q], S) /\ f \in S => All(frames'[q], S)
      <4>1. CASE q = p
        <5>1. frames[p] \in Seq(Frame) /\ frames'[q] = Append(frames[p], f)
          BY <1>4, <2>2, <4>1
        <5> QED
          BY <4>1, <5>1, <2>1, DetachAdded
      <4>2. CASE q # p
        BY <2>2, <4>2
      <4> QED
        BY <4>1, <4>2
    <3> QED
      BY <3>1
  <2>9. f \in asks /\ f \in answers
    BY <2>1 DEF asks, answers
  <2>10. Asks'
    BY <1>2, <1>3, <1>4, <2>8, <2>9 DEF Parts, Asks
  <2>11. Mates'
    BY <1>1, <1>2, <1>3, <2>8 DEF Parts, Mates
  <2>12. Replies'
    <3>1. ASSUME NEW i \in 1 .. Len(frames'[Listener]), frames'[Listener][i].type = "Attach"
          PROVE  /\ slab[Listener][frames'[Listener][i].handle] = frames'[Listener][i].from
                 /\ \A j \in 1 .. Len(frames'[Listener]) :
                      frames'[Listener][j].type = "Detach" /\ frames'[Listener][j].from = frames'[Listener][i].from => i < j
      <4>1. i \in 1 .. Len(frames[Listener]) /\ frames'[Listener][i] = frames[Listener][i]
        BY <2>1, <2>4, <3>1
      <4>2. /\ slab[Listener][frames[Listener][i].handle] = frames[Listener][i].from
            /\ \A j \in 1 .. Len(frames[Listener]) :
                 frames[Listener][j].type = "Detach" /\ frames[Listener][j].from = frames[Listener][i].from => i < j
        BY <3>1, <4>1 DEF Parts, Replies
      <4>3. ASSUME NEW j \in 1 .. Len(frames'[Listener]),
                   frames'[Listener][j].type = "Detach", frames'[Listener][j].from = frames'[Listener][i].from
            PROVE  i < j
        BY <4>1, <4>2, <4>3, <2>4, <2>6, <3>1
      <4> QED
        BY <4>1, <4>2, <4>3
    <3> QED
      BY <1>2, <1>3, <1>4, <2>8, <2>9, <3>1 DEF Parts, Replies
  <2>13. Detaching'
    <3>1. ASSUME NEW q \in Peer, NEW i \in 1 .. Len(frames'[q]), frames'[q][i].type = "Detach"
          PROVE  frames'[q][i].from \in past[q]
      BY <1>4, <2>1, <2>4, <3>1 DEF Parts, Detaching
    <3> QED
      BY <1>1, <1>2, <3>1 DEF Parts, Detaching
  <2>14. ToListener'
    BY <1>1, <1>2 DEF Parts, ToListener
  <2>15. ToClient'
    BY <1>1, <1>2, <2>8 DEF Parts, ToClient
  <2> QED
    BY <2>7, <2>10, <2>11, <2>12, <2>13, <2>14, <2>15
<1> QED
  BY <1>5, <1>6 DEF Moves

\* The channels afterwards.
LEMMA MoveInboxes ==
  ASSUME Parts, NEW p \in Peer, NEW e \in End(p), NEW m, Moves(p, e, m)
  PROVE  Inboxes'
<1> DEFINE x == <<p, e>>
<1> USE Endpoints, Peers
<1>1. /\ me' = me /\ called' = called /\ mate' = mate
      /\ link'[x] = m /\ \A y \in Endpoint : y # x => link'[y] = link[y]
  BY MoveLinks
<1>2. /\ \A i \in 1 .. Len(m.inbox) : \E j \in 1 .. Len(link[x].inbox) : m.inbox[i] = link[x].inbox[j]
      /\ p = Client /\ m.pc \in {"up", "waiting", "refused"} => mate[m.peer] = me[x]
  BY DEF Moves
<1> DEFINE Fr(c, f) == /\ mate[f.from] = me[<<Client, c>>]
                       /\ f.type = "Attach" => called[<<Listener, f.from[1]>>] = called[<<Client, c>>]
<1>3. /\ \A c \in End(Client) : \A i \in 1 .. Len(link[<<Client, c>>].inbox) : Fr(c, link[<<Client, c>>].inbox[i])
      /\ \A c \in End(Client) : link[<<Client, c>>].pc \in {"up", "waiting", "refused"} =>
           mate[link[<<Client, c>>].peer] = me[<<Client, c>>]
      /\ \A d \in End(Listener) : \A i \in 1 .. Len(link[<<Listener, d>>].inbox) :
           /\ link[<<Listener, d>>].inbox[i].type = "Detach"
           /\ link[<<Listener, d>>].inbox[i].from = mate[me[<<Listener, d>>]]
  BY DEF Parts, Inboxes
<1>4. ASSUME NEW c \in End(Client)
      PROVE  /\ \A i \in 1 .. Len(link'[<<Client, c>>].inbox) : Fr(c, link'[<<Client, c>>].inbox[i])
             /\ link'[<<Client, c>>].pc \in {"up", "waiting", "refused"} =>
                  mate[link'[<<Client, c>>].peer] = me[<<Client, c>>]
  <2>1. CASE <<Client, c>> # x
    BY <2>1, <1>1, <1>3
  <2>2. CASE <<Client, c>> = x
    <3>1. p = Client /\ e = c
      BY <2>2
    <3> HIDE DEF Fr
    <3> QED
      BY <2>2, <3>1, <1>1, <1>2, <1>3
  <2> QED
    BY <2>1, <2>2
<1>5. ASSUME NEW d \in End(Listener), NEW i \in 1 .. Len(link'[<<Listener, d>>].inbox)
      PROVE  /\ link'[<<Listener, d>>].inbox[i].type = "Detach"
             /\ link'[<<Listener, d>>].inbox[i].from = mate[me[<<Listener, d>>]]
  BY <1>1, <1>2, <1>3
<1> QED
  BY <1>1, <1>4, <1>5 DEF Inboxes

\* All parts are kept.
LEMMA MoveStep ==
  ASSUME Parts, NEW p \in Peer, NEW e \in End(p), NEW m, Moves(p, e, m)
  PROVE  Parts'
<1>1. /\ Typed' /\ Shaped' /\ stage' = stage /\ me' = me /\ called' = called /\ parted' = parted /\ clean \subseteq clean'
      /\ \A y \in Endpoint : y # <<p, e>> => held'[y] = held[y]
  BY MoveLinks
<1>2. Requests' /\ Vacant' /\ Slots' /\ Reached' /\ Named' /\ Registered' /\ Pending'
  <2>1. stage[<<p, e>>] # "allocated"
    BY DEF Moves
  <2>2. UNCHANGED <<tables, control>>
    BY DEF Moves
  <2> QED
    BY <1>1, <2>1, <2>2, SameTables
<1> QED
  BY <1>1, <1>2, MoveFrames, MoveInboxes DEF Parts

\* The fields of a link.
LEMMA LinkFields ==
  ASSUME Typed, NEW p \in Peer, NEW e \in End(p)
  PROVE  /\ link[<<p, e>>] \in LinkRecord /\ Me(p, e) = me[<<p, e>>]
         /\ link[<<p, e>>].inbox \in Seq(Frame) /\ link[<<p, e>>].peer \in Attachment
         /\ link[<<p, e>>].handle \in Handle \cup {NoHandle}
<1>1. link[<<p, e>>] \in LinkRecord
  BY Endpoints DEF Typed
<1> QED
  BY <1>1, Abbreviated DEF Me, LinkRecord

\* An Attach in the channel of a link that awaits one.
LEMMA OnIncomingAttachStep ==
  ASSUME Parts, NEW p \in Peer, NEW e \in End(p), OnIncomingAttach(p, e)
  PROVE  Parts'
<1> DEFINE x == <<p, e>>
           l == link[x]
           f == Head(l.inbox)
           on == [l EXCEPT !.inbox = Tail(@), !.peer = f.from]
<1>1. /\ l \in LinkRecord /\ Me(p, e) = me[x] /\ l.inbox \in Seq(Frame) /\ x \in Endpoint
  BY LinkFields, Endpoints DEF Parts
<1>2. l.pc = "attaching" /\ l.inbox # <<>> /\ UNCHANGED <<tables, control, wire, backlog, failure, mishap>>
  BY DEF OnIncomingAttach
<1>3. p = Client /\ l.goal \in {"attach", "resume"} /\ l.handle \in Handle
  BY <1>1, <1>2, Peers DEF Parts, Shaped, Shape, LinkRecord
<1>4. stage[x] = "heard" /\ held[x] = l.handle
  BY <1>1, <1>2 DEF stage, held
<1>5. /\ Tail(l.inbox) \in Seq(Frame) /\ f \in Frame /\ f.from \in Attachment /\ f = l.inbox[1] /\ 1 \in 1 .. Len(l.inbox)
      /\ \A i \in 1 .. Len(Tail(l.inbox)) : \E j \in 1 .. Len(l.inbox) : Tail(l.inbox)[i] = l.inbox[j]
  <2>1. /\ Tail(l.inbox) \in Seq(Frame) /\ Len(l.inbox) \in Nat /\ Len(l.inbox) >= 1 /\ Len(Tail(l.inbox)) = Len(l.inbox) - 1
        /\ f = l.inbox[1] /\ f \in Frame /\ \A i \in 1 .. Len(l.inbox) - 1 : Tail(l.inbox)[i] = l.inbox[i + 1]
    BY <1>1, <1>2, Shrunk
  <2>2. \A i \in 1 .. Len(l.inbox) - 1 : i + 1 \in 1 .. Len(l.inbox)
    BY <2>1
  <2>3. f.from \in Attachment
    BY <2>1 DEF Frame
  <2>4. 1 \in 1 .. Len(l.inbox)
    BY <2>1
  <2>5. \A i \in 1 .. Len(Tail(l.inbox)) : i + 1 \in 1 .. Len(l.inbox) /\ Tail(l.inbox)[i] = l.inbox[i + 1]
    BY <2>1, <2>2
  <2> QED
    BY <2>1, <2>3, <2>4, <2>5
<1>6. mate[f.from] = me[x]
  BY <1>3, <1>5 DEF Parts, Inboxes
<1>7. /\ on \in LinkRecord /\ on.inbox = Tail(l.inbox) /\ on.peer = f.from /\ on.name = l.name /\ on.life = l.life
      /\ on.asked = l.asked /\ on.goal = l.goal /\ on.handle = l.handle
  BY <1>1, <1>5 DEF LinkRecord
<1> HIDE DEF on, l, f
<1>8. CASE ~Wanting(f) /\ l.goal \in {"attach", "resume"} /\ frames' = frames
             /\ link' = [link EXCEPT ![x] = [on EXCEPT !.state = "Attached", !.pc = "up"]]
  <2> DEFINE m == [on EXCEPT !.state = "Attached", !.pc = "up"]
  <2>1. /\ m \in LinkRecord /\ m.pc = "up" /\ m.state = "Attached" /\ m.inbox = on.inbox /\ m.peer = on.peer
        /\ m.name = on.name /\ m.life = on.life /\ m.asked = on.asked /\ m.goal = on.goal /\ m.handle = on.handle
    BY <1>7 DEF LinkRecord, LinkStates
  <2> HIDE DEF m
  <2>2. link' = [link EXCEPT ![x] = m]
    BY <1>8 DEF m
  <2>3. Moves(p, e, m)
    <3>1. \A i \in 1 .. Len(m.inbox) : \E j \in 1 .. Len(link[x].inbox) : m.inbox[i] = link[x].inbox[j]
      BY <1>5, <1>7, <2>1 DEF l
    <3>2. mate[m.peer] = me[x]
      BY <1>6, <1>7, <2>1
    <3>3. /\ m.name = link[x].name /\ m.life = link[x].life /\ m.asked = link[x].asked /\ m.goal = link[x].goal
          /\ stage[x] = "heard" /\ link[x].handle \in Handle /\ held[x] = link[x].handle
      BY <1>3, <1>4, <1>7, <2>1 DEF l
    <3>4. p # Listener
      BY <1>3, Peers
    <3> QED
      BY <1>2, <1>3, <1>7, <1>8, <2>1, <2>2, <3>1, <3>2, <3>3, <3>4 DEF Moves, l
  <2> QED
    BY <2>3, MoveStep
<1>9. CASE Wanting(f) /\ link' = [link EXCEPT ![x] = Refused(on)] /\ Submit(p, DetachFrame(Me(p, e), l.handle, TRUE))
  <2> DEFINE m == Refused(on)
  <2>1. /\ m \in LinkRecord /\ m.pc = "refused" /\ m.inbox = on.inbox /\ m.peer = on.peer
        /\ m.name = on.name /\ m.life = on.life /\ m.asked = on.asked /\ m.goal = on.goal
    BY <1>7 DEF LinkRecord, LinkStates, Refused, Closing, InUse
  <2> HIDE DEF m
  <2>2. link' = [link EXCEPT ![x] = m] /\ frames' = [frames EXCEPT ![p] = Append(@, DetachFrame(me[x], l.handle, TRUE))]
    BY <1>1, <1>9 DEF m, Submit
  <2>3. Moves(p, e, m)
    <3>1. \A i \in 1 .. Len(m.inbox) : \E j \in 1 .. Len(link[x].inbox) : m.inbox[i] = link[x].inbox[j]
      BY <1>5, <1>7, <2>1 DEF l
    <3>2. mate[m.peer] = me[x]
      BY <1>6, <1>7, <2>1
    <3>3. /\ m.name = link[x].name /\ m.life = link[x].life /\ m.asked = link[x].asked /\ m.goal = link[x].goal
          /\ stage[x] = "heard" /\ link[x].handle \in Handle /\ held[x] = link[x].handle
      BY <1>3, <1>4, <1>7, <2>1 DEF l
    <3>4. p # Listener
      BY <1>3, Peers
    <3> QED
      BY <1>2, <1>3, <1>7, <2>1, <2>2, <3>1, <3>2, <3>3, <3>4 DEF Moves, l
  <2> QED
    BY <2>3, MoveStep
<1>10. ~(l.goal \in {"close", "detach"})
  BY <1>3
<1> QED
  BY <1>3, <1>8, <1>9, <1>10 DEF OnIncomingAttach, on, l, f

\* close() and detach().
LEMMA CloseOrDetachStep ==
  ASSUME Parts, NEW p \in Peer, NEW e \in End(p), NEW closed \in BOOLEAN, CloseOrDetach(p, e, closed)
  PROVE  Parts'
<1> DEFINE x == <<p, e>>
           l == link[x]
<1>1. /\ l \in LinkRecord /\ Me(p, e) = me[x] /\ l.inbox \in Seq(Frame) /\ x \in Endpoint
  BY LinkFields, Endpoints DEF Parts
<1>2. l.pc = "up" /\ UNCHANGED <<tables, control, wire, backlog, failure, mishap>>
  BY DEF CloseOrDetach
<1>3. stage[x] = "heard" /\ held[x] = l.handle /\ (x \in clean => l.state = "Attached")
  BY <1>1, <1>2 DEF stage, held, clean
<1>4. /\ l.state = "Attached" => l.handle \in Handle
      /\ p = Client => mate[l.peer] = me[x]
  BY <1>1, <1>2 DEF Parts, Shaped, Shape, Inboxes
<1>5. \A i \in 1 .. Len(l.inbox) : \E j \in 1 .. Len(l.inbox) : l.inbox[i] = l.inbox[j]
  OBVIOUS
<1> HIDE DEF l
<1>6. CASE /\ l.state = "Attached" /\ link' = [link EXCEPT ![x] = [Closing(@, closed) EXCEPT !.pc = "waiting"]]
           /\ Submit(p, DetachFrame(Me(p, e), l.handle, closed))
  <2> DEFINE m == [Closing(l, closed) EXCEPT !.pc = "waiting"]
  <2>1. /\ m \in LinkRecord /\ m.pc = "waiting" /\ m.inbox = l.inbox /\ m.peer = l.peer
        /\ m.name = l.name /\ m.life = l.life /\ m.asked = l.asked /\ m.goal = l.goal
    BY <1>1 DEF LinkRecord, LinkStates, Closing, InUse
  <2>2. link' = [link EXCEPT ![x] = m] /\ frames' = [frames EXCEPT ![p] = Append(@, DetachFrame(me[x], l.handle, closed))]
    BY <1>1, <1>6 DEF l, Submit
  <2> HIDE DEF m
  <2>3. Moves(p, e, m)
    BY <1>2, <1>3, <1>4, <1>5, <1>6, <2>1, <2>2 DEF Moves, l
  <2> QED
    BY <2>3, MoveStep
<1>7. CASE l.state # "Attached" /\ link' = [link EXCEPT ![x].pc = IF closed THEN "gone" ELSE "suspended"] /\ frames' = frames
  <2> DEFINE m == [l EXCEPT !.pc = IF closed THEN "gone" ELSE "suspended"]
  <2>1. /\ m \in LinkRecord /\ m.pc \in {"gone", "suspended"} /\ m.inbox = l.inbox /\ m.peer = l.peer
        /\ m.name = l.name /\ m.life = l.life /\ m.asked = l.asked /\ m.goal = l.goal
    BY <1>1 DEF LinkRecord
  <2>2. link' = [link EXCEPT ![x] = m]
    BY <1>7 DEF l
  <2> HIDE DEF m
  <2>3. Moves(p, e, m)
    BY <1>2, <1>3, <1>4, <1>5, <1>7, <2>1, <2>2 DEF Moves, l
  <2> QED
    BY <2>3, MoveStep
<1> QED
  BY <1>6, <1>7 DEF CloseOrDetach, l

\* A Detach is taken from the channel: the link becomes m.
TakesDetach(p, e, m) ==
  /\ link[<<p, e>>].pc \in {"up", "waiting", "refused"} /\ link[<<p, e>>].inbox # <<>>
  /\ Head(link[<<p, e>>].inbox).type = "Detach" /\ m \in LinkRecord /\ link' = [link EXCEPT ![<<p, e>>] = m]
  /\ m.pc \in {"up", "waiting", "refused", "suspended", "gone"} /\ (m.pc = "up" => m.state # "Attached")
  /\ m.inbox = Tail(link[<<p, e>>].inbox)
  /\ m.peer = link[<<p, e>>].peer /\ m.name = link[<<p, e>>].name /\ m.life = link[<<p, e>>].life
  /\ m.asked = link[<<p, e>>].asked /\ m.goal = link[<<p, e>>].goal
  /\ UNCHANGED <<tables, control, frames, wire, backlog, failure, mishap>>

\* A Detach is taken from the channel.
LEMMA DetachTaken ==
  ASSUME Parts, NEW p \in Peer, NEW e \in End(p), NEW m, TakesDetach(p, e, m)
  PROVE  Parts'
<1> DEFINE x == <<p, e>>
           l == link[x]
<1> USE DEF TakesDetach
<1>1. /\ l \in LinkRecord /\ l.inbox \in Seq(Frame) /\ x \in Endpoint
  BY LinkFields, Endpoints DEF Parts
<1>2. stage[x] = "heard"
  BY <1>1 DEF stage
<1>3. p = Client => mate[l.peer] = me[x]
  BY DEF Parts, Inboxes
<1>4. x \notin clean /\ \A i \in 1 .. Len(m.inbox) : \E j \in 1 .. Len(l.inbox) : m.inbox[i] = l.inbox[j]
  <2>1. /\ Len(l.inbox) \in Nat /\ Len(l.inbox) >= 1 /\ Len(Tail(l.inbox)) = Len(l.inbox) - 1
        /\ Head(l.inbox) = l.inbox[1] /\ \A i \in 1 .. Len(l.inbox) - 1 : Tail(l.inbox)[i] = l.inbox[i + 1]
    BY <1>1, Shrunk
  <2>2. 1 \in 1 .. Len(l.inbox) /\ \A i \in 1 .. Len(l.inbox) - 1 : i + 1 \in 1 .. Len(l.inbox)
    BY <2>1
  <2>3. x \notin clean
    BY <2>1, <2>2 DEF clean
  <2> QED
    BY <2>1, <2>2, <2>3
<1>5. Moves(p, e, m)
  BY <1>2, <1>3, <1>4 DEF Moves
<1> QED
  BY <1>5, MoveStep

\* send(), recv() and on_detach() see the end of the link.
LEMMA ObserveDetachStep ==
  ASSUME Parts, NEW p \in Peer, NEW e \in End(p), ObserveDetach(p, e)
  PROVE  Parts'
<1> DEFINE x == <<p, e>>
           l == link[x]
           m == Applied(l, Head(l.inbox))
<1>1. l \in LinkRecord /\ l.inbox \in Seq(Frame)
  BY LinkFields DEF Parts
<1>2. /\ l.pc = "up" /\ l.inbox # <<>> /\ Head(l.inbox).type = "Detach" /\ link' = [link EXCEPT ![x] = m]
      /\ UNCHANGED <<tables, control, frames, wire, backlog, failure, mishap>>
  BY DEF ObserveDetach
<1>3. /\ m \in LinkRecord /\ m.pc = l.pc /\ m.state # "Attached" /\ m.inbox = Tail(l.inbox)
      /\ m.peer = l.peer /\ m.name = l.name /\ m.life = l.life /\ m.asked = l.asked /\ m.goal = l.goal
  <2>1. Tail(l.inbox) \in Seq(Frame)
    BY <1>1, <1>2
  <2> QED
    BY <1>1, <2>1 DEF LinkRecord, LinkStates, Applied
<1> HIDE DEF m
<1>4. TakesDetach(p, e, m)
  BY <1>2, <1>3 DEF TakesDetach
<1> QED
  BY <1>4, DetachTaken

\* The answer that close() and detach() await.
LEMMA OnDetachReplyStep ==
  ASSUME Parts, mishap' = {}, NEW p \in Peer, NEW e \in End(p), OnDetachReply(p, e)
  PROVE  Parts'
<1> DEFINE x == <<p, e>>
           l == link[x]
           f == Head(l.inbox)
           m == [Applied(l, f) EXCEPT !.pc = IF f.flag THEN "gone" ELSE "suspended"]
<1>1. l \in LinkRecord /\ l.inbox \in Seq(Frame)
  BY LinkFields DEF Parts
<1>2. /\ l.pc = "waiting" /\ l.inbox # <<>> /\ Head(l.inbox).type = "Detach" /\ link' = [link EXCEPT ![x] = m]
      /\ UNCHANGED <<tables, control, frames, wire, backlog, failure, mishap>>
  BY DEF OnDetachReply
<1>3. /\ m \in LinkRecord /\ m.pc \in {"gone", "suspended"} /\ m.inbox = Tail(l.inbox)
      /\ m.peer = l.peer /\ m.name = l.name /\ m.life = l.life /\ m.asked = l.asked /\ m.goal = l.goal
  <2>1. Tail(l.inbox) \in Seq(Frame)
    BY <1>1, <1>2
  <2> QED
    BY <1>1, <2>1 DEF LinkRecord, LinkStates, Applied
<1> HIDE DEF m
<1>4. TakesDetach(p, e, m)
  BY <1>2, <1>3 DEF TakesDetach
<1> QED
  BY <1>4, DetachTaken

\* The answer that a refused attach awaits.
LEMMA OnLastDetachStep ==
  ASSUME Parts, NEW p \in Peer, NEW e \in End(p), OnLastDetach(p, e)
  PROVE  Parts'
<1> DEFINE x == <<p, e>>
           l == link[x]
           f == Head(l.inbox)
           n == IF f.flag THEN Applied(l, f) ELSE [l EXCEPT !.inbox = Tail(@)]
           m == [n EXCEPT !.pc = "gone"]
<1>1. l \in LinkRecord /\ l.inbox \in Seq(Frame) /\ x \in Endpoint
  BY LinkFields, Endpoints DEF Parts
<1>2. /\ l.pc = "refused" /\ l.inbox # <<>> /\ Head(l.inbox).type = "Detach" /\ link' = [link EXCEPT ![x] = m]
      /\ UNCHANGED <<tables, control, frames, wire, backlog, failure, mishap>>
  <2>1. l.pc # "reclosing"
    BY <1>1 DEF Parts, Shaped, Shape
  <2> QED
    BY <2>1 DEF OnLastDetach
<1>3. /\ m \in LinkRecord /\ m.pc = "gone" /\ m.inbox = Tail(l.inbox)
      /\ m.peer = l.peer /\ m.name = l.name /\ m.life = l.life /\ m.asked = l.asked /\ m.goal = l.goal
  <2>1. Tail(l.inbox) \in Seq(Frame)
    BY <1>1, <1>2
  <2>2. /\ n \in LinkRecord /\ n.inbox = Tail(l.inbox)
        /\ n.peer = l.peer /\ n.name = l.name /\ n.life = l.life /\ n.asked = l.asked /\ n.goal = l.goal
    BY <1>1, <2>1 DEF LinkRecord, LinkStates, Applied
  <2> HIDE DEF n
  <2> QED
    BY <2>2 DEF LinkRecord
<1> HIDE DEF m
<1>4. TakesDetach(p, e, m)
  BY <1>2, <1>3 DEF TakesDetach
<1> QED
  BY <1>4, DetachTaken

\* A link that is up, waiting or suspended is dropped.
LEMMA DropLinkStep ==
  ASSUME Parts, mishap' = {}, NEW p \in Peer, NEW e \in End(p), DropLink(p, e)
  PROVE  Parts'
<1> DEFINE x == <<p, e>>
           l == link[x]
           m == [l EXCEPT !.pc = "gone", !.inbox = <<>>, !.handle = NoHandle]
<1>1. l \in LinkRecord /\ l.inbox \in Seq(Frame) /\ x \in Endpoint /\ Me(p, e) = me[x] /\ l.handle \in Handle \cup {NoHandle}
  BY LinkFields, Endpoints DEF Parts
<1>2. l.pc \in {"up", "waiting", "suspended"} /\ UNCHANGED <<tables, control, wire, backlog, failure, mishap>>
  <2>1. l.pc # "reclosing"
    BY <1>1 DEF Parts, Shaped, Shape
  <2>2. l.pc \notin {"allocating", "allocated", "attaching"}
    BY DEF DropLink
  <2> QED
    BY <2>1, <2>2 DEF DropLink
<1>3. stage[x] = "heard" /\ held[x] = IF l.pc = "up" THEN l.handle ELSE NoHandle
  BY <1>1, <1>2 DEF stage, held
<1>4. /\ m \in LinkRecord /\ m.pc = "gone" /\ m.inbox = <<>> /\ m.peer = l.peer
      /\ m.name = l.name /\ m.life = l.life /\ m.asked = l.asked /\ m.goal = l.goal
  <2>1. <<>> \in Seq(Frame) /\ NoHandle \in Handle \cup {NoHandle} /\ "gone" \in InUse \cup {"idle", "up", "suspended", "gone"}
    OBVIOUS
  <2> QED
    BY <1>1, <2>1 DEF LinkRecord
<1>5. link' = [link EXCEPT ![x] = m]
  BY DEF DropLink
<1>6. IF MustDetach(l) THEN frames' = [frames EXCEPT ![p] = Append(@, DetachFrame(me[x], l.handle, TRUE))] ELSE frames' = frames
  BY <1>1, <1>2 DEF DropLink, Submit
<1>7. \A i \in 1 .. Len(m.inbox) : FALSE
  BY <1>4
<1> HIDE DEF m
<1>8. CASE MustDetach(l)
  <2>1. l.handle \in Handle
    BY <1>1, <1>8 DEF MustDetach
  <2>2. Moves(p, e, m)
    BY <1>2, <1>3, <1>4, <1>5, <1>6, <1>7, <1>8, <2>1 DEF Moves
  <2> QED
    BY <2>2, MoveStep
<1>9. CASE ~MustDetach(l)
  <2>1. ~(x \in clean /\ held[x] \in Handle)
    <3>1. SUFFICES ASSUME x \in clean, held[x] \in Handle
                   PROVE  FALSE
      OBVIOUS
    <3>2. l.handle # NoHandle
      BY <1>3, <3>1, Handles
    <3>3. \A i \in DOMAIN l.inbox : l.inbox[i].type # "Detach"
      BY <1>1, <3>1 DEF clean
    <3> QED
      BY <1>9, <3>2, <3>3 DEF MustDetach
  <2>2. Moves(p, e, m)
    BY <1>2, <1>3, <1>4, <1>5, <1>6, <1>7, <1>9, <2>1 DEF Moves
  <2> QED
    BY <2>2, MoveStep
<1> QED
  BY <1>8, <1>9

-----------------------------------------------------------------------------
(* The client's Attach.                                                    *)

\* The Attach is sent.
LEMMA SendAttachStep ==
  ASSUME Parts, mishap' = {}, NEW p \in Peer, NEW e \in End(p), SendAttach(p, e)
  PROVE  Parts'
<1> DEFINE x == <<Client, e>>
           m == [link[x] EXCEPT !.state = "AttachSent", !.pc = "attaching"]
           f == AttachFrame(me[x], called[x], held[x], FALSE)
<1> USE Endpoints, Peers
<1>1. link[<<p, e>>].pc = "allocated" /\ (p = Client \/ link[<<p, e>>].goal # "attach")
  BY DEF SendAttach
<1>2. p = Client
  BY <1>1 DEF Parts, Shaped, Shape
<1>3. /\ link[x] \in LinkRecord /\ x \in Endpoint /\ Me(Client, e) = me[x] /\ called[x] = link[x].name
      /\ link[x].inbox = <<>> /\ link[x].handle \in Handle /\ link[x].name \in Names /\ e \in End(Client)
  BY <1>1, <1>2, LinkFields, Abbreviated DEF Parts, Shaped, Shape
<1>4. stage[x] = "allocated" /\ held[x] = link[x].handle
  BY <1>1, <1>2, <1>3 DEF stage, held
<1>5. /\ link' = [link EXCEPT ![x].state = "AttachSent", ![x].pc = "attaching"]
      /\ Submit(Client, AttachFrame(Me(Client, e), link[x].name, link[x].handle, FALSE))
      /\ UNCHANGED <<tables, control, wire, backlog, failure, mishap>>
  BY <1>2 DEF SendAttach
<1>6. Becomes(x, m)
  <2>1. m \in LinkRecord
    BY <1>3 DEF LinkRecord, LinkStates, InUse
  <2>2. link' = [link EXCEPT ![x] = m]
    BY <1>3, <1>5 DEF Parts, Typed
  <2> QED
    BY <2>1, <2>2 DEF Becomes
<1>7. /\ m.pc = "attaching" /\ m.inbox = <<>> /\ m.life = link[x].life /\ m.name = link[x].name /\ m.handle = link[x].handle
      /\ m.asked = link[x].asked /\ m.goal = link[x].goal /\ m.peer = link[x].peer
  BY <1>3 DEF LinkRecord
<1>8. f \in Frame /\ f.type = "Attach" /\ f.from = me[x] /\ f.name = called[x] /\ f.handle = held[x]
  <2>1. me[x] \in Attachment
    BY <1>3, Abbreviated DEF Parts
  <2> QED
    BY <1>3, <1>4, <2>1 DEF AttachFrame, Frame
<1>9. frames' = [frames EXCEPT ![Client] = Append(@, f)]
  BY <1>3, <1>4, <1>5 DEF Submit
<1> HIDE DEF m, f
<1>10. UNCHANGED <<slab, vacant, by_name, by_in, close_pending, control, wire, backlog, failure>>
  BY <1>5 DEF tables
<1>11. Typed' /\ Shaped'
  <2>1. frames' \in [Peer -> Seq(Frame)]
    BY <1>8, <1>9 DEF Parts, Typed
  <2>2. Shape(x, m)
    BY <1>1, <1>2, <1>3, <1>7 DEF Parts, Shaped, Shape
  <2>3. Shaped' /\ link' \in [Endpoint -> LinkRecord]
    BY <1>3, <1>6, <2>2, OneShape, OneLink DEF Parts
  <2> QED
    BY <1>10, <2>1, <2>3 DEF Parts, Typed
<1>12. /\ me' = me /\ stage'[x] = "asking" /\ \A y \in Endpoint : y # x => stage'[y] = stage[y] /\ link'[y] = link[y]
       /\ called' = called /\ held' = held /\ parted' = parted /\ clean \subseteq clean' /\ link'[x] = m
  <2>1. /\ \A y \in Endpoint : y # x =>
              /\ link'[y] = link[y] /\ stage'[y] = stage[y] /\ called'[y] = called[y]
              /\ held'[y] = held[y] /\ (y \in clean' <=> y \in clean) /\ (y \in parted' <=> y \in parted)
        /\ link'[x] = m /\ stage'[x] = "asking" /\ called'[x] = m.name /\ held'[x] = m.handle
        /\ x \in parted' <=> m.asked = m.life
        /\ x \in clean'
    BY <1>3, <1>6, <1>7, OneLink DEF Parts
  <2>2. called'[x] = called[x] /\ held'[x] = held[x] /\ (x \in parted' <=> x \in parted)
    BY <2>1, <1>3, <1>4, <1>7 DEF parted
  <2>3. me' = me
    BY <1>3, <1>6, <1>7, OneStage DEF Parts
  <2> QED
    BY <2>1, <2>2, <2>3, Extensions
<1>13. mate' = mate
  <2>1. \A d \in End(Listener) : <<Listener, d>> \in Endpoint /\ <<Listener, d>> # x
    OBVIOUS
  <2> QED
    BY <2>1, <1>12, SameMates
<1>14. past \in [Peer -> SUBSET Attachment] /\ known \in [Peer -> SUBSET Attachment]
       /\ \A q \in Peer : past[q] \subseteq past'[q] /\ known[q] \subseteq known'[q]
  <2>1. past \in [Peer -> SUBSET Attachment] /\ known \in [Peer -> SUBSET Attachment]
    BY DEF past, known, Upto
  <2>2. me[x] \notin past[Client] /\ me[x] \notin known[Client]
    BY <1>3, <1>4, Heard DEF Parts
  <2>3. \A q \in Peer : \A a \in Attachment : q # Client \/ a # me[x] =>
              (a \in past'[q] <=> a \in past[q]) /\ (a \in known'[q] <=> a \in known[q])
    BY <1>3, <1>6, <1>7, OneStage DEF Parts
  <2> QED
    BY <2>1, <2>2, <2>3
<1>15. /\ Requests' /\ Vacant' /\ Slots' /\ Holders' /\ Reached' /\ Named' /\ Registered'
  <2> USE <1>3, <1>4, <1>10, <1>12
  <2>1. Requests'
    BY DEF Parts, Requests
  <2>2. Vacant'
    BY DEF Parts, Vacant
  <2>3. Slots'
    BY DEF Parts, Slots
  <2>4. Holders'
    <3>1. \A q \in Peer : \A i \in 1 .. Len(frames[q]) : i \in 1 .. Len(frames'[q]) /\ frames'[q][i] = frames[q][i]
      BY <1>8, <1>9 DEF Parts, Typed
    <3> QED
      BY <3>1 DEF Parts, Holders
  <2>5. Reached'
    BY DEF Parts, Reached
  <2>6. Named'
    <3>1. \A n \in Names : by_name[Listener][n].who = Nobody
      BY DEF Parts, Named
    <3>2. ASSUME NEW n \in Names, by_name[Client][n].who # Nobody
          PROVE  \E c \in End(Client) :
                   /\ by_name[Client][n].who = me[<<Client, c>>] /\ called[<<Client, c>>] = n
                   /\ stage'[<<Client, c>>] \in {"allocated", "asking"}
                   /\ by_name[Client][n].out \in Handle /\ slab[Client][by_name[Client][n].out] = me[<<Client, c>>]
      <4>1. PICK c \in End(Client) :
               /\ by_name[Client][n].who = me[<<Client, c>>] /\ called[<<Client, c>>] = n
               /\ stage[<<Client, c>>] \in {"allocated", "asking"}
               /\ by_name[Client][n].out \in Handle /\ slab[Client][by_name[Client][n].out] = me[<<Client, c>>]
        BY <3>2 DEF Parts, Named
      <4>2. stage'[<<Client, c>>] \in {"allocated", "asking"}
        BY <4>1
      <4> QED
        BY <4>1, <4>2
    <3>3. ASSUME NEW c \in End(Client), stage'[<<Client, c>>] = "allocated"
          PROVE  /\ by_name[Client][called[<<Client, c>>]].who = me[<<Client, c>>]
                 /\ by_name[Client][called[<<Client, c>>]].out = held[<<Client, c>>]
      BY <3>3 DEF Parts, Named
    <3>4. ASSUME NEW d \in End(Listener), stage'[<<Listener, d>>] = "allocated"
          PROVE  slab[Listener][held[<<Listener, d>>]] = me[<<Listener, d>>]
      BY <3>4 DEF Parts, Named
    <3> QED
      BY <3>1, <3>2, <3>3, <3>4 DEF Named
  <2>7. Registered'
    <3>1. \A q \in Peer, h \in Handle : by_in'[q][h].who = Nobody => by_in'[q][h] = Absent
      BY DEF Parts, Registered
    <3>2. ASSUME NEW q \in Peer, NEW h \in Handle, by_in[q][h].who # Nobody
          PROVE  /\ \E d \in End(q) :
                      /\ by_in[q][h].who = me[<<q, d>>] /\ <<q, d>> \in clean'
                      /\ stage'[<<q, d>>] \notin {"idle", "allocating"} /\ (q = Client => stage'[<<q, d>>] = "heard")
                      /\ <<q, d>> \in parted \/ slab[q][by_in[q][h].out] = me[<<q, d>>]
                 /\ by_in[q][h].out \in Handle
                 /\ \A g \in Handle : by_in[q][g].who = by_in[q][h].who => g = h
      BY <3>2 DEF Parts, Registered
    <3> QED
      BY <3>1, <3>2 DEF Registered
  <2> QED
    BY <2>1, <2>2, <2>3, <2>4, <2>5, <2>6, <2>7
<1>25. Pending'
  <2>1. close_pending' = close_pending /\ by_in' = by_in /\ me' = me /\ parted' = parted
    BY <1>10, <1>12
  <2> QED
    BY <2>1, SamePending DEF Parts
<1>16. awaited \subseteq awaited' /\ asks \subseteq asks' /\ answers \subseteq answers' /\ f \in asks'
  <2>1. awaited \subseteq awaited'
    <3>1. \A c \in End(Client) : stage[<<Client, c>>] = "asking" => stage'[<<Client, c>>] = "asking"
      BY <1>4, <1>12
    <3> QED
      BY <3>1, <1>10, <1>12 DEF awaited
  <2>2. asks \subseteq asks'
    BY <2>1, <1>10 DEF asks
  <2>3. answers \subseteq answers'
    <3>1. \A d \in End(Listener) : stage'[<<Listener, d>>] = stage[<<Listener, d>>]
      BY <1>12
    <3> QED
      BY <2>1, <3>1, <1>10, <1>12, <1>13 DEF answers
  <2>4. by_name[Client][called[x]].who = me[x] /\ by_name[Client][called[x]].out = held[x]
    BY <1>3, <1>4 DEF Parts, Named
  <2>5. called[x] \in awaited'
    BY <2>4, <1>3, <1>10, <1>12 DEF awaited
  <2>6. f \in asks'
    BY <2>4, <2>5, <1>8, <1>10 DEF asks
  <2> QED
    BY <2>1, <2>2, <2>3, <2>6
<1>17. /\ frames[Client] \in Seq(Frame) /\ wire[Client] \in Seq(Frame) /\ backlog \in Seq(Frame)
       /\ frames'[Client] = Append(frames[Client], f) /\ frames'[Listener] = frames[Listener]
  BY <1>9 DEF Parts, Typed
<1>18. Asks'
  <2>1. NotIn(frames[Client], me[x]) /\ NotIn(wire[Client], me[x]) /\ NotIn(backlog, me[x])
    <3>1. All(frames[Client], asks) /\ All(wire[Client], asks) /\ All(backlog, asks)
      BY DEF Parts, Asks
    <3> QED
      BY <3>1, <1>3, <1>4, NotAsking
  <2>2. All(frames'[Client], asks') /\ All(wire[Client], asks') /\ All(backlog, asks')
    <3>1. All(frames[Client], asks') /\ All(wire[Client], asks') /\ All(backlog, asks')
      BY <1>16, AllMonotone DEF Parts, Asks
    <3> QED
      BY <3>1, <1>8, <1>16, <1>17, AttachAdded
  <2>3. Once(frames'[Client]) /\ Apart(frames'[Client], wire[Client]) /\ Apart(frames'[Client], backlog)
    BY <2>1, <1>8, <1>17, AttachAdded DEF Parts, Asks
  <2> QED
    BY <2>2, <2>3, <1>10 DEF Parts, Asks
<1>19. Mates'
  <2>1. ASSUME NEW b \in Attachment, mate[b] # Nobody
        PROVE  NotIn(frames'[Client], mate[b]) /\ mate[b] \in known'[Client]
    <3>1. mate[b] \in known[Client] /\ NotIn(frames[Client], mate[b])
      BY <2>1 DEF Parts, Mates
    <3>2. mate[b] # me[x]
      BY <3>1, <1>3, <1>4, Heard DEF Parts
    <3> QED
      BY <3>1, <3>2, <1>8, <1>14, <1>17, AttachAdded
  <2>2. \A d \in End(Listener) : stage'[<<Listener, d>>] = stage[<<Listener, d>>]
    BY <1>12
  <2> QED
    BY <2>1, <2>2, <1>10, <1>12, <1>13, <1>16 DEF Parts, Mates
<1>20. Replies'
  <2>1. All(frames[Listener], answers') /\ All(wire[Listener], answers')
    BY <1>16, AllMonotone DEF Parts, Replies
  <2> QED
    BY <2>1, <1>10, <1>17 DEF Parts, Replies
<1>21. Detaching'
  <2>1. ASSUME NEW q \in Peer, NEW i \in 1 .. Len(frames'[q]), frames'[q][i].type = "Detach"
        PROVE  frames'[q][i].from \in past'[q]
    <3>1. CASE q = Listener
      BY <2>1, <3>1, <1>14, <1>17 DEF Parts, Detaching
    <3>2. CASE q = Client
      <4>1. i \in 1 .. Len(frames[Client]) /\ frames'[Client][i] = frames[Client][i]
        BY <2>1, <3>2, <1>8, <1>17
      <4> QED
        BY <2>1, <3>2, <4>1, <1>14 DEF Parts, Detaching
    <3> QED
      BY <3>1, <3>2
  <2> QED
    BY <2>1, <1>10, <1>14 DEF Parts, Detaching
<1>22. ToListener'
  <2>1. \A c \in End(Client) : stage'[<<Client, c>>] = "heard" => stage[<<Client, c>>] = "heard"
    BY <1>12
  <2> QED
    BY <2>1, <1>10, <1>12, <1>13 DEF Parts, ToListener
<1>23. ToClient'
  <2>1. \A d \in End(Listener) : stage'[<<Listener, d>>] = stage[<<Listener, d>>]
    BY <1>12
  <2> QED
    BY <2>1, <1>10, <1>12, <1>13, <1>17 DEF Parts, ToClient
<1>24. Inboxes'
  <2>1. ASSUME NEW c \in End(Client)
        PROVE  /\ Len(link'[<<Client, c>>].inbox) = Len(link[<<Client, c>>].inbox)
               /\ link'[<<Client, c>>].inbox = link[<<Client, c>>].inbox
               /\ link'[<<Client, c>>].pc \in {"up", "waiting", "refused"} => link'[<<Client, c>>] = link[<<Client, c>>]
    BY <1>3, <1>7, <1>12
  <2>2. \A d \in End(Listener) : link'[<<Listener, d>>] = link[<<Listener, d>>]
    BY <1>12
  <2> QED
    BY <2>1, <2>2, <1>12, <1>13 DEF Parts, Inboxes
<1> QED
  BY <1>11, <1>15, <1>25, <1>18, <1>19, <1>20, <1>21, <1>22, <1>23, <1>24 DEF Parts

-----------------------------------------------------------------------------
(* Attach, resume and accept: a link asks for a handle.                    *)

\* The link <<p, e>> begins another life as m.
Begins(p, e, m) ==
  /\ Becomes(<<p, e>>, m) /\ Shape(<<p, e>>, m)
  /\ link[<<p, e>>].pc \in {"idle", "suspended"} /\ m.pc = "allocating"
  /\ m.life = link[<<p, e>>].life + 1 /\ m.inbox = <<>>
  /\ UNCHANGED <<tables, frames>>

\* The links afterwards.
LEMMA BeginLinks ==
  ASSUME Parts, NEW p \in Peer, NEW e \in End(p), NEW m, Begins(p, e, m)
  PROVE  /\ Shaped' /\ link' \in [Endpoint -> LinkRecord] /\ link'[<<p, e>>] = m
         /\ known' = known /\ past' = past
         /\ stage[<<p, e>>] \in {"idle", "heard"} /\ stage'[<<p, e>>] = "allocating"
         /\ <<p, e>> \in clean' /\ <<p, e>> \notin parted' /\ held'[<<p, e>>] = NoHandle
         /\ called'[<<p, e>>] = m.name /\ me'[<<p, e>>] = <<e, m.life>>
         /\ \A y \in Endpoint : y # <<p, e>> =>
              /\ link'[y] = link[y] /\ stage'[y] = stage[y] /\ me'[y] = me[y] /\ called'[y] = called[y]
              /\ held'[y] = held[y] /\ (y \in clean' <=> y \in clean) /\ (y \in parted' <=> y \in parted)
<1> DEFINE x == <<p, e>>
<1> USE Endpoints
<1>1. x \in Endpoint /\ x[1] = p /\ x[2] = e
  OBVIOUS
<1>2. /\ Becomes(x, m) /\ Shape(x, m) /\ link[x].pc \in {"idle", "suspended"} /\ m.pc = "allocating"
      /\ m.life = link[x].life + 1 /\ m.inbox = <<>>
  BY DEF Begins
<1> HIDE DEF x
<1>3. Typed /\ Shaped /\ link[x].life \in Nat /\ m.life \in Nat /\ m.asked \in Nat /\ m.asked < m.life
  <2>1. link[x] \in LinkRecord /\ m \in LinkRecord
    BY <1>1, <1>2 DEF Parts, Typed, Becomes
  <2>2. link[x].life \in Nat /\ m.asked \in Nat
    BY <2>1 DEF LinkRecord
  <2>3. m.asked < m.life
    BY <1>2 DEF Shape
  <2> QED
    BY <1>2, <2>2, <2>3 DEF Parts
<1>4. Shaped'
  BY <1>1, <1>2, <1>3, OneShape
<1>5. /\ link' \in [Endpoint -> LinkRecord] /\ link'[x] = m
      /\ \A y \in Endpoint : y # x =>
              /\ link'[y] = link[y] /\ stage'[y] = stage[y] /\ me'[y] = me[y] /\ called'[y] = called[y]
              /\ held'[y] = held[y] /\ (y \in clean' <=> y \in clean) /\ (y \in parted' <=> y \in parted)
  BY <1>1, <1>2, <1>3, OneLink
<1>6. /\ stage'[x] = "allocating" /\ me'[x] = <<x[2], m.life>> /\ called'[x] = m.name /\ held'[x] = NoHandle
      /\ x \notin parted' /\ x \in clean'
  BY <1>1, <1>2, <1>3, OneLink
<1>7. stage[x] = IF link[x].pc = "idle" THEN "idle" ELSE "heard"
  BY <1>1, <1>2 DEF stage
<1>8. link[x].pc = "idle" <=> link[x].life = 0
  BY <1>1, <1>3 DEF Shaped, Shape
<1>9. ASSUME NEW q \in Peer, NEW S, "heard" \in S, "allocating" \notin S
      PROVE  Upto(q, S)' = Upto(q, S)
  <2>1. SUFFICES ASSUME NEW a \in Attachment
                 PROVE  a \in Upto(q, S)' <=> a \in Upto(q, S)
    BY DEF Upto
  <2>2. CASE a[1] \notin End(q)
    BY <2>2 DEF Upto
  <2>3. CASE a[1] \in End(q) /\ <<q, a[1]>> # x
    BY <2>3, <1>5 DEF Upto
  <2>4. CASE a[1] \in End(q) /\ <<q, a[1]>> = x
    <3>1. a[2] \in Nat
      BY DEF Attachment
    <3>2. a \in Upto(q, S)' <=> 1 <= a[2] /\ a[2] <= m.life /\ (a[2] = m.life => stage'[x] \in S)
      BY <2>4, <1>5 DEF Upto
    <3>3. a \in Upto(q, S) <=> 1 <= a[2] /\ a[2] <= link[x].life /\ (a[2] = link[x].life => stage[x] \in S)
      BY <2>4 DEF Upto
    <3> QED
      BY <1>2, <1>3, <1>6, <1>7, <1>8, <1>9, <3>1, <3>2, <3>3
  <2> QED
    BY <2>2, <2>3, <2>4
<1>10. known' = known /\ past' = past
  BY <1>9 DEF known, past
<1> QED
  BY <1>1, <1>4, <1>5, <1>6, <1>7, <1>10 DEF x

\* Neither the attachment that ends nor the one that begins is in a table.
LEMMA BeginTables ==
  ASSUME Parts, NEW p \in Peer, NEW e \in End(p), NEW m, Begins(p, e, m)
  PROVE  /\ \A q \in Peer, h \in Handle : \A d \in End(q) :
              /\ slab[q][h] = me'[<<q, d>>] <=> slab[q][h] = me[<<q, d>>]
              /\ by_in[q][h].who = me'[<<q, d>>] <=> by_in[q][h].who = me[<<q, d>>]
              /\ slab[q][h] = me[<<q, d>>] \/ by_in[q][h].who = me[<<q, d>>] => <<q, d>> # <<p, e>>
         /\ \A n \in Names : \A c \in End(Client) :
              /\ by_name[Client][n].who = me'[<<Client, c>>] <=> by_name[Client][n].who = me[<<Client, c>>]
              /\ by_name[Client][n].who = me[<<Client, c>>] => <<Client, c>> # <<p, e>>
<1> DEFINE x == <<p, e>>
<1> USE Endpoints, Peers
<1>1. /\ x \in Endpoint /\ x[1] = p /\ x[2] = e /\ stage[x] \in {"idle", "heard"} /\ (stage[x] = "heard" => x \notin clean)
      /\ me'[x] = <<e, m.life>> /\ m.life # link[x].life /\ me[x] = <<e, link[x].life>>
      /\ \A y \in Endpoint : y # x => me'[y] = me[y]
  <2>1. link[x].pc \in {"idle", "suspended"} /\ m.life = link[x].life + 1 /\ link[x].life \in Nat
    BY DEF Begins, Parts, Typed, LinkRecord
  <2>2. stage[x] = "heard" => x \notin clean
    BY <2>1 DEF stage, clean
  <2> QED
    BY <2>1, <2>2, BeginLinks, Abbreviated DEF Parts
<1> HIDE DEF x
<1>2. ASSUME NEW q \in Peer, NEW a, NEW c \in End(q), a = me[<<q, c>>], <<q, c>> # x, NEW d \in End(q)
      PROVE  (a = me'[<<q, d>>] <=> a = me[<<q, d>>]) /\ (a = me[<<q, d>>] => <<q, d>> # x)
  <2>1. a = me[<<q, d>>] => d = c
    BY <1>2, Abbreviated DEF Parts
  <2>2. a = me'[<<q, c>>]
    BY <1>1, <1>2
  <2>3. ASSUME a = me'[<<q, d>>]
        PROVE  d = c
    <3>1. CASE <<q, d>> # x
      BY <3>1, <2>1, <2>3, <1>1
    <3>2. CASE <<q, d>> = x
      <4>1. q = p /\ d = e
        BY <3>2, <1>1
      <4>2. a = <<e, m.life>> /\ a = <<c, link[<<q, c>>].life>>
        BY <1>1, <1>2, <2>3, <3>2, Abbreviated DEF Parts
      <4> QED
        BY <4>1, <4>2
    <3> QED
      BY <3>1, <3>2
  <2> QED
    BY <2>1, <2>2, <2>3, <1>2
<1>3. ASSUME NEW q \in Peer, NEW d \in End(q)
      PROVE  me[<<q, d>>] # Nobody /\ me'[<<q, d>>] # Nobody
  <2>1. me[<<q, d>>] # Nobody
    BY Abbreviated DEF Parts
  <2>2. CASE <<q, d>> # x
    BY <2>1, <2>2, <1>1
  <2>3. CASE <<q, d>> = x
    <3>1. e # 0
      BY Ordinals
    <3>2. me'[<<q, d>>][1] = e /\ Nobody[1] = 0
      BY <2>3, <1>1 DEF Nobody
    <3> QED
      BY <2>1, <3>1, <3>2
  <2> QED
    BY <2>2, <2>3
<1>4. ASSUME NEW q \in Peer, NEW h \in Handle, NEW d \in End(q)
      PROVE  (slab[q][h] = me'[<<q, d>>] <=> slab[q][h] = me[<<q, d>>]) /\ (slab[q][h] = me[<<q, d>>] => <<q, d>> # x)
  <2>1. CASE slab[q][h] = Nobody
    BY <2>1, <1>3
  <2>2. CASE slab[q][h] # Nobody
    <3>1. PICK c \in End(q) : slab[q][h] = me[<<q, c>>]
      BY <2>2 DEF Parts, Slots
    <3>2. stage[<<q, c>>] \notin {"idle", "allocating"} /\ <<q, c>> \in clean
      BY <3>1 DEF Parts, Slots
    <3> QED
      BY <3>1, <3>2, <1>1, <1>2
  <2> QED
    BY <2>1, <2>2
<1>5. ASSUME NEW q \in Peer, NEW h \in Handle, NEW d \in End(q)
      PROVE  /\ by_in[q][h].who = me'[<<q, d>>] <=> by_in[q][h].who = me[<<q, d>>]
             /\ by_in[q][h].who = me[<<q, d>>] => <<q, d>> # x
  <2>1. CASE by_in[q][h].who = Nobody
    BY <2>1, <1>3
  <2>2. CASE by_in[q][h].who # Nobody
    <3>1. PICK c \in End(q) : /\ by_in[q][h].who = me[<<q, c>>] /\ <<q, c>> \in clean
                              /\ stage[<<q, c>>] \notin {"idle", "allocating"}
      BY <2>2 DEF Parts, Registered
    <3> QED
      BY <3>1, <1>1, <1>2
  <2> QED
    BY <2>1, <2>2
<1>6. ASSUME NEW n \in Names, NEW d \in End(Client)
      PROVE  /\ by_name[Client][n].who = me'[<<Client, d>>] <=> by_name[Client][n].who = me[<<Client, d>>]
             /\ by_name[Client][n].who = me[<<Client, d>>] => <<Client, d>> # x
  <2>1. CASE by_name[Client][n].who = Nobody
    BY <2>1, <1>3
  <2>2. CASE by_name[Client][n].who # Nobody
    <3>1. PICK c \in End(Client) : /\ by_name[Client][n].who = me[<<Client, c>>]
                                   /\ stage[<<Client, c>>] \in {"allocated", "asking"}
      BY <2>2 DEF Parts, Named
    <3> QED
      BY <3>1, <1>1, <1>2
  <2> QED
    BY <2>1, <2>2
<1> QED
  BY <1>4, <1>5, <1>6 DEF x

\* The tables and frames afterwards.
LEMMA BeginParts ==
  ASSUME Parts, NEW p \in Peer, NEW e \in End(p), NEW m, Begins(p, e, m)
  PROVE  /\ Vacant' /\ Slots' /\ Holders' /\ Reached' /\ Named' /\ Registered' /\ Pending'
         /\ awaited' = awaited /\ asks' = asks
<1> DEFINE x == <<p, e>>
<1>1. /\ x \in Endpoint /\ stage'[x] = "allocating" /\ stage[x] \in {"idle", "heard"}
      /\ \A y \in Endpoint : y # x =>
           /\ stage'[y] = stage[y] /\ me'[y] = me[y] /\ called'[y] = called[y]
           /\ held'[y] = held[y] /\ (y \in clean' <=> y \in clean) /\ (y \in parted' <=> y \in parted)
  BY BeginLinks, Endpoints
<1>2. UNCHANGED <<slab, vacant, by_name, by_in, close_pending, frames>>
  BY DEF Begins, tables
<1>3. \A q \in Peer, h \in Handle : \A d \in End(q) :
        /\ slab[q][h] = me'[<<q, d>>] <=> slab[q][h] = me[<<q, d>>]
        /\ slab[q][h] = me[<<q, d>>] => <<q, d>> # x
  BY BeginTables, Peers
<1>4. \A q \in Peer, h \in Handle : \A d \in End(q) :
        /\ by_in[q][h].who = me'[<<q, d>>] <=> by_in[q][h].who = me[<<q, d>>]
        /\ by_in[q][h].who = me[<<q, d>>] => <<q, d>> # x
  BY BeginTables, Peers
<1>5. \A n \in Names : \A c \in End(Client) :
        /\ by_name[Client][n].who = me'[<<Client, c>>] <=> by_name[Client][n].who = me[<<Client, c>>]
        /\ by_name[Client][n].who = me[<<Client, c>>] => <<Client, c>> # x
  BY BeginTables, Peers
<1> HIDE DEF x
<1>6. Vacant'
  BY <1>2 DEF Parts, Vacant
<1>7. Slots'
  <2>1. \A q \in Peer, h \in Handle : slab[q][h] # Nobody => \E d \in End(q) : slab[q][h] = me'[<<q, d>>]
    BY <1>3 DEF Parts, Slots
  <2>2. ASSUME NEW q \in Peer, NEW h \in Handle, NEW d \in End(q), slab[q][h] = me'[<<q, d>>]
        PROVE  /\ stage'[<<q, d>>] \notin {"idle", "allocating"} /\ <<q, d>> \in clean' /\ <<q, d>> \notin parted'
               /\ by_name[q][called'[<<q, d>>]] # Absent
               /\ \A g \in Handle : \A c \in End(q) :
                    slab[q][g] = me'[<<q, c>>] /\ called'[<<q, c>>] = called'[<<q, d>>] => g = h
    <3>1. <<q, d>> # x /\ slab[q][h] = me[<<q, d>>]
      BY <2>2, <1>3
    <3>2. /\ stage[<<q, d>>] \notin {"idle", "allocating"} /\ <<q, d>> \in clean /\ <<q, d>> \notin parted
          /\ by_name[q][called[<<q, d>>]] # Absent
          /\ \A g \in Handle : \A c \in End(q) :
               slab[q][g] = me[<<q, c>>] /\ called[<<q, c>>] = called[<<q, d>>] => g = h
      BY <3>1 DEF Parts, Slots
    <3>3. ASSUME NEW g \in Handle, NEW c \in End(q), slab[q][g] = me'[<<q, c>>], called'[<<q, c>>] = called'[<<q, d>>]
          PROVE  g = h
      <4>1. <<q, c>> # x /\ slab[q][g] = me[<<q, c>>]
        BY <3>3, <1>3
      <4> QED
        BY Endpoints, Peers, <3>1, <3>2, <3>3, <4>1, <1>1
    <3> QED
      BY Endpoints, Peers, <3>1, <3>2, <3>3, <1>1
  <2>3. UNCHANGED <<slab, by_name>>
    BY <1>2
  <2> QED
    BY <2>1, <2>2, <2>3 DEF Slots
<1>8. Holders'
  <2>1. ASSUME NEW q \in Peer, NEW h \in Handle, NEW d \in End(q), slab[q][h] = me'[<<q, d>>]
        PROVE  \/ held'[<<q, d>>] = h
               \/ \E i \in 1 .. Len(frames[q]) : DetachOf(frames[q][i], me'[<<q, d>>], h)
    <3>1. <<q, d>> # x /\ slab[q][h] = me[<<q, d>>]
      BY <2>1, <1>3
    <3>2. held[<<q, d>>] = h \/ \E i \in 1 .. Len(frames[q]) : DetachOf(frames[q][i], me[<<q, d>>], h)
      BY <3>1 DEF Parts, Holders
    <3> QED
      BY Endpoints, Peers, <3>1, <3>2, <1>1
  <2> QED
    BY <2>1, <1>2 DEF Holders
<1>9. Reached'
  <2>1. ASSUME NEW q \in Peer, NEW h \in Handle, NEW d \in End(q), slab[q][h] = me'[<<q, d>>],
               q = Client => stage'[<<q, d>>] = "heard"
        PROVE  \E g \in Handle : by_in[q][g].who = me'[<<q, d>>] /\ by_in[q][g].out = h
    <3>1. <<q, d>> # x /\ slab[q][h] = me[<<q, d>>]
      BY <2>1, <1>3
    <3>2. stage'[<<q, d>>] = stage[<<q, d>>] /\ me'[<<q, d>>] = me[<<q, d>>]
      BY Endpoints, Peers, <3>1, <1>1
    <3> QED
      BY <2>1, <3>1, <3>2 DEF Parts, Reached
  <2> QED
    BY <2>1, <1>2 DEF Reached
<1>10. Named'
  <2>1. \A n \in Names : by_name[Listener][n].who = Nobody
    BY DEF Parts, Named
  <2>2. ASSUME NEW n \in Names, by_name[Client][n].who # Nobody
        PROVE  \E c \in End(Client) :
                 /\ by_name[Client][n].who = me'[<<Client, c>>] /\ called'[<<Client, c>>] = n
                 /\ stage'[<<Client, c>>] \in {"allocated", "asking"}
                 /\ by_name[Client][n].out \in Handle /\ slab[Client][by_name[Client][n].out] = me'[<<Client, c>>]
    <3>1. PICK c \in End(Client) :
             /\ by_name[Client][n].who = me[<<Client, c>>] /\ called[<<Client, c>>] = n
             /\ stage[<<Client, c>>] \in {"allocated", "asking"}
             /\ by_name[Client][n].out \in Handle /\ slab[Client][by_name[Client][n].out] = me[<<Client, c>>]
      BY <2>2 DEF Parts, Named
    <3>2. <<Client, c>> # x
      BY <3>1, <1>5
    <3> QED
      BY Endpoints, Peers, <3>1, <3>2, <1>1
  <2>3. ASSUME NEW c \in End(Client), stage'[<<Client, c>>] = "allocated"
        PROVE  /\ by_name[Client][called'[<<Client, c>>]].who = me'[<<Client, c>>]
               /\ by_name[Client][called'[<<Client, c>>]].out = held'[<<Client, c>>]
    <3>1. <<Client, c>> # x
      BY Endpoints, Peers, <2>3, <1>1
    <3> QED
      BY Endpoints, Peers, <2>3, <3>1, <1>1 DEF Parts, Named
  <2>4. ASSUME NEW d \in End(Listener), stage'[<<Listener, d>>] = "allocated"
        PROVE  slab[Listener][held'[<<Listener, d>>]] = me'[<<Listener, d>>]
    <3>1. <<Listener, d>> # x
      BY Endpoints, Peers, <2>4, <1>1
    <3> QED
      BY Endpoints, Peers, <2>4, <3>1, <1>1 DEF Parts, Named
  <2> QED
    BY <2>1, <2>2, <2>3, <2>4, <1>2 DEF Named
<1>11. Registered'
  <2>1. \A q \in Peer, h \in Handle : by_in[q][h].who = Nobody => by_in[q][h] = Absent
    BY DEF Parts, Registered
  <2>2. ASSUME NEW q \in Peer, NEW h \in Handle, by_in[q][h].who # Nobody
        PROVE  /\ \E d \in End(q) :
                    /\ by_in[q][h].who = me'[<<q, d>>] /\ <<q, d>> \in clean'
                    /\ stage'[<<q, d>>] \notin {"idle", "allocating"} /\ (q = Client => stage'[<<q, d>>] = "heard")
                    /\ <<q, d>> \in parted' \/ slab[q][by_in[q][h].out] = me'[<<q, d>>]
               /\ by_in[q][h].out \in Handle
               /\ \A g \in Handle : by_in[q][g].who = by_in[q][h].who => g = h
    <3>1. /\ by_in[q][h].out \in Handle
          /\ \A g \in Handle : by_in[q][g].who = by_in[q][h].who => g = h
      BY <2>2 DEF Parts, Registered
    <3>2. PICK d \in End(q) :
                    /\ by_in[q][h].who = me[<<q, d>>] /\ <<q, d>> \in clean
                    /\ stage[<<q, d>>] \notin {"idle", "allocating"} /\ (q = Client => stage[<<q, d>>] = "heard")
                    /\ <<q, d>> \in parted \/ slab[q][by_in[q][h].out] = me[<<q, d>>]
      BY <2>2 DEF Parts, Registered
    <3>3. <<q, d>> # x
      BY <3>2, <1>4
    <3> QED
      BY Endpoints, Peers, <3>1, <3>2, <3>3, <1>1
  <2> QED
    BY <2>1, <2>2, <1>2 DEF Registered
<1>12. Pending'
  <2>1. ASSUME NEW q \in Peer, NEW h \in close_pending[q]
        PROVE  \E g \in Handle : \E d \in End(q) :
                 by_in[q][g].who = me'[<<q, d>>] /\ by_in[q][g].out = h /\ <<q, d>> \in parted'
    <3>1. PICK g \in Handle, d \in End(q) : by_in[q][g].who = me[<<q, d>>] /\ by_in[q][g].out = h /\ <<q, d>> \in parted
      BY DEF Parts, Pending
    <3> QED
      BY Endpoints, Peers, <3>1, <1>1, <1>4
  <2> QED
    BY <2>1, <1>2 DEF Pending
<1>13. awaited' = awaited /\ asks' = asks
  <2>1. ASSUME NEW n \in Names, NEW c \in End(Client)
        PROVE  /\ by_name[Client][n].who = me'[<<Client, c>>] /\ stage'[<<Client, c>>] = "asking"
               <=> by_name[Client][n].who = me[<<Client, c>>] /\ stage[<<Client, c>>] = "asking"
    BY Endpoints, Peers, <1>1, <1>5
  <2>2. awaited' = awaited
    BY <2>1, <1>2 DEF awaited
  <2> QED
    BY <2>2, <1>2 DEF asks
<1> QED
  BY <1>6, <1>7, <1>8, <1>9, <1>10, <1>11, <1>12, <1>13

\* The requests afterwards.
LEMMA BeginRequests ==
  ASSUME Parts, NEW p \in Peer, NEW e \in End(p), NEW m, Begins(p, e, m), NEW i, Request(p, e, i),
         p = Client => i = NoHandle,
         p = Listener => i \in Handle /\ i = by_name[Client][m.name].out
  PROVE  Requests' /\ control' \in [Peer -> Seq(Allocation)]
<1> DEFINE x == <<p, e>>
           c == [end |-> e, input |-> i]
<1>1. /\ x \in Endpoint /\ stage'[x] = "allocating" /\ stage[x] \in {"idle", "heard"} /\ called'[x] = m.name
      /\ \A y \in Endpoint : y # x => stage'[y] = stage[y] /\ called'[y] = called[y]
  BY BeginLinks, Endpoints
<1>2. by_name' = by_name
  BY DEF Begins, tables
<1>3. c \in Allocation /\ c.end = e /\ c.input = i
  <2>1. e \in Nat
    BY Ordinals
  <2>2. i \in Handle \cup {NoHandle}
    BY Peers
  <2> QED
    BY <2>1, <2>2 DEF Allocation
<1>4. control \in [Peer -> Seq(Allocation)] /\ control' = [control EXCEPT ![p] = Append(@, c)]
  BY DEF Parts, Typed, Request
<1> HIDE DEF c
<1>5. control' \in [Peer -> Seq(Allocation)]
  BY <1>3, <1>4
<1>6. /\ control[p] \in Seq(Allocation) /\ control'[p] = Append(control[p], c) /\ \A q \in Peer : q # p => control'[q] = control[q]
  BY <1>4
<1>7. \A q \in Peer : \A j \in 1 .. Len(control'[q]) :
        \/ j \in 1 .. Len(control[q]) /\ control'[q][j] = control[q][j]
        \/ q = p /\ j = Len(control[q]) + 1 /\ control'[q][j] = c
  BY <1>3, <1>6, Grown
<1>8. ASSUME NEW q \in Peer, NEW j \in 1 .. Len(control[q])
      PROVE  /\ control[q][j].end \in End(q) /\ <<q, control[q][j].end>> # x /\ stage'[<<q, control[q][j].end>>] = "allocating"
             /\ q = Client => control[q][j].input = NoHandle
             /\ q = Listener => /\ control[q][j].input \in Handle
                                /\ control[q][j].input = by_name[Client][called'[<<q, control[q][j].end>>]].out
             /\ \A k \in 1 .. Len(control[q]) : control[q][k].end = control[q][j].end => k = j
  <2>1. /\ control[q][j].end \in End(q) /\ stage[<<q, control[q][j].end>>] = "allocating"
        /\ q = Client => control[q][j].input = NoHandle
        /\ q = Listener => /\ control[q][j].input \in Handle
                           /\ control[q][j].input = by_name[Client][called[<<q, control[q][j].end>>]].out
        /\ \A k \in 1 .. Len(control[q]) : control[q][k].end = control[q][j].end => k = j
    BY DEF Parts, Requests
  <2>2. <<q, control[q][j].end>> \in Endpoint /\ <<q, control[q][j].end>> # x
    BY <2>1, <1>1, Endpoints
  <2> QED
    BY <2>1, <2>2, <1>1
<1>9. ASSUME NEW q \in Peer, NEW j \in 1 .. Len(control'[q])
      PROVE  /\ control'[q][j].end \in End(q) /\ stage'[<<q, control'[q][j].end>>] = "allocating"
             /\ q = Client => control'[q][j].input = NoHandle
             /\ q = Listener => /\ control'[q][j].input \in Handle
                                /\ control'[q][j].input = by_name[Client][called'[<<q, control'[q][j].end>>]].out
             /\ \A k \in 1 .. Len(control'[q]) : control'[q][k].end = control'[q][j].end => k = j
  <2>1. /\ control'[q][j].end \in End(q) /\ stage'[<<q, control'[q][j].end>>] = "allocating"
        /\ q = Client => control'[q][j].input = NoHandle
        /\ q = Listener => /\ control'[q][j].input \in Handle
                           /\ control'[q][j].input = by_name[Client][called'[<<q, control'[q][j].end>>]].out
    <3>1. CASE j \in 1 .. Len(control[q]) /\ control'[q][j] = control[q][j]
      BY <3>1, <1>8
    <3>2. CASE q = p /\ control'[q][j] = c
      BY <3>2, <1>1, <1>3
    <3> QED
      BY <3>1, <3>2, <1>7
  <2>2. ASSUME NEW k \in 1 .. Len(control'[q]), control'[q][k].end = control'[q][j].end
        PROVE  k = j
    <3>1. \A n \in 1 .. Len(control[q]) : <<q, control[q][n].end>> # x
      BY <1>8
    <3>2. q = p => <<q, c.end>> = x
      BY <1>3
    <3>3. CASE j \in 1 .. Len(control[q]) /\ control'[q][j] = control[q][j] /\ k \in 1 .. Len(control[q]) /\ control'[q][k] = control[q][k]
      BY <3>3, <2>2, <1>8
    <3> QED
      BY <3>1, <3>2, <3>3, <2>2, <1>7
  <2> QED
    BY <2>1, <2>2
<1>10. Requests'
  BY <1>2, <1>9 DEF Requests
<1> QED
  BY <1>5, <1>10

\* The client.
LEMMA BeginStep ==
  ASSUME Parts, NEW e \in End(Client), NEW m, Begins(Client, e, m), Request(Client, e, NoHandle),
         UNCHANGED <<wire, backlog, failure>>
  PROVE  Parts'
<1> DEFINE x == <<Client, e>>
<1>1. Client \in Peer /\ Listener \in Peer /\ x \in Endpoint
  BY Peers, Endpoints
<1>2. Requests' /\ control' \in [Peer -> Seq(Allocation)]
  BY <1>1, BeginRequests, Peers
<1>3. /\ Vacant' /\ Slots' /\ Holders' /\ Reached' /\ Named' /\ Registered' /\ Pending'
      /\ awaited' = awaited /\ asks' = asks
  BY <1>1, BeginParts
<1>4. /\ Shaped' /\ link' \in [Endpoint -> LinkRecord] /\ link'[x] = m
      /\ known' = known /\ past' = past /\ stage'[x] = "allocating" /\ stage[x] \in {"idle", "heard"}
      /\ \A y \in Endpoint : y # x => link'[y] = link[y] /\ stage'[y] = stage[y] /\ me'[y] = me[y] /\ called'[y] = called[y]
  BY <1>1, BeginLinks
<1>5. UNCHANGED <<slab, vacant, by_name, by_in, close_pending, frames, wire, backlog, failure>>
  BY DEF Begins, tables
<1>6. \A d \in End(Listener) : <<Listener, d>> \in Endpoint /\ <<Listener, d>> # x
  BY <1>1, Endpoints, Peers
<1>7. \A d \in End(Listener) : /\ stage'[<<Listener, d>>] = stage[<<Listener, d>>] /\ me'[<<Listener, d>>] = me[<<Listener, d>>]
                               /\ called'[<<Listener, d>>] = called[<<Listener, d>>] /\ link'[<<Listener, d>>] = link[<<Listener, d>>]
  BY <1>4, <1>6
<1>8. mate' = mate
  BY <1>7, SameMates
<1>9. answers' = answers
  BY <1>3, <1>5, <1>7, <1>8 DEF answers
<1>10. Typed'
  BY <1>2, <1>4, <1>5 DEF Parts, Typed
<1>11. Asks' /\ Mates'
  BY <1>3, <1>4, <1>5, <1>7, <1>8 DEF Parts, Asks, Mates
<1>12. Replies' /\ Detaching'
  BY <1>4, <1>5, <1>9 DEF Parts, Replies, Detaching
<1>13. ToListener'
  <2>1. ASSUME NEW h \in Handle, NEW c \in End(Client), slab[Client][h] = me'[<<Client, c>>], stage'[<<Client, c>>] = "heard"
        PROVE  by_in[Listener][h].who # Nobody /\ mate[by_in[Listener][h].who] = me'[<<Client, c>>]
    <3>1. <<Client, c>> # x /\ <<Client, c>> \in Endpoint
      BY <2>1, <1>1, <1>4, Endpoints
    <3>2. me'[<<Client, c>>] = me[<<Client, c>>] /\ stage[<<Client, c>>] = "heard"
      BY <2>1, <3>1, <1>4
    <3> QED
      BY <2>1, <3>2 DEF Parts, ToListener
  <2>2. control'[Listener] = control[Listener]
    BY <1>1, Peers DEF Parts, Typed, Request
  <2> QED
    BY <2>1, <2>2, <1>5, <1>8 DEF Parts, ToListener
<1>14. ToClient'
  BY <1>5, <1>7, <1>8 DEF Parts, ToClient
<1>15. Inboxes'
  <2>1. ASSUME NEW c \in End(Client)
        PROVE  /\ \A i \in 1 .. Len(link'[<<Client, c>>].inbox) :
                    /\ mate[link'[<<Client, c>>].inbox[i].from] = me'[<<Client, c>>]
                    /\ link'[<<Client, c>>].inbox[i].type = "Attach" =>
                         called'[<<Listener, link'[<<Client, c>>].inbox[i].from[1]>>] = called'[<<Client, c>>]
               /\ link'[<<Client, c>>].pc \in {"up", "waiting", "refused"} =>
                    mate[link'[<<Client, c>>].peer] = me'[<<Client, c>>]
    <3>1. CASE <<Client, c>> = x
      <4>1. m.inbox = <<>> /\ m.pc = "allocating"
        BY DEF Begins
      <4> QED
        BY <3>1, <4>1, <1>4
    <3>2. CASE <<Client, c>> # x
      <4>1. /\ link'[<<Client, c>>] = link[<<Client, c>>] /\ me'[<<Client, c>>] = me[<<Client, c>>]
            /\ called'[<<Client, c>>] = called[<<Client, c>>]
        BY <3>2, <1>1, <1>4, Endpoints
      <4>2. \A i \in 1 .. Len(link[<<Client, c>>].inbox) : mate[link[<<Client, c>>].inbox[i].from] = me[<<Client, c>>]
        BY DEF Parts, Inboxes
      <4>3. ASSUME NEW i \in 1 .. Len(link[<<Client, c>>].inbox)
            PROVE  called'[<<Listener, link[<<Client, c>>].inbox[i].from[1]>>] = called[<<Listener, link[<<Client, c>>].inbox[i].from[1]>>]
        <5>1. mate[link[<<Client, c>>].inbox[i].from] # Nobody /\ link[<<Client, c>>].inbox[i].from \in Attachment
          <6>1. link[<<Client, c>>].inbox \in Seq(Frame)
            BY <1>1, LinkFields DEF Parts
          <6>2. link[<<Client, c>>].inbox[i] \in Frame
            BY <6>1
          <6> QED
            BY <4>2, <6>2, <1>1, Abbreviated DEF Parts, Frame
        <5>2. link[<<Client, c>>].inbox[i].from[1] \in End(Listener)
          BY <5>1 DEF mate
        <5> QED
          BY <5>2, <1>7
      <4> QED
        BY <4>1, <4>2, <4>3 DEF Parts, Inboxes
    <3> QED
      BY <3>1, <3>2
  <2> QED
    BY <2>1, <1>7, <1>8 DEF Parts, Inboxes
<1> QED
  BY <1>2, <1>3, <1>4, <1>10, <1>11, <1>12, <1>13, <1>14, <1>15 DEF Parts

\* attach() asks for a handle,
LEMMA AttachStep ==
  ASSUME Parts, NEW e \in End(Client), NEW n \in Names, Attach(e, n)
  PROVE  Parts'
<1> DEFINE x == <<Client, e>>
           m == [link[x] EXCEPT !.pc = "allocating", !.name = n, !.life = @ + 1]
<1>1. Client \in Peer /\ x \in Endpoint /\ link[x] \in LinkRecord /\ Shape(x, link[x]) /\ x[1] = Client
  BY Peers, Endpoints, LinkFields DEF Parts, Shaped
<1>2. /\ link[x].pc = "idle" /\ link' = [link EXCEPT ![x] = m] /\ Request(Client, e, NoHandle)
      /\ UNCHANGED <<tables, frames, wire, backlog, failure, mishap>>
  BY DEF Attach
<1>3. /\ m \in LinkRecord /\ m.pc = "allocating" /\ m.life = link[x].life + 1 /\ m.inbox = link[x].inbox /\ m.name = n
      /\ m.asked = link[x].asked /\ link[x].life \in Nat /\ m.asked \in Nat
  <2>1. link[x].life \in Nat /\ link[x].asked \in Nat
    BY <1>1 DEF LinkRecord
  <2>2. link[x].life + 1 \in Nat
    BY <2>1
  <2> QED
    BY <1>1, <2>1, <2>2 DEF LinkRecord, InUse
<1> HIDE DEF m
<1>4. link[x].inbox = <<>> /\ Shape(x, m)
  <2>1. /\ link[x].inbox = <<>> /\ link[x].asked <= link[x].life /\ x[1] # Listener
    BY <1>1, <1>2, Peers DEF Shape
  <2>2. m.asked < m.life /\ m.life # 0
    BY <1>3, <2>1
  <2> QED
    BY <1>3, <2>1, <2>2 DEF Shape
<1>5. Begins(Client, e, m)
  BY <1>2, <1>3, <1>4 DEF Begins, Becomes
<1> QED
  BY <1>2, <1>5, BeginStep

\* and so does resume().
LEMMA ResumeStep ==
  ASSUME Parts, NEW p \in Peer, NEW e \in End(p), Resume(p, e)
  PROVE  Parts'
<1> DEFINE x == <<p, e>>
           m == [link[x] EXCEPT !.pc = "allocating", !.goal = "resume", !.inbox = <<>>, !.life = @ + 1, !.resumes = @ + 1]
<1>1. x \in Endpoint /\ link[x] \in LinkRecord /\ Shape(x, link[x]) /\ x[1] = p
  BY Endpoints, LinkFields DEF Parts, Shaped
<1>2. /\ p = Client /\ link[x].pc = "suspended" /\ link' = [link EXCEPT ![x] = m] /\ Request(p, e, NoHandle)
      /\ UNCHANGED <<tables, frames, wire, backlog, failure, mishap>>
  BY DEF Resume
<1>3. /\ m \in LinkRecord /\ m.pc = "allocating" /\ m.life = link[x].life + 1 /\ m.inbox = <<>> /\ m.name = link[x].name
      /\ m.asked = link[x].asked /\ link[x].life \in Nat /\ m.asked \in Nat
  <2>1. link[x].life \in Nat /\ link[x].resumes \in Nat /\ link[x].asked \in Nat
    BY <1>1 DEF LinkRecord
  <2>2. <<>> \in Seq(Frame) /\ link[x].life + 1 \in Nat /\ link[x].resumes + 1 \in Nat
    BY <2>1
  <2> QED
    BY <1>1, <2>1, <2>2 DEF LinkRecord, InUse
<1> HIDE DEF m
<1>4. Shape(x, m)
  <2>1. link[x].name \in Names /\ link[x].asked <= link[x].life /\ x[1] # Listener
    BY <1>1, <1>2, Peers DEF Shape
  <2>2. m.asked < m.life /\ m.life # 0
    BY <1>3, <2>1
  <2> QED
    BY <1>3, <2>1, <2>2 DEF Shape
<1>5. Begins(Client, e, m)
  BY <1>2, <1>3, <1>4 DEF Begins, Becomes
<1> QED
  BY <1>2, <1>5, BeginStep

\* accept() takes an Attach from the backlog and asks for a handle.
LEMMA AcceptStep ==
  ASSUME Parts, NEW e \in End(Listener), Accept(e)
  PROVE  Parts'
<1> DEFINE x == <<Listener, e>>
           f == Head(backlog)
           m == [link[x] EXCEPT !.pc = "allocating", !.name = f.name, !.life = @ + 1, !.peer = f.from]
           b1 == <<e, 1>>
<1>1. /\ Client \in Peer /\ Listener \in Peer /\ x \in Endpoint /\ link[x] \in LinkRecord /\ Shape(x, link[x])
      /\ x[1] = Listener /\ x[2] = e /\ e \in Nat
  BY Peers, Endpoints, LinkFields, Ordinals DEF Parts, Shaped
<1>2. /\ link[x].pc = "idle" /\ link' = [link EXCEPT ![x] = m] /\ Request(Listener, e, f.handle)
      /\ backlog # <<>> /\ backlog' = Tail(backlog) /\ UNCHANGED <<tables, frames, wire, failure, mishap>>
  BY DEF Accept
<1>3. /\ backlog \in Seq(Frame) /\ f = backlog[1] /\ 1 \in 1 .. Len(backlog) /\ f \in Frame /\ f.type = "Attach" /\ f \in asks
      /\ backlog' \in Seq(Frame)
  <2>1. backlog \in Seq(Frame)
    BY DEF Parts, Typed
  <2>2. f = backlog[1] /\ 1 \in 1 .. Len(backlog) /\ f \in Frame /\ Tail(backlog) \in Seq(Frame)
    BY <1>2, <2>1, Shrunk
  <2>3. f.type = "Attach" /\ f \in asks
    BY <2>2 DEF Parts, Asks, All
  <2> QED
    BY <1>2, <2>1, <2>2, <2>3
<1>4. PICK c0 \in End(Client) :
        /\ f.from = me[<<Client, c0>>] /\ stage[<<Client, c0>>] = "asking"
        /\ f.handle \in Handle /\ f.name \in awaited
        /\ by_name[Client][f.name].who = f.from /\ by_name[Client][f.name].out = f.handle
  BY <1>3, AskingLink
<1>5. f.name \in Names /\ f.from \in known[Client] /\ f.from # Nobody /\ f.from \in Attachment
  <2>1. f.name \in Names
    BY <1>4, AwaitedLink
  <2>2. f.from \in known[Client]
    BY <1>1, <1>4, Heard DEF Parts
  <2> QED
    BY <2>1, <2>2, <1>1, Abbreviated DEF Parts
<1>6. /\ m \in LinkRecord /\ m.pc = "allocating" /\ m.life = link[x].life + 1 /\ m.inbox = link[x].inbox /\ m.name = f.name
      /\ m.asked = link[x].asked /\ link[x].life \in Nat /\ m.asked \in Nat /\ m.goal = link[x].goal /\ m.peer = f.from
  <2>1. link[x].life \in Nat /\ link[x].asked \in Nat
    BY <1>1 DEF LinkRecord
  <2>2. link[x].life + 1 \in Nat
    BY <2>1
  <2> QED
    BY <1>1, <1>5, <2>1, <2>2 DEF LinkRecord, InUse
<1> HIDE DEF m, f
<1>7. m.life = 1 /\ m.inbox = <<>> /\ Shape(x, m)
  <2>1. /\ link[x].inbox = <<>> /\ link[x].asked <= link[x].life /\ link[x].goal = "attach" /\ link[x].life = 0
    BY <1>1, <1>2 DEF Shape
  <2>2. m.asked < m.life /\ m.life = 1
    BY <1>6, <2>1
  <2> QED
    BY <1>1, <1>5, <1>6, <2>1, <2>2 DEF Shape
<1>8. Begins(Listener, e, m)
  BY <1>2, <1>6, <1>7 DEF Begins, Becomes
<1>9. Requests' /\ control' \in [Peer -> Seq(Allocation)]
  BY <1>1, <1>2, <1>4, <1>6, <1>8, BeginRequests, Peers
<1>10. /\ Vacant' /\ Slots' /\ Holders' /\ Reached' /\ Named' /\ Registered' /\ Pending'
       /\ awaited' = awaited /\ asks' = asks
  BY <1>1, <1>8, BeginParts
<1>11. /\ Shaped' /\ link' \in [Endpoint -> LinkRecord] /\ link'[x] = m
       /\ known' = known /\ past' = past /\ stage'[x] = "allocating" /\ stage[x] \in {"idle", "heard"}
       /\ called'[x] = f.name /\ me'[x] = b1
       /\ \A y \in Endpoint : y # x => link'[y] = link[y] /\ stage'[y] = stage[y] /\ me'[y] = me[y] /\ called'[y] = called[y]
  BY <1>1, <1>6, <1>7, <1>8, BeginLinks
<1>12. UNCHANGED <<slab, vacant, by_name, by_in, close_pending, frames, wire, failure>>
  BY <1>2 DEF tables
<1>13. Typed'
  BY <1>3, <1>9, <1>11, <1>12 DEF Parts, Typed
<1>14. \A c \in End(Client) :
         /\ stage'[<<Client, c>>] = stage[<<Client, c>>] /\ me'[<<Client, c>>] = me[<<Client, c>>]
         /\ called'[<<Client, c>>] = called[<<Client, c>>] /\ link'[<<Client, c>>] = link[<<Client, c>>]
  <2>1. \A c \in End(Client) : <<Client, c>> \in Endpoint /\ <<Client, c>> # x
    BY <1>1, Endpoints, Peers
  <2> QED
    BY <2>1, <1>11
<1>15. \A d \in End(Listener) : d # e =>
         /\ stage'[<<Listener, d>>] = stage[<<Listener, d>>] /\ me'[<<Listener, d>>] = me[<<Listener, d>>]
         /\ called'[<<Listener, d>>] = called[<<Listener, d>>] /\ link'[<<Listener, d>>] = link[<<Listener, d>>]
  <2>1. \A d \in End(Listener) : d # e => <<Listener, d>> \in Endpoint /\ <<Listener, d>> # x
    BY <1>1, Endpoints
  <2> QED
    BY <2>1, <1>11
<1>16. /\ b1 \in Attachment /\ mate[b1] = Nobody /\ mate'[b1] = f.from /\ b1 \notin past[Listener]
       /\ \A b \in Attachment : b # b1 => mate'[b] = mate[b]
       /\ \A b \in Attachment : mate[b] # Nobody => b # b1 /\ b[1] \in End(Listener) /\ b[1] # e
  <2>1. b1 \in Attachment /\ b1[1] = e /\ b1[2] = 1
    BY <1>1 DEF Attachment
  <2>2. mate[b1] = Nobody
    BY <2>1, <1>2 DEF mate
  <2>3. mate'[b1] = f.from
    BY <2>1, <1>6, <1>11 DEF mate
  <2>4. b1 \notin past[Listener]
    <3>1. link[x].life = 0
      BY <1>1, <1>2 DEF Shape
    <3> QED
      BY <1>1, <2>1, <3>1 DEF past, Upto
  <2>5. ASSUME NEW b \in Attachment, b # b1
        PROVE  mate'[b] = mate[b]
    <3>1. CASE b[1] \in End(Listener) /\ b[1] # e
      <4>1. link'[<<Listener, b[1]>>] = link[<<Listener, b[1]>>]
        BY <3>1, <1>15
      <4> QED
        BY <3>1, <4>1 DEF mate
    <3>2. CASE b[1] = e
      <4>1. b[2] # 1
        BY <2>5, <3>2 DEF Attachment
      <4> QED
        BY <4>1 DEF mate
    <3>3. CASE b[1] \notin End(Listener)
      BY <3>3 DEF mate
    <3> QED
      BY <3>1, <3>2, <3>3
  <2>6. ASSUME NEW b \in Attachment, mate[b] # Nobody
        PROVE  b # b1 /\ b[1] \in End(Listener) /\ b[1] # e
    BY <2>2, <2>6, <1>2 DEF mate
  <2> QED
    BY <2>1, <2>2, <2>3, <2>4, <2>5, <2>6
<1>17. \A d \in End(Listener) : /\ me[<<Listener, d>>] \in Attachment
                                /\ d # e => me[<<Listener, d>>] # b1 /\ mate'[me[<<Listener, d>>]] = mate[me[<<Listener, d>>]]
  <2>1. \A d \in End(Listener) : me[<<Listener, d>>] = <<d, link[<<Listener, d>>].life>> /\ me[<<Listener, d>>] \in Attachment
    BY <1>1, Abbreviated DEF Parts
  <2>2. \A d \in End(Listener) : d # e => me[<<Listener, d>>] # b1
    BY <2>1
  <2> QED
    BY <2>1, <2>2, <1>16
<1>18. \A h \in Handle : \A d \in End(Listener) :
         /\ slab[Listener][h] = me'[<<Listener, d>>] => d # e
         /\ by_in[Listener][h].who = me[<<Listener, d>>] => d # e
  BY <1>1, <1>8, BeginTables
<1>19. Asks' /\ NotIn(frames[Client], f.from) /\ NotIn(wire[Client], f.from) /\ NotIn(backlog', f.from)
  <2>1. frames[Client] \in Seq(Frame) /\ wire[Client] \in Seq(Frame)
    BY <1>1 DEF Parts, Typed
  <2>2. All(backlog', asks) /\ Once(backlog') /\ NotIn(backlog', f.from)
    BY <1>2, <1>3, AttachTaken DEF Parts, Asks
  <2>3. /\ Apart(frames[Client], backlog') /\ NotIn(frames[Client], f.from)
        /\ Apart(wire[Client], backlog') /\ NotIn(wire[Client], f.from)
    BY <2>1, <1>2, <1>3, AttachTaken DEF Parts, Asks
  <2>4. \A i \in 1 .. Len(backlog') : backlog'[i].type = "Attach"
    <3>1. \A i \in 1 .. Len(backlog') : i + 1 \in 1 .. Len(backlog) /\ backlog'[i] = backlog[i + 1]
      BY <1>2, <1>3, Shrunk
    <3> QED
      BY <3>1 DEF Parts, Asks
  <2> QED
    BY <2>2, <2>3, <2>4, <1>10, <1>12 DEF Parts, Asks
<1>20. Mates'
  <2>1. ASSUME NEW b \in Attachment, mate[b] # Nobody
        PROVE  mate[b] # f.from /\ NotIn(backlog', mate[b])
    <3>1. NotIn(backlog, mate[b])
      BY <2>1 DEF Parts, Mates
    <3> QED
      BY <3>1, <1>2, <1>3, AttachTaken
  <2>2. ASSUME NEW b \in Attachment, mate'[b] # Nobody
        PROVE  /\ NotIn(frames[Client], mate'[b]) /\ NotIn(wire[Client], mate'[b]) /\ NotIn(backlog', mate'[b])
               /\ mate'[b] \in known[Client]
               /\ \A d \in Attachment : mate'[d] = mate'[b] => d = b
    <3>1. CASE b = b1
      <4>1. \A d \in Attachment : mate'[d] = mate'[b] => d = b
        BY <3>1, <2>1, <1>5, <1>16
      <4> QED
        BY <3>1, <4>1, <1>5, <1>16, <1>19
    <3>2. CASE b # b1
      <4>1. mate[b] # Nobody /\ mate'[b] = mate[b]
        BY <2>2, <3>2, <1>16
      <4>2. /\ NotIn(frames[Client], mate[b]) /\ NotIn(wire[Client], mate[b])
            /\ mate[b] \in known[Client] /\ \A d \in Attachment : mate[d] = mate[b] => d = b
        BY <4>1 DEF Parts, Mates
      <4>3. \A d \in Attachment : mate'[d] = mate'[b] => d = b
        BY <4>1, <4>2, <2>1, <1>16
      <4> QED
        BY <4>1, <4>2, <4>3, <2>1
    <3> QED
      BY <3>1, <3>2
  <2>3. ASSUME NEW d \in End(Listener)
        PROVE  /\ stage'[<<Listener, d>>] # "idle" => mate'[me'[<<Listener, d>>]] # Nobody
               /\ stage'[<<Listener, d>>] \in {"allocating", "allocated"} =>
                    /\ called'[<<Listener, d>>] \in awaited
                    /\ by_name[Client][called'[<<Listener, d>>]].who = mate'[me'[<<Listener, d>>]]
               /\ stage'[<<Listener, d>>] = "allocated" =>
                    by_in[Listener][by_name[Client][called'[<<Listener, d>>]].out].who = me'[<<Listener, d>>]
    <3>1. CASE d = e
      BY <3>1, <1>4, <1>5, <1>11, <1>16
    <3>2. CASE d # e
      BY <3>2, <1>15, <1>17 DEF Parts, Mates
    <3> QED
      BY <3>1, <3>2
  <2> QED
    BY <2>2, <2>3, <1>10, <1>11, <1>12 DEF Mates
<1>21. answers \subseteq answers'
  <2>1. SUFFICES ASSUME NEW g \in answers, g.type = "Attach"
                 PROVE  \E d \in End(Listener) :
                          /\ g.from = me'[<<Listener, d>>] /\ stage'[<<Listener, d>>] = "heard" /\ g.name = called'[<<Listener, d>>]
                          /\ g.name \in awaited' /\ by_name'[Client][g.name].who = mate'[g.from]
                          /\ by_in'[Listener][by_name'[Client][g.name].out].who = g.from
    BY DEF answers
  <2>2. PICK d \in End(Listener) :
          /\ g.from = me[<<Listener, d>>] /\ stage[<<Listener, d>>] = "heard" /\ g.name = called[<<Listener, d>>]
          /\ g.name \in awaited /\ by_name[Client][g.name].who = mate[g.from]
          /\ by_in[Listener][by_name[Client][g.name].out].who = g.from
    BY <2>1 DEF answers
  <2>3. d # e
    <3>1. stage[x] = "idle"
      BY <1>1, <1>2 DEF stage
    <3> QED
      BY <2>2, <3>1
  <2> QED
    BY <2>2, <2>3, <1>10, <1>12, <1>15, <1>17
<1>22. Replies' /\ Detaching'
  <2>1. All(frames[Listener], answers') /\ All(wire[Listener], answers')
    BY <1>21, AllMonotone DEF Parts, Replies
  <2> QED
    BY <2>1, <1>11, <1>12 DEF Parts, Replies, Detaching
<1>23. \A g \in Handle : by_in[Listener][g].who # Nobody => mate'[by_in[Listener][g].who] = mate[by_in[Listener][g].who]
  <2>1. ASSUME NEW g \in Handle, by_in[Listener][g].who # Nobody
        PROVE  mate'[by_in[Listener][g].who] = mate[by_in[Listener][g].who]
    <3>1. PICK d \in End(Listener) : by_in[Listener][g].who = me[<<Listener, d>>]
      BY <2>1, <1>1 DEF Parts, Registered
    <3> QED
      BY <3>1, <1>17, <1>18
  <2> QED
    BY <2>1
<1>24. ToListener'
  <2>1. \A h \in Handle : \A c \in End(Client) :
          slab[Client][h] = me'[<<Client, c>>] /\ stage'[<<Client, c>>] = "heard" =>
            by_in[Listener][h].who # Nobody /\ mate'[by_in[Listener][h].who] = me'[<<Client, c>>]
    BY <1>14, <1>23 DEF Parts, ToListener
  <2>2. ASSUME NEW j \in 1 .. Len(wire[Client]), wire[Client][j].type = "Detach"
        PROVE  /\ by_in[Listener][wire[Client][j].handle].who # Nobody
               /\ mate'[by_in[Listener][wire[Client][j].handle].who] = wire[Client][j].from
               /\ \A i \in 1 .. j - 1 : wire[Client][i].handle # wire[Client][j].handle
               /\ \A i \in 1 .. Len(backlog') : backlog'[i].handle # wire[Client][j].handle
               /\ \A i \in 1 .. Len(control'[Listener]) : control'[Listener][i].input # wire[Client][j].handle
    <3>1. /\ by_in[Listener][wire[Client][j].handle].who # Nobody
          /\ mate[by_in[Listener][wire[Client][j].handle].who] = wire[Client][j].from
          /\ \A i \in 1 .. j - 1 : wire[Client][i].handle # wire[Client][j].handle
          /\ \A i \in 1 .. Len(backlog) : backlog[i].handle # wire[Client][j].handle
          /\ \A i \in 1 .. Len(control[Listener]) : control[Listener][i].input # wire[Client][j].handle
      BY <2>2 DEF Parts, ToListener
    <3>2. wire[Client][j].handle \in Handle
      <4>1. wire[Client] \in Seq(Frame)
        BY <1>1 DEF Parts, Typed
      <4>2. wire[Client][j] \in Frame
        BY <4>1
      <4> QED
        BY <4>2 DEF Frame
    <3>3. \A i \in 1 .. Len(backlog') : i + 1 \in 1 .. Len(backlog) /\ backlog'[i] = backlog[i + 1]
      BY <1>2, <1>3, Shrunk
    <3>4. ASSUME NEW i \in 1 .. Len(control'[Listener])
          PROVE  control'[Listener][i].input # wire[Client][j].handle
      <4> DEFINE c == [end |-> e, input |-> f.handle]
      <4>1. control \in [Peer -> Seq(Allocation)] /\ control' = [control EXCEPT ![Listener] = Append(@, c)]
        BY <1>2 DEF Parts, Typed, Request
      <4>2. c.input = f.handle /\ c \in Allocation
        BY <1>1, <1>4 DEF Allocation
      <4> HIDE DEF c
      <4>3. control[Listener] \in Seq(Allocation) /\ control'[Listener] = Append(control[Listener], c)
        BY <1>1, <4>1
      <4>4. \/ i \in 1 .. Len(control[Listener]) /\ control'[Listener][i] = control[Listener][i]
            \/ control'[Listener][i] = c
        BY <4>2, <4>3, Grown
      <4> QED
        BY <4>2, <4>4, <3>1, <1>3
    <3> QED
      BY <3>1, <3>2, <3>3, <3>4, <1>23
  <2>3. \A g \in Handle : by_in[Listener][g].who # Nobody =>
          \/ slab[Client][g] = mate'[by_in[Listener][g].who]
          \/ \E j \in 1 .. Len(wire[Client]) : DetachOf(wire[Client][j], mate'[by_in[Listener][g].who], g)
    BY <1>23 DEF Parts, ToListener
  <2> QED
    BY <2>1, <2>2, <2>3, <1>12 DEF ToListener
<1>25. ToClient'
  <2>1. ASSUME NEW h \in Handle, NEW d \in End(Listener), slab[Listener][h] = me'[<<Listener, d>>],
               stage'[<<Listener, d>>] # "allocated", NotIn(frames[Listener], me'[<<Listener, d>>])
        PROVE  Open(wire[Listener], Len(wire[Listener]) + 1, me'[<<Listener, d>>], h, by_in[Client], mate'[me'[<<Listener, d>>]])
    <3>1. d # e
      BY <2>1, <1>18
    <3> QED
      BY <2>1, <3>1, <1>15, <1>17 DEF Parts, ToClient
  <2>2. ASSUME NEW j \in 1 .. Len(wire[Listener]), wire[Listener][j].type = "Detach"
        PROVE  Open(wire[Listener], j, wire[Listener][j].from, wire[Listener][j].handle, by_in[Client], mate'[wire[Listener][j].from])
    <3>1. wire[Listener][j].from \in past[Listener]
      BY <2>2, <1>1 DEF Parts, Detaching
    <3>2. wire[Listener][j].from \in Attachment /\ wire[Listener][j].from # b1
      BY <3>1, <1>1, <1>16, Abbreviated DEF Parts
    <3> QED
      BY <2>2, <3>2, <1>16 DEF Parts, ToClient
  <2>3. ASSUME NEW g \in Handle, by_in[Client][g].who # Nobody
        PROVE  \E b \in Attachment :
                 /\ mate'[b] = by_in[Client][g].who
                 /\ \/ slab[Listener][g] = b
                    \/ \E j \in 1 .. Len(wire[Listener]) : DetachOf(wire[Listener][j], b, g)
    <3>1. PICK b \in Attachment :
                 /\ mate[b] = by_in[Client][g].who
                 /\ \/ slab[Listener][g] = b
                    \/ \E j \in 1 .. Len(wire[Listener]) : DetachOf(wire[Listener][j], b, g)
      BY <2>3 DEF Parts, ToClient
    <3>2. mate'[b] = mate[b]
      BY <2>3, <3>1, <1>16
    <3> QED
      BY <3>1, <3>2
  <2> QED
    BY <2>1, <2>2, <2>3, <1>12 DEF ToClient
<1>26. Inboxes'
  <2>1. ASSUME NEW c \in End(Client)
        PROVE  /\ \A i \in 1 .. Len(link[<<Client, c>>].inbox) :
                    /\ mate'[link[<<Client, c>>].inbox[i].from] = me[<<Client, c>>]
                    /\ link[<<Client, c>>].inbox[i].type = "Attach" =>
                         called'[<<Listener, link[<<Client, c>>].inbox[i].from[1]>>] = called[<<Client, c>>]
               /\ link[<<Client, c>>].pc \in {"up", "waiting", "refused"} => mate'[link[<<Client, c>>].peer] = me[<<Client, c>>]
    <3>1. me[<<Client, c>>] # Nobody /\ link[<<Client, c>>].inbox \in Seq(Frame) /\ link[<<Client, c>>].peer \in Attachment
      BY <1>1, Abbreviated, LinkFields DEF Parts
    <3>2. ASSUME NEW i \in 1 .. Len(link[<<Client, c>>].inbox)
          PROVE  /\ mate'[link[<<Client, c>>].inbox[i].from] = me[<<Client, c>>]
                 /\ link[<<Client, c>>].inbox[i].type = "Attach" =>
                      called'[<<Listener, link[<<Client, c>>].inbox[i].from[1]>>] = called[<<Client, c>>]
      <4> DEFINE g == link[<<Client, c>>].inbox[i]
      <4>1. g \in Frame
        BY <3>1
      <4>2. mate[g.from] = me[<<Client, c>>] /\ (g.type = "Attach" => called[<<Listener, g.from[1]>>] = called[<<Client, c>>])
        BY DEF Parts, Inboxes
      <4>3. g.from \in Attachment
        BY <4>1 DEF Frame
      <4> HIDE DEF g
      <4>4. mate'[g.from] = mate[g.from] /\ called'[<<Listener, g.from[1]>>] = called[<<Listener, g.from[1]>>]
        BY <3>1, <4>2, <4>3, <1>15, <1>16
      <4> QED
        BY <4>2, <4>4 DEF g
    <3>3. ASSUME link[<<Client, c>>].pc \in {"up", "waiting", "refused"}
          PROVE  mate'[link[<<Client, c>>].peer] = me[<<Client, c>>]
      <4>1. mate[link[<<Client, c>>].peer] = me[<<Client, c>>]
        BY <3>3 DEF Parts, Inboxes
      <4> QED
        BY <3>1, <4>1, <1>16
    <3> QED
      BY <3>2, <3>3
  <2>2. ASSUME NEW d \in End(Listener), NEW i \in 1 .. Len(link'[<<Listener, d>>].inbox)
        PROVE  /\ link'[<<Listener, d>>].inbox[i].type = "Detach"
               /\ link'[<<Listener, d>>].inbox[i].from = mate'[me'[<<Listener, d>>]]
    <3>1. CASE d = e
      BY <3>1, <2>2, <1>7, <1>11
    <3>2. CASE d # e
      <4>1. link'[<<Listener, d>>] = link[<<Listener, d>>] /\ mate'[me'[<<Listener, d>>]] = mate[me[<<Listener, d>>]]
        BY <3>2, <1>15, <1>17
      <4> QED
        BY <2>2, <4>1 DEF Parts, Inboxes
    <3> QED
      BY <3>1, <3>2
  <2> QED
    BY <2>1, <2>2, <1>14 DEF Inboxes
<1> QED
  BY <1>9, <1>10, <1>11, <1>13, <1>19, <1>20, <1>22, <1>24, <1>25, <1>26 DEF Parts

-----------------------------------------------------------------------------
(* The listener's Attach.                                                  *)

\* The answer, and the Detach behind it, are frames added one by one.
LEMMA Concatenated ==
  ASSUME NEW S, NEW s \in Seq(S), NEW f \in S, NEW g \in S
  PROVE  s \o <<f>> \o <<>> = Append(s, f) /\ s \o <<f>> \o <<g>> = Append(Append(s, f), g)
<1>1. s \o <<f>> = Append(s, f)
  OBVIOUS
<1>2. Append(s, f) \in Seq(S)
  OBVIOUS
<1>3. \A t \in Seq(S) : t \o <<>> = t /\ t \o <<g>> = Append(t, g)
  OBVIOUS
<1> QED
  BY <1>1, <1>2, <1>3

\* The listener answers, and refuses or not.
LEMMA AnswerAttachStep ==
  ASSUME Parts, NEW e \in End(Listener), NEW refuse \in BOOLEAN, AnswerAttach(e, refuse)
  PROVE  Parts'
<1> DEFINE x == <<Listener, e>>
           l == link[x]
           m == IF refuse THEN Refused(l) ELSE [l EXCEPT !.state = "Attached", !.pc = "up"]
           f == AttachFrame(me[x], l.name, l.handle, refuse)
           g == DetachFrame(me[x], l.handle, TRUE)
<1>1. /\ Client \in Peer /\ Listener \in Peer /\ Client # Listener /\ x \in Endpoint /\ l \in LinkRecord /\ Shape(x, l)
      /\ x[1] = Listener /\ x[2] = e /\ Me(Listener, e) = me[x] /\ me[x] \in Attachment
  BY Peers, Endpoints, LinkFields, Abbreviated DEF Parts, Shaped
<1>2. /\ l.pc = "allocated" /\ link' = [link EXCEPT ![x] = m]
      /\ UNCHANGED <<tables, control, wire, backlog, failure, mishap>>
  BY DEF AnswerAttach
<1>3. l.handle \in Handle /\ l.name \in Names /\ l.inbox = <<>> /\ l.goal = "attach" /\ l.life <= 1 /\ l.asked < l.life
  BY <1>1, <1>2 DEF Shape
<1>4. /\ f \in Frame /\ f.type = "Attach" /\ f.from = me[x] /\ f.name = l.name /\ f.handle = l.handle
      /\ g \in Frame /\ g.type = "Detach" /\ g.from = me[x] /\ g.handle = l.handle
  BY <1>1, <1>3 DEF AttachFrame, DetachFrame, Frame
<1>5. frames \in [Peer -> Seq(Frame)] /\ wire \in [Peer -> Seq(Frame)]
  BY DEF Parts, Typed
<1>6. frames' = [frames EXCEPT ![Listener] = IF refuse THEN Append(Append(@, f), g) ELSE Append(@, f)]
  <2>1. frames' = [frames EXCEPT ![Listener] = @ \o <<f>> \o (IF refuse THEN <<g>> ELSE <<>>)]
    BY <1>1 DEF AnswerAttach
  <2>2. frames[Listener] \in Seq(Frame)
    BY <1>1, <1>5
  <2> HIDE DEF f, g
  <2>3. /\ frames[Listener] \o <<f>> \o <<>> = Append(frames[Listener], f)
        /\ frames[Listener] \o <<f>> \o <<g>> = Append(Append(frames[Listener], f), g)
    BY <1>4, <2>2, Concatenated
  <2> QED
    BY <2>1, <2>3
<1>7. /\ m \in LinkRecord /\ m.pc = (IF refuse THEN "refused" ELSE "up") /\ m.inbox = l.inbox /\ m.name = l.name /\ m.life = l.life
      /\ m.asked = l.asked /\ m.goal = l.goal /\ m.peer = l.peer /\ (~refuse => m.state = "Attached" /\ m.handle = l.handle)
  <2>1. CASE refuse
    BY <1>1, <2>1 DEF Refused, Closing, LinkRecord, LinkStates, InUse
  <2>2. CASE ~refuse
    BY <1>1, <2>2 DEF LinkRecord, LinkStates
  <2> QED
    BY <2>1, <2>2
<1> HIDE DEF m, f, g, l
<1>8. Becomes(x, m) /\ Shape(x, m)
  <2>1. Shape(x, m)
    BY <1>1, <1>2, <1>3, <1>7 DEF Shape
  <2> QED
    BY <2>1, <1>2, <1>7 DEF Becomes
<1>9. UNCHANGED <<slab, vacant, by_name, by_in, close_pending, control, wire, backlog, failure>>
  BY <1>2 DEF tables
<1>10. stage[x] = "allocated" /\ held[x] = l.handle /\ called[x] = l.name /\ x \in clean
  <2>1. stage[x] = "allocated" /\ held[x] = l.handle /\ called[x] = l.name
    BY <1>1, <1>2 DEF stage, held, called, l
  <2>2. \A i \in 1 .. Len(l.inbox) : FALSE
    BY <1>3
  <2> QED
    BY <2>1, <2>2, <1>1, <1>2 DEF clean, l
<1>11. /\ link' \in [Endpoint -> LinkRecord] /\ Shaped' /\ link'[x] = m
       /\ \A y \in Endpoint : y # x => stage'[y] = stage[y] /\ link'[y] = link[y] /\ held'[y] = held[y]
       /\ me' = me /\ called' = called /\ parted' = parted /\ clean \subseteq clean' /\ stage'[x] = "heard"
       /\ held'[x] = IF refuse THEN NoHandle ELSE held[x]
  <2>1. /\ \A y \in Endpoint : y # x =>
              /\ link'[y] = link[y] /\ stage'[y] = stage[y] /\ called'[y] = called[y]
              /\ held'[y] = held[y] /\ (y \in clean' <=> y \in clean) /\ (y \in parted' <=> y \in parted)
        /\ link'[x] = m /\ stage'[x] = "heard" /\ called'[x] = m.name
        /\ held'[x] = (IF refuse THEN NoHandle ELSE m.handle)
        /\ x \in parted' <=> m.asked = m.life
        /\ link' \in [Endpoint -> LinkRecord]
    BY <1>1, <1>7, <1>8, OneLink DEF Parts
  <2>2. x \in clean'
    <3>1. \A i \in 1 .. Len(m.inbox) : FALSE
      BY <1>3, <1>7
    <3> QED
      BY <3>1, <1>1, <1>7, <1>8, OneLink DEF Parts
  <2>3. called'[x] = called[x] /\ (x \in parted' <=> x \in parted)
    BY <2>1, <1>1, <1>7, <1>10 DEF parted, l
  <2>4. me' = me
    BY <1>1, <1>7, <1>8, OneStage DEF Parts, l
  <2>5. Shaped'
    BY <1>1, <1>8, OneShape DEF Parts
  <2> QED
    BY <2>1, <2>2, <2>3, <2>4, <2>5, <1>7, <1>10, Extensions
<1>12. mate' = mate
  <2>1. \A d \in End(Listener) : <<Listener, d>> \in Endpoint
    BY <1>1, Endpoints
  <2> QED
    BY <2>1, <1>2, <1>7, <1>11, SameMates DEF l
<1>13. /\ \A q \in Peer : past[q] \subseteq past'[q] /\ known[q] \subseteq known'[q]
       /\ me[x] \notin past[Listener] /\ me[x] \in past'[Listener]
  <2>1. past[Client] \subseteq Attachment /\ past[Listener] \subseteq Attachment
        /\ known[Client] \subseteq Attachment /\ known[Listener] \subseteq Attachment
    BY <1>1, Peers DEF past, known, Upto
  <2>2. me[x] \notin past[Listener] /\ me[x] \notin known[Listener]
    BY <1>1, <1>10, Heard DEF Parts
  <2>3. \A q \in Peer : \A a \in Attachment : q # Listener \/ a # me[x] =>
              (a \in past'[q] <=> a \in past[q]) /\ (a \in known'[q] <=> a \in known[q])
    BY <1>1, <1>7, <1>8, OneStage DEF Parts, l
  <2>4. me[x] \in past'[Listener]
    <3>1. me[x] = <<e, l.life>> /\ l.life \in Nat /\ m.life = l.life /\ 1 <= l.life
      <4>1. l.life \in Nat /\ l.asked \in Nat
        BY <1>1 DEF LinkRecord
      <4> QED
        BY <4>1, <1>1, <1>3, <1>7, Abbreviated DEF Parts, l
    <3> QED
      BY <3>1, <1>1, <1>11 DEF past, Upto
  <2> QED
    BY <2>1, <2>2, <2>3, <2>4, Peers
<1>14. \A c \in End(Client) : /\ <<Client, c>> \in Endpoint /\ <<Client, c>> # x /\ link'[<<Client, c>>] = link[<<Client, c>>]
                              /\ stage'[<<Client, c>>] = stage[<<Client, c>>] /\ held'[<<Client, c>>] = held[<<Client, c>>]
  <2>1. \A c \in End(Client) : <<Client, c>> \in Endpoint /\ <<Client, c>> # x
    BY <1>1, Endpoints
  <2> QED
    BY <2>1, <1>11
<1>15. awaited' = awaited /\ asks' = asks
  <2>1. awaited' = awaited
    BY <1>9, <1>11, <1>14 DEF awaited
  <2> QED
    BY <2>1, <1>9 DEF asks
<1>16. /\ frames' \in [Peer -> Seq(Frame)] /\ frames'[Client] = frames[Client]
       /\ frames[Listener] \in Seq(Frame) /\ wire[Listener] \in Seq(Frame)
       /\ frames'[Listener] = IF refuse THEN Append(Append(frames[Listener], f), g) ELSE Append(frames[Listener], f)
  BY <1>1, <1>4, <1>5, <1>6
<1>17. /\ Len(frames[Listener]) \in Nat
       /\ \A i \in 1 .. Len(frames[Listener]) : i \in 1 .. Len(frames'[Listener]) /\ frames'[Listener][i] = frames[Listener][i]
       /\ Len(frames[Listener]) + 1 \in 1 .. Len(frames'[Listener]) /\ frames'[Listener][Len(frames[Listener]) + 1] = f
       /\ refuse => /\ Len(frames[Listener]) + 2 \in 1 .. Len(frames'[Listener])
                    /\ frames'[Listener][Len(frames[Listener]) + 2] = g
       /\ \A i \in 1 .. Len(frames'[Listener]) :
            \/ i \in 1 .. Len(frames[Listener]) /\ frames'[Listener][i] = frames[Listener][i]
            \/ i = Len(frames[Listener]) + 1 /\ frames'[Listener][i] = f
            \/ refuse /\ i = Len(frames[Listener]) + 2 /\ frames'[Listener][i] = g
  <2> DEFINE s == frames[Listener]
             t == Append(s, f)
  <2>1. /\ t \in Seq(Frame) /\ Len(s) \in Nat /\ Len(t) = Len(s) + 1 /\ t[Len(s) + 1] = f /\ \A i \in 1 .. Len(s) : t[i] = s[i]
    BY <1>4, <1>16, Grown
  <2> HIDE DEF t
  <2>2. CASE ~refuse
    BY <2>1, <2>2, <1>16 DEF t
  <2>3. CASE refuse
    <3>1. /\ Len(Append(t, g)) = Len(t) + 1 /\ Append(t, g)[Len(t) + 1] = g /\ \A i \in 1 .. Len(t) : Append(t, g)[i] = t[i]
      BY <1>4, <2>1, Grown
    <3>2. frames'[Listener] = Append(t, g)
      BY <1>16, <2>3 DEF t
    <3> QED
      BY <2>1, <2>3, <3>1, <3>2
  <2> QED
    BY <2>2, <2>3
<1>18. Typed'
  BY <1>9, <1>11, <1>16 DEF Parts, Typed
<1>19. Requests'
  <2>1. ASSUME NEW q \in Peer, NEW i \in 1 .. Len(control[q])
        PROVE  control[q][i].end \in End(q) /\ stage'[<<q, control[q][i].end>>] = "allocating"
    <3>1. control[q][i].end \in End(q) /\ stage[<<q, control[q][i].end>>] = "allocating"
      BY DEF Parts, Requests
    <3>2. <<q, control[q][i].end>> \in Endpoint /\ <<q, control[q][i].end>> # x
      BY <3>1, <1>10, Endpoints
    <3> QED
      BY <3>1, <3>2, <1>11
  <2> QED
    BY <2>1, <1>9, <1>11 DEF Parts, Requests
<1>20. Vacant' /\ Reached'
  <2>1. \A q \in Peer : \A d \in End(q) : q = Client => stage'[<<q, d>>] = stage[<<q, d>>]
    BY <1>14
  <2>2. Reached'
    BY <2>1, <1>9, <1>11 DEF Parts, Reached
  <2> QED
    BY <2>2, <1>9 DEF Parts, Vacant
<1>21. Slots'
  <2>1. \A q \in Peer : \A d \in End(q) : stage[<<q, d>>] \notin {"idle", "allocating"} => stage'[<<q, d>>] \notin {"idle", "allocating"}
    BY <1>11, Endpoints
  <2>2. UNCHANGED <<slab, by_name>>
    BY <1>9
  <2> QED
    BY <2>1, <2>2, <1>11 DEF Parts, Slots
<1>22. Holders'
  <2>1. ASSUME NEW q \in Peer, NEW h \in Handle, NEW d \in End(q), slab[q][h] = me[<<q, d>>]
        PROVE  \/ held'[<<q, d>>] = h
               \/ \E i \in 1 .. Len(frames'[q]) : DetachOf(frames'[q][i], me[<<q, d>>], h)
    <3>1. held[<<q, d>>] = h \/ \E i \in 1 .. Len(frames[q]) : DetachOf(frames[q][i], me[<<q, d>>], h)
      BY <2>1 DEF Parts, Holders
    <3>2. CASE \E i \in 1 .. Len(frames[q]) : DetachOf(frames[q][i], me[<<q, d>>], h)
      <4>1. \A i \in 1 .. Len(frames[q]) : i \in 1 .. Len(frames'[q]) /\ frames'[q][i] = frames[q][i]
        BY <1>16, <1>17, Peers
      <4> QED
        BY <3>2, <4>1
    <3>3. CASE held[<<q, d>>] = h /\ <<q, d>> # x
      BY <3>3, <1>11, Endpoints
    <3>4. CASE held[<<q, d>>] = h /\ <<q, d>> = x /\ refuse
      <4>1. q = Listener /\ DetachOf(g, me[<<q, d>>], h)
        BY <3>4, <1>4, <1>10 DEF DetachOf
      <4> QED
        BY <3>4, <4>1, <1>17
    <3>5. CASE held[<<q, d>>] = h /\ <<q, d>> = x /\ ~refuse
      BY <3>5, <1>11
    <3> QED
      BY <3>1, <3>2, <3>3, <3>4, <3>5
  <2> QED
    BY <2>1, <1>9, <1>11 DEF Holders
<1>23. Named'
  <2>1. \A d \in End(Listener) : stage'[<<Listener, d>>] = "allocated" =>
          stage[<<Listener, d>>] = "allocated" /\ held'[<<Listener, d>>] = held[<<Listener, d>>]
    BY <1>1, <1>11, Endpoints
  <2>2. \A d \in End(Listener) : stage'[<<Listener, d>>] = "allocated" =>
          slab[Listener][held'[<<Listener, d>>]] = me[<<Listener, d>>]
    BY <2>1 DEF Parts, Named
  <2>3. UNCHANGED <<slab, by_name, me, called>>
    BY <1>9, <1>11
  <2>4. \A c \in End(Client) : stage'[<<Client, c>>] = stage[<<Client, c>>] /\ held'[<<Client, c>>] = held[<<Client, c>>]
    BY <1>14
  <2> QED
    BY <2>2, <2>3, <2>4 DEF Parts, Named
<1>24. Registered'
  <2>1. \A q \in Peer, h \in Handle : by_in[q][h].who = Nobody => by_in[q][h] = Absent
    BY DEF Parts, Registered
  <2>2. ASSUME NEW q \in Peer, NEW h \in Handle, by_in[q][h].who # Nobody
        PROVE  /\ \E d \in End(q) :
                    /\ by_in[q][h].who = me[<<q, d>>] /\ <<q, d>> \in clean'
                    /\ stage'[<<q, d>>] \notin {"idle", "allocating"} /\ (q = Client => stage'[<<q, d>>] = "heard")
                    /\ <<q, d>> \in parted \/ slab[q][by_in[q][h].out] = me[<<q, d>>]
               /\ by_in[q][h].out \in Handle
               /\ \A k \in Handle : by_in[q][k].who = by_in[q][h].who => k = h
    <3>1. /\ by_in[q][h].out \in Handle
          /\ \A k \in Handle : by_in[q][k].who = by_in[q][h].who => k = h
      BY <2>2 DEF Parts, Registered
    <3>2. PICK d \in End(q) :
                    /\ by_in[q][h].who = me[<<q, d>>] /\ <<q, d>> \in clean
                    /\ stage[<<q, d>>] \notin {"idle", "allocating"} /\ (q = Client => stage[<<q, d>>] = "heard")
                    /\ <<q, d>> \in parted \/ slab[q][by_in[q][h].out] = me[<<q, d>>]
      BY <2>2 DEF Parts, Registered
    <3>3. stage'[<<q, d>>] \notin {"idle", "allocating"} /\ (q = Client => stage'[<<q, d>>] = "heard")
      BY <3>2, <1>11, <1>14, Endpoints
    <3> QED
      BY <3>1, <3>2, <3>3, <1>11
  <2> QED
    BY <2>1, <2>2, <1>9, <1>11 DEF Registered
<1>25. Pending'
  <2>1. close_pending' = close_pending /\ by_in' = by_in /\ me' = me /\ parted' = parted
    BY <1>9, <1>11
  <2> QED
    BY <2>1, SamePending DEF Parts
<1>26. Asks'
  BY <1>9, <1>15, <1>16 DEF Parts, Asks
<1>27. Mates'
  <2>1. \A d \in End(Listener) :
          /\ stage'[<<Listener, d>>] # "idle" => stage[<<Listener, d>>] # "idle"
          /\ stage'[<<Listener, d>>] \in {"allocating", "allocated"} => stage'[<<Listener, d>>] = stage[<<Listener, d>>]
    BY <1>1, <1>10, <1>11, Endpoints
  <2>2. known[Client] \subseteq known'[Client]
    BY <1>1, <1>13
  <2> QED
    BY <2>1, <2>2, <1>9, <1>11, <1>12, <1>15, <1>16 DEF Parts, Mates
<1>28. answers \subseteq answers' /\ f \in answers' /\ g \in answers'
  <2>1. \A d \in End(Listener) : stage[<<Listener, d>>] = "heard" => stage'[<<Listener, d>>] = "heard"
    BY <1>1, <1>11, Endpoints
  <2>2. answers \subseteq answers'
    BY <2>1, <1>9, <1>11, <1>12, <1>15 DEF answers
  <2>3. /\ called[x] \in awaited /\ by_name[Client][called[x]].who = mate[me[x]]
        /\ by_in[Listener][by_name[Client][called[x]].out].who = me[x]
    BY <1>10 DEF Parts, Mates
  <2>4. f \in answers'
    BY <2>3, <1>4, <1>9, <1>10, <1>11, <1>12, <1>15 DEF answers
  <2>5. g \in answers'
    BY <1>4 DEF answers
  <2> QED
    BY <2>2, <2>4, <2>5
<1>29. NotIn(frames[Listener], me[x]) /\ NotIn(wire[Listener], me[x])
  <2>1. ASSUME NEW h \in answers, h.type = "Attach", h.from = me[x]
        PROVE  FALSE
    <3>1. PICK d \in End(Listener) : h.from = me[<<Listener, d>>] /\ stage[<<Listener, d>>] = "heard"
      BY <2>1 DEF answers
    <3>2. d = e
      BY <2>1, <3>1, <1>1, Abbreviated DEF Parts
    <3> QED
      BY <3>1, <3>2, <1>10
  <2> QED
    BY <2>1 DEF Parts, Replies, NotIn, All
<1>30. Replies'
  <2>1. All(frames[Listener], answers') /\ All(wire[Listener], answers')
    BY <1>28, AllMonotone DEF Parts, Replies
  <2>2. /\ All(frames'[Listener], answers') /\ Once(frames'[Listener]) /\ Apart(frames'[Listener], wire[Listener])
    <3> DEFINE t == Append(frames[Listener], f)
    <3>1. t \in Seq(Frame) /\ All(t, answers') /\ Once(t) /\ Apart(t, wire[Listener])
      <4>1. All(t, answers')
        BY <2>1, <1>4, <1>16, <1>28, AttachAdded
      <4>2. Once(t) /\ Apart(t, wire[Listener])
        BY <1>4, <1>16, <1>29, AttachAdded DEF Parts, Replies
      <4> QED
        BY <4>1, <4>2, <1>4, <1>16, Grown
    <3> HIDE DEF t
    <3>2. All(Append(t, g), answers') /\ Once(Append(t, g)) /\ Apart(Append(t, g), wire[Listener])
      BY <3>1, <1>4, <1>16, <1>28, DetachAdded
    <3> QED
      BY <3>1, <3>2, <1>16 DEF t
  <2>3. ASSUME NEW i \in 1 .. Len(frames'[Listener]), frames'[Listener][i].type = "Attach"
        PROVE  /\ slab[Listener][frames'[Listener][i].handle] = frames'[Listener][i].from
               /\ \A j \in 1 .. Len(frames'[Listener]) :
                    frames'[Listener][j].type = "Detach" /\ frames'[Listener][j].from = frames'[Listener][i].from => i < j
    <3>1. CASE i \in 1 .. Len(frames[Listener]) /\ frames'[Listener][i] = frames[Listener][i]
      <4>1. /\ slab[Listener][frames[Listener][i].handle] = frames[Listener][i].from
            /\ \A j \in 1 .. Len(frames[Listener]) :
                 frames[Listener][j].type = "Detach" /\ frames[Listener][j].from = frames[Listener][i].from => i < j
        BY <2>3, <3>1 DEF Parts, Replies
      <4>2. ASSUME NEW j \in 1 .. Len(frames'[Listener]),
                   frames'[Listener][j].type = "Detach", frames'[Listener][j].from = frames'[Listener][i].from
            PROVE  i < j
        <5>1. CASE j \in 1 .. Len(frames[Listener]) /\ frames'[Listener][j] = frames[Listener][j]
          BY <3>1, <4>1, <4>2, <5>1
        <5>2. CASE j \notin 1 .. Len(frames[Listener])
          BY <3>1, <5>2, <1>17
        <5> QED
          BY <5>1, <5>2, <1>17
      <4> QED
        BY <3>1, <4>1, <4>2
    <3>2. CASE i = Len(frames[Listener]) + 1 /\ frames'[Listener][i] = f
      <4>1. slab[Listener][held[x]] = me[x]
        BY <1>10 DEF Parts, Named
      <4>2. ASSUME NEW j \in 1 .. Len(frames'[Listener]), frames'[Listener][j].type = "Detach", frames'[Listener][j].from = me[x]
            PROVE  i < j
        <5>1. CASE j \in 1 .. Len(frames[Listener]) /\ frames'[Listener][j] = frames[Listener][j]
          <6>1. frames[Listener][j].from \in past[Listener]
            BY <4>2, <5>1, <1>1 DEF Parts, Detaching
          <6> QED
            BY <4>2, <5>1, <6>1, <1>13
        <5>2. CASE frames'[Listener][j] = f
          BY <4>2, <5>2, <1>4
        <5>3. CASE j = Len(frames[Listener]) + 2
          BY <3>2, <5>3, <1>17
        <5> QED
          BY <5>1, <5>2, <5>3, <1>17
      <4> QED
        BY <3>2, <4>1, <4>2, <1>4, <1>10
    <3>3. CASE frames'[Listener][i] = g
      BY <2>3, <3>3, <1>4
    <3> QED
      BY <3>1, <3>2, <3>3, <1>17
  <2> QED
    BY <2>1, <2>2, <2>3, <1>9 DEF Parts, Replies
<1>31. Detaching'
  <2>1. ASSUME NEW q \in Peer, NEW i \in 1 .. Len(frames'[q]), frames'[q][i].type = "Detach"
        PROVE  frames'[q][i].from \in past'[q]
    <3>1. CASE i \in 1 .. Len(frames[q]) /\ frames'[q][i] = frames[q][i]
      <4>1. frames[q][i].from \in past[q]
        BY <2>1, <3>1 DEF Parts, Detaching
      <4> QED
        BY <3>1, <4>1, <1>13
    <3>2. CASE q = Listener /\ (frames'[q][i] = f \/ frames'[q][i] = g)
      BY <2>1, <3>2, <1>4, <1>13
    <3> QED
      BY <3>1, <3>2, <1>16, <1>17, Peers
  <2> QED
    BY <2>1, <1>9, <1>13 DEF Parts, Detaching
<1>32. ToListener'
  BY <1>9, <1>11, <1>12, <1>14 DEF Parts, ToListener
<1>33. ToClient'
  <2>1. ASSUME NEW h \in Handle, NEW d \in End(Listener), slab[Listener][h] = me[<<Listener, d>>],
               stage'[<<Listener, d>>] # "allocated", NotIn(frames'[Listener], me[<<Listener, d>>])
        PROVE  Open(wire[Listener], Len(wire[Listener]) + 1, me[<<Listener, d>>], h, by_in[Client], mate[me[<<Listener, d>>]])
    <3>1. <<Listener, d>> # x
      BY <2>1, <1>4, <1>17 DEF NotIn
    <3>2. NotIn(frames[Listener], me[<<Listener, d>>])
      BY <2>1, <1>17 DEF NotIn
    <3>3. stage[<<Listener, d>>] # "allocated"
      BY <2>1, <3>1, <1>1, <1>11, Endpoints
    <3> QED
      BY <2>1, <3>2, <3>3 DEF Parts, ToClient
  <2> QED
    BY <2>1, <1>9, <1>11, <1>12 DEF Parts, ToClient
<1>34. Inboxes'
  <2>1. \A d \in End(Listener) : link'[<<Listener, d>>].inbox = link[<<Listener, d>>].inbox
    BY <1>1, <1>7, <1>11, Endpoints DEF l
  <2> QED
    BY <2>1, <1>11, <1>12, <1>14 DEF Parts, Inboxes
<1> QED
  BY <1>11, <1>18, <1>19, <1>20, <1>21, <1>22, <1>23, <1>24, <1>25, <1>26, <1>27, <1>30, <1>31, <1>32, <1>33, <1>34 DEF Parts

-----------------------------------------------------------------------------
(* Allocation.                                                             *)

\* The first request of p is of the link e, for the peer's handle i.
Serves(p, e, i) ==
  /\ control[p] # <<>> /\ Head(control[p]).end = e /\ Head(control[p]).input = i
  /\ control' = [control EXCEPT ![p] = Tail(@)]

\* What is left of the requests once the one of the link e is answered.
Remain(p, e) ==
  \A q \in Peer : \A j \in 1 .. Len(control'[q]) :
    /\ \E k \in 1 .. Len(control[q]) : control'[q][j] = control[q][k]
    /\ \A k \in 1 .. Len(control'[q]) : control'[q][k].end = control'[q][j].end => k = j
    /\ q = p => control'[q][j].end # e

\* The request at the head of the channel.
LEMMA Served ==
  ASSUME Parts, NEW p \in Peer, NEW e, NEW i, Serves(p, e, i)
  PROVE  /\ e \in End(p) /\ link[<<p, e>>].pc = "allocating" /\ stage[<<p, e>>] = "allocating"
         /\ p = Client => i = NoHandle
         /\ p = Listener => i \in Handle /\ i = by_name[Client][called[<<p, e>>]].out
         /\ p = Listener => \E j \in 1 .. Len(control[p]) : control[p][j].input = i
         /\ control' \in [Peer -> Seq(Allocation)]
         /\ Remain(p, e)
<1>1. /\ control \in [Peer -> Seq(Allocation)] /\ control' = [control EXCEPT ![p] = Tail(@)] /\ control[p] # <<>>
      /\ Head(control[p]).end = e /\ Head(control[p]).input = i
  BY DEF Parts, Typed, Serves
<1>2. /\ control[p] \in Seq(Allocation) /\ control'[p] = Tail(control[p]) /\ \A q \in Peer : q # p => control'[q] = control[q]
  BY <1>1
<1>3. /\ control'[p] \in Seq(Allocation) /\ Len(control[p]) \in Nat /\ Len(control[p]) >= 1 /\ Len(control'[p]) = Len(control[p]) - 1
      /\ Head(control[p]) = control[p][1] /\ \A j \in 1 .. Len(control[p]) - 1 : control'[p][j] = control[p][j + 1]
  BY <1>1, <1>2, Shrunk
<1>4. 1 \in 1 .. Len(control[p]) /\ control[p][1].end = e /\ control[p][1].input = i
  BY <1>1, <1>3
<1>5. /\ e \in End(p) /\ stage[<<p, e>>] = "allocating" /\ (p = Client => i = NoHandle)
      /\ p = Listener => i \in Handle /\ i = by_name[Client][called[<<p, e>>]].out
  BY <1>4 DEF Parts, Requests
<1>6. link[<<p, e>>].pc = "allocating"
  <2>1. <<p, e>> \in Endpoint
    BY <1>5, Endpoints
  <2> QED
    BY <2>1, <1>5 DEF stage
<1>7. control' \in [Peer -> Seq(Allocation)]
  BY <1>1, <1>3
<1>8. ASSUME NEW q \in Peer, NEW j \in 1 .. Len(control'[q])
      PROVE  /\ \E k \in 1 .. Len(control[q]) : control'[q][j] = control[q][k]
             /\ \A k \in 1 .. Len(control'[q]) : control'[q][k].end = control'[q][j].end => k = j
             /\ q = p => control'[q][j].end # e
  <2>0. \A k, n \in 1 .. Len(control[q]) : control[q][k].end = control[q][n].end => k = n
    BY DEF Parts, Requests
  <2>1. CASE q # p
    BY <2>0, <2>1, <1>2
  <2>2. CASE q = p
    <3>1. \A k \in 1 .. Len(control'[p]) : k \in Nat /\ k + 1 \in 1 .. Len(control[p]) /\ k + 1 # 1 /\ control'[p][k] = control[p][k + 1]
      BY <1>3
    <3>2. control'[p][j].end # e
      BY <2>0, <2>2, <3>1, <1>4
    <3>3. ASSUME NEW k \in 1 .. Len(control'[p]), control'[p][k].end = control'[p][j].end
          PROVE  k = j
      <4>0. k + 1 \in 1 .. Len(control[p]) /\ j + 1 \in 1 .. Len(control[p]) /\ control[p][k + 1].end = control[p][j + 1].end
        BY <2>2, <3>1, <3>3
      <4>1. k + 1 = j + 1
        BY <2>0, <2>2, <4>0
      <4> QED
        BY <4>1, <3>1, <2>2
    <3>4. \E k \in 1 .. Len(control[p]) : control'[p][j] = control[p][k]
      BY <3>1, <2>2
    <3> QED
      BY <2>2, <3>2, <3>3, <3>4
  <2> QED
    BY <2>1, <2>2
<1>9. Remain(p, e)
  BY <1>8 DEF Remain
<1> QED
  BY <1>4, <1>5, <1>6, <1>7, <1>9

\* The requests that remain.
LEMMA ServedRequests ==
  ASSUME Parts, NEW p \in Peer, NEW e, NEW i, Serves(p, e, i), called' = called,
         \A y \in Endpoint : y # <<p, e>> => stage'[y] = stage[y],
         \A n \in awaited : by_name'[Client][n] = by_name[Client][n]
  PROVE  Requests'
<1>1. \A q \in Peer : \A j \in 1 .. Len(control'[q]) :
              /\ \E k \in 1 .. Len(control[q]) : control'[q][j] = control[q][k]
              /\ \A k \in 1 .. Len(control'[q]) : control'[q][k].end = control'[q][j].end => k = j
              /\ q = p => control'[q][j].end # e
  <2>1. Remain(p, e)
    BY Served
  <2> QED
    BY <2>1 DEF Remain
<1>2. ASSUME NEW q \in Peer, NEW j \in 1 .. Len(control'[q])
      PROVE  /\ control'[q][j].end \in End(q) /\ stage'[<<q, control'[q][j].end>>] = "allocating"
             /\ q = Client => control'[q][j].input = NoHandle
             /\ q = Listener => /\ control'[q][j].input \in Handle
                                /\ control'[q][j].input = by_name'[Client][called'[<<q, control'[q][j].end>>]].out
             /\ \A k \in 1 .. Len(control'[q]) : control'[q][k].end = control'[q][j].end => k = j
  <2>1. PICK k \in 1 .. Len(control[q]) : control'[q][j] = control[q][k]
    BY <1>1
  <2> DEFINE d == control[q][k].end
  <2>2. /\ d \in End(q) /\ stage[<<q, d>>] = "allocating"
        /\ q = Client => control[q][k].input = NoHandle
        /\ q = Listener => /\ control[q][k].input \in Handle
                           /\ control[q][k].input = by_name[Client][called[<<q, d>>]].out
    BY DEF Parts, Requests
  <2>3. <<q, d>> \in Endpoint /\ <<q, d>> # <<p, e>>
    BY <1>1, <2>1, <2>2, Endpoints
  <2>4. q = Listener => called[<<q, d>>] \in awaited
    BY <2>2 DEF Parts, Mates
  <2> HIDE DEF d
  <2>5. control'[q][j].end = d
    BY <2>1 DEF d
  <2>6. \A n \in 1 .. Len(control'[q]) : control'[q][n].end = control'[q][j].end => n = j
    BY <1>1
  <2> QED
    BY <2>1, <2>2, <2>3, <2>4, <2>5, <2>6
<1> QED
  BY <1>2 DEF Requests

\* The channels hold what they held.
LEMMA SameInboxes ==
  ASSUME Parts, me' = me, mate' = mate, called' = called,
         \A c \in End(Client) :
           /\ link'[<<Client, c>>].inbox = link[<<Client, c>>].inbox
           /\ link'[<<Client, c>>].pc \in {"up", "waiting", "refused"} => mate[link'[<<Client, c>>].peer] = me[<<Client, c>>],
         \A d \in End(Listener) : link'[<<Listener, d>>].inbox = link[<<Listener, d>>].inbox
  PROVE  Inboxes'
<1>1. ASSUME NEW c \in End(Client), NEW i \in 1 .. Len(link'[<<Client, c>>].inbox)
      PROVE  /\ mate[link'[<<Client, c>>].inbox[i].from] = me[<<Client, c>>]
             /\ link'[<<Client, c>>].inbox[i].type = "Attach" =>
                  called[<<Listener, link'[<<Client, c>>].inbox[i].from[1]>>] = called[<<Client, c>>]
  BY DEF Parts, Inboxes
<1>2. ASSUME NEW d \in End(Listener), NEW i \in 1 .. Len(link'[<<Listener, d>>].inbox)
      PROVE  /\ link'[<<Listener, d>>].inbox[i].type = "Detach"
             /\ link'[<<Listener, d>>].inbox[i].from = mate[me[<<Listener, d>>]]
  BY DEF Parts, Inboxes
<1> QED
  BY <1>1, <1>2 DEF Inboxes

\* The name is in use: the attach has failed.
LEMMA UnallocatedStep ==
  ASSUME Parts, NEW p \in Peer, NEW e, NEW i, Serves(p, e, i),
         link' = [link EXCEPT ![<<p, e>>] = Unallocated(link[<<p, e>>])],
         UNCHANGED <<tables, frames, wire, backlog, failure>>
  PROVE  Parts'
<1> DEFINE x == <<p, e>>
           l == link[x]
           m == Unallocated(l)
<1>1. /\ e \in End(p) /\ l.pc = "allocating" /\ stage[x] = "allocating" /\ control' \in [Peer -> Seq(Allocation)]
  BY Served
<1>2. /\ x \in Endpoint /\ x[1] = p /\ x[2] = e /\ l \in LinkRecord /\ Shape(x, l)
  BY <1>1, Endpoints, LinkFields DEF Parts, Shaped
<1>3. /\ m \in LinkRecord /\ m.pc \in {"gone", "suspended"} /\ m.inbox = l.inbox /\ m.name = l.name /\ m.life = l.life
      /\ m.asked = l.asked /\ m.goal = l.goal /\ m.peer = l.peer
  BY <1>2 DEF Unallocated, LinkRecord
<1> HIDE DEF m, l
<1>4. Becomes(x, m) /\ Shape(x, m) /\ l.inbox = <<>>
  <2>1. Shape(x, m) /\ l.inbox = <<>>
    BY <1>1, <1>2, <1>3 DEF Shape
  <2> QED
    BY <2>1, <1>3 DEF Becomes, m, l
<1>5. UNCHANGED <<slab, vacant, by_name, by_in, close_pending, frames, wire, backlog, failure>>
  BY DEF tables
<1>6. /\ link' \in [Endpoint -> LinkRecord] /\ Shaped' /\ link'[x] = m /\ me' = me /\ called' = called /\ parted' = parted
      /\ stage'[x] = "heard"
      /\ \A y \in Endpoint : y # x => stage'[y] = stage[y] /\ link'[y] = link[y] /\ held'[y] = held[y] /\ (y \in clean => y \in clean')
  <2>1. /\ \A y \in Endpoint : y # x =>
              /\ link'[y] = link[y] /\ stage'[y] = stage[y] /\ called'[y] = called[y]
              /\ held'[y] = held[y] /\ (y \in clean' <=> y \in clean) /\ (y \in parted' <=> y \in parted)
        /\ link'[x] = m /\ stage'[x] = "heard" /\ called'[x] = m.name
        /\ x \in parted' <=> m.asked = m.life
        /\ link' \in [Endpoint -> LinkRecord]
    BY <1>2, <1>3, <1>4, OneLink DEF Parts
  <2>2. called'[x] = called[x] /\ (x \in parted' <=> x \in parted)
    BY <2>1, <1>2, <1>3 DEF parted, called, l
  <2>3. me' = me
    BY <1>1, <1>2, <1>3, <1>4, OneStage DEF Parts, l
  <2>4. Shaped'
    BY <1>2, <1>4, OneShape DEF Parts
  <2> QED
    BY <2>1, <2>2, <2>3, <2>4, Extensions
<1>7. mate' = mate
  <2>1. \A d \in End(Listener) : <<Listener, d>> \in Endpoint
    BY Peers, Endpoints
  <2> QED
    BY <2>1, <1>1, <1>3, <1>6, SameMates DEF l
<1>8. \A q \in Peer : past[q] \subseteq past'[q] /\ known[q] \subseteq known'[q]
  <2>1. \A q \in Peer : past[q] \subseteq Attachment /\ known[q] \subseteq Attachment
    BY DEF past, known, Upto
  <2>2. me[x] \notin past[p] /\ me[x] \notin known[p]
    BY <1>1, Heard DEF Parts
  <2>3. \A q \in Peer : \A a \in Attachment : q # p \/ a # me[x] =>
              (a \in past'[q] <=> a \in past[q]) /\ (a \in known'[q] <=> a \in known[q])
    BY <1>1, <1>3, <1>4, OneStage DEF Parts, l
  <2> QED
    BY <2>1, <2>2, <2>3
<1>9. \A q \in Peer : \A d \in End(q) : <<q, d>> \in Endpoint
  BY Endpoints
<1>10. /\ \A q \in Peer, h \in Handle : \A d \in End(q) : slab[q][h] = me[<<q, d>>] => <<q, d>> # x
       /\ \A c \in End(Client) : \A n \in Names : by_name[Client][n].who = me[<<Client, c>>] => <<Client, c>> # x
  <2>1. \A q \in Peer, h \in Handle : \A d \in End(q) : slab[q][h] = me[<<q, d>>] => <<q, d>> # x
    BY <1>1 DEF Parts, Slots
  <2>2. ASSUME NEW c \in End(Client), NEW n \in Names, by_name[Client][n].who = me[<<Client, c>>], <<Client, c>> = x
        PROVE  FALSE
    <3>1. me[<<Client, c>>] # Nobody
      BY Peers, Abbreviated DEF Parts
    <3>2. PICK d \in End(Client) : by_name[Client][n].who = me[<<Client, d>>] /\ stage[<<Client, d>>] \in {"allocated", "asking"}
      BY <2>2, <3>1 DEF Parts, Named
    <3>3. d = c
      BY <2>2, <3>2, Peers, Abbreviated DEF Parts
    <3> QED
      BY <2>2, <3>2, <3>3, <1>1
  <2> QED
    BY <2>1, <2>2
<1>11. awaited' = awaited /\ asks' = asks
  <2>1. \A c \in End(Client) : stage'[<<Client, c>>] = "asking" <=> stage[<<Client, c>>] = "asking"
    BY <1>1, <1>6, <1>9, Peers
  <2>2. awaited' = awaited
    BY <2>1, <1>5, <1>6 DEF awaited
  <2> QED
    BY <2>2, <1>5 DEF asks
<1>12. answers \subseteq answers'
  <2>1. \A d \in End(Listener) : stage[<<Listener, d>>] = "heard" => stage'[<<Listener, d>>] = "heard"
    BY <1>1, <1>6, <1>9, Peers
  <2> QED
    BY <2>1, <1>5, <1>6, <1>7, <1>11 DEF answers
<1>13. Typed'
  BY <1>1, <1>5, <1>6 DEF Parts, Typed
<1>14. Requests'
  BY <1>5, <1>6, ServedRequests
<1>15. Vacant'
  BY <1>5 DEF Parts, Vacant
<1>16. Slots'
  <2>1. UNCHANGED <<slab, by_name, me, called, parted>>
    BY <1>5, <1>6
  <2>2. \A q \in Peer, h \in Handle : \A d \in End(q) : slab[q][h] = me[<<q, d>>] =>
          stage'[<<q, d>>] = stage[<<q, d>>] /\ (<<q, d>> \in clean => <<q, d>> \in clean')
    BY <1>6, <1>9, <1>10
  <2> QED
    BY <2>1, <2>2 DEF Parts, Slots
<1>17. Holders' /\ Reached'
  <2>1. \A q \in Peer, h \in Handle : \A d \in End(q) : slab[q][h] = me[<<q, d>>] =>
          stage'[<<q, d>>] = stage[<<q, d>>] /\ held'[<<q, d>>] = held[<<q, d>>]
    BY <1>6, <1>9, <1>10
  <2>2. UNCHANGED <<slab, frames, me, by_in>>
    BY <1>5, <1>6
  <2>3. Holders'
    BY <2>1, <2>2 DEF Parts, Holders
  <2>4. Reached'
    BY <2>1, <2>2 DEF Parts, Reached
  <2> QED
    BY <2>3, <2>4
<1>18. Named'
  <2>1. UNCHANGED <<slab, by_name, me, called>>
    BY <1>5, <1>6
  <2>2. \A q \in Peer : \A d \in End(q) : stage'[<<q, d>>] = "allocated" => stage[<<q, d>>] = "allocated" /\ held'[<<q, d>>] = held[<<q, d>>]
    BY <1>6, <1>9
  <2>3. \A q \in Peer : \A d \in End(q) : stage[<<q, d>>] \in {"allocated", "asking"} => stage'[<<q, d>>] = stage[<<q, d>>]
    BY <1>1, <1>6, <1>9
  <2>4. Client \in Peer /\ Listener \in Peer
    BY Peers
  <2>5. ASSUME NEW n \in Names, by_name[Client][n].who # Nobody
        PROVE  \E c \in End(Client) :
                 /\ by_name[Client][n].who = me[<<Client, c>>] /\ called[<<Client, c>>] = n
                 /\ stage'[<<Client, c>>] \in {"allocated", "asking"}
                 /\ by_name[Client][n].out \in Handle /\ slab[Client][by_name[Client][n].out] = me[<<Client, c>>]
    BY <2>3, <2>4, <2>5 DEF Parts, Named
  <2>6. /\ \A n \in Names : by_name[Listener][n].who = Nobody
        /\ \A c \in End(Client) : stage'[<<Client, c>>] = "allocated" =>
             /\ by_name[Client][called[<<Client, c>>]].who = me[<<Client, c>>]
             /\ by_name[Client][called[<<Client, c>>]].out = held'[<<Client, c>>]
        /\ \A d \in End(Listener) : stage'[<<Listener, d>>] = "allocated" =>
             slab[Listener][held'[<<Listener, d>>]] = me[<<Listener, d>>]
    BY <2>2, <2>4 DEF Parts, Named
  <2> QED
    BY <2>1, <2>5, <2>6 DEF Named
<1>19. Registered'
  <2>1. UNCHANGED <<slab, by_in, me, parted>>
    BY <1>5, <1>6
  <2>2. \A q \in Peer : \A d \in End(q) : stage[<<q, d>>] \notin {"idle", "allocating"} =>
          stage'[<<q, d>>] = stage[<<q, d>>] /\ (<<q, d>> \in clean => <<q, d>> \in clean')
    BY <1>1, <1>6, <1>9
  <2> QED
    BY <2>1, <2>2 DEF Parts, Registered
<1>20. Pending'
  <2>1. close_pending' = close_pending /\ by_in' = by_in /\ me' = me /\ parted' = parted
    BY <1>5, <1>6
  <2> QED
    BY <2>1, SamePending DEF Parts
<1>21. Asks'
  BY <1>5, <1>11 DEF Parts, Asks
<1>22. Mates'
  <2>1. \A d \in End(Listener) :
          /\ stage'[<<Listener, d>>] # "idle" => stage[<<Listener, d>>] # "idle"
          /\ stage'[<<Listener, d>>] \in {"allocating", "allocated"} => stage'[<<Listener, d>>] = stage[<<Listener, d>>]
    BY <1>1, <1>6, <1>9, Peers
  <2>2. known[Client] \subseteq known'[Client]
    BY <1>8, Peers
  <2> QED
    BY <2>1, <2>2, <1>5, <1>6, <1>7, <1>11 DEF Parts, Mates
<1>23. Replies'
  <2>1. All(frames[Listener], answers') /\ All(wire[Listener], answers')
    BY <1>12, AllMonotone DEF Parts, Replies
  <2> QED
    BY <2>1, <1>5 DEF Parts, Replies
<1>24. Detaching'
  BY <1>5, <1>8 DEF Parts, Detaching
<1>25. ToListener'
  <2>1. \A h \in Handle : \A c \in End(Client) : slab[Client][h] = me[<<Client, c>>] => stage'[<<Client, c>>] = stage[<<Client, c>>]
    BY <1>6, <1>9, <1>10, Peers
  <2>2. \A j \in 1 .. Len(control'[Listener]) : \E k \in 1 .. Len(control[Listener]) : control'[Listener][j] = control[Listener][k]
    <3>1. Remain(p, e)
      BY Served
    <3> QED
      BY <3>1, Peers DEF Remain
  <2>3. UNCHANGED <<slab, by_in, wire, backlog, me, mate>>
    BY <1>5, <1>6, <1>7
  <2>4. \A h \in Handle : \A c \in End(Client) :
          slab[Client][h] = me[<<Client, c>>] /\ stage'[<<Client, c>>] = "heard" =>
            by_in[Listener][h].who # Nobody /\ mate[by_in[Listener][h].who] = me[<<Client, c>>]
    BY <2>1 DEF Parts, ToListener
  <2>5. \A j \in 1 .. Len(wire[Client]) : wire[Client][j].type = "Detach" =>
          \A i1 \in 1 .. Len(control'[Listener]) : control'[Listener][i1].input # wire[Client][j].handle
    BY <2>2 DEF Parts, ToListener
  <2> QED
    BY <2>3, <2>4, <2>5 DEF Parts, ToListener
<1>26. ToClient'
  <2>1. \A h \in Handle : \A d \in End(Listener) : slab[Listener][h] = me[<<Listener, d>>] => stage'[<<Listener, d>>] = stage[<<Listener, d>>]
    BY <1>6, <1>9, <1>10, Peers
  <2> QED
    BY <2>1, <1>5, <1>6, <1>7 DEF Parts, ToClient
<1>27. Inboxes'
  <2>1. \A q \in Peer : \A d \in End(q) :
          /\ link'[<<q, d>>].inbox = link[<<q, d>>].inbox
          /\ link'[<<q, d>>].pc \in {"up", "waiting", "refused"} => link'[<<q, d>>] = link[<<q, d>>]
    BY <1>3, <1>6, <1>9 DEF l
  <2>2. Client \in Peer /\ Listener \in Peer
    BY Peers
  <2>3. UNCHANGED <<me, mate, called>>
    BY <1>6, <1>7
  <2>4. ASSUME NEW c \in End(Client)
        PROVE  /\ link'[<<Client, c>>].inbox = link[<<Client, c>>].inbox
               /\ link'[<<Client, c>>].pc \in {"up", "waiting", "refused"} => mate[link'[<<Client, c>>].peer] = me[<<Client, c>>]
    BY <2>1, <2>2 DEF Parts, Inboxes
  <2>5. \A d \in End(Listener) : link'[<<Listener, d>>].inbox = link[<<Listener, d>>].inbox
    BY <2>1, <2>2
  <2> QED
    BY <2>3, <2>4, <2>5, SameInboxes
<1> QED
  BY <1>6, <1>13, <1>14, <1>15, <1>16, <1>17, <1>18, <1>19, <1>20, <1>21, <1>22, <1>23, <1>24, <1>25, <1>26, <1>27 DEF Parts

\* A handle is left for every link: two slots are of two links.
LEMMA HandleLeft ==
  ASSUME Parts, NEW p \in Peer
  PROVE  vacant[p] # <<>>
<1> SUFFICES ASSUME vacant[p] = <<>>
             PROVE  FALSE
  OBVIOUS
<1>1. ASSUME NEW h \in Handle
      PROVE  \E e \in End(p) : slab[p][h] = me[<<p, e>>]
  <2>1. slab[p][h] # Nobody
    BY DEF Parts, Vacant
  <2> QED
    BY <2>1 DEF Parts, Slots
<1> DEFINE f == [h \in Handle |-> CHOOSE e \in End(p) : slab[p][h] = me[<<p, e>>]]
<1>2. ASSUME NEW h \in Handle
      PROVE  f[h] \in End(p) /\ slab[p][h] = me[<<p, f[h]>>]
  BY <1>1
<1>3. f \in [Handle -> End(p)]
  BY <1>2
<1> HIDE DEF f
<1>4. IsFiniteSet(End(p)) /\ Cardinality(End(p)) = Ends[p] /\ Ends[p] \in Nat
  <2>1. Ends[p] \in Nat
    BY Ordinals
  <2> QED
    BY <2>1, FS_Interval DEF End
<1>5. IsFiniteSet(Handle) /\ Cardinality(Handle) > Ends[p]
  <2>1. PICK n \in Nat : Handle = 0 .. n /\ \A q \in Peer : Ends[q] \in Nat /\ Ends[q] <= n
    BY HandleRange
  <2>2. IsFiniteSet(0 .. n) /\ Cardinality(0 .. n) = n + 1
    BY FS_Interval
  <2> QED
    BY <2>1, <2>2
<1>6. PICK g \in Handle, h \in Handle : g # h /\ f[g] = f[h]
  <2>1. Cardinality(End(p)) < Cardinality(Handle)
    BY <1>4, <1>5, FS_CardinalityType
  <2> QED
    BY <1>3, <1>4, <1>5, <2>1, FS_PigeonHole
<1>7. f[g] \in End(p) /\ slab[p][g] = me[<<p, f[g]>>] /\ slab[p][h] = me[<<p, f[g]>>]
  BY <1>2, <1>6
<1>8. g = h
  BY <1>7 DEF Parts, Slots
<1> QED
  BY <1>6, <1>8

\* The first vacant handle is given away.
GivesAway(p, h) ==
  /\ h = Head(vacant[p]) /\ vacant' = [vacant EXCEPT ![p] = Tail(@)] /\ slab'[p][h] # Nobody
  /\ \A q \in Peer, g \in Handle : ~(q = p /\ g = h) => slab'[q][g] = slab[q][g]

\* The first vacant handle is taken.
LEMMA VacancyTaken ==
  ASSUME Parts, NEW p \in Peer, NEW h, GivesAway(p, h)
  PROVE  slab[p][h] = Nobody /\ Vacant' /\ vacant' \in [Peer -> Seq(Handle)]
<1>0. /\ h = Head(vacant[p]) /\ vacant' = [vacant EXCEPT ![p] = Tail(@)] /\ slab'[p][h] # Nobody
      /\ \A q \in Peer, g \in Handle : ~(q = p /\ g = h) => slab'[q][g] = slab[q][g]
  BY DEF GivesAway
<1> DEFINE v == vacant[p]
<1>1. vacant \in [Peer -> Seq(Handle)] /\ v \in Seq(Handle) /\ v # <<>>
  BY HandleLeft DEF Parts, Typed
<1>2. /\ Tail(v) \in Seq(Handle) /\ Len(v) \in Nat /\ Len(v) >= 1 /\ Len(Tail(v)) = Len(v) - 1
      /\ h = v[1] /\ h \in Handle /\ \A i \in 1 .. Len(v) - 1 : Tail(v)[i] = v[i + 1]
  BY <1>0, <1>1, Shrunk
<1>3. vacant' \in [Peer -> Seq(Handle)] /\ vacant'[p] = Tail(v) /\ \A q \in Peer : q # p => vacant'[q] = vacant[q]
  BY <1>0, <1>1, <1>2
<1>4. /\ \A i \in 1 .. Len(v) : slab[p][v[i]] = Nobody
      /\ \A g \in Handle : slab[p][g] = Nobody => \E i \in 1 .. Len(v) : v[i] = g
      /\ \A i, j \in 1 .. Len(v) : v[i] = v[j] => i = j
  BY DEF Parts, Vacant
<1>5. 1 \in 1 .. Len(v) /\ slab[p][h] = Nobody
  BY <1>2, <1>4
<1> DEFINE w == vacant'[p]
<1>6. \A i \in 1 .. Len(w) : i \in Nat /\ i + 1 \in 1 .. Len(v) /\ i + 1 # 1 /\ w[i] = v[i + 1] /\ w[i] \in Handle
  BY <1>1, <1>2, <1>3
<1>7. \A i \in 1 .. Len(v) : i = 1 \/ (i - 1 \in 1 .. Len(w) /\ w[i - 1] = v[i])
  BY <1>2, <1>3
<1> HIDE DEF v, w
<1>8. \A i \in 1 .. Len(w) : slab'[p][w[i]] = Nobody
  <2>1. ASSUME NEW i \in 1 .. Len(w)
        PROVE  slab'[p][w[i]] = Nobody
    <3>1. w[i] # h
      BY <1>2, <1>4, <1>5, <1>6 DEF v
    <3> QED
      BY <3>1, <1>0, <1>4, <1>6
  <2> QED
    BY <2>1
<1>9. \A g \in Handle : slab'[p][g] = Nobody => \E i \in 1 .. Len(w) : w[i] = g
  <2>1. ASSUME NEW g \in Handle, slab'[p][g] = Nobody
        PROVE  \E i \in 1 .. Len(w) : w[i] = g
    <3>1. g # h /\ slab[p][g] = Nobody
      BY <2>1, <1>0
    <3>2. PICK i \in 1 .. Len(v) : v[i] = g
      BY <3>1, <1>4
    <3>3. i # 1
      BY <3>1, <3>2, <1>2 DEF v
    <3> QED
      BY <3>2, <3>3, <1>7
  <2> QED
    BY <2>1
<1>10. \A i, j \in 1 .. Len(w) : w[i] = w[j] => i = j
  <2>1. ASSUME NEW i \in 1 .. Len(w), NEW j \in 1 .. Len(w), w[i] = w[j]
        PROVE  i = j
    <3>1. i + 1 = j + 1
      BY <2>1, <1>4, <1>6
    <3> QED
      BY <3>1, <1>6
  <2> QED
    BY <2>1
<1> DEFINE Free(u, t) == /\ \A i \in 1 .. Len(u) : t[u[i]] = Nobody
                         /\ \A g \in Handle : t[g] = Nobody => \E i \in 1 .. Len(u) : u[i] = g
                         /\ \A i, j \in 1 .. Len(u) : u[i] = u[j] => i = j
<1>11. Free(w, slab'[p])
  BY <1>8, <1>9, <1>10
<1>12. ASSUME NEW q \in Peer, q # p
       PROVE  Free(vacant'[q], slab'[q])
  <2>1. vacant'[q] = vacant[q] /\ \A g \in Handle : slab'[q][g] = slab[q][g]
    BY <1>0, <1>3, <1>12
  <2>2. \A i \in 1 .. Len(vacant[q]) : vacant[q][i] \in Handle
    BY <1>1
  <2>3. Free(vacant[q], slab[q])
    BY DEF Parts, Vacant
  <2>4. Free(vacant[q], slab'[q])
    BY <2>1, <2>2, <2>3
  <2> QED
    BY <2>1, <2>4
<1>13. \A q \in Peer : Free(vacant'[q], slab'[q])
  <2> HIDE DEF Free
  <2> QED
    BY <1>11, <1>12 DEF w
<1>14. Vacant'
  BY <1>13 DEF Vacant
<1> QED
  BY <1>3, <1>5, <1>14

\* The link e gets the handle h.
Allocates(p, e, i, h) ==
  /\ Serves(p, e, i) /\ by_name[p][called[<<p, e>>]] = Absent /\ h = Head(vacant[p])
  /\ link' = [link EXCEPT ![<<p, e>>].pc = "allocated", ![<<p, e>>].handle = h]
  /\ slab' = [slab EXCEPT ![p][h] = me[<<p, e>>]]
  /\ vacant' = [vacant EXCEPT ![p] = Tail(@)]
  /\ by_name' = [by_name EXCEPT ![p][called[<<p, e>>]] = IF i = NoHandle THEN Relay(me[<<p, e>>], h) ELSE Taken]
  /\ by_in' = IF i = NoHandle THEN by_in ELSE [by_in EXCEPT ![p][i] = Relay(me[<<p, e>>], h)]
  /\ UNCHANGED <<close_pending, failure, frames, wire, backlog>>

\* The links afterwards.
LEMMA AllocateLinks ==
  ASSUME Parts, NEW p \in Peer, NEW e, NEW i, NEW h, Allocates(p, e, i, h)
  PROVE  /\ e \in End(p) /\ <<p, e>> \in Endpoint /\ stage[<<p, e>>] = "allocating" /\ stage'[<<p, e>>] = "allocated"
         /\ called[<<p, e>>] \in Names /\ me[<<p, e>>] \in Attachment /\ me[<<p, e>>] # Nobody
         /\ link' \in [Endpoint -> LinkRecord] /\ Shaped' /\ h \in Handle
         /\ me' = me /\ called' = called /\ parted' = parted /\ clean \subseteq clean' /\ <<p, e>> \in clean'
         /\ <<p, e>> \notin parted /\ held'[<<p, e>>] = h /\ mate' = mate /\ known' = known /\ past' = past
         /\ \A y \in Endpoint : y # <<p, e>> => stage'[y] = stage[y] /\ held'[y] = held[y] /\ link'[y] = link[y]
         /\ link'[<<p, e>>].inbox = link[<<p, e>>].inbox /\ link'[<<p, e>>].pc = "allocated"
<1> DEFINE x == <<p, e>>
           l == link[x]
           m == [l EXCEPT !.pc = "allocated", !.handle = h]
<1>1. /\ e \in End(p) /\ l.pc = "allocating" /\ stage[x] = "allocating"
  <2>1. Serves(p, e, i)
    BY DEF Allocates
  <2> QED
    BY <2>1, Served
<1>2. /\ x \in Endpoint /\ x[1] = p /\ x[2] = e /\ l \in LinkRecord /\ Shape(x, l) /\ called[x] = l.name
      /\ me[x] \in Attachment /\ me[x] # Nobody /\ x \notin parted
  BY <1>1, Endpoints, LinkFields, Abbreviated, Heard DEF Parts, Shaped
<1>3. h \in Handle
  <2>1. vacant[p] \in Seq(Handle) /\ vacant[p] # <<>> /\ h = Head(vacant[p])
    BY HandleLeft DEF Parts, Typed, Allocates
  <2> QED
    BY <2>1, Shrunk
<1>4. /\ m \in LinkRecord /\ m.pc = "allocated" /\ m.handle = h /\ m.inbox = l.inbox /\ m.name = l.name /\ m.life = l.life
      /\ m.asked = l.asked /\ m.goal = l.goal /\ m.peer = l.peer
  BY <1>2, <1>3 DEF LinkRecord, InUse
<1>5. link' = [link EXCEPT ![x] = m]
  BY <1>2 DEF Allocates, Parts, Typed
<1> HIDE DEF m
<1>6. Becomes(x, m) /\ Shape(x, m) /\ l.inbox = <<>> /\ l.name \in Names
  <2>1. Shape(x, m) /\ l.inbox = <<>> /\ l.name \in Names
    BY <1>1, <1>2, <1>3, <1>4 DEF Shape
  <2> QED
    BY <2>1, <1>4, <1>5 DEF Becomes
<1> HIDE DEF l
<1>7. /\ \A y \in Endpoint : y # x =>
              /\ link'[y] = link[y] /\ stage'[y] = stage[y] /\ called'[y] = called[y]
              /\ held'[y] = held[y] /\ (y \in clean' <=> y \in clean) /\ (y \in parted' <=> y \in parted)
      /\ link'[x] = m /\ stage'[x] = "allocated" /\ called'[x] = m.name /\ held'[x] = h
      /\ x \in parted' <=> m.asked = m.life
      /\ link' \in [Endpoint -> LinkRecord]
  BY <1>2, <1>4, <1>6, OneLink DEF Parts
<1>8. x \in clean'
  <2>1. \A j \in 1 .. Len(m.inbox) : FALSE
    BY <1>4, <1>6
  <2> QED
    BY <2>1, <1>2, <1>4, <1>6, OneLink DEF Parts
<1>9. called'[x] = called[x] /\ (x \in parted' <=> x \in parted)
  BY <1>7, <1>2, <1>4 DEF parted, l
<1>10. me' = me
  BY <1>1, <1>2, <1>4, <1>6, OneStage DEF Parts, l
<1>11. Shaped'
  BY <1>2, <1>6, OneShape DEF Parts
<1>12. called' = called /\ parted' = parted /\ clean \subseteq clean'
  BY <1>7, <1>8, <1>9, Extensions
<1>13. mate' = mate
  <2>1. \A d \in End(Listener) : <<Listener, d>> \in Endpoint
    BY Peers, Endpoints
  <2> QED
    BY <2>1, <1>1, <1>4, <1>7, SameMates DEF l
<1>14. known' = known /\ past' = past
  <2>1. ASSUME NEW q \in Peer, NEW S, "allocating" \notin S, "allocated" \notin S
        PROVE  Upto(q, S)' = Upto(q, S)
    <3>1. \A a \in Attachment : a[1] \in End(q) =>
            /\ link'[<<q, a[1]>>].life = link[<<q, a[1]>>].life
            /\ stage'[<<q, a[1]>>] \in S <=> stage[<<q, a[1]>>] \in S
      BY <2>1, <1>1, <1>4, <1>7, Endpoints DEF l
    <3> QED
      BY <3>1 DEF Upto
  <2> QED
    BY <2>1 DEF known, past
<1> QED
  BY <1>1, <1>2, <1>3, <1>4, <1>6, <1>7, <1>8, <1>10, <1>11, <1>12, <1>13, <1>14 DEF l

\* The peer's handle that the listener registers was free.
LEMMA InputFree ==
  ASSUME Parts, NEW e, NEW i, Serves(Listener, e, i)
  PROVE  /\ i \in Handle /\ by_in[Listener][i].who = Nobody /\ slab[Client][i] = mate[me[<<Listener, e>>]]
         /\ called[<<Listener, e>>] \in awaited
<1> DEFINE x == <<Listener, e>>
<1>0. Client \in Peer /\ Listener \in Peer
  BY Peers
<1>1. /\ e \in End(Listener) /\ stage[x] = "allocating" /\ i \in Handle /\ i = by_name[Client][called[x]].out
      /\ \E j \in 1 .. Len(control[Listener]) : control[Listener][j].input = i
  BY <1>0, Served
<1>2. called[x] \in awaited /\ by_name[Client][called[x]].who = mate[me[x]] /\ mate[me[x]] # Nobody
  BY <1>1 DEF Parts, Mates
<1>3. slab[Client][i] = mate[me[x]]
  BY <1>1, <1>2, AwaitedLink
<1>4. ASSUME by_in[Listener][i].who # Nobody
      PROVE  FALSE
  <2>1. PICK d \in End(Listener) : by_in[Listener][i].who = me[<<Listener, d>>] /\ stage[<<Listener, d>>] \notin {"idle", "allocating"}
    BY <1>0, <1>1, <1>4 DEF Parts, Registered
  <2>2. CASE slab[Client][i] = mate[by_in[Listener][i].who]
    <3>1. me[<<Listener, d>>] \in Attachment /\ me[x] \in Attachment
      BY <1>0, <1>1, Abbreviated DEF Parts
    <3>2. me[<<Listener, d>>] = me[x]
      BY <2>1, <2>2, <3>1, <1>2, <1>3 DEF Parts, Mates
    <3>3. d = e
      BY <3>2, <1>0, <1>1, Abbreviated DEF Parts
    <3> QED
      BY <2>1, <3>3, <1>1
  <2>3. CASE \E j \in 1 .. Len(wire[Client]) : DetachOf(wire[Client][j], mate[by_in[Listener][i].who], i)
    <3>1. PICK j \in 1 .. Len(wire[Client]) : wire[Client][j].type = "Detach" /\ wire[Client][j].handle = i
      BY <2>3 DEF DetachOf
    <3>2. \A k \in 1 .. Len(control[Listener]) : control[Listener][k].input # wire[Client][j].handle
      BY <3>1 DEF Parts, ToListener
    <3> QED
      BY <3>1, <3>2, <1>1
  <2> QED
    BY <2>2, <2>3, <1>1, <1>4 DEF Parts, ToListener
<1> QED
  BY <1>1, <1>2, <1>3, <1>4

\* What was in the tables stays there.
LEMMA AllocateTables ==
  ASSUME Parts, NEW p \in Peer, NEW e, NEW i, NEW h, Allocates(p, e, i, h)
  PROVE  /\ slab[p][h] = Nobody /\ slab'[p][h] = me[<<p, e>>]
         /\ \A q \in Peer, g \in Handle : ~(q = p /\ g = h) => slab'[q][g] = slab[q][g]
         /\ by_name[p][called[<<p, e>>]] = Absent
         /\ \A q \in Peer, n \in Names : ~(q = p /\ n = called[<<p, e>>]) => by_name'[q][n] = by_name[q][n]
         /\ p = Client => by_name'[p][called[<<p, e>>]] = Relay(me[<<p, e>>], h) /\ by_in' = by_in
         /\ p = Listener => /\ i \in Handle /\ by_name'[p][called[<<p, e>>]] = Taken
                            /\ by_in[p][i].who = Nobody /\ by_in'[p][i] = Relay(me[<<p, e>>], h)
         /\ \A q \in Peer, g \in Handle : ~(p = Listener /\ q = p /\ g = i) => by_in'[q][g] = by_in[q][g]
         /\ Typed' /\ Vacant'
<1> DEFINE x == <<p, e>>
           n0 == called[x]
<1>1. /\ e \in End(p) /\ n0 \in Names /\ me[x] \in Attachment /\ me[x] # Nobody
      /\ link' \in [Endpoint -> LinkRecord] /\ h \in Handle
  BY AllocateLinks
<1>2. Serves(p, e, i)
  BY DEF Allocates
<1>3. /\ control' \in [Peer -> Seq(Allocation)] /\ (p = Client => i = NoHandle) /\ (p = Listener => i \in Handle)
  BY <1>2, Served
<1>4. /\ slab \in [Peer -> [Handle -> Attachment]] /\ vacant \in [Peer -> Seq(Handle)]
      /\ by_name \in [Peer -> [Names -> Entry]] /\ by_in \in [Peer -> [Handle -> Entry]]
  BY DEF Parts, Typed
<1>5. /\ slab' = [slab EXCEPT ![p][h] = me[x]]
      /\ vacant' = [vacant EXCEPT ![p] = Tail(@)]
      /\ by_name' = [by_name EXCEPT ![p][n0] = IF i = NoHandle THEN Relay(me[x], h) ELSE Taken]
      /\ by_in' = IF i = NoHandle THEN by_in ELSE [by_in EXCEPT ![p][i] = Relay(me[x], h)]
      /\ by_name[p][n0] = Absent /\ h = Head(vacant[p])
      /\ UNCHANGED <<close_pending, failure, frames, wire, backlog>>
  BY DEF Allocates
<1> HIDE DEF n0, x
<1>6. /\ slab' \in [Peer -> [Handle -> Attachment]] /\ slab'[p][h] = me[x]
      /\ \A q \in Peer, g \in Handle : ~(q = p /\ g = h) => slab'[q][g] = slab[q][g]
  BY <1>1, <1>4, <1>5
<1>7. Relay(me[x], h) \in Entry /\ Taken \in Entry
  <2>1. NoHandle \in Handle \cup {NoHandle} /\ Nobody \in Attachment
    BY DEF Nobody, Attachment
  <2> QED
    BY <1>1, <2>1 DEF Relay, Taken, Absent, Entry
<1>8. /\ by_name' \in [Peer -> [Names -> Entry]] /\ by_name'[p][n0] = IF i = NoHandle THEN Relay(me[x], h) ELSE Taken
      /\ \A q \in Peer, n \in Names : ~(q = p /\ n = n0) => by_name'[q][n] = by_name[q][n]
  <2> DEFINE r == IF i = NoHandle THEN Relay(me[x], h) ELSE Taken
  <2>1. r \in Entry
    BY <1>7
  <2>2. by_name' = [by_name EXCEPT ![p][n0] = r]
    BY <1>5
  <2> HIDE DEF r
  <2>3. /\ by_name' \in [Peer -> [Names -> Entry]] /\ by_name'[p][n0] = r
        /\ \A q \in Peer, n \in Names : ~(q = p /\ n = n0) => by_name'[q][n] = by_name[q][n]
    BY <1>1, <1>4, <2>1, <2>2
  <2> QED
    BY <2>3 DEF r
<1>11. GivesAway(p, h)
  BY <1>1, <1>5, <1>6 DEF GivesAway
<1>9. CASE p = Client
  <2>1. i = NoHandle /\ by_in' = by_in /\ p # Listener
    BY <1>3, <1>5, <1>9, Peers
  <2>2. slab[p][h] = Nobody /\ Vacant' /\ vacant' \in [Peer -> Seq(Handle)]
    BY <1>11, VacancyTaken
  <2>3. Typed'
    BY <1>1, <1>3, <1>4, <1>5, <1>6, <1>8, <2>1, <2>2 DEF Parts, Typed
  <2> QED
    BY <1>3, <1>5, <1>6, <1>8, <1>9, <2>1, <2>2, <2>3 DEF n0, x
<1>10. CASE p = Listener
  <2>1. i \in Handle /\ i # NoHandle /\ p # Client
    BY <1>3, <1>10, Peers, Handles
  <2>2. slab[p][h] = Nobody /\ Vacant' /\ vacant' \in [Peer -> Seq(Handle)]
    BY <1>11, VacancyTaken
  <2>3. /\ by_in' \in [Peer -> [Handle -> Entry]] /\ by_in'[p][i] = Relay(me[x], h)
        /\ \A q \in Peer, g \in Handle : ~(q = p /\ g = i) => by_in'[q][g] = by_in[q][g]
    <3> DEFINE r == Relay(me[x], h)
    <3>1. r \in Entry /\ by_in' = [by_in EXCEPT ![p][i] = r]
      BY <1>5, <1>7, <2>1
    <3> HIDE DEF r
    <3>2. /\ by_in' \in [Peer -> [Handle -> Entry]] /\ by_in'[p][i] = r
          /\ \A q \in Peer, g \in Handle : ~(q = p /\ g = i) => by_in'[q][g] = by_in[q][g]
      BY <1>4, <2>1, <3>1
    <3> QED
      BY <3>2 DEF r
  <2>4. by_in[p][i].who = Nobody
    BY <1>2, <1>10, InputFree
  <2>5. Typed'
    BY <1>1, <1>3, <1>4, <1>5, <1>6, <1>8, <2>2, <2>3 DEF Parts, Typed
  <2> QED
    BY <1>3, <1>5, <1>6, <1>8, <1>10, <2>1, <2>2, <2>3, <2>4, <2>5 DEF n0, x
<1> QED
  BY <1>9, <1>10, Peers

\* The handle is the link's alone, and so is its name.
LEMMA AllocatedStep ==
  ASSUME Parts, NEW p \in Peer, NEW e, NEW i, NEW h, Allocates(p, e, i, h)
  PROVE  Parts'
<1> DEFINE x == <<p, e>>
<1>1. /\ e \in End(p) /\ x \in Endpoint /\ stage[x] = "allocating" /\ stage'[x] = "allocated"
      /\ called[x] \in Names /\ me[x] \in Attachment /\ me[x] # Nobody /\ Shaped' /\ h \in Handle
      /\ me' = me /\ called' = called /\ parted' = parted /\ clean \subseteq clean' /\ x \in clean'
      /\ x \notin parted /\ held'[x] = h /\ mate' = mate /\ known' = known /\ past' = past
      /\ \A y \in Endpoint : y # x => stage'[y] = stage[y] /\ held'[y] = held[y] /\ link'[y] = link[y]
      /\ link'[x].inbox = link[x].inbox /\ link'[x].pc = "allocated"
  BY AllocateLinks
<1>2. /\ slab[p][h] = Nobody /\ slab'[p][h] = me[x]
      /\ \A q \in Peer, g \in Handle : ~(q = p /\ g = h) => slab'[q][g] = slab[q][g]
      /\ by_name[p][called[x]] = Absent
      /\ \A q \in Peer, n \in Names : ~(q = p /\ n = called[x]) => by_name'[q][n] = by_name[q][n]
      /\ p = Client => by_name'[p][called[x]] = Relay(me[x], h) /\ by_in' = by_in
      /\ p = Listener => /\ i \in Handle /\ by_name'[p][called[x]] = Taken
                         /\ by_in[p][i].who = Nobody /\ by_in'[p][i] = Relay(me[x], h)
      /\ \A q \in Peer, g \in Handle : ~(p = Listener /\ q = p /\ g = i) => by_in'[q][g] = by_in[q][g]
      /\ Typed' /\ Vacant'
  BY AllocateTables
<1>3. Serves(p, e, i) /\ UNCHANGED <<close_pending, frames, wire, backlog>>
  BY DEF Allocates
<1>4. /\ Client \in Peer /\ Listener \in Peer /\ Client # Listener
      /\ \A q \in Peer : q = Client \/ q = Listener
      /\ \A q \in Peer : \A d \in End(q) : <<q, d>> \in Endpoint /\ (<<q, d>> = x <=> q = p /\ d = e)
  BY Peers, Endpoints
<1>5. /\ \A q \in Peer : \A d \in End(q) : me[<<q, d>>] # Nobody /\ \A c \in End(q) : me[<<q, d>>] = me[<<q, c>>] => c = d
  BY Abbreviated DEF Parts
<1>6. \A a, g : Relay(a, g).who = a /\ Relay(a, g).out = g
  BY DEF Relay
<1>7. Taken.who = Nobody /\ Absent.who = Nobody /\ Taken # Absent
  BY DEF Taken, Absent
<1> HIDE DEF x
<1>8. \A q \in Peer : \A d \in End(q) : <<q, d>> # x =>
        stage'[<<q, d>>] = stage[<<q, d>>] /\ held'[<<q, d>>] = held[<<q, d>>] /\ link'[<<q, d>>] = link[<<q, d>>]
  BY <1>1, <1>4
<1>9. \A q \in Peer, g \in Handle : slab[q][g] # Nobody => slab'[q][g] = slab[q][g]
  BY <1>2
<1>10. \A q \in Peer, g \in Handle : by_in[q][g].who # Nobody => by_in'[q][g] = by_in[q][g]
  BY <1>2
<1>11. \A q \in Peer, n \in Names : by_name[q][n] # Absent => by_name'[q][n] = by_name[q][n]
  BY <1>2
<1>12. ASSUME NEW q \in Peer, NEW g \in Handle, NEW d \in End(q), slab'[q][g] = me[<<q, d>>]
       PROVE  (slab[q][g] = me[<<q, d>>] /\ <<q, d>> # x) \/ (<<q, d>> = x /\ q = p /\ d = e /\ g = h)
  <2>1. CASE q = p /\ g = h
    BY <2>1, <1>1, <1>2, <1>4, <1>5, <1>12 DEF x
  <2>2. CASE ~(q = p /\ g = h)
    <3>1. slab[q][g] = me[<<q, d>>]
      BY <2>2, <1>2, <1>12
    <3>2. stage[<<q, d>>] \notin {"idle", "allocating"}
      BY <3>1 DEF Parts, Slots
    <3> QED
      BY <3>1, <3>2, <1>1
  <2> QED
    BY <2>1, <2>2
<1>13. p = Client => called[x] \notin awaited
  <2>1. ASSUME p = Client
        PROVE  \A c \in End(Client) : by_name[Client][called[x]].who # me[<<Client, c>>]
    <3>1. by_name[Client][called[x]].who = Nobody
      BY <2>1, <1>2, <1>7
    <3> QED
      BY <3>1, <1>4, <1>5
  <2> QED
    BY <2>1 DEF awaited
<1>14. awaited \subseteq Names /\ \A n \in awaited : by_name'[Client][n] = by_name[Client][n]
  BY <1>2, <1>4, <1>13 DEF awaited
<1>15. awaited' = awaited
  <2>1. ASSUME NEW n \in Names
        PROVE  n \in awaited' <=> n \in awaited
    <3>1. CASE p = Client /\ n = called[x]
      <4>1. by_name'[Client][n].who = me[x]
        BY <3>1, <1>2, <1>6
      <4>2. \A c \in End(Client) : by_name'[Client][n].who = me[<<Client, c>>] => <<Client, c>> = x
        BY <3>1, <4>1, <1>1, <1>4, <1>5 DEF x
      <4>3. \A c \in End(Client) : by_name'[Client][n].who = me'[<<Client, c>>] => stage'[<<Client, c>>] # "asking"
        BY <4>2, <1>1
      <4> QED
        BY <4>3, <3>1, <1>13 DEF awaited
    <3>2. CASE ~(p = Client /\ n = called[x])
      <4>1. by_name'[Client][n] = by_name[Client][n]
        BY <3>2, <1>2, <1>4
      <4>2. \A c \in End(Client) : stage'[<<Client, c>>] = "asking" <=> stage[<<Client, c>>] = "asking"
        BY <1>1, <1>4, <1>8
      <4> QED
        BY <4>1, <4>2, <1>1 DEF awaited
    <3> QED
      BY <3>1, <3>2
  <2>2. awaited' \subseteq Names
    BY DEF awaited
  <2> QED
    BY <2>1, <2>2, <1>14
<1>16. asks' = asks
  BY <1>14, <1>15 DEF asks
<1>17. Requests'
  BY <1>1, <1>3, <1>14, ServedRequests DEF x
<1>18. Slots'
  <2>1. ASSUME NEW q \in Peer, NEW g \in Handle, slab'[q][g] # Nobody
        PROVE  \E d \in End(q) : slab'[q][g] = me[<<q, d>>]
    <3>1. CASE q = p /\ g = h
      BY <3>1, <1>1, <1>2 DEF x
    <3>2. CASE ~(q = p /\ g = h)
      <4>1. slab'[q][g] = slab[q][g]
        BY <3>2, <1>2
      <4> QED
        BY <4>1, <2>1 DEF Parts, Slots
    <3> QED
      BY <3>1, <3>2
  <2>2. ASSUME NEW q \in Peer, NEW g \in Handle, NEW d \in End(q), slab'[q][g] = me[<<q, d>>]
        PROVE  /\ stage'[<<q, d>>] \notin {"idle", "allocating"} /\ <<q, d>> \in clean' /\ <<q, d>> \notin parted
               /\ by_name'[q][called[<<q, d>>]] # Absent
    <3>1. CASE slab[q][g] = me[<<q, d>>] /\ <<q, d>> # x
      <4>1. /\ stage[<<q, d>>] \notin {"idle", "allocating"} /\ <<q, d>> \in clean /\ <<q, d>> \notin parted
            /\ by_name[q][called[<<q, d>>]] # Absent
        BY <3>1 DEF Parts, Slots
      <4>2. called[<<q, d>>] \in Names
        <5>1. link[<<q, d>>].pc # "idle"
          BY <4>1, <1>4 DEF stage
        <5> QED
          BY <5>1, <1>4 DEF Parts, Shaped, Shape, called
      <4> QED
        BY <3>1, <4>1, <4>2, <1>1, <1>8, <1>11
    <3>2. CASE <<q, d>> = x /\ q = p
      <4>1. by_name'[p][called[x]] # Absent
        BY <1>1, <1>2, <1>4, <1>6, <1>7
      <4> QED
        BY <3>2, <4>1, <1>1
    <3> QED
      BY <2>2, <3>1, <3>2, <1>12
  <2>3. ASSUME NEW q \in Peer, NEW g \in Handle, NEW d \in End(q), slab'[q][g] = me[<<q, d>>],
               NEW k \in Handle, NEW c \in End(q), slab'[q][k] = me[<<q, c>>], called[<<q, c>>] = called[<<q, d>>]
        PROVE  k = g
    <3>1. (slab[q][g] = me[<<q, d>>] /\ <<q, d>> # x) \/ (<<q, d>> = x /\ q = p /\ d = e /\ g = h)
      BY <2>3, <1>12
    <3>2. (slab[q][k] = me[<<q, c>>] /\ <<q, c>> # x) \/ (<<q, c>> = x /\ q = p /\ c = e /\ k = h)
      BY <2>3, <1>12
    <3>3. CASE slab[q][g] = me[<<q, d>>] /\ slab[q][k] = me[<<q, c>>]
      BY <2>3, <3>3 DEF Parts, Slots
    <3>4. CASE slab[q][g] = me[<<q, d>>] /\ <<q, c>> = x /\ q = p
      <4>1. by_name[q][called[<<q, d>>]] # Absent
        BY <3>4 DEF Parts, Slots
      <4> QED
        BY <3>4, <4>1, <2>3, <1>2
    <3>5. CASE slab[q][k] = me[<<q, c>>] /\ <<q, d>> = x /\ q = p
      <4>1. by_name[q][called[<<q, c>>]] # Absent
        BY <3>5 DEF Parts, Slots
      <4> QED
        BY <3>5, <4>1, <2>3, <1>2
    <3> QED
      BY <3>1, <3>2, <3>3, <3>4, <3>5
  <2> QED
    BY <2>1, <2>2, <2>3, <1>1 DEF Slots
<1>19. Holders'
  <2>1. ASSUME NEW q \in Peer, NEW g \in Handle, NEW d \in End(q), slab'[q][g] = me[<<q, d>>]
        PROVE  \/ held'[<<q, d>>] = g
               \/ \E j \in 1 .. Len(frames[q]) : DetachOf(frames[q][j], me[<<q, d>>], g)
    <3>1. CASE slab[q][g] = me[<<q, d>>] /\ <<q, d>> # x
      <4>1. held'[<<q, d>>] = held[<<q, d>>]
        BY <3>1, <1>8
      <4> QED
        BY <3>1, <4>1 DEF Parts, Holders
    <3>2. CASE <<q, d>> = x /\ g = h
      BY <3>2, <1>1
    <3> QED
      BY <2>1, <3>1, <3>2, <1>12
  <2> QED
    BY <2>1, <1>1, <1>3 DEF Holders
<1>20. Reached'
  <2>1. ASSUME NEW q \in Peer, NEW g \in Handle, NEW d \in End(q), slab'[q][g] = me[<<q, d>>],
               q = Client => stage'[<<q, d>>] = "heard"
        PROVE  \E k \in Handle : by_in'[q][k].who = me[<<q, d>>] /\ by_in'[q][k].out = g
    <3>1. CASE slab[q][g] = me[<<q, d>>] /\ <<q, d>> # x
      <4>1. PICK k \in Handle : by_in[q][k].who = me[<<q, d>>] /\ by_in[q][k].out = g
        BY <2>1, <3>1, <1>8 DEF Parts, Reached
      <4> QED
        BY <4>1, <1>5, <1>10
    <3>2. CASE <<q, d>> = x /\ q = p /\ g = h
      <4>1. p = Listener
        BY <2>1, <3>2, <1>1, <1>4
      <4> QED
        BY <3>2, <4>1, <1>2, <1>6
    <3> QED
      BY <2>1, <3>1, <3>2, <1>12
  <2> QED
    BY <2>1, <1>1 DEF Reached
<1>21. Named'
  <2>1. \A n \in Names : by_name'[Listener][n].who = Nobody
    <3>1. ASSUME NEW n \in Names
          PROVE  by_name'[Listener][n].who = Nobody
      <4>1. by_name[Listener][n].who = Nobody
        BY DEF Parts, Named
      <4> QED
        BY <4>1, <1>2, <1>4, <1>7
    <3> QED
      BY <3>1
  <2>2. ASSUME NEW n \in Names, by_name'[Client][n].who # Nobody
        PROVE  \E c \in End(Client) :
                 /\ by_name'[Client][n].who = me[<<Client, c>>] /\ called[<<Client, c>>] = n
                 /\ stage'[<<Client, c>>] \in {"allocated", "asking"}
                 /\ by_name'[Client][n].out \in Handle /\ slab'[Client][by_name'[Client][n].out] = me[<<Client, c>>]
    <3>1. CASE p = Client /\ n = called[x]
      <4>1. by_name'[Client][n].who = me[x] /\ by_name'[Client][n].out = h /\ x = <<Client, e>> /\ e \in End(Client)
        BY <3>1, <1>1, <1>2, <1>6 DEF x
      <4> QED
        BY <3>1, <4>1, <1>1, <1>2
    <3>2. CASE ~(p = Client /\ n = called[x])
      <4>1. by_name'[Client][n] = by_name[Client][n]
        BY <3>2, <1>2, <1>4
      <4>2. PICK c \in End(Client) :
                 /\ by_name[Client][n].who = me[<<Client, c>>] /\ called[<<Client, c>>] = n
                 /\ stage[<<Client, c>>] \in {"allocated", "asking"}
                 /\ by_name[Client][n].out \in Handle /\ slab[Client][by_name[Client][n].out] = me[<<Client, c>>]
        BY <2>2, <4>1 DEF Parts, Named
      <4>3. <<Client, c>> # x
        BY <4>2, <1>1
      <4> QED
        BY <4>1, <4>2, <4>3, <1>4, <1>5, <1>8, <1>9
    <3> QED
      BY <3>1, <3>2
  <2>3. ASSUME NEW c \in End(Client), stage'[<<Client, c>>] = "allocated"
        PROVE  /\ by_name'[Client][called[<<Client, c>>]].who = me[<<Client, c>>]
               /\ by_name'[Client][called[<<Client, c>>]].out = held'[<<Client, c>>]
    <3>1. CASE <<Client, c>> = x
      BY <3>1, <1>1, <1>2, <1>4, <1>6
    <3>2. CASE <<Client, c>> # x
      <4>1. /\ by_name[Client][called[<<Client, c>>]].who = me[<<Client, c>>]
            /\ by_name[Client][called[<<Client, c>>]].out = held[<<Client, c>>]
            /\ stage[<<Client, c>>] = "allocated"
        BY <2>3, <3>2, <1>4, <1>8 DEF Parts, Named
      <4>2. called[<<Client, c>>] \in Names
        <5>1. link[<<Client, c>>].pc # "idle"
          BY <4>1, <1>4 DEF stage
        <5> QED
          BY <5>1, <1>4 DEF Parts, Shaped, Shape, called
      <4>3. by_name[Client][called[<<Client, c>>]] # Absent
        BY <4>1, <1>4, <1>5, <1>7
      <4> QED
        BY <3>2, <4>1, <4>2, <4>3, <1>4, <1>8, <1>11
    <3> QED
      BY <3>1, <3>2
  <2>4. ASSUME NEW d \in End(Listener), stage'[<<Listener, d>>] = "allocated"
        PROVE  slab'[Listener][held'[<<Listener, d>>]] = me[<<Listener, d>>]
    <3>1. CASE <<Listener, d>> = x
      BY <3>1, <1>1, <1>2, <1>4
    <3>2. CASE <<Listener, d>> # x
      <4>1. slab[Listener][held[<<Listener, d>>]] = me[<<Listener, d>>] /\ stage[<<Listener, d>>] = "allocated"
        BY <2>4, <3>2, <1>4, <1>8 DEF Parts, Named
      <4>2. held[<<Listener, d>>] \in Handle
        <5>1. link[<<Listener, d>>].pc = "allocated"
          BY <4>1, <1>4 DEF stage
        <5> QED
          BY <5>1, <1>4 DEF Parts, Shaped, Shape, held
      <4> QED
        BY <3>2, <4>1, <4>2, <1>4, <1>5, <1>8, <1>9
    <3> QED
      BY <3>1, <3>2
  <2> QED
    BY <2>1, <2>2, <2>3, <2>4, <1>1 DEF Named
<1>22. ASSUME NEW q \in Peer, NEW g \in Handle
       PROVE  by_in'[q][g] = by_in[q][g] \/ (p = Listener /\ q = p /\ g = i /\ by_in'[q][g].who = me[x] /\ by_in'[q][g].out = h)
  BY <1>2, <1>6
<1>23. \A q \in Peer, g \in Handle : q = p => by_in[q][g].who # me[x]
  <2>1. ASSUME NEW q \in Peer, NEW g \in Handle, q = p, by_in[q][g].who = me[x]
        PROVE  FALSE
    <3>1. PICK d \in End(q) : by_in[q][g].who = me[<<q, d>>] /\ stage[<<q, d>>] \notin {"idle", "allocating"}
      BY <2>1, <1>1 DEF Parts, Registered
    <3>2. d = e
      BY <2>1, <3>1, <1>1, <1>5 DEF x
    <3> QED
      BY <2>1, <3>1, <3>2, <1>1 DEF x
  <2> QED
    BY <2>1
<1>24. Registered'
  <2>1. \A q \in Peer, g \in Handle : by_in'[q][g].who = Nobody => by_in'[q][g] = Absent
    BY <1>1, <1>22 DEF Parts, Registered
  <2>2. ASSUME NEW q \in Peer, NEW g \in Handle, by_in'[q][g].who # Nobody
        PROVE  /\ \E d \in End(q) :
                    /\ by_in'[q][g].who = me[<<q, d>>] /\ <<q, d>> \in clean'
                    /\ stage'[<<q, d>>] \notin {"idle", "allocating"} /\ (q = Client => stage'[<<q, d>>] = "heard")
                    /\ <<q, d>> \in parted \/ slab'[q][by_in'[q][g].out] = me[<<q, d>>]
               /\ by_in'[q][g].out \in Handle
    <3>1. CASE by_in'[q][g] = by_in[q][g]
      <4>1. by_in[q][g].out \in Handle
        BY <2>2, <3>1 DEF Parts, Registered
      <4>2. PICK d \in End(q) :
                    /\ by_in[q][g].who = me[<<q, d>>] /\ <<q, d>> \in clean
                    /\ stage[<<q, d>>] \notin {"idle", "allocating"} /\ (q = Client => stage[<<q, d>>] = "heard")
                    /\ <<q, d>> \in parted \/ slab[q][by_in[q][g].out] = me[<<q, d>>]
        BY <2>2, <3>1 DEF Parts, Registered
      <4>3. <<q, d>> # x
        BY <4>2, <1>1
      <4>4. <<q, d>> \in parted \/ slab'[q][by_in[q][g].out] = me[<<q, d>>]
        BY <4>1, <4>2, <1>5, <1>9
      <4> QED
        BY <3>1, <4>1, <4>2, <4>3, <4>4, <1>1, <1>8
    <3>2. CASE p = Listener /\ q = p /\ g = i /\ by_in'[q][g].who = me[x] /\ by_in'[q][g].out = h
      <4>1. x = <<q, e>> /\ e \in End(q)
        BY <3>2, <1>1 DEF x
      <4> QED
        BY <3>2, <4>1, <1>1, <1>2, <1>4
    <3> QED
      BY <3>1, <3>2, <1>22
  <2>3. ASSUME NEW q \in Peer, NEW g \in Handle, by_in'[q][g].who # Nobody, NEW k \in Handle, by_in'[q][k].who = by_in'[q][g].who
        PROVE  k = g
    <3>1. CASE by_in'[q][g] = by_in[q][g] /\ by_in'[q][k] = by_in[q][k]
      BY <2>3, <3>1 DEF Parts, Registered
    <3>2. CASE by_in'[q][g] = by_in[q][g] /\ q = p /\ by_in'[q][k].who = me[x]
      BY <2>3, <3>2, <1>23
    <3>3. CASE by_in'[q][k] = by_in[q][k] /\ q = p /\ by_in'[q][g].who = me[x]
      BY <2>3, <3>3, <1>23
    <3> QED
      BY <3>1, <3>2, <3>3, <1>22
  <2> QED
    BY <2>1, <2>2, <2>3, <1>1 DEF Registered
<1>25. Pending'
  <2>1. ASSUME NEW q \in Peer, NEW g \in close_pending[q]
        PROVE  \E k \in Handle : \E d \in End(q) : by_in'[q][k].who = me[<<q, d>>] /\ by_in'[q][k].out = g /\ <<q, d>> \in parted
    <3>1. PICK k \in Handle, d \in End(q) : by_in[q][k].who = me[<<q, d>>] /\ by_in[q][k].out = g /\ <<q, d>> \in parted
      BY DEF Parts, Pending
    <3> QED
      BY <3>1, <1>5, <1>10
  <2> QED
    BY <2>1, <1>1, <1>3 DEF Pending
<1>26. Asks'
  BY <1>3, <1>16 DEF Parts, Asks
<1>27. Mates'
  <2>1. ASSUME NEW d \in End(Listener)
        PROVE  /\ stage'[<<Listener, d>>] # "idle" => mate[me[<<Listener, d>>]] # Nobody
               /\ stage'[<<Listener, d>>] \in {"allocating", "allocated"} =>
                    /\ called[<<Listener, d>>] \in awaited
                    /\ by_name'[Client][called[<<Listener, d>>]].who = mate[me[<<Listener, d>>]]
    <3>1. /\ stage'[<<Listener, d>>] # "idle" => stage[<<Listener, d>>] # "idle"
          /\ stage'[<<Listener, d>>] \in {"allocating", "allocated"} => stage[<<Listener, d>>] \in {"allocating", "allocated"}
      BY <1>1, <1>4, <1>8
    <3>2. /\ stage[<<Listener, d>>] # "idle" => mate[me[<<Listener, d>>]] # Nobody
          /\ stage[<<Listener, d>>] \in {"allocating", "allocated"} =>
               /\ called[<<Listener, d>>] \in awaited
               /\ by_name[Client][called[<<Listener, d>>]].who = mate[me[<<Listener, d>>]]
      BY DEF Parts, Mates
    <3> QED
      BY <3>1, <3>2, <1>14
  <2>2. ASSUME NEW d \in End(Listener), stage'[<<Listener, d>>] = "allocated"
        PROVE  by_in'[Listener][by_name'[Client][called[<<Listener, d>>]].out].who = me[<<Listener, d>>]
    <3>1. CASE <<Listener, d>> = x
      <4>1. p = Listener /\ d = e
        BY <3>1, <1>4
      <4>2. i = by_name[Client][called[x]].out /\ called[x] \in awaited
        BY <4>1, <1>3, Served, InputFree DEF x
      <4> QED
        BY <3>1, <4>1, <4>2, <1>2, <1>6, <1>14
    <3>2. CASE <<Listener, d>> # x
      <4>1. stage[<<Listener, d>>] = "allocated"
        BY <2>2, <3>2, <1>4, <1>8
      <4>2. /\ by_in[Listener][by_name[Client][called[<<Listener, d>>]].out].who = me[<<Listener, d>>]
            /\ called[<<Listener, d>>] \in awaited
        BY <4>1 DEF Parts, Mates
      <4>3. by_name[Client][called[<<Listener, d>>]].out \in Handle
        BY <4>2, AwaitedLink
      <4> QED
        BY <4>2, <4>3, <1>4, <1>5, <1>10, <1>14
    <3> QED
      BY <3>1, <3>2
  <2>3. UNCHANGED <<frames, wire, backlog, mate, me, called, known, awaited>>
    BY <1>1, <1>3, <1>15
  <2> QED
    BY <2>1, <2>2, <2>3 DEF Parts, Mates
<1>28. answers \subseteq answers' /\ \A f \in answers : f.type = "Attach" => f.from # Nobody
  <2>1. ASSUME NEW f \in answers, f.type = "Attach"
        PROVE  f.from # Nobody /\ \E d \in End(Listener) :
                 /\ f.from = me'[<<Listener, d>>] /\ stage'[<<Listener, d>>] = "heard" /\ f.name = called'[<<Listener, d>>]
                 /\ f.name \in awaited' /\ by_name'[Client][f.name].who = mate'[f.from]
                 /\ by_in'[Listener][by_name'[Client][f.name].out].who = f.from
    <3>1. PICK d \in End(Listener) :
            /\ f.from = me[<<Listener, d>>] /\ stage[<<Listener, d>>] = "heard" /\ f.name = called[<<Listener, d>>]
            /\ f.name \in awaited /\ by_name[Client][f.name].who = mate[f.from]
            /\ by_in[Listener][by_name[Client][f.name].out].who = f.from
      BY <2>1 DEF answers
    <3>2. stage'[<<Listener, d>>] = "heard"
      BY <3>1, <1>1, <1>4, <1>8
    <3>3. by_name[Client][f.name].out \in Handle
      BY <3>1, AwaitedLink
    <3>4. by_in'[Listener][by_name'[Client][f.name].out].who = f.from
      BY <3>1, <3>3, <1>4, <1>5, <1>10, <1>14
    <3> QED
      BY <3>1, <3>2, <3>4, <1>1, <1>4, <1>5, <1>14, <1>15
  <2> QED
    BY <2>1 DEF answers
<1>29. Replies'
  <2>1. All(frames[Listener], answers') /\ All(wire[Listener], answers')
    BY <1>28, AllMonotone DEF Parts, Replies
  <2>2. ASSUME NEW s \in Seq(Frame), All(s, answers), NEW j \in 1 .. Len(s), s[j].type = "Attach", slab[Listener][s[j].handle] = s[j].from
        PROVE  slab'[Listener][s[j].handle] = s[j].from
    <3>1. s[j] \in answers /\ s[j] \in Frame
      BY <2>2 DEF All
    <3>2. s[j].handle \in Handle /\ s[j].from # Nobody
      BY <2>2, <3>1, <1>28 DEF Frame
    <3> QED
      BY <2>2, <3>2, <1>4, <1>9
  <2>3. frames[Listener] \in Seq(Frame) /\ wire[Listener] \in Seq(Frame)
    BY <1>4 DEF Parts, Typed
  <2>4. /\ All(frames[Listener], answers) /\ All(wire[Listener], answers)
        /\ Once(frames[Listener]) /\ Once(wire[Listener]) /\ Apart(frames[Listener], wire[Listener])
        /\ \A j \in 1 .. Len(frames[Listener]) : frames[Listener][j].type = "Attach" =>
             /\ slab[Listener][frames[Listener][j].handle] = frames[Listener][j].from
             /\ \A k \in 1 .. Len(frames[Listener]) :
                  frames[Listener][k].type = "Detach" /\ frames[Listener][k].from = frames[Listener][j].from => j < k
        /\ \A j \in 1 .. Len(wire[Listener]) : wire[Listener][j].type = "Attach" =>
             \/ slab[Listener][wire[Listener][j].handle] = wire[Listener][j].from
             \/ \E k \in 1 .. Len(wire[Listener]) : DetachOf(wire[Listener][k], wire[Listener][j].from, wire[Listener][j].handle)
    BY DEF Parts, Replies
  <2>5. \A j \in 1 .. Len(frames[Listener]) : frames[Listener][j].type = "Attach" => slab'[Listener][frames[Listener][j].handle] = frames[Listener][j].from
    BY <2>2, <2>3, <2>4
  <2>6. \A j \in 1 .. Len(wire[Listener]) : wire[Listener][j].type = "Attach" =>
             \/ slab'[Listener][wire[Listener][j].handle] = wire[Listener][j].from
             \/ \E k \in 1 .. Len(wire[Listener]) : DetachOf(wire[Listener][k], wire[Listener][j].from, wire[Listener][j].handle)
    BY <2>2, <2>3, <2>4
  <2> QED
    BY <2>1, <2>4, <2>5, <2>6, <1>3 DEF Replies
<1>30. Detaching'
  <2>1. me[x] \notin past[p]
    BY <1>1, Heard DEF Parts, x
  <2>2. ASSUME NEW q \in Peer, NEW j \in 1 .. Len(wire[q]), wire[q][j].type = "Detach", NEW g \in Handle
        PROVE  slab'[q][g] # wire[q][j].from
    <3>1. wire[q][j].from \in past[q] /\ slab[q][g] # wire[q][j].from
      BY <2>2 DEF Parts, Detaching
    <3> QED
      BY <2>1, <3>1, <1>2
  <2> QED
    BY <2>2, <1>1, <1>3 DEF Parts, Detaching
<1>31. ToListener'
  <2>1. ASSUME NEW g \in Handle, NEW c \in End(Client), slab'[Client][g] = me[<<Client, c>>], stage'[<<Client, c>>] = "heard"
        PROVE  by_in'[Listener][g].who # Nobody /\ mate[by_in'[Listener][g].who] = me[<<Client, c>>]
    <3>1. slab[Client][g] = me[<<Client, c>>] /\ <<Client, c>> # x
      BY <2>1, <1>1, <1>4, <1>12
    <3>2. stage[<<Client, c>>] = "heard"
      BY <2>1, <3>1, <1>4, <1>8
    <3>3. by_in[Listener][g].who # Nobody /\ mate[by_in[Listener][g].who] = me[<<Client, c>>]
      BY <3>1, <3>2 DEF Parts, ToListener
    <3> QED
      BY <3>3, <1>4, <1>10
  <2>2. ASSUME NEW j \in 1 .. Len(wire[Client]), wire[Client][j].type = "Detach"
        PROVE  /\ by_in'[Listener][wire[Client][j].handle].who # Nobody
               /\ mate[by_in'[Listener][wire[Client][j].handle].who] = wire[Client][j].from
               /\ \A k \in 1 .. j - 1 : wire[Client][k].handle # wire[Client][j].handle
               /\ \A k \in 1 .. Len(backlog) : backlog[k].handle # wire[Client][j].handle
               /\ \A k \in 1 .. Len(control'[Listener]) : control'[Listener][k].input # wire[Client][j].handle
    <3>1. /\ by_in[Listener][wire[Client][j].handle].who # Nobody
          /\ mate[by_in[Listener][wire[Client][j].handle].who] = wire[Client][j].from
          /\ \A k \in 1 .. j - 1 : wire[Client][k].handle # wire[Client][j].handle
          /\ \A k \in 1 .. Len(backlog) : backlog[k].handle # wire[Client][j].handle
          /\ \A k \in 1 .. Len(control[Listener]) : control[Listener][k].input # wire[Client][j].handle
      BY <2>2 DEF Parts, ToListener
    <3>2. wire[Client][j].handle \in Handle
      <4>1. wire[Client] \in Seq(Frame)
        BY <1>4 DEF Parts, Typed
      <4>2. wire[Client][j] \in Frame
        BY <4>1
      <4> QED
        BY <4>2 DEF Frame
    <3>3. \A k \in 1 .. Len(control'[Listener]) : \E n \in 1 .. Len(control[Listener]) : control'[Listener][k] = control[Listener][n]
      <4>1. Remain(p, e)
        BY <1>3, Served
      <4> QED
        BY <4>1, <1>4 DEF Remain
    <3>4. \A k \in 1 .. Len(control'[Listener]) : control'[Listener][k].input # wire[Client][j].handle
      BY <3>1, <3>3
    <3>5. by_in'[Listener][wire[Client][j].handle] = by_in[Listener][wire[Client][j].handle]
      BY <3>1, <3>2, <1>4, <1>10
    <3> QED
      BY <3>1, <3>4, <3>5
  <2>3. ASSUME NEW g \in Handle, by_in'[Listener][g].who # Nobody
        PROVE  \/ slab'[Client][g] = mate[by_in'[Listener][g].who]
               \/ \E j \in 1 .. Len(wire[Client]) : DetachOf(wire[Client][j], mate[by_in'[Listener][g].who], g)
    <3>1. CASE by_in'[Listener][g] = by_in[Listener][g]
      <4>1. PICK d \in End(Listener) : by_in[Listener][g].who = me[<<Listener, d>>] /\ stage[<<Listener, d>>] \notin {"idle", "allocating"}
        BY <2>3, <3>1, <1>4 DEF Parts, Registered
      <4>2. mate[by_in[Listener][g].who] # Nobody
        BY <4>1 DEF Parts, Mates
      <4>3. \/ slab[Client][g] = mate[by_in[Listener][g].who]
            \/ \E j \in 1 .. Len(wire[Client]) : DetachOf(wire[Client][j], mate[by_in[Listener][g].who], g)
        BY <2>3, <3>1 DEF Parts, ToListener
      <4> QED
        BY <3>1, <4>2, <4>3, <1>4, <1>9
    <3>2. CASE p = Listener /\ g = i /\ by_in'[Listener][g].who = me[x]
      <4>1. slab[Client][i] = mate[me[x]]
        BY <3>2, <1>3, InputFree DEF x
      <4> QED
        BY <3>2, <4>1, <1>2, <1>4
    <3> QED
      BY <3>1, <3>2, <1>4, <1>22
  <2> QED
    BY <2>1, <2>2, <2>3, <1>1, <1>3 DEF ToListener
<1>32. by_in'[Client] = by_in[Client]
  <2>1. by_in \in [Peer -> [Handle -> Entry]] /\ by_in' \in [Peer -> [Handle -> Entry]]
    BY <1>2 DEF Parts, Typed
  <2>2. \A g \in Handle : by_in'[Client][g] = by_in[Client][g]
    BY <1>2, <1>4
  <2> QED
    BY <2>1, <2>2, <1>4
<1>33. ToClient'
  <2>1. ASSUME NEW g \in Handle, NEW d \in End(Listener), slab'[Listener][g] = me[<<Listener, d>>],
               stage'[<<Listener, d>>] # "allocated", NotIn(frames[Listener], me[<<Listener, d>>])
        PROVE  Open(wire[Listener], Len(wire[Listener]) + 1, me[<<Listener, d>>], g, by_in[Client], mate[me[<<Listener, d>>]])
    <3>1. slab[Listener][g] = me[<<Listener, d>>] /\ <<Listener, d>> # x
      BY <2>1, <1>1, <1>4, <1>12
    <3>2. stage[<<Listener, d>>] # "allocated"
      BY <2>1, <3>1, <1>4, <1>8
    <3> QED
      BY <2>1, <3>1, <3>2 DEF Parts, ToClient
  <2>2. ASSUME NEW g \in Handle, by_in[Client][g].who # Nobody
        PROVE  \E b \in Attachment :
                 /\ mate[b] = by_in[Client][g].who
                 /\ \/ slab'[Listener][g] = b
                    \/ \E j \in 1 .. Len(wire[Listener]) : DetachOf(wire[Listener][j], b, g)
    <3>1. PICK b \in Attachment :
                 /\ mate[b] = by_in[Client][g].who
                 /\ \/ slab[Listener][g] = b
                    \/ \E j \in 1 .. Len(wire[Listener]) : DetachOf(wire[Listener][j], b, g)
      BY <2>2 DEF Parts, ToClient
    <3>2. b # Nobody
      <4>1. Nobody \in Attachment /\ Nobody[1] \notin End(Listener)
        BY <1>4, Ordinals DEF Nobody, Attachment
      <4>2. mate[Nobody] = Nobody
        BY <4>1 DEF mate
      <4> QED
        BY <2>2, <3>1, <4>2
    <3> QED
      BY <3>1, <3>2, <1>4, <1>9
  <2>3. UNCHANGED <<wire, frames, me, mate>> /\ by_in'[Client] = by_in[Client]
    BY <1>1, <1>3, <1>32
  <2> QED
    BY <2>1, <2>2, <2>3 DEF Parts, ToClient
<1>34. Inboxes'
  <2>1. ASSUME NEW c \in End(Client)
        PROVE  /\ link'[<<Client, c>>].inbox = link[<<Client, c>>].inbox
               /\ link'[<<Client, c>>].pc \in {"up", "waiting", "refused"} => mate[link'[<<Client, c>>].peer] = me[<<Client, c>>]
    <3>1. CASE <<Client, c>> = x
      BY <3>1, <1>1
    <3>2. CASE <<Client, c>> # x
      <4>1. link'[<<Client, c>>] = link[<<Client, c>>]
        BY <3>2, <1>4, <1>8
      <4> QED
        BY <4>1 DEF Parts, Inboxes
    <3> QED
      BY <3>1, <3>2
  <2>2. \A d \in End(Listener) : link'[<<Listener, d>>].inbox = link[<<Listener, d>>].inbox
    BY <1>1, <1>4, <1>8
  <2> QED
    BY <2>1, <2>2, <1>1, SameInboxes
<1> QED
  BY <1>1, <1>2, <1>17, <1>18, <1>19, <1>20, <1>21, <1>24, <1>25, <1>26, <1>27, <1>29, <1>30, <1>31, <1>33, <1>34 DEF Parts

\* Every outcome of an allocation.
LEMMA AllocateStep ==
  ASSUME Parts, NEW p \in Peer, Allocate(p)
  PROVE  Parts'
<1> DEFINE c == Head(control[p])
           e == c.end
           i == c.input
           h == Head(vacant[p])
           x == <<p, e>>
<1>1. Serves(p, e, i)
  BY DEF Allocate, Serves
<1>2. e \in End(p) /\ link[x].pc = "allocating"
  BY <1>1, Served
<1>3. x \in Endpoint /\ me[x] = Me(p, e) /\ called[x] = link[x].name
  BY <1>2, Endpoints DEF me, called, Me
<1>4. CASE /\ link[x].pc # "gone" /\ by_name[p][link[x].name] # Absent
           /\ link' = [link EXCEPT ![x] = Unallocated(link[x])] /\ UNCHANGED <<tables, failure>>
  BY <1>1, <1>4, UnallocatedStep DEF Allocate
<1>5. CASE /\ by_name[p][link[x].name] = Absent
           /\ link' = [link EXCEPT ![x].pc = "allocated", ![x].handle = h]
           /\ slab' = [slab EXCEPT ![p][h] = Me(p, e)]
           /\ vacant' = [vacant EXCEPT ![p] = Tail(@)]
           /\ by_name' = [by_name EXCEPT ![p][link[x].name] = IF i = NoHandle THEN Relay(Me(p, e), h) ELSE Taken]
           /\ by_in' = IF i = NoHandle THEN by_in ELSE [by_in EXCEPT ![p][i] = Relay(Me(p, e), h)]
           /\ UNCHANGED <<close_pending, failure>>
  <2>1. UNCHANGED <<frames, wire, backlog>>
    BY DEF Allocate
  <2>2. Allocates(p, e, i, h)
    BY <2>1, <1>1, <1>3, <1>5 DEF Allocates
  <2> QED
    BY <2>2, AllocatedStep
<1> QED
  BY <1>2, <1>4, <1>5 DEF Allocate
=============================================================================
