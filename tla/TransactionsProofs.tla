------------------------- MODULE TransactionsProofs -------------------------
(***************************************************************************)
(* Transactions are atomic and none is left open, for every number of      *)
(* transactions, every work and every behaviour of the applications.       *)
(*                                                                         *)
(* The application and the resource share nothing but the transaction-id;  *)
(* the controller learns it from an answer which, because of the tag of    *)
(* rollback_on_drop, may not be its own.  The invariant therefore names an *)
(* owner of every id that was handed out, the transaction whose declare    *)
(* allocated it, and follows each id from there: its declare, its work,    *)
(* its discharge and the answers, on the wire, with the coordinator and in *)
(* the control channel.                                                    *)
(***************************************************************************)
EXTENDS Transactions, FiniteSetTheorems, WellFoundedInduction, TLAPS

\* The control channel has room for one request of each transaction: on DEFAULT_SESSION_CONTROL_BUFFER_SIZE
\* of session/builder.rs as many transactions may be under way on a session.
RoomForAll == Cardinality(Txn) <= ControlCap

-----------------------------------------------------------------------------
(* The invariant                                                           *)

IsSeq(s) == \E S : s \in Seq(S)

Places == {"idle", "open", "dropping", "registering"} \cup Waiting \cup Final

\* pcs of a transaction that has not been discharged, or dropped, yet.
Undischarged == {"idle", "declaring", "open"}

Typed ==
  /\ plan \in Plan
  /\ task \in [Txn -> [pc : Places, txn : Nat, done : Nat]]
  /\ count \in [CtlLink -> Nat] /\ issued \in Nat
  /\ unsettled = [c \in CtlLink |-> unsettled[c]]
  /\ answer = [t \in Txn |-> answer[t]] /\ acked \in [Txn -> SUBSET Nat]
  /\ IsSeq(wire) /\ IsSeq(back) /\ IsSeq(control) /\ IsSeq(applied)
  /\ inbox = [c \in CtlLink |-> inbox[c]] /\ \A c \in CtlLink : IsSeq(inbox[c])
  /\ coord = [c \in CtlLink |-> [pc |-> coord[c].pc, txn_ids |-> coord[c].txn_ids,
                                 id |-> coord[c].id, got |-> coord[c].got]]
  /\ txns = [x \in DOMAIN txns |-> txns[x]] /\ \A x \in DOMAIN txns : IsSeq(txns[x])
  /\ DOMAIN txns \subseteq 1 .. issued
  /\ session \in {"up", "UnattachedHandle"}

IsDeclare(f) == f.type = "control" /\ f.op = "declare"
IsDischarge(f) == f.type = "control" /\ f.op \in {"commit", "rollback"}
IsWork(f) == f.type \in {"post", "retire"}

\* A request of the control channel that is about a transaction handed out.
Ending(m) == m.op # "allocate"
Declared(c) == coord[c].got.op = "declared"

\* The ids and their owners: each is in one place.
Ids(own) ==
  /\ own \in [1 .. issued -> Txn] /\ \A x, y \in 1 .. issued : own[x] = own[y] => x = y
  /\ \A x \in 1 .. issued : task[own[x]].pc # "idle"
  /\ \A c \in CtlLink :
       /\ coord[c].txn_ids \subseteq 1 .. issued
       /\ \A x \in coord[c].txn_ids : Ctl(own[x]) = c
       /\ Declared(c) =>
            /\ coord[c].pc = "answered" /\ coord[c].got = [op |-> "declared", txn |-> coord[c].got.txn]
            /\ coord[c].got.txn \in 1 .. issued /\ Ctl(own[coord[c].got.txn]) = c
            /\ own[coord[c].got.txn] = coord[c].id.of
            /\ coord[c].got.txn \notin coord[c].txn_ids
       /\ coord[c].pc = "gone" => coord[c].txn_ids = {}
  /\ \A i \in 1 .. Len(control) : Ending(control[i]) =>
       /\ control[i].txn \in 1 .. issued /\ Ctl(own[control[i].txn]) = control[i].link
       /\ \A j \in 1 .. Len(control) : Ending(control[j]) /\ control[j].txn = control[i].txn => j = i
       /\ control[i].txn \notin coord[control[i].link].txn_ids
       /\ Declared(control[i].link) => coord[control[i].link].got.txn # control[i].txn

\* A coordinator has one request in the control channel; aborts are nobody's.
Requests ==
  /\ \A i \in 1 .. Len(control) :
       /\ control[i].link \in CtlLink /\ control[i].op \in {"allocate", "commit", "rollback", "abort"}
       /\ control[i].op # "abort" =>
            /\ coord[control[i].link].pc = "asking"
            /\ \A j \in 1 .. Len(control) :
                 control[j].op # "abort" /\ control[j].link = control[i].link => j = i
  /\ \A c \in CtlLink :
       /\ coord[c].pc \in {"idle", "asking", "gone"} => coord[c].got.op = "none"
       /\ coord[c].pc = "answered" => coord[c].got.op # "none"

\* What is known of a declare that has been sent: no id is its transaction's yet.
DeclareOK(own, c, id) ==
  /\ id.of \in Txn /\ Ctl(id.of) = c /\ task[id.of].pc # "idle"
  /\ \A x \in 1 .. issued : own[x] # id.of

Single(s) ==
  \A i, j \in 1 .. Len(s) : IsDeclare(s[i]) /\ IsDeclare(s[j]) /\ s[i].id.of = s[j].id.of => i = j

\* The declare of a transaction is in one place until an id is its own.
Declares(own) ==
  /\ Single(wire) /\ \A c \in CtlLink : Single(inbox[c])
  /\ \A i \in 1 .. Len(wire) : IsDeclare(wire[i]) => DeclareOK(own, wire[i].link, wire[i].id)
  /\ \A c \in CtlLink : \A i \in 1 .. Len(inbox[c]) : IsDeclare(inbox[c][i]) =>
       /\ DeclareOK(own, c, inbox[c][i].id)
       /\ \A j \in 1 .. Len(wire) : IsDeclare(wire[j]) => wire[j].id.of # inbox[c][i].id.of
  /\ \A k \in 1 .. Len(control) : control[k].op = "allocate" =>
       LET c == control[k].link IN
       /\ DeclareOK(own, c, coord[c].id)
       /\ \A j \in 1 .. Len(wire) : IsDeclare(wire[j]) => wire[j].id.of # coord[c].id.of
       /\ \A i \in 1 .. Len(inbox[c]) : IsDeclare(inbox[c][i]) => inbox[c][i].id.of # coord[c].id.of

\* Where frames go: control frames to the coordinator of their link.
Routed ==
  /\ \A i \in 1 .. Len(wire) : 
       /\ wire[i].type \in {"control", "detach", "post", "retire"}
       /\ wire[i].type = "control" => wire[i].link \in CtlLink
       /\ wire[i].type = "detach" => wire[i].link \in CtlLink \cup Links
  /\ \A c \in CtlLink : \A i \in 1 .. Len(inbox[c]) :
       inbox[c][i].type \in {"control", "detach"} /\ inbox[c][i].link = c

\* A live transaction is with a coordinator or in the control channel.
Covered ==
  \A x \in DOMAIN txns :
    \/ \E c \in CtlLink : x \in coord[c].txn_ids \/ (Declared(c) /\ coord[c].got.txn = x)
    \/ \E i \in 1 .. Len(control) : Ending(control[i]) /\ control[i].txn = x

-----------------------------------------------------------------------------
(* The application's side                                                  *)

\* A delivery on the control link c.
MsgOK(c, id) == id.link = c /\ id.of \in Txn /\ Ctl(id.of) = c /\ id.tag \in Nat

\* A discharge that has been sent.
DischargeOK(own, id, op, txn) ==
  /\ txn \in 1 .. issued /\ own[txn] = id.of /\ task[id.of].txn = txn
  /\ task[id.of].pc \notin Undischarged
  /\ op = "commit" => txn \in asked
  /\ op = "rollback" => task[id.of].pc \notin {"committing", "committed"}

Left(c) == \A t \in Txn : Ctl(t) = c => task[t].pc \in Final

FrameOK(own, f) ==
  /\ f.type = "control" => MsgOK(f.link, f.id)
  /\ IsDeclare(f) => f.txn = NoId
  /\ IsDischarge(f) => DischargeOK(own, f.id, f.op, f.txn)
  /\ f.type = "detach" /\ f.link \in CtlLink => Left(f.link)

\* What the application has asked for on the control links, up to the control channel.
Asked(own) ==
  /\ \A i \in 1 .. Len(wire) : FrameOK(own, wire[i])
  /\ \A c \in CtlLink : \A i \in 1 .. Len(inbox[c]) : FrameOK(own, inbox[c][i])
  /\ \A c \in CtlLink : coord[c].pc \in {"asking", "answered"} => MsgOK(c, coord[c].id)
  /\ \A k \in 1 .. Len(control) :
       /\ control[k].op \in {"commit", "rollback"} =>
            DischargeOK(own, coord[control[k].link].id, control[k].op, control[k].txn)
       /\ control[k].op = "abort" => task[own[control[k].txn]].pc \in Final
  /\ \A x \in asked :
       /\ x \in 1 .. issued /\ task[own[x]].txn = x
       /\ task[own[x]].pc \notin Undischarged \cup {"rolling", "rolledback"}

\* The tag of a declare leads to the call that waits.
TagOK(c, id) == id.tag < count[c] /\ (id.tag \in DOMAIN unsettled[c] => unsettled[c][id.tag] = id.of)

Tags ==
  /\ \A i \in 1 .. Len(wire) : IsDeclare(wire[i]) => TagOK(wire[i].link, wire[i].id)
  /\ \A c \in CtlLink : \A i \in 1 .. Len(inbox[c]) : IsDeclare(inbox[c][i]) => TagOK(c, inbox[c][i].id)
  /\ \A k \in 1 .. Len(control) : control[k].op = "allocate" => TagOK(control[k].link, coord[control[k].link].id)
  /\ \A c \in CtlLink : Declared(c) => TagOK(c, coord[c].id)
  /\ \A i \in 1 .. Len(back) : back[i].op = "declared" => TagOK(back[i].id.link, back[i].id)

\* The application learns its own id.
Learned(own) ==
  /\ \A t \in Txn :
       /\ task[t].txn # NoId => task[t].txn \in 1 .. issued /\ own[task[t].txn] = t
       /\ task[t].pc \notin {"idle", "declaring", "failed", "gone"} => task[t].txn # NoId
       /\ task[t].pc \in {"idle", "declaring"} => task[t].txn = NoId /\ task[t].done = 0
       /\ answer[t].op = "declared" => answer[t].txn \in 1 .. issued /\ own[answer[t].txn] = t
  /\ \A i \in 1 .. Len(back) :
       /\ back[i].id.link \in CtlLink => MsgOK(back[i].id.link, back[i].id)
       /\ back[i].op = "declared" => /\ back[i].id.link \in CtlLink
                                      /\ back[i].txn \in 1 .. issued /\ own[back[i].txn] = back[i].id.of

-----------------------------------------------------------------------------
(* The work                                                                *)

\* A frame of the work of transaction x.
WorkOK(own, x, f) ==
  LET t == own[x] IN
  /\ f.txn = x /\ x \in 1 .. issued /\ task[t].txn = x /\ task[t].pc \notin {"idle", "declaring"}
  /\ f.n \in 1 .. task[t].done /\ f.type = Work[t][f.n].kind
  /\ f.type = "post" =>
       /\ f.w = Work[t][f.n] /\ f.part \in 1 .. f.w.frames
       /\ f.id = IF f.part = 1 THEN Delivery(f.w.link, f.n, t) ELSE Continuation

\* After this frame no work of x may come on the wire.
Ends(own, x, f) == (IsDischarge(f) /\ f.txn = x) \/ (f.type = "detach" /\ f.link = Ctl(own[x]))

\* Nothing that ends x is beyond the wire.
Pending(own, x) ==
  /\ x \in DOMAIN txns
  /\ \A k \in 1 .. Len(control) : Ending(control[k]) => control[k].txn # x
  /\ \A c \in CtlLink : \A k \in 1 .. Len(inbox[c]) : ~Ends(own, x, inbox[c][k])

\* Work on the wire comes before the end of its transaction, and in order.
OnWire(own) ==
  \A i \in 1 .. Len(wire) : IsWork(wire[i]) =>
    /\ WorkOK(own, wire[i].txn, wire[i]) /\ Pending(own, wire[i].txn)
    /\ \A j \in 1 .. Len(wire) : j < i =>
         /\ ~Ends(own, wire[i].txn, wire[j])
         /\ IsWork(wire[j]) /\ wire[j].txn = wire[i].txn => Precedes(wire[j], wire[i])

\* The work of a live transaction is kept, in order and before what is on the wire; nothing
\* of what was done is missing.
Numbered(f, n, k) == f.n = n /\ Part(f) = k
Kept(own) ==
  \A x \in DOMAIN txns :
    /\ \A k \in 1 .. Len(txns[x]) :
         /\ IsWork(txns[x][k]) /\ WorkOK(own, x, txns[x][k])
         /\ \A l \in 1 .. Len(txns[x]) : k < l => Precedes(txns[x][k], txns[x][l])
         /\ \A i \in 1 .. Len(wire) : IsWork(wire[i]) /\ wire[i].txn = x => Precedes(txns[x][k], wire[i])
    /\ task[own[x]].txn = x =>
         \A n \in 1 .. task[own[x]].done : \A p \in 1 .. FramesIn(Work[own[x]][n]) :
           \/ \E k \in 1 .. Len(txns[x]) : Numbered(txns[x][k], n, p)
           \/ \E i \in 1 .. Len(wire) : IsWork(wire[i]) /\ wire[i].txn = x /\ Numbered(wire[i], n, p)

\* What was carried out was asked for, and is over.
Applied(own) ==
  /\ \A x \in 1 .. issued : task[own[x]].pc \in Undischarged => x \in DOMAIN txns
  /\ \A t \in Txn : task[t].done \in 0 .. Len(Work[t])
  /\ \A i \in 1 .. Len(applied) : applied[i].txn \in asked /\ applied[i].txn \notin DOMAIN txns
  /\ session = "up" => \A t \in Txn : task[t].txn # NoId => CarriedOut(t) = {} \/ CarriedWhole(t)

-----------------------------------------------------------------------------
(* The answers to discharges                                               *)

Presumed(d, t, n) == d.op = "presumed" /\ d.id.of = t /\ d.id.tag = n

\* A post is acknowledged, or will be.
Posted ==
  \A t \in Txn : \A n \in Posts(t) :
    \/ n \in acked[t]
    \/ \E i \in 1 .. Len(back) : Presumed(back[i], t, n)
    \/ \E i \in 1 .. Len(wire) : /\ wire[i].type = "post" /\ wire[i].txn = task[t].txn
                                   /\ wire[i].n = n /\ wire[i].part = 1 /\ ~wire[i].w.settled

\* The work of t has been carried out, and its posts are acknowledged in back before i at the latest.
DoneBefore(t, i) ==
  /\ task[t].pc \notin Undischarged
  /\ task[t].pc \in {"committing", "committed"} =>
       /\ CarriedWhole(t) /\ task[t].txn \notin DOMAIN txns
       /\ \A n \in Posts(t) :
            n \in acked[t] \/ \E j \in 1 .. Len(back) : j < i /\ Presumed(back[j], t, n)

\* An outcome that has been sent is true.
Outcomes ==
  /\ \A i \in 1 .. Len(back) :
       /\ back[i].id.link \in CtlLink => back[i].op \in {"declared", "accepted", "rejected"}
       /\ back[i].op = "accepted" => back[i].id.link \in CtlLink /\ DoneBefore(back[i].id.of, i)
       /\ back[i].id.link \notin CtlLink =>
            /\ back[i].id.link \in Links /\ back[i].op = "presumed" /\ back[i].id.of \in Txn
            /\ back[i].id.tag \in 1 .. task[back[i].id.of].done
  /\ \A c \in CtlLink :
       /\ coord[c].got.op \in {"none", "declared", "accepted", "rejected"}
       /\ coord[c].got.op = "accepted" => coord[c].pc = "answered" /\ DoneBefore(coord[c].id.of, Len(back) + 1)
  /\ \A t \in Txn :
       /\ answer[t].op = "accepted" /\ answer[t].of = t => DoneBefore(t, 1)
       /\ task[t].pc = "committed" => answer[t].op = "accepted"
       /\ acked[t] \subseteq 1 .. task[t].done

\* The invariant, for the owners own.
Whole(own) ==
  /\ Typed /\ Requests /\ Routed /\ Ids(own) /\ Declares(own)
  /\ Asked(own) /\ Tags /\ Learned(own)
  /\ OnWire(own) /\ Kept(own) /\ Applied(own) /\ Posted /\ Outcomes

-----------------------------------------------------------------------------
(* Sequences                                                               *)

\* A frame added at the end.
LEMMA Added ==
  ASSUME NEW s, IsSeq(s), NEW f
  PROVE  /\ IsSeq(Append(s, f)) /\ Len(s) \in Nat /\ Len(Append(s, f)) = Len(s) + 1
         /\ Append(s, f)[Len(s) + 1] = f /\ \A i \in 1 .. Len(s) : Append(s, f)[i] = s[i]
<1>1. PICK S : s \in Seq(S)
  BY DEF IsSeq
<1>2. s \in Seq(S \cup {f})
  BY <1>1
<1>3. Append(s, f) \in Seq(S \cup {f})
  BY <1>2
<1> QED
  BY <1>1, <1>2, <1>3 DEF IsSeq

\* The first frame taken away.
LEMMA Taken ==
  ASSUME NEW s, IsSeq(s), s # <<>>
  PROVE  /\ IsSeq(Tail(s)) /\ Len(s) \in Nat /\ Len(s) >= 1 /\ Len(Tail(s)) = Len(s) - 1
         /\ Head(s) = s[1] /\ \A i \in 1 .. Len(s) - 1 : Tail(s)[i] = s[i + 1]
<1>1. PICK S : s \in Seq(S)
  BY DEF IsSeq
<1>2. Tail(s) \in Seq(S)
  BY <1>1
<1> QED
  BY <1>1, <1>2 DEF IsSeq

\* Several frames added at the end.
LEMMA Joined ==
  ASSUME NEW s, IsSeq(s), NEW u, IsSeq(u)
  PROVE  /\ IsSeq(s \o u) /\ Len(s) \in Nat /\ Len(u) \in Nat /\ Len(s \o u) = Len(s) + Len(u)
         /\ \A i \in 1 .. Len(s) : (s \o u)[i] = s[i]
         /\ \A i \in 1 .. Len(u) : (s \o u)[Len(s) + i] = u[i]
<1>1. PICK S, R : s \in Seq(S) /\ u \in Seq(R)
  BY DEF IsSeq
<1>2. s \in Seq(S \cup R) /\ u \in Seq(S \cup R)
  BY <1>1
<1>3. s \o u \in Seq(S \cup R)
  BY <1>2
<1> QED
  BY <1>2, <1>3 DEF IsSeq

\* A function on 1 .. m is a sequence.
LEMMA Listed ==
  ASSUME NEW m \in Nat, NEW s, s = [i \in 1 .. m |-> s[i]]
  PROVE  IsSeq(s) /\ Len(s) = m
<1> DEFINE R == {s[i] : i \in 1 .. m}
<1>1. s \in [1 .. m -> R]
  OBVIOUS
<1>2. s \in Seq(R) /\ Len(s) = m
  <2> HIDE DEF R
  <2> QED BY <1>1
<1> QED
  BY <1>2 DEF IsSeq

\* A sequence is a function on 1 .. its length.
LEMMA Lengths ==
  ASSUME NEW s, IsSeq(s)
  PROVE  Len(s) \in Nat /\ DOMAIN s = 1 .. Len(s) /\ ((s = <<>>) <=> (Len(s) = 0))
BY DEF IsSeq

\* The empty sequence.
LEMMA Empty == IsSeq(<<>>) /\ Len(<<>>) = 0
BY DEF IsSeq

-----------------------------------------------------------------------------
(* Steps of the application                                                *)

\* Where a transaction may go in one step.
PcStep(a, b) ==
  \/ a = b
  \/ a = "idle" /\ b = "declaring"
  \/ a = "declaring" /\ b \in {"open", "failed", "gone"}
  \/ a = "open" /\ b \in {"committing", "rolling", "dropping"}
  \/ a = "committing" /\ b \in {"committed", "dropping"}
  \/ a = "rolling" /\ b \in {"rolledback", "dropping"}
  \/ a = "dropping" /\ b \in {"registering", "gone"}
  \/ a = "registering" /\ b = "gone"

\* What a transaction never goes back to.
LEMMA PcFacts ==
  ASSUME NEW a \in Places, NEW b \in Places, PcStep(a, b)
  PROVE  /\ a # "idle" => b # "idle"
         /\ a \notin Undischarged => b \notin Undischarged
         /\ a \in Final => b \in Final
         /\ a \notin {"idle", "declaring"} => b \notin {"idle", "declaring"}
         /\ a \notin Undischarged /\ a \notin {"committing", "committed"} => b \notin {"committing", "committed"}
         /\ a \notin Undischarged \cup {"rolling", "rolledback"} => b \notin Undischarged \cup {"rolling", "rolledback"}
BY DEF PcStep, Places, Undischarged, Final, Waiting

\* The wire has grown by frames of S.
Grown(S) ==
  /\ Len(wire') >= Len(wire)
  /\ \A i \in 1 .. Len(wire) : wire'[i] = wire[i]
  /\ \A i \in 1 .. Len(wire') : i > Len(wire) => wire'[i] \in S

\* A step of the application that sends the frames S.
AppMove(S) ==
  /\ UNCHANGED <<plan, back, txns, issued, control, inbox, coord, session, applied>>
  /\ Grown(S)
  /\ \A t \in Txn :
       /\ PcStep(task[t].pc, task'[t].pc)
       /\ \/ task'[t].txn = task[t].txn /\ (task[t].pc = "declaring" => task'[t].pc # "open")
          \/ /\ task[t].pc = "declaring" /\ task'[t].pc = "open"
             /\ answer[t].op = "declared" /\ task'[t].txn = answer[t].txn
       /\ task'[t].done = task[t].done \/ (task[t].pc = "open" /\ task'[t].done > task[t].done)
       /\ answer'[t] = answer[t] \/ (answer'[t].op = "none" /\ task'[t].pc \in Waiting)
       /\ task[t].pc = "committing" /\ task'[t].pc = "committed" => answer[t].op = "accepted"
       /\ acked[t] \subseteq acked'[t]
       /\ \A n \in acked'[t] : n \in acked[t] \/ n \in 1 .. task'[t].done
  /\ \A x \in asked' :
       x \in asked \/ \E t \in Txn : x = task[t].txn /\ task[t].pc = "open" /\ task'[t].pc = "committing"
  /\ asked \subseteq asked'
  /\ \A c \in CtlLink :
       /\ count'[c] >= count[c]
       /\ \A k \in Nat : k < count[c] /\ k \in DOMAIN unsettled'[c] =>
            k \in DOMAIN unsettled[c] /\ unsettled'[c][k] = unsettled[c][k]

\* Positions of the wire after the step.
LEMMA GrownFacts ==
  ASSUME Typed, Typed', NEW S, Grown(S)
  PROVE  /\ Len(wire) \in Nat /\ Len(wire') \in Nat
         /\ \A i \in 1 .. Len(wire') : (i \in 1 .. Len(wire) /\ wire'[i] = wire[i]) \/ wire'[i] \in S
         /\ \A i \in 1 .. Len(wire) : i \in 1 .. Len(wire') /\ wire'[i] = wire[i]
<1>1. Len(wire) \in Nat /\ Len(wire') \in Nat
  BY Lengths DEF Typed
<1> QED
  BY <1>1 DEF Grown

\* Pcs are places.
LEMMA PcTypes ==
  ASSUME Typed, Typed', NEW t \in Txn
  PROVE  /\ task[t].pc \in Places /\ task'[t].pc \in Places /\ task[t].done \in Nat /\ task'[t].done \in Nat
         /\ task[t].txn \in Nat /\ task'[t].txn \in Nat
BY DEF Typed

\* The ids stay where they are.
LEMMA AppIds ==
  ASSUME Typed, Typed', NEW own, Ids(own), NEW S, AppMove(S)
  PROVE  Ids(own)'
<1>1. /\ plan' = plan /\ issued' = issued /\ control' = control /\ coord' = coord
  BY DEF AppMove
<1>2. \A t \in Txn : task[t].pc # "idle" => task'[t].pc # "idle"
  BY PcTypes, PcFacts DEF AppMove
<1>3. \A x \in 1 .. issued : task'[own[x]].pc # "idle"
  BY <1>2 DEF Ids
<1> QED
  BY <1>1, <1>3 DEF Ids, Declared, Ctl, Ending

\* So do the requests.
LEMMA AppRequests ==
  ASSUME Requests, NEW S, AppMove(S)
  PROVE  Requests'
BY DEF Requests, AppMove

\* Frames go where they should.
LEMMA AppRouted ==
  ASSUME Typed, Typed', Routed, NEW S, AppMove(S),
         \A f \in S : /\ f.type \in {"control", "detach", "post", "retire"}
                      /\ f.type = "control" => f.link \in CtlLink
                      /\ f.type = "detach" => f.link \in CtlLink \cup Links
  PROVE  Routed'
<1>1. inbox' = inbox /\ Grown(S)
  BY DEF AppMove
<1> QED
  BY <1>1, GrownFacts DEF Routed

\* Live transactions stay covered.
LEMMA AppCovered ==
  ASSUME Covered, NEW S, AppMove(S)
  PROVE  Covered'
BY DEF Covered, AppMove, Declared, Ending

\* What is known of a declare stays true.
LEMMA AppDeclareOK ==
  ASSUME Typed, Typed', NEW own, NEW S, AppMove(S), NEW c, NEW id, DeclareOK(own, c, id)
  PROVE  DeclareOK(own, c, id)'
<1>1. plan' = plan /\ issued' = issued
  BY DEF AppMove
<1>2. task[id.of].pc # "idle" => task'[id.of].pc # "idle"
  BY PcTypes, PcFacts DEF AppMove, DeclareOK
<1> QED
  BY <1>1, <1>2 DEF DeclareOK, Ctl

\* Without a new declare, the declares stay in their places.
LEMMA AppDeclares ==
  ASSUME Typed, Typed', NEW own, Declares(own), NEW S, AppMove(S), \A f \in S : ~IsDeclare(f)
  PROVE  Declares(own)'
<1>1. inbox' = inbox /\ control' = control /\ coord' = coord /\ Grown(S)
  BY DEF AppMove
<1>2. \A i \in 1 .. Len(wire') : IsDeclare(wire'[i]) => i \in 1 .. Len(wire) /\ wire'[i] = wire[i]
  BY <1>1, GrownFacts
<1>3. \A c, id : DeclareOK(own, c, id) => DeclareOK(own, c, id)'
  BY AppDeclareOK
<1>4. Single(wire)' /\ \A c \in CtlLink : Single(inbox'[c])
  BY <1>1, <1>2 DEF Declares, Single
<1>5. (\A i \in 1 .. Len(wire) : IsDeclare(wire[i]) => DeclareOK(own, wire[i].link, wire[i].id))'
  BY <1>2, <1>3 DEF Declares
<1> QED
  BY SMTT(30), <1>1, <1>2, <1>3, <1>4, <1>5 DEF Declares

\* What is known of a frame stays true.
LEMMA AppFrameOK ==
  ASSUME Typed, Typed', NEW own, NEW S, AppMove(S)
  PROVE  /\ \A c, id : MsgOK(c, id) => MsgOK(c, id)'
         /\ \A id, op, x : id.of \in Txn /\ DischargeOK(own, id, op, x) => DischargeOK(own, id, op, x)'
         /\ \A c : Left(c) => Left(c)'
<1>1. plan' = plan /\ issued' = issued /\ asked \subseteq asked'
  BY DEF AppMove
<1>2. ASSUME NEW t \in Txn
      PROVE  /\ task[t].pc \notin Undischarged => task'[t].pc \notin Undischarged /\ task'[t].txn = task[t].txn
             /\ task[t].pc \notin Undischarged /\ task[t].pc \notin {"committing", "committed"} =>
                  task'[t].pc \notin {"committing", "committed"}
             /\ task[t].pc \in Final => task'[t].pc \in Final
  <2>1. task[t].pc \in Places /\ task'[t].pc \in Places /\ PcStep(task[t].pc, task'[t].pc)
    BY PcTypes DEF AppMove
  <2>2. task[t].pc \notin Undischarged => task'[t].txn = task[t].txn
    BY DEF AppMove, Undischarged
  <2> QED
    BY <2>1, <2>2, PcFacts
<1>3. \A c, id : MsgOK(c, id) => MsgOK(c, id)'
  BY <1>1 DEF MsgOK, Ctl
<1>4. \A id, op, x : id.of \in Txn /\ DischargeOK(own, id, op, x) => DischargeOK(own, id, op, x)'
  BY <1>1, <1>2 DEF DischargeOK
<1>5. \A c : Left(c) => Left(c)'
  BY <1>1, <1>2 DEF Left, Ctl
<1> QED
  BY <1>3, <1>4, <1>5

\* The application keeps what it has asked for.
LEMMA AppAsked ==
  ASSUME Typed, Typed', NEW own, Ids(own), Routed, Requests, Asked(own), Learned(own), NEW S, AppMove(S),
         \A f \in S : FrameOK(own, f)'
  PROVE  Asked(own)'
<1>1. /\ inbox' = inbox /\ control' = control /\ coord' = coord /\ issued' = issued /\ plan' = plan /\ Grown(S)
  BY DEF AppMove
<1>2. \A f : FrameOK(own, f) => FrameOK(own, f)'
  BY AppFrameOK DEF FrameOK, IsDischarge, MsgOK
<1>3. (\A i \in 1 .. Len(wire) : FrameOK(own, wire[i]))'
  BY <1>1, <1>2, GrownFacts DEF Asked
<1>4. (\A c \in CtlLink : \A i \in 1 .. Len(inbox[c]) : FrameOK(own, inbox[c][i]))'
  BY <1>1, <1>2 DEF Asked
<1>5. (\A c \in CtlLink : coord[c].pc \in {"asking", "answered"} => MsgOK(c, coord[c].id))'
  BY <1>1, AppFrameOK DEF Asked
<1>6. ASSUME NEW k \in 1 .. Len(control)
      PROVE  /\ control[k].op \in {"commit", "rollback"} =>
                  DischargeOK(own, coord[control[k].link].id, control[k].op, control[k].txn)'
             /\ control[k].op = "abort" => task'[own[control[k].txn]].pc \in Final
  <2>1. control[k].op \in {"commit", "rollback"} => coord[control[k].link].id.of \in Txn
    BY DEF Asked, Requests, MsgOK
  <2>2. control[k].op \in {"commit", "rollback"} =>
          DischargeOK(own, coord[control[k].link].id, control[k].op, control[k].txn)'
    BY <1>1, <2>1, AppFrameOK DEF Asked
  <2>3. control[k].op = "abort" => own[control[k].txn] \in Txn /\ task[own[control[k].txn]].pc \in Final
    BY DEF Asked, Ids, Ending
  <2>4. control[k].op = "abort" => task'[own[control[k].txn]].pc \in Final
    BY <2>3, PcTypes, PcFacts DEF AppMove
  <2> QED
    BY <2>2, <2>4
<1>7. ASSUME NEW x \in asked'
      PROVE  /\ x \in 1 .. issued /\ task'[own[x]].txn = x
             /\ task'[own[x]].pc \notin Undischarged \cup {"rolling", "rolledback"}
  <2>1. CASE x \in asked
    <3>1. /\ x \in 1 .. issued /\ task[own[x]].txn = x /\ own[x] \in Txn
          /\ task[own[x]].pc \notin Undischarged \cup {"rolling", "rolledback"}
      BY <2>1 DEF Asked, Ids
    <3>2. task'[own[x]].txn = task[own[x]].txn
      BY <3>1 DEF AppMove, Undischarged
    <3> QED
      BY <3>1, <3>2, PcTypes, PcFacts DEF AppMove
  <2>2. CASE x \notin asked
    <3>1. PICK t \in Txn : x = task[t].txn /\ task[t].pc = "open" /\ task'[t].pc = "committing"
      BY <2>2 DEF AppMove
    <3>2. x \in 1 .. issued /\ own[x] = t
      BY <3>1 DEF Learned
    <3>3. task'[t].txn = task[t].txn
      BY <3>1 DEF AppMove
    <3> QED
      BY <3>1, <3>2, <3>3 DEF Undischarged
  <2> QED
    BY <2>1, <2>2
<1>8. (\A k \in 1 .. Len(control) :
         /\ control[k].op \in {"commit", "rollback"} =>
              DischargeOK(own, coord[control[k].link].id, control[k].op, control[k].txn)
         /\ control[k].op = "abort" => task[own[control[k].txn]].pc \in Final)'
  BY <1>1, <1>6
<1>9. (\A x \in asked :
         /\ x \in 1 .. issued /\ task[own[x]].txn = x
         /\ task[own[x]].pc \notin Undischarged \cup {"rolling", "rolledback"})'
  BY <1>1, <1>7
<1> QED
  BY <1>3, <1>4, <1>5, <1>8, <1>9 DEF Asked

\* Tags still lead to their calls.
LEMMA AppTags ==
  ASSUME Typed, Typed', NEW own, Routed, Requests, Asked(own), Ids(own), Learned(own), Tags, NEW S, AppMove(S),
         \A f \in S : IsDeclare(f) => TagOK(f.link, f.id)'
  PROVE  Tags'
<1>1. /\ inbox' = inbox /\ control' = control /\ coord' = coord /\ back' = back /\ Grown(S)
  BY DEF AppMove
<1>2. ASSUME NEW c \in CtlLink, NEW id, id.tag \in Nat, TagOK(c, id)
      PROVE  TagOK(c, id)'
  <2>1. count[c] \in Nat /\ count'[c] \in Nat /\ id.tag < count[c]
    BY <1>2 DEF Typed, TagOK
  <2>2. id.tag < count'[c]
    BY <2>1, <1>2 DEF AppMove
  <2>3. id.tag \in DOMAIN unsettled'[c] => unsettled'[c][id.tag] = id.of
    BY <1>2, <2>1 DEF TagOK, AppMove
  <2> QED
    BY <2>2, <2>3 DEF TagOK
<1>3. (\A i \in 1 .. Len(wire) : IsDeclare(wire[i]) => TagOK(wire[i].link, wire[i].id))'
  <2>1. \A i \in 1 .. Len(wire) : IsDeclare(wire[i]) => wire[i].link \in CtlLink /\ wire[i].id.tag \in Nat
    BY DEF Routed, Asked, FrameOK, MsgOK, IsDeclare
  <2> QED
    BY <1>1, <1>2, <2>1, GrownFacts DEF Tags
<1>4. (\A c \in CtlLink : \A i \in 1 .. Len(inbox[c]) : IsDeclare(inbox[c][i]) => TagOK(c, inbox[c][i].id))'
  <2>1. \A c \in CtlLink : \A i \in 1 .. Len(inbox[c]) : IsDeclare(inbox[c][i]) => inbox[c][i].id.tag \in Nat
    BY DEF Asked, FrameOK, MsgOK, IsDeclare
  <2> QED
    BY <1>1, <1>2, <2>1 DEF Tags
<1>5. (\A k \in 1 .. Len(control) : control[k].op = "allocate" => TagOK(control[k].link, coord[control[k].link].id))'
  <2>1. \A k \in 1 .. Len(control) : control[k].op = "allocate" =>
          control[k].link \in CtlLink /\ coord[control[k].link].id.tag \in Nat
    BY DEF Requests, Asked, MsgOK
  <2> QED
    BY <1>1, <1>2, <2>1 DEF Tags
<1>6. (\A c \in CtlLink : Declared(c) => TagOK(c, coord[c].id))'
  <2>1. \A c \in CtlLink : Declared(c) => coord[c].id.tag \in Nat
    BY DEF Ids, Asked, MsgOK
  <2> QED
    BY <1>1, <1>2, <2>1 DEF Tags, Declared
<1>7. (\A i \in 1 .. Len(back) : back[i].op = "declared" => TagOK(back[i].id.link, back[i].id))'
  BY <1>1, <1>2 DEF Tags, Learned, MsgOK
<1> QED
  BY <1>3, <1>4, <1>5, <1>6, <1>7 DEF Tags

\* The application has learned its own ids.
LEMMA AppLearned ==
  ASSUME Typed, Typed', NEW own, Learned(own), NEW S, AppMove(S)
  PROVE  Learned(own)'
<1>1. back' = back /\ issued' = issued
  BY DEF AppMove
<1>2. ASSUME NEW t \in Txn
      PROVE  /\ task'[t].txn # NoId => task'[t].txn \in 1 .. issued /\ own[task'[t].txn] = t
             /\ task'[t].pc \notin {"idle", "declaring", "failed", "gone"} => task'[t].txn # NoId
             /\ task'[t].pc \in {"idle", "declaring"} => task'[t].txn = NoId /\ task'[t].done = 0
             /\ answer'[t].op = "declared" => answer'[t].txn \in 1 .. issued /\ own[answer'[t].txn] = t
  <2>1. PcStep(task[t].pc, task'[t].pc)
    BY DEF AppMove
  <2>2. answer'[t].op = "declared" => answer'[t].txn \in 1 .. issued /\ own[answer'[t].txn] = t
    BY DEF AppMove, Learned
  <2>3. CASE task'[t].txn = task[t].txn /\ (task[t].pc = "declaring" => task'[t].pc # "open")
    <3>1. task'[t].pc \in {"idle", "declaring"} => task[t].pc \in {"idle", "declaring"}
      BY <2>1 DEF PcStep
    <3>2. task'[t].pc \notin {"idle", "declaring", "failed", "gone"} =>
            task[t].pc \notin {"idle", "declaring", "failed", "gone"}
      BY <2>1, <2>3 DEF PcStep
    <3>3. task[t].pc # "open" => task'[t].done = task[t].done
      BY DEF AppMove
    <3> QED
      BY <2>2, <2>3, <3>1, <3>2, <3>3 DEF Learned
  <2>4. CASE /\ task[t].pc = "declaring" /\ task'[t].pc = "open"
             /\ answer[t].op = "declared" /\ task'[t].txn = answer[t].txn
    <3>1. task'[t].txn \in 1 .. issued /\ own[task'[t].txn] = t
      BY <2>4 DEF Learned
    <3>2. task'[t].txn # NoId
      BY <3>1 DEF NoId
    <3> QED
      BY <2>2, <2>4, <3>1, <3>2
  <2> QED
    BY <2>3, <2>4 DEF AppMove
<1>3. (\A t \in Txn :
       /\ task[t].txn # NoId => task[t].txn \in 1 .. issued /\ own[task[t].txn] = t
       /\ task[t].pc \notin {"idle", "declaring", "failed", "gone"} => task[t].txn # NoId
       /\ task[t].pc \in {"idle", "declaring"} => task[t].txn = NoId /\ task[t].done = 0
       /\ answer[t].op = "declared" => answer[t].txn \in 1 .. issued /\ own[answer[t].txn] = t)'
  BY <1>1, <1>2
<1>4. \A c, id : MsgOK(c, id) => MsgOK(c, id)'
  BY AppFrameOK
<1> QED
  BY <1>1, <1>3, <1>4 DEF Learned

\* What is known of a frame of work stays true.
LEMMA AppWorkOK ==
  ASSUME Typed, Typed', NEW own, Ids(own), NEW S, AppMove(S), NEW x, NEW f, WorkOK(own, x, f)
  PROVE  WorkOK(own, x, f)'
<1> DEFINE t == own[x]
<1>1. issued' = issued
  BY DEF AppMove
<1>2. t \in Txn /\ task[t].txn = x /\ task[t].pc \notin {"idle", "declaring"} /\ x \in 1 .. issued
  BY DEF WorkOK, Ids
<1>3. task'[t].pc \notin {"idle", "declaring"}
  BY <1>2, PcTypes, PcFacts DEF AppMove
<1>4. task'[t].txn = x
  BY <1>2 DEF AppMove
<1>5. f.n \in 1 .. task'[t].done
  <2>1. task[t].done \in Nat /\ task'[t].done \in Nat /\ task'[t].done >= task[t].done
    BY <1>2, PcTypes DEF AppMove
  <2> QED
    BY <2>1 DEF WorkOK
<1> HIDE DEF t
<1> QED
  BY <1>1, <1>2, <1>3, <1>4, <1>5 DEF WorkOK, t

\* Without new work, what is on the wire stays in order.
LEMMA AppOnWire ==
  ASSUME Typed, Typed', NEW own, Ids(own), OnWire(own), NEW S, AppMove(S), \A f \in S : ~IsWork(f)
  PROVE  OnWire(own)'
<1>1. /\ inbox' = inbox /\ control' = control /\ txns' = txns /\ plan' = plan /\ Grown(S)
  BY DEF AppMove
<1>2. \A i \in 1 .. Len(wire') : IsWork(wire'[i]) => i \in 1 .. Len(wire) /\ wire'[i] = wire[i]
  BY <1>1, GrownFacts
<1>3. \A i \in 1 .. Len(wire) : wire'[i] = wire[i]
  BY <1>1 DEF Grown
<1>4. \A x, f : WorkOK(own, x, f) => WorkOK(own, x, f)'
  BY AppWorkOK
<1>5. \A x, f : Ends(own, x, f)' <=> Ends(own, x, f)
  BY <1>1 DEF Ends, Ctl
<1>6. \A x : Pending(own, x) => Pending(own, x)'
  BY <1>1, <1>5 DEF Pending
<1>7. Len(wire) \in Nat /\ Len(wire') \in Nat
  BY <1>1, GrownFacts
<1>8. \A i \in 1 .. Len(wire), j \in 1 .. Len(wire') : j < i => j \in 1 .. Len(wire)
  BY <1>7
<1> QED
  BY <1>2, <1>3, <1>4, <1>5, <1>6, <1>8 DEF OnWire

\* Nothing is missing of what was done before.
LEMMA AppKept ==
  ASSUME Typed, Typed', NEW own, Ids(own), Learned(own), Kept(own), NEW S, AppMove(S), \A f \in S : ~IsWork(f),
         \A t \in Txn : task'[t].done = task[t].done
  PROVE  Kept(own)'
<1>1. txns' = txns /\ issued' = issued /\ Grown(S)
  BY DEF AppMove
<1>2. \A i \in 1 .. Len(wire') : IsWork(wire'[i]) => i \in 1 .. Len(wire) /\ wire'[i] = wire[i]
  BY <1>1, GrownFacts
<1>3. \A i \in 1 .. Len(wire) : i \in 1 .. Len(wire') /\ wire'[i] = wire[i]
  BY <1>1, GrownFacts
<1>4. \A x, f : WorkOK(own, x, f) => WorkOK(own, x, f)'
  BY AppWorkOK
<1>5. ASSUME NEW x \in DOMAIN txns, task'[own[x]].txn = x,
             NEW n \in 1 .. task'[own[x]].done, NEW p \in 1 .. FramesIn(Work[own[x]][n])
      PROVE  \/ \E k \in 1 .. Len(txns[x]) : Numbered(txns[x][k], n, p)
             \/ \E i \in 1 .. Len(wire') : IsWork(wire'[i]) /\ wire'[i].txn = x /\ Numbered(wire'[i], n, p)
  <2>1. own[x] \in Txn /\ x # NoId
    BY DEF Typed, Ids, NoId
  <2>2. task'[own[x]].done = task[own[x]].done
    BY <2>1
  <2>3. task[own[x]].txn = x
    <3>1. SUFFICES ASSUME task[own[x]].pc = "declaring" PROVE FALSE
      BY <2>1, <1>5 DEF AppMove
    <3>2. task'[own[x]].done = 0
      BY <2>1, <2>2, <3>1 DEF Learned
    <3> QED
      BY <1>5, <3>2
  <2>4. \/ \E k \in 1 .. Len(txns[x]) : Numbered(txns[x][k], n, p)
        \/ \E i \in 1 .. Len(wire) : IsWork(wire[i]) /\ wire[i].txn = x /\ Numbered(wire[i], n, p)
    BY <2>2, <2>3 DEF Kept
  <2> QED
    BY <2>4, <1>3
<1>6. ASSUME NEW x \in DOMAIN txns, NEW k \in 1 .. Len(txns[x])
      PROVE  /\ IsWork(txns[x][k]) /\ WorkOK(own, x, txns[x][k])'
             /\ \A l \in 1 .. Len(txns[x]) : k < l => Precedes(txns[x][k], txns[x][l])
             /\ \A i \in 1 .. Len(wire') : IsWork(wire'[i]) /\ wire'[i].txn = x => Precedes(txns[x][k], wire'[i])
  <2>1. WorkOK(own, x, txns[x][k])'
    <3>1. WorkOK(own, x, txns[x][k])
      BY DEF Kept
    <3> QED
      BY <3>1, <1>1, <1>4
  <2> QED
    BY <1>2, <2>1 DEF Kept
<1> QED
  BY <1>1, <1>5, <1>6 DEF Kept

\* The work carried out by a transaction that does no more.
LEMMA SameCarried ==
  ASSUME NEW t, applied' = applied, task'[t].txn = task[t].txn
  PROVE  /\ CarriedOut(t)' = CarriedOut(t)
         /\ task'[t].done = task[t].done => CarriedWhole(t)' = CarriedWhole(t)
BY DEF CarriedOut, CarriedWhole

\* What was carried out is over.
LEMMA AppApplied ==
  ASSUME Typed, Typed', NEW own, Ids(own), Asked(own), Learned(own), Applied(own), NEW S, AppMove(S),
         \A t \in Txn : task'[t].done \in 0 .. Len(Work[t])
  PROVE  Applied(own)'
<1>1. /\ txns' = txns /\ issued' = issued /\ applied' = applied /\ session' = session /\ asked \subseteq asked'
  BY DEF AppMove
<1>2. \A x \in 1 .. issued : task'[own[x]].pc \in Undischarged => x \in DOMAIN txns
  BY PcTypes, PcFacts DEF AppMove, Ids, Applied
<1>3. ASSUME session = "up", NEW t \in Txn, task'[t].txn # NoId
      PROVE  CarriedOut(t)' = {} \/ CarriedWhole(t)'
  <2>1. CASE task[t].pc \notin Undischarged
    <3>1. task'[t].txn = task[t].txn /\ task'[t].done = task[t].done
      BY <2>1 DEF AppMove, Undischarged
    <3> QED
      BY <1>1, <1>3, <3>1, SameCarried DEF Applied
  <2>2. CASE task[t].pc \in Undischarged
    <3>1. task'[t].txn \in 1 .. issued /\ own[task'[t].txn] = t
      <4>1. Learned(own)'
        BY AppLearned
      <4> QED
        BY <4>1, <1>1, <1>3 DEF Learned
    <3>2. task'[t].txn \notin asked
      BY <3>1, <2>2 DEF Asked
    <3>3. \A i \in DOMAIN applied : applied[i].txn # task'[t].txn
      <4>1. DOMAIN applied = 1 .. Len(applied)
        BY Lengths DEF Typed
      <4> QED
        BY <3>2, <4>1 DEF Applied
    <3> QED
      BY <1>1, <3>3 DEF CarriedOut
  <2> QED
    BY <2>1, <2>2
<1> QED
  BY <1>1, <1>2, <1>3 DEF Applied

\* Posts are acknowledged, or will be.
LEMMA AppPosted ==
  ASSUME Typed, Typed', NEW own, Learned(own), Posted, NEW S, AppMove(S),
         \A t \in Txn : task'[t].done = task[t].done
  PROVE  Posted'
<1>1. back' = back /\ Grown(S)
  BY DEF AppMove
<1>2. \A i \in 1 .. Len(wire) : i \in 1 .. Len(wire') /\ wire'[i] = wire[i]
  BY <1>1, GrownFacts
<1>3. ASSUME NEW t \in Txn, NEW n \in Posts(t)'
      PROVE  \/ n \in acked'[t]
             \/ \E i \in 1 .. Len(back) : Presumed(back[i], t, n)
             \/ \E i \in 1 .. Len(wire') : /\ wire'[i].type = "post" /\ wire'[i].txn = task'[t].txn
                                           /\ wire'[i].n = n /\ wire'[i].part = 1 /\ ~wire'[i].w.settled
  <2>1. n \in Posts(t)
    BY DEF Posts
  <2>2. task'[t].txn = task[t].txn
    <3>1. n \in 1 .. task[t].done
      BY <2>1 DEF Posts
    <3>2. task[t].pc # "declaring"
      BY <3>1 DEF Learned
    <3> QED
      BY <3>2 DEF AppMove
  <2>3. acked[t] \subseteq acked'[t]
    BY DEF AppMove
  <2> QED
    BY <1>2, <2>1, <2>2, <2>3 DEF Posted
<1> QED
  BY <1>1, <1>3 DEF Posted

\* Outcomes stay true.
LEMMA AppDoneBefore ==
  ASSUME Typed, Typed', NEW S, AppMove(S), NEW t \in Txn, NEW i, DoneBefore(t, i)
  PROVE  DoneBefore(t, i)'
<1>1. /\ back' = back /\ txns' = txns /\ applied' = applied
  BY DEF AppMove
<1>2. task[t].pc \notin Undischarged /\ task'[t].pc \notin Undischarged
  BY PcTypes, PcFacts DEF AppMove, DoneBefore
<1>3. task'[t].txn = task[t].txn /\ task'[t].done = task[t].done /\ acked[t] \subseteq acked'[t]
  BY <1>2 DEF AppMove, Undischarged
<1>4. task'[t].pc \in {"committing", "committed"} => task[t].pc \in {"committing", "committed"}
  BY <1>2, PcTypes, PcFacts DEF AppMove
<1>5. CarriedWhole(t)' = CarriedWhole(t) /\ Posts(t)' = Posts(t)
  BY <1>1, <1>3, SameCarried DEF Posts
<1> QED
  BY <1>1, <1>2, <1>3, <1>4, <1>5 DEF DoneBefore

\* ... wherever they are.
LEMMA AppOutcomes ==
  ASSUME Typed, Typed', NEW own, Asked(own), Learned(own), Outcomes, NEW S, AppMove(S)
  PROVE  Outcomes'
<1>1. /\ back' = back /\ coord' = coord /\ plan' = plan
  BY DEF AppMove
<1>2. \A t \in Txn : \A i : DoneBefore(t, i) => DoneBefore(t, i)'
  BY AppDoneBefore
<1>3. \A t \in Txn : task[t].done \in Nat /\ task'[t].done \in Nat /\ task'[t].done >= task[t].done
  BY PcTypes DEF AppMove
<1>4. (\A i \in 1 .. Len(back) :
       /\ back[i].id.link \in CtlLink => back[i].op \in {"declared", "accepted", "rejected"}
       /\ back[i].op = "accepted" => back[i].id.link \in CtlLink /\ DoneBefore(back[i].id.of, i)
       /\ back[i].id.link \notin CtlLink =>
            /\ back[i].id.link \in Links /\ back[i].op = "presumed" /\ back[i].id.of \in Txn
            /\ back[i].id.tag \in 1 .. task[back[i].id.of].done)'
  <2>1. \A i \in 1 .. Len(back) : back[i].id.link \in CtlLink => back[i].id.of \in Txn
    BY DEF Learned, MsgOK
  <2>2. ASSUME NEW i \in 1 .. Len(back), back[i].id.link \notin CtlLink
        PROVE  back[i].id.tag \in 1 .. task'[back[i].id.of].done
    <3>1. back[i].id.of \in Txn /\ back[i].id.tag \in 1 .. task[back[i].id.of].done
      BY <2>2 DEF Outcomes
    <3> QED
      BY <1>3, <3>1
  <2> QED
    BY <1>1, <1>2, <2>1, <2>2 DEF Outcomes
<1>5. (\A c \in CtlLink :
       /\ coord[c].got.op \in {"none", "declared", "accepted", "rejected"}
       /\ coord[c].got.op = "accepted" => coord[c].pc = "answered" /\ DoneBefore(coord[c].id.of, Len(back) + 1))'
  <2>1. \A c \in CtlLink : coord[c].got.op = "accepted" => coord[c].id.of \in Txn
    BY DEF Outcomes, Asked, MsgOK
  <2> QED
    BY <1>1, <1>2, <2>1 DEF Outcomes
<1>6. ASSUME NEW t \in Txn
      PROVE  /\ answer'[t].op = "accepted" /\ answer'[t].of = t => DoneBefore(t, 1)'
             /\ task'[t].pc = "committed" => answer'[t].op = "accepted"
             /\ acked'[t] \subseteq 1 .. task'[t].done
  <2>1. answer'[t].op = "accepted" => answer'[t] = answer[t]
    BY DEF AppMove
  <2>2. task'[t].pc = "committed" => answer'[t].op = "accepted"
    <3>1. task'[t].pc = "committed" => task[t].pc \in {"committing", "committed"}
      BY DEF AppMove, PcStep
    <3>2. task'[t].pc = "committed" => answer'[t] = answer[t]
      BY DEF AppMove, Waiting
    <3> QED
      BY <3>1, <3>2 DEF AppMove, Outcomes
  <2>3. acked'[t] \subseteq 1 .. task'[t].done
    <3>1. acked[t] \subseteq 1 .. task[t].done
      BY DEF Outcomes
    <3> QED
      BY <1>3, <3>1 DEF AppMove
  <2> QED
    BY <1>2, <2>1, <2>2, <2>3 DEF Outcomes
<1>7. (\A t \in Txn :
       /\ answer[t].op = "accepted" /\ answer[t].of = t => DoneBefore(t, 1)
       /\ task[t].pc = "committed" => answer[t].op = "accepted"
       /\ acked[t] \subseteq 1 .. task[t].done)'
  BY <1>6
<1> QED
  BY <1>4, <1>5, <1>7 DEF Outcomes

\* A step of the application without work and without a declare keeps the invariant.
LEMMA AppWhole ==
  ASSUME NEW own, Whole(own), Typed', NEW S, AppMove(S),
         \A t \in Txn : task'[t].done = task[t].done,
         \A f \in S : /\ f.type \in {"control", "detach"} /\ ~IsDeclare(f) /\ FrameOK(own, f)'
                      /\ f.type = "control" => f.link \in CtlLink
                      /\ f.type = "detach" => f.link \in CtlLink \cup Links
  PROVE  Whole(own)'
<1>1. Ids(own)' /\ Requests' /\ Routed' /\ Declares(own)'
  BY AppIds, AppRequests, AppRouted, AppDeclares DEF Whole
<1>2. Asked(own)' /\ Tags' /\ Learned(own)'
  BY AppAsked, AppTags, AppLearned DEF Whole
<1>3. \A f \in S : ~IsWork(f)
  BY DEF IsWork
<1>4. OnWire(own)' /\ Kept(own)'
  BY <1>3, AppOnWire, AppKept DEF Whole
<1>5. \A t \in Txn : task'[t].done \in 0 .. Len(Work[t])
  BY DEF Whole, Applied
<1>6. Applied(own)' /\ Posted' /\ Outcomes'
  BY <1>5, AppApplied, AppPosted, AppOutcomes DEF Whole
<1> QED
  BY <1>1, <1>2, <1>4, <1>6 DEF Whole

\* The wire with one frame more.
LEMMA Sent ==
  ASSUME Typed, NEW f, wire' = Append(wire, f)
  PROVE  /\ IsSeq(wire') /\ Grown({f}) /\ Len(wire) \in Nat /\ Len(wire') = Len(wire) + 1
         /\ wire'[Len(wire) + 1] = f
<1>1. /\ IsSeq(wire') /\ Len(wire) \in Nat /\ Len(wire') = Len(wire) + 1
      /\ wire'[Len(wire) + 1] = f /\ \A i \in 1 .. Len(wire) : wire'[i] = wire[i]
  BY Added DEF Typed
<1>2. \A i \in 1 .. Len(wire') : i > Len(wire) => i = Len(wire) + 1
  BY <1>1
<1> QED
  BY <1>1, <1>2 DEF Grown

\* The control links.
LEMMA CtlFacts ==
  ASSUME Typed, NEW t \in Txn
  PROVE  /\ Ctl(t) \in CtlLink /\ t \in CtlLink /\ Shared \in CtlLink
         /\ t \in plan.owned => \A u \in Txn : Ctl(u) = t => u = t
         /\ \A u \in Txn : Ctl(u) = Shared => u \notin plan.owned
BY TransactionsAssumption DEF Ctl, CtlLink

\* The effect of send_on_control_link, the transaction's own state aside.
CallEffect(t, op, f) ==
  /\ IsSeq(wire') /\ Grown({f}) /\ Len(wire') = Len(wire) + 1 /\ wire'[Len(wire) + 1] = f
  /\ f.type = "control" /\ f.op = op /\ f.link = Ctl(t) /\ f.txn = task[t].txn /\ f.id.of = t
  /\ MsgOK(Ctl(t), f.id)
  /\ f.id.tag < count'[Ctl(t)] /\ unsettled'[Ctl(t)][f.id.tag] = t
  /\ count' \in [CtlLink -> Nat] /\ unsettled' = [c \in CtlLink |-> unsettled'[c]]
  /\ answer' = [u \in Txn |-> answer'[u]] /\ answer'[t].op = "none"
  /\ \A u \in Txn : u # t => answer'[u] = answer[u]
  /\ \A c \in CtlLink :
       /\ count'[c] >= count[c]
       /\ \A k \in Nat : k < count[c] /\ k \in DOMAIN unsettled'[c] =>
            k \in DOMAIN unsettled[c] /\ unsettled'[c][k] = unsettled[c][k]

\* ... is what Call does.
LEMMA CallFacts ==
  ASSUME Typed, NEW t \in Txn, NEW op, Call(t, op)
  PROVE  \E f : CallEffect(t, op, f)
<1> DEFINE c == Ctl(t)
           f == Control(Delivery(c, count[c], t), op, task[t].txn)
           U == Put(unsettled[c], count[c], t)
<1>1. c \in CtlLink /\ count[c] \in Nat
  BY CtlFacts DEF Typed
<1>2. /\ count' = [count EXCEPT ![c] = @ + 1] /\ unsettled' = [unsettled EXCEPT ![c] = U]
      /\ answer' = [answer EXCEPT ![t] = [op |-> "none"]] /\ wire' = Append(wire, f)
  BY DEF Call
<1>3. U = [k \in DOMAIN unsettled[c] \cup {count[c]} |-> IF k = count[c] THEN t ELSE unsettled[c][k]]
  BY DEF Put
<1>4. /\ f.type = "control" /\ f.op = op /\ f.link = c /\ f.txn = task[t].txn
      /\ f.id.link = c /\ f.id.tag = count[c] /\ f.id.of = t
  BY DEF Control, Delivery
<1>5. IsSeq(wire') /\ Grown({f}) /\ Len(wire') = Len(wire) + 1 /\ wire'[Len(wire) + 1] = f
  <2> HIDE DEF f
  <2> QED
    BY <1>2, Sent
<1>6. U[count[c]] = t
  BY <1>3
<1>7. \A k \in Nat : k < count[c] /\ k \in DOMAIN U => k \in DOMAIN unsettled[c] /\ U[k] = unsettled[c][k]
  BY <1>1, <1>3
<1> HIDE DEF U, f
<1>8. /\ count' \in [CtlLink -> Nat] /\ count'[c] = count[c] + 1
      /\ \A d \in CtlLink : d # c => count'[d] = count[d]
  BY <1>1, <1>2 DEF Typed
<1>9. /\ unsettled' = [d \in CtlLink |-> unsettled'[d]] /\ unsettled'[c] = U
      /\ \A d \in CtlLink : d # c => unsettled'[d] = unsettled[d]
  BY <1>1, <1>2 DEF Typed
<1>10. /\ answer' = [u \in Txn |-> answer'[u]] /\ answer'[t].op = "none"
       /\ \A u \in Txn : u # t => answer'[u] = answer[u]
  BY <1>2 DEF Typed
<1>11. \A d \in CtlLink :
         /\ count'[d] >= count[d]
         /\ \A k \in Nat : k < count[d] /\ k \in DOMAIN unsettled'[d] =>
              k \in DOMAIN unsettled[d] /\ unsettled'[d][k] = unsettled[d][k]
  BY <1>1, <1>7, <1>8, <1>9 DEF Typed
<1>12. MsgOK(c, f.id)
  BY <1>1, <1>4 DEF MsgOK
<1> QED
  <2>1. CallEffect(t, op, f)
    BY <1>1, <1>4, <1>5, <1>6, <1>8, <1>9, <1>10, <1>11, <1>12 DEF CallEffect
  <2> QED
    BY <2>1

\* Only the transaction t moves.
LEMMA TaskMoves ==
  ASSUME Typed, NEW t \in Txn, NEW b \in Places, task' = [task EXCEPT ![t].pc = b]
  PROVE  /\ task' \in [Txn -> [pc : Places, txn : Nat, done : Nat]]
         /\ task'[t].pc = b /\ task'[t].txn = task[t].txn /\ task'[t].done = task[t].done
         /\ \A u \in Txn : u # t => task'[u] = task[u]
         /\ \A u \in Txn : task'[u].txn = task[u].txn /\ task'[u].done = task[u].done
BY DEF Typed

\* TransactionDischarge::discharge
LEMMA DischargeWhole ==
  ASSUME NEW own, Whole(own), NEW t \in Txn, NEW fail \in BOOLEAN, Discharge(t, fail)
  PROVE  Whole(own)' /\ \E S : AppMove(S)
<1> DEFINE op == IF fail THEN "rollback" ELSE "commit"
           b == IF fail THEN "rolling" ELSE "committing"
<1>1. Typed /\ task[t].pc = "open" /\ Call(t, op) /\ b \in {"rolling", "committing"} /\ b \in Places
  BY DEF Whole, Discharge, Places, Waiting
<1>2. /\ UNCHANGED <<plan, acked, back, txns, issued, control, inbox, coord, attached, session, applied>>
      /\ task' = [task EXCEPT ![t].pc = b]
      /\ asked' = IF fail THEN asked ELSE asked \cup {task[t].txn}
  BY DEF Discharge, resource
<1>3. PICK f : CallEffect(t, op, f)
  <2> HIDE DEF op
  <2> QED
    BY <1>1, CallFacts
<1>4. /\ task' \in [Txn -> [pc : Places, txn : Nat, done : Nat]]
      /\ task'[t].pc = b /\ task'[t].txn = task[t].txn /\ \A u \in Txn : u # t => task'[u] = task[u]
      /\ \A u \in Txn : task'[u].txn = task[u].txn /\ task'[u].done = task[u].done
  BY <1>1, <1>2, TaskMoves
<1>5. Typed'
  BY <1>1, <1>2, <1>3, <1>4 DEF Typed, CallEffect
<1>6. AppMove({f})
  BY <1>1, <1>2, <1>3, <1>4 DEF AppMove, PcStep, Waiting, CallEffect
<1>7. FrameOK(own, f)'
  <2>1. task[t].txn \in 1 .. issued /\ own[task[t].txn] = t
    BY <1>1 DEF Whole, Learned
  <2>2. MsgOK(f.link, f.id)'
    BY <1>1, <1>3, <1>5, <1>6, AppFrameOK DEF CallEffect
  <2>3. DischargeOK(own, f.id, f.op, f.txn)'
    BY <1>1, <1>2, <1>3, <1>4, <2>1 DEF DischargeOK, Undischarged, CallEffect
  <2> QED
    BY <1>3, <2>2, <2>3 DEF FrameOK, IsDeclare, CallEffect
<1>8. ~IsDeclare(f) /\ f.link \in CtlLink
  BY <1>1, <1>3, CtlFacts DEF IsDeclare, CallEffect
<1>9. Whole(own)'
  BY <1>3, <1>4, <1>5, <1>6, <1>7, <1>8, AppWhole DEF CallEffect
<1> QED
  BY <1>6, <1>9

\* The Detach of an owned control link, if any.
LEMMA LeaveFacts ==
  ASSUME Typed, NEW t \in Txn, Leave(t)
  PROVE  IsSeq(wire') /\ \E S : /\ S \subseteq {Detach(t)} /\ Grown(S) /\ (S # {} => t \in plan.owned)
<1>1. CASE t \in plan.owned
  BY <1>1, Sent DEF Leave, Close
<1>2. CASE t \notin plan.owned
  <2>1. wire' = wire /\ IsSeq(wire')
    BY <1>2 DEF Leave, Typed
  <2>2. Len(wire) \in Nat
    BY Lengths DEF Typed
  <2>3. Grown({})
    BY <2>1, <2>2 DEF Grown
  <2> QED
    BY <2>1, <2>3
<1> QED
  BY <1>1, <1>2

\* A wire that stays as it is has grown by nothing.
LEMMA NotGrown ==
  ASSUME Typed, wire' = wire
  PROVE  IsSeq(wire') /\ Grown({})
<1>1. Len(wire) \in Nat
  BY Lengths DEF Typed
<1> QED
  BY <1>1 DEF Grown, Typed

\* A Detach is sent on a control link that nobody uses any longer.
LEMMA DetachOK ==
  ASSUME NEW own, Whole(own), Typed', NEW l, l \in CtlLink \cup Links, l \in CtlLink => Left(l)'
  PROVE  LET f == Detach(l) IN
         /\ f.type \in {"control", "detach"} /\ ~IsDeclare(f) /\ FrameOK(own, f)'
         /\ (f.type = "control" => f.link \in CtlLink)
         /\ (f.type = "detach" => f.link \in CtlLink \cup Links)
<1> DEFINE f == Detach(l)
<1>1. f.type = "detach" /\ f.link = l
  BY DEF Detach
<1> HIDE DEF f
<1>2. ~IsDeclare(f) /\ FrameOK(own, f)'
  BY <1>1 DEF IsDeclare, FrameOK, IsDischarge
<1> QED
  BY <1>1, <1>2 DEF f

\* A step that leaves the control link, or not, and moves one transaction on.
LEMMA QuietWhole ==
  ASSUME NEW own, Whole(own), NEW t \in Txn, NEW b \in Places, PcStep(task[t].pc, b), task[t].pc # "declaring" \/ b # "open",
         task' = [task EXCEPT ![t].pc = b],
         task[t].pc = "committing" /\ b = "committed" => answer[t].op = "accepted",
         Leave(t) \/ wire' = wire, b \in Final \/ wire' = wire,
         UNCHANGED <<plan, answer, acked, back, resource, asked>>,
         count' \in [CtlLink -> Nat], unsettled' = [c \in CtlLink |-> unsettled'[c]],
         \A c \in CtlLink :
              /\ count'[c] >= count[c]
              /\ \A k \in Nat : k < count[c] /\ k \in DOMAIN unsettled'[c] =>
                   k \in DOMAIN unsettled[c] /\ unsettled'[c][k] = unsettled[c][k]
  PROVE  Whole(own)' /\ \E S : AppMove(S)
<1>1. Typed
  BY DEF Whole
<1>2. PICK S : Grown(S) /\ S \subseteq {Detach(t)} /\ (S # {} => t \in plan.owned /\ b \in Final)
  <2>1. CASE wire' = wire
    BY <1>1, <2>1, NotGrown
  <2>2. CASE wire' # wire
    BY <1>1, <2>2, LeaveFacts
  <2> QED
    BY <2>1, <2>2
<1>3. IsSeq(wire')
  BY <1>1, LeaveFacts, NotGrown
<1>4. /\ task' \in [Txn -> [pc : Places, txn : Nat, done : Nat]]
      /\ task'[t].pc = b /\ task'[t].txn = task[t].txn /\ \A u \in Txn : u # t => task'[u] = task[u]
      /\ \A u \in Txn : task'[u].txn = task[u].txn /\ task'[u].done = task[u].done
  BY <1>1, TaskMoves
<1>5. /\ UNCHANGED <<plan, answer, acked, back, txns, issued, control, inbox, coord, session, applied, asked>>
  BY DEF resource
<1>6. Typed'
  BY <1>1, <1>3, <1>4, <1>5 DEF Typed
<1>7. \A u \in Txn : PcStep(task[u].pc, task'[u].pc)
  BY <1>4 DEF PcStep
<1>8. AppMove(S)
  BY <1>2, <1>4, <1>5, <1>7 DEF AppMove
<1>9. \A f \in S : /\ f.type \in {"control", "detach"} /\ ~IsDeclare(f) /\ FrameOK(own, f)'
                   /\ (f.type = "control" => f.link \in CtlLink)
                   /\ (f.type = "detach" => f.link \in CtlLink \cup Links)
  <2>1. SUFFICES ASSUME NEW f \in S
                 PROVE  /\ f.type \in {"control", "detach"} /\ ~IsDeclare(f) /\ FrameOK(own, f)'
                        /\ (f.type = "control" => f.link \in CtlLink)
                        /\ (f.type = "detach" => f.link \in CtlLink \cup Links)
    OBVIOUS
  <2>2. f = Detach(t) /\ t \in plan.owned /\ b \in Final
    BY <1>2
  <2>3. Left(t)'
    <3>1. \A u \in Txn : Ctl(u) = t => u = t
      BY <1>1, <2>2, CtlFacts
    <3>2. \A u \in Txn : Ctl(u)' = Ctl(u)
      BY <1>5 DEF Ctl
    <3> QED
      BY <3>1, <3>2, <1>4, <2>2 DEF Left
  <2>4. t \in CtlLink
    BY <1>1, CtlFacts
  <2> QED
    BY <1>6, <2>2, <2>3, <2>4, DetachOK
<1>10. Whole(own)'
  BY <1>4, <1>6, <1>8, <1>9, AppWhole
<1> QED
  BY <1>8, <1>10

\* Nothing happens to the control links' counters and maps.
LEMMA LinksStay ==
  ASSUME Typed, UNCHANGED <<count, unsettled>>
  PROVE  /\ count' \in [CtlLink -> Nat] /\ unsettled' = [c \in CtlLink |-> unsettled'[c]]
         /\ \A c \in CtlLink :
              /\ count'[c] >= count[c]
              /\ \A k \in Nat : k < count[c] /\ k \in DOMAIN unsettled'[c] =>
                   k \in DOMAIN unsettled[c] /\ unsettled'[c][k] = unsettled[c][k]
<1>1. \A c \in CtlLink : count[c] \in Nat
  BY DEF Typed
<1> QED
  BY <1>1 DEF Typed

\* declare_on_link: the id has come.
LEMMA LearnWhole ==
  ASSUME NEW own, Whole(own), NEW t \in Txn, task[t].pc = "declaring", answer[t].op = "declared",
         task' = [task EXCEPT ![t].pc = "open", ![t].txn = answer[t].txn], wire' = wire,
         UNCHANGED <<plan, count, unsettled, answer, acked, back, resource, asked>>
  PROVE  Whole(own)' /\ \E S : AppMove(S)
<1>1. Typed /\ answer[t].txn \in Nat
  BY DEF Whole, Learned
<1>2. "open" \in Places
  BY DEF Places
<1>3. /\ task' \in [Txn -> [pc : Places, txn : Nat, done : Nat]]
      /\ task'[t].pc = "open" /\ task'[t].txn = answer[t].txn
      /\ \A u \in Txn : task'[u].done = task[u].done
      /\ \A u \in Txn : u # t => task'[u] = task[u]
  BY ZenonT(60), <1>1, <1>2 DEF Typed
<1>4. UNCHANGED <<plan, answer, acked, back, txns, issued, control, inbox, coord, session, applied, asked>>
  BY DEF resource
<1>5. IsSeq(wire') /\ Grown({})
  BY <1>1, NotGrown
<1>6. Typed'
  BY <1>1, <1>3, <1>4, <1>5 DEF Typed
<1>7. AppMove({})
  BY <1>1, <1>3, <1>4, <1>5, LinksStay DEF AppMove, PcStep
<1>8. Whole(own)'
  BY <1>3, <1>6, <1>7, AppWhole
<1> QED
  BY <1>7, <1>8

\* declare_on_link, discharge_on_link
LEMMA ReturnWhole ==
  ASSUME NEW own, Whole(own), NEW t \in Txn, Return(t)
  PROVE  Whole(own)' /\ \E S : AppMove(S)
<1>1. /\ task[t].pc \in Waiting /\ UNCHANGED <<plan, count, unsettled, answer, acked, back, resource, asked>>
  BY DEF Return
<1>2. /\ count' \in [CtlLink -> Nat] /\ unsettled' = [c \in CtlLink |-> unsettled'[c]]
      /\ \A c \in CtlLink :
           /\ count'[c] >= count[c]
           /\ \A k \in Nat : k < count[c] /\ k \in DOMAIN unsettled'[c] =>
                k \in DOMAIN unsettled[c] /\ unsettled'[c][k] = unsettled[c][k]
  BY <1>1, LinksStay DEF Whole
<1>3. CASE /\ task[t].pc = "declaring" /\ answer[t].op = "declared"
           /\ task' = [task EXCEPT ![t].pc = "open", ![t].txn = answer[t].txn]
           /\ UNCHANGED <<wire, left>>
  BY <1>1, <1>3, LearnWhole
<1>4. CASE task[t].pc = "declaring" /\ task' = [task EXCEPT ![t].pc = "failed"] /\ Leave(t)
  <2>1. "failed" \in Places /\ "failed" \in Final /\ PcStep(task[t].pc, "failed")
    BY <1>4 DEF Places, Final, PcStep
  <2> QED
    BY <1>1, <1>2, <1>4, <2>1, QuietWhole
<1>5. CASE /\ task[t].pc # "declaring" /\ answer[t].op = "accepted" /\ Leave(t)
           /\ task' = [task EXCEPT ![t].pc = IF @ = "committing" THEN "committed" ELSE "rolledback"]
  <2> DEFINE b == IF task[t].pc = "committing" THEN "committed" ELSE "rolledback"
  <2>1. b \in Places /\ b \in Final /\ PcStep(task[t].pc, b) /\ b # "open"
    BY <1>1, <1>5 DEF Places, Final, PcStep, Waiting
  <2>2. task' = [task EXCEPT ![t].pc = b]
    BY <1>5
  <2> HIDE DEF b
  <2> QED
    BY <1>1, <1>2, <1>5, <2>1, <2>2, QuietWhole
<1>6. CASE task[t].pc # "declaring" /\ task' = [task EXCEPT ![t].pc = "dropping"] /\ UNCHANGED <<wire, left>>
  <2>1. "dropping" \in Places /\ PcStep(task[t].pc, "dropping")
    BY <1>1, <1>6 DEF Places, Waiting, PcStep
  <2> QED
    BY <1>1, <1>2, <1>6, <2>1, QuietWhole
<1> QED
  BY <1>3, <1>4, <1>5, <1>6 DEF Return

\* The future of a call or the handle is dropped.
LEMMA CancelWhole ==
  ASSUME NEW own, Whole(own), NEW t \in Txn, Cancel(t)
  PROVE  Whole(own)' /\ \E S : AppMove(S)
<1>1. /\ task[t].pc \in Waiting \cup {"open"}
      /\ UNCHANGED <<plan, count, unsettled, answer, acked, back, resource, asked>>
  BY DEF Cancel
<1>2. /\ count' \in [CtlLink -> Nat] /\ unsettled' = [c \in CtlLink |-> unsettled'[c]]
      /\ \A c \in CtlLink :
           /\ count'[c] >= count[c]
           /\ \A k \in Nat : k < count[c] /\ k \in DOMAIN unsettled'[c] =>
                k \in DOMAIN unsettled[c] /\ unsettled'[c][k] = unsettled[c][k]
  BY <1>1, LinksStay DEF Whole
<1>3. CASE task[t].pc = "declaring"
  <2>1. "gone" \in Places /\ "gone" \in Final /\ PcStep(task[t].pc, "gone")
    BY <1>3 DEF Places, Final, PcStep
  <2>2. task' = [task EXCEPT ![t].pc = "gone"] /\ Leave(t)
    BY <1>3 DEF Cancel
  <2> QED
    BY <1>1, <1>2, <1>3, <2>1, <2>2, QuietWhole
<1>4. CASE task[t].pc # "declaring"
  <2>1. "dropping" \in Places /\ PcStep(task[t].pc, "dropping")
    BY <1>1, <1>4 DEF Places, Waiting, PcStep
  <2>2. task' = [task EXCEPT ![t].pc = "dropping"] /\ wire' = wire
    BY <1>4 DEF Cancel
  <2> QED
    BY <1>1, <1>2, <1>4, <2>1, <2>2, QuietWhole
<1> QED
  BY <1>3, <1>4

\* rollback_on_drop: the entry is made.
LEMMA RegisterWhole ==
  ASSUME NEW own, Whole(own), NEW t \in Txn, Register(t)
  PROVE  Whole(own)' /\ \E S : AppMove(S)
<1> DEFINE c == Ctl(t)
           U == Put(unsettled[c], count[c], Nobody)
<1>1. Typed /\ c \in CtlLink /\ count[c] \in Nat
  BY CtlFacts DEF Whole, Typed
<1>2. /\ task[t].pc = "registering" /\ task' = [task EXCEPT ![t].pc = "gone"] /\ Leave(t)
      /\ count' = count /\ UNCHANGED <<plan, answer, acked, back, resource, asked>>
      /\ unsettled' = [unsettled EXCEPT ![c] = U] \/ unsettled' = unsettled
  BY DEF Register
<1>3. \A k \in Nat : k < count[c] /\ k \in DOMAIN U => k \in DOMAIN unsettled[c] /\ U[k] = unsettled[c][k]
  BY <1>1 DEF Put
<1>4. "gone" \in Places /\ "gone" \in Final /\ PcStep(task[t].pc, "gone")
  BY <1>2 DEF Places, Final, PcStep
<1> HIDE DEF U, c
<1>5. /\ unsettled' = [d \in CtlLink |-> unsettled'[d]]
      /\ \A d \in CtlLink : unsettled'[d] = unsettled[d] \/ (d = c /\ unsettled'[d] = U)
  BY <1>1, <1>2 DEF Typed
<1>6. \A d \in CtlLink :
        /\ count'[d] >= count[d]
        /\ \A k \in Nat : k < count[d] /\ k \in DOMAIN unsettled'[d] =>
             k \in DOMAIN unsettled[d] /\ unsettled'[d][k] = unsettled[d][k]
  <2>1. \A d \in CtlLink : count[d] \in Nat
    BY <1>1 DEF Typed
  <2> QED
    BY <1>2, <1>3, <1>5, <2>1
<1>7. count' \in [CtlLink -> Nat]
  BY <1>1, <1>2 DEF Typed
<1> QED
  BY <1>2, <1>4, <1>5, <1>6, <1>7, QuietWhole

\* Drop for Transaction gives up.
LEMMA GiveUpWhole ==
  ASSUME NEW own, Whole(own), NEW t \in Txn, GiveUp(t)
  PROVE  Whole(own)' /\ \E S : AppMove(S)
<1>1. Typed /\ Ctl(t) \in CtlLink
  BY CtlFacts DEF Whole
<1>2. /\ task[t].pc = "dropping" /\ task' = [task EXCEPT ![t].pc = "gone"] /\ Leave(t)
      /\ unsettled' = unsettled /\ UNCHANGED <<plan, answer, acked, back, resource, asked>>
      /\ count' = [count EXCEPT ![Ctl(t)] = @ + 1] \/ count' = count
  BY DEF GiveUp
<1>3. "gone" \in Places /\ "gone" \in Final /\ PcStep(task[t].pc, "gone")
  BY <1>2 DEF Places, Final, PcStep
<1>4. count' \in [CtlLink -> Nat] /\ \A c \in CtlLink : count'[c] >= count[c]
  <2>1. CASE count' = count
    <3>1. count \in [CtlLink -> Nat] /\ \A c \in CtlLink : count[c] \in Nat
      BY <1>1 DEF Typed
    <3> QED
      BY <2>1, <3>1
  <2>2. CASE count' = [count EXCEPT ![Ctl(t)] = @ + 1]
    BY <1>1, <2>2 DEF Typed
  <2> QED
    BY <1>2, <2>1, <2>2
<1>5. unsettled' = [c \in CtlLink |-> unsettled'[c]]
  BY <1>1, <1>2 DEF Typed
<1> QED
  BY <1>2, <1>3, <1>4, <1>5, QuietWhole

\* rollback_on_drop: the transfer goes.
LEMMA RollbackOnDropWhole ==
  ASSUME NEW own, Whole(own), NEW t \in Txn, RollbackOnDrop(t)
  PROVE  Whole(own)' /\ \E S : AppMove(S)
<1>1. Typed /\ Ctl(t) \in CtlLink /\ count[Ctl(t)] \in Nat
  BY CtlFacts DEF Whole, Typed
<1>2. /\ task[t].pc = "dropping" /\ task' = [task EXCEPT ![t].pc = "registering"]
      /\ count' = [count EXCEPT ![Ctl(t)] = @ + 1]
      /\ wire' = Append(wire, Control(Delivery(Ctl(t), count[Ctl(t)] + 1, t), "rollback", task[t].txn))
      /\ UNCHANGED <<plan, unsettled, answer, acked, back, txns, issued, control, inbox, coord, session, applied, asked>>
  BY DEF RollbackOnDrop, resource
<1>3. PICK f : f = Control(Delivery(Ctl(t), count[Ctl(t)] + 1, t), "rollback", task[t].txn)
  OBVIOUS
<1>4. /\ f.type = "control" /\ f.op = "rollback" /\ f.link = Ctl(t) /\ f.txn = task[t].txn /\ f.id.of = t
      /\ MsgOK(f.link, f.id)
  BY <1>1, <1>3 DEF Control, Delivery, MsgOK
<1>5. IsSeq(wire') /\ Grown({f})
  BY <1>1, <1>2, <1>3, Sent
<1>6. /\ task' \in [Txn -> [pc : Places, txn : Nat, done : Nat]]
      /\ task'[t].pc = "registering" /\ task'[t].txn = task[t].txn /\ \A u \in Txn : u # t => task'[u] = task[u]
      /\ \A u \in Txn : task'[u].txn = task[u].txn /\ task'[u].done = task[u].done
  <2>1. "registering" \in Places
    BY DEF Places
  <2> QED
    BY <1>1, <1>2, <2>1, TaskMoves
<1>7. count' \in [CtlLink -> Nat] /\ \A c \in CtlLink : count'[c] >= count[c]
  BY <1>1, <1>2 DEF Typed
<1>8. Typed'
  BY <1>1, <1>2, <1>5, <1>6, <1>7 DEF Typed
<1>9. AppMove({f})
  BY <1>2, <1>5, <1>6, <1>7 DEF AppMove, PcStep
<1>10. FrameOK(own, f)'
  <2>1. task[t].txn \in 1 .. issued /\ own[task[t].txn] = t
    BY <1>2 DEF Whole, Learned
  <2>2. MsgOK(f.link, f.id)'
    BY <1>1, <1>4, <1>8, <1>9, AppFrameOK
  <2>3. DischargeOK(own, f.id, f.op, f.txn)'
    BY <1>2, <1>4, <1>6, <2>1 DEF DischargeOK, Undischarged
  <2> QED
    BY <1>4, <2>2, <2>3 DEF FrameOK, IsDeclare
<1>11. ~IsDeclare(f) /\ f.link \in CtlLink
  BY <1>1, <1>4 DEF IsDeclare
<1>12. Whole(own)'
  BY <1>4, <1>6, <1>8, <1>9, <1>10, <1>11, AppWhole
<1> QED
  BY <1>9, <1>12

\* Controller::close, and the close of another link
LEMMA CloseWhole ==
  ASSUME NEW own, Whole(own), CloseController \/ \E l \in Links : CloseLink(l)
  PROVE  Whole(own)' /\ \E S : AppMove(S)
<1>1. PICK l \in CtlLink \cup Links :
        /\ wire' = Append(wire, Detach(l)) /\ (l \in CtlLink => l = Shared /\ \A t \in Txn \ plan.owned : task[t].pc \in Final)
  <2>1. CASE CloseController
    BY <2>1 DEF CloseController, Close, CtlLink
  <2>2. ASSUME NEW l \in Links, CloseLink(l)
        PROVE  wire' = Append(wire, Detach(l)) /\ l \notin CtlLink
    BY <2>2, TransactionsAssumption DEF CloseLink, Close
  <2> QED
    BY <2>1, <2>2
<1>2. UNCHANGED <<plan, task, count, unsettled, answer, acked, back, txns, issued, control, inbox, coord, session, applied, asked>>
  BY DEF CloseController, CloseLink, resource
<1>3. Typed
  BY DEF Whole
<1>4. IsSeq(wire') /\ Grown({Detach(l)})
  BY <1>1, <1>3, Sent
<1>5. Typed'
  BY <1>2, <1>3, <1>4 DEF Typed
<1>6. AppMove({Detach(l)})
  <2>1. \A t \in Txn : task[t].pc # "open" \/ task[t].pc # "declaring"
    OBVIOUS
  <2> QED
    BY <1>2, <1>3, <1>4, <2>1, LinksStay DEF AppMove, PcStep
<1>7. l \in CtlLink => Left(l)'
  <2>1. SUFFICES ASSUME l \in CtlLink, NEW t \in Txn, Ctl(t) = l PROVE task[t].pc \in Final
    BY <1>2 DEF Left, Ctl
  <2>2. t \notin plan.owned
    BY <1>1, <1>3, <2>1, CtlFacts
  <2> QED
    BY <1>1, <2>1, <2>2
<1>8. \A f \in {Detach(l)} : /\ f.type \in {"control", "detach"} /\ ~IsDeclare(f) /\ FrameOK(own, f)'
                             /\ (f.type = "control" => f.link \in CtlLink)
                             /\ (f.type = "detach" => f.link \in CtlLink \cup Links)
  BY <1>5, <1>7, DetachOK
<1>9. Whole(own)'
  BY <1>2, <1>5, <1>6, <1>8, AppWhole
<1> QED
  BY <1>6, <1>9

\* Transaction::declare
LEMMA DeclareWhole ==
  ASSUME NEW own, Whole(own), NEW t \in Txn, Declare(t)
  PROVE  Whole(own)' /\ \E S : AppMove(S)
<1>1. PICK op \in {"declare", "global"} : Call(t, op)
  BY DEF Declare
<1>2. /\ Typed /\ task[t].pc = "idle" /\ task' = [task EXCEPT ![t].pc = "declaring"]
      /\ UNCHANGED <<plan, acked, back, txns, issued, control, inbox, coord, session, applied, asked>>
  BY DEF Declare, resource, Whole
<1>3. PICK f : CallEffect(t, op, f)
  BY <1>1, <1>2, CallFacts
<1>4. /\ task' \in [Txn -> [pc : Places, txn : Nat, done : Nat]]
      /\ task'[t].pc = "declaring" /\ task'[t].txn = task[t].txn /\ \A u \in Txn : u # t => task'[u] = task[u]
      /\ \A u \in Txn : task'[u].txn = task[u].txn /\ task'[u].done = task[u].done
  <2>1. "declaring" \in Places
    BY DEF Places, Waiting
  <2> QED
    BY <1>2, <2>1, TaskMoves
<1>5. Typed'
  BY <1>2, <1>3, <1>4 DEF Typed, CallEffect
<1>6. AppMove({f})
  BY <1>2, <1>3, <1>4 DEF AppMove, PcStep, Waiting, CallEffect
<1>7. /\ f.type = "control" /\ f.op = op /\ f.link = Ctl(t) /\ f.link \in CtlLink /\ f.id.of = t
  BY <1>2, <1>3, CtlFacts DEF CallEffect
<1>8. Ids(own)' /\ Requests' /\ Routed'
  BY <1>5, <1>6, <1>7, AppIds, AppRequests, AppRouted DEF Whole
<1>9. Declares(own)'
  <2>1. CASE op = "global"
    <3>1. ~IsDeclare(f)
      BY <1>7, <2>1 DEF IsDeclare
    <3> QED
      BY <1>5, <1>6, <3>1, AppDeclares DEF Whole
  <2>2. CASE op = "declare"
    <3>1. /\ inbox' = inbox /\ control' = control /\ coord' = coord /\ Declares(own) /\ Ids(own)
          /\ plan' = plan /\ issued' = issued
      BY <1>2 DEF Whole
    <3>2. \A c, id : DeclareOK(own, c, id) => DeclareOK(own, c, id)' /\ id.of # t
      BY <1>2, <1>5, <1>6, AppDeclareOK DEF DeclareOK
    <3>3. DeclareOK(own, f.link, f.id)'
      BY <1>2, <1>4, <1>7, <3>1 DEF DeclareOK, Ids, Ctl
    <3>4. /\ Len(wire) \in Nat /\ Len(wire') = Len(wire) + 1 /\ wire'[Len(wire) + 1] = f
          /\ \A i \in 1 .. Len(wire) : wire'[i] = wire[i]
      BY <1>2, <1>3, Lengths DEF CallEffect, Grown, Typed
    <3>5. \A i \in 1 .. Len(wire') : (i \in 1 .. Len(wire) /\ wire'[i] = wire[i]) \/ (i = Len(wire) + 1 /\ wire'[i] = f)
      BY <3>4
    <3>6. \A i \in 1 .. Len(wire) : IsDeclare(wire[i]) => wire[i].id.of # f.id.of
      BY <1>7, <3>1, <3>2 DEF Declares
    <3>7. Single(wire)'
      BY <3>1, <3>5, <3>6 DEF Single, Declares
    <3>8. \A c \in CtlLink : Single(inbox[c])'
      BY <3>1 DEF Single, Declares
    <3>9. (\A i \in 1 .. Len(wire) : IsDeclare(wire[i]) => DeclareOK(own, wire[i].link, wire[i].id))'
      BY <3>1, <3>2, <3>3, <3>5 DEF Declares
    <3>10. (\A c \in CtlLink : \A i \in 1 .. Len(inbox[c]) : IsDeclare(inbox[c][i]) =>
             /\ DeclareOK(own, c, inbox[c][i].id)
             /\ \A j \in 1 .. Len(wire) : IsDeclare(wire[j]) => wire[j].id.of # inbox[c][i].id.of)'
      BY <1>7, <3>1, <3>2, <3>5 DEF Declares
    <3>11. ASSUME NEW k \in 1 .. Len(control), control[k].op = "allocate"
           PROVE  LET c == control[k].link IN
             /\ DeclareOK(own, c, coord[c].id)'
             /\ \A j \in 1 .. Len(wire') : IsDeclare(wire'[j]) => wire'[j].id.of # coord[c].id.of
             /\ \A i \in 1 .. Len(inbox[c]) : IsDeclare(inbox[c][i]) => inbox[c][i].id.of # coord[c].id.of
      <4> DEFINE c == control[k].link
      <4>1. /\ DeclareOK(own, c, coord[c].id)
            /\ \A j \in 1 .. Len(wire) : IsDeclare(wire[j]) => wire[j].id.of # coord[c].id.of
            /\ \A i \in 1 .. Len(inbox[c]) : IsDeclare(inbox[c][i]) => inbox[c][i].id.of # coord[c].id.of
        BY <3>1, <3>11 DEF Declares
      <4>2. PICK cc, id : cc = control[k].link /\ id = coord[cc].id
        OBVIOUS
      <4>3. DeclareOK(own, cc, id)' /\ id.of # t
        BY <3>2, <4>1, <4>2
      <4>4. \A j \in 1 .. Len(wire') : IsDeclare(wire'[j]) => wire'[j].id.of # id.of
        BY <1>7, <3>5, <4>1, <4>2, <4>3
      <4> QED
        BY <3>1, <4>1, <4>2, <4>3, <4>4
    <3> QED
      BY <3>1, <3>7, <3>8, <3>9, <3>10, <3>11 DEF Declares
  <2> QED
    BY <2>1, <2>2
<1>10. FrameOK(own, f)'
  <2>1. MsgOK(f.link, f.id)'
    BY <1>2, <1>3, <1>5, <1>6, <1>7, AppFrameOK DEF CallEffect
  <2> QED
    BY <1>2, <1>3, <1>7, <2>1 DEF FrameOK, IsDischarge, IsDeclare, Whole, Learned, CallEffect
<1>11. Asked(own)' /\ Tags' /\ Learned(own)'
  <2>1. TagOK(f.link, f.id)'
    BY <1>3, <1>7 DEF TagOK, CallEffect
  <2> QED
    BY <1>5, <1>6, <1>10, <2>1, AppAsked, AppTags, AppLearned DEF Whole
<1>12. ~IsWork(f)
  BY <1>7 DEF IsWork
<1>13. OnWire(own)' /\ Kept(own)'
  BY <1>4, <1>5, <1>6, <1>12, AppOnWire, AppKept DEF Whole
<1>14. \A u \in Txn : task'[u].done \in 0 .. Len(Work[u])
  BY <1>4 DEF Whole, Applied
<1>15. Applied(own)' /\ Posted' /\ Outcomes'
  BY <1>4, <1>5, <1>6, <1>14, AppApplied, AppPosted, AppOutcomes DEF Whole
<1>16. Whole(own)'
  BY <1>5, <1>8, <1>9, <1>11, <1>13, <1>15 DEF Whole
<1> QED
  BY <1>6, <1>16

\* The frames F of the next item of work of t are sent.
WorkMove(t, x, n, F) ==
  /\ task[t].pc = "open" /\ x = task[t].txn /\ n = task[t].done + 1 /\ n <= Len(Work[t])
  /\ IsSeq(F) /\ wire' = wire \o F /\ Len(F) = FramesIn(Work[t][n])
  /\ \A i \in 1 .. Len(F) :
       /\ F[i].txn = x /\ F[i].n = n /\ F[i].type = Work[t][n].kind /\ Part(F[i]) = i
       /\ F[i].type = "post" =>
            /\ F[i].w = Work[t][n] /\ F[i].part = i
            /\ F[i].id = IF i = 1 THEN Delivery(F[i].w.link, n, t) ELSE Continuation
  /\ task' = [task EXCEPT ![t].done = n]
  /\ acked' = IF Work[t][n].kind = "post" /\ Work[t][n].settled THEN [acked EXCEPT ![t] = @ \cup {n}] ELSE acked
  /\ UNCHANGED <<plan, count, unsettled, answer, back, resource, asked>>

\* An item of work.
LEMMA ItemFacts ==
  ASSUME NEW t \in Txn, NEW n \in 1 .. Len(Work[t])
  PROVE  /\ Len(Work[t]) \in Nat /\ Work[t][n].kind \in {"post", "retire"}
         /\ FramesIn(Work[t][n]) \in Nat /\ FramesIn(Work[t][n]) >= 1
         /\ Work[t][n].kind = "post" =>
              /\ Work[t][n].frames \in Nat /\ Work[t][n].frames >= 1 /\ Work[t][n].link \in Links
              /\ Work[t][n].settled \in BOOLEAN /\ FramesIn(Work[t][n]) = Work[t][n].frames
<1>1. Work[t] \in Seq(WorkItem)
  BY TransactionsAssumption
<1>2. Work[t][n] \in WorkItem /\ Len(Work[t]) \in Nat
  BY <1>1
<1> QED
  BY <1>2 DEF WorkItem, RetireWork, FramesIn

\* Posting and retiring are moves of work.
LEMMA WorkMoves ==
  ASSUME Typed, NEW t \in Txn, Post(t) \/ Retire(t)
  PROVE  \E x, n, F : WorkMove(t, x, n, F)
<1> DEFINE n == task[t].done + 1
           w == Work[t][n]
           x == task[t].txn
           P == [i \in 1 .. w.frames |->
                  [type |-> "post", txn |-> x, n |-> n, w |-> w, part |-> i,
                   id |-> IF i = 1 THEN Delivery(w.link, n, t) ELSE Continuation]]
           R == [type |-> "retire", txn |-> x, n |-> n]
<1>0. task[t].done \in Nat /\ n \in Nat /\ n >= 1
  BY DEF Typed
<1>1. CASE Post(t)
  <2>1. /\ task[t].pc = "open" /\ n <= Len(Work[t]) /\ w.kind = "post" /\ wire' = wire \o P
        /\ task' = [task EXCEPT ![t].done = n]
        /\ acked' = IF w.settled THEN [acked EXCEPT ![t] = @ \cup {n}] ELSE acked
        /\ UNCHANGED <<plan, count, unsettled, answer, back, resource, asked>>
    BY <1>1 DEF Post
  <2>2. n \in 1 .. Len(Work[t])
    <3>1. Len(Work[t]) \in Nat
      BY SMTT(30), TransactionsAssumption
    <3>2. n <= Len(Work[t])
      BY ZenonT(60), <2>1
    <3> HIDE DEF n
    <3> QED
      BY <1>0, <3>1, <3>2
  <2>3. w.frames \in Nat /\ FramesIn(w) = w.frames
    BY ZenonT(60), <2>1, <2>2, ItemFacts
  <2>4. \A i \in 1 .. w.frames :
          /\ P[i].txn = x /\ P[i].n = n /\ P[i].type = "post" /\ P[i].w = w /\ P[i].part = i
          /\ P[i].id = IF i = 1 THEN Delivery(w.link, n, t) ELSE Continuation
    OBVIOUS
  <2>5. P = [i \in 1 .. w.frames |-> P[i]]
    OBVIOUS
  <2> HIDE DEF P, w, n, x
  <2>6. IsSeq(P) /\ Len(P) = w.frames
    BY <2>3, <2>5, Listed
  <2>7. WorkMove(t, x, n, P)
    BY <2>1, <2>3, <2>4, <2>6 DEF WorkMove, Part, w, n, x
  <2> QED
    BY SMTT(30), <2>7
<1>2. CASE Retire(t)
  <2>1. /\ task[t].pc = "open" /\ n <= Len(Work[t]) /\ w.kind = "retire" /\ wire' = Append(wire, R)
        /\ task' = [task EXCEPT ![t].done = n] /\ acked' = acked
        /\ UNCHANGED <<plan, count, unsettled, answer, back, resource, asked>>
    BY <1>2 DEF Retire
  <2>2. R.txn = x /\ R.n = n /\ R.type = "retire"
    OBVIOUS
  <2>3. FramesIn(w) = 1
    BY <2>1 DEF FramesIn
  <2> HIDE DEF R, w, n, x
  <2>4. IsSeq(<<R>>) /\ Len(<<R>>) = 1 /\ <<R>>[1] = R
    <3>1. <<R>> \in Seq({R})
      OBVIOUS
    <3> QED
      BY <3>1 DEF IsSeq
  <2>5. Append(wire, R) = wire \o <<R>>
    <3>1. PICK S : wire \in Seq(S)
      BY DEF Typed, IsSeq
    <3>2. wire \in Seq(S \cup {R})
      BY <3>1
    <3> QED
      BY <3>2
  <2>6. WorkMove(t, x, n, <<R>>)
    <3>1. \A i \in 1 .. 1 : i = 1
      OBVIOUS
    <3> QED
      BY <2>1, <2>2, <2>3, <2>4, <2>5, <3>1 DEF WorkMove, Part, w, n, x
  <2> QED
    BY <2>6
<1> QED
  BY <1>1, <1>2

\* An open transaction has nothing under way that ends it.
LEMMA OpenPending ==
  ASSUME NEW own, Whole(own), NEW t \in Txn, task[t].pc = "open", NEW x, x = task[t].txn
  PROVE  /\ x \in 1 .. issued /\ own[x] = t /\ x # NoId /\ Pending(own, x)
         /\ \A i \in 1 .. Len(wire) : ~Ends(own, x, wire[i])
<1>1. x \in 1 .. issued /\ own[x] = t /\ x # NoId
  BY DEF Whole, Learned
<1>2. x \in DOMAIN txns
  BY <1>1 DEF Whole, Applied, Undischarged
<1>3. ~(task[t].pc \in Final) /\ task[t].pc \in Undischarged
  BY DEF Final, Undischarged
<1>4. \A f : FrameOK(own, f) => ~Ends(own, x, f)
  <2>1. ASSUME NEW f, FrameOK(own, f), Ends(own, x, f) PROVE FALSE
    <3>1. CASE IsDischarge(f) /\ f.txn = x
      BY <2>1, <3>1, <1>1, <1>3 DEF FrameOK, DischargeOK
    <3>2. CASE f.type = "detach" /\ f.link = Ctl(own[x])
      BY <2>1, <3>2, <1>1, <1>3, CtlFacts DEF FrameOK, Left, Whole
    <3> QED
      BY <2>1, <3>1, <3>2 DEF Ends
  <2> QED
    BY <2>1
<1>5. ASSUME NEW k \in 1 .. Len(control), Ending(control[k]), control[k].txn = x PROVE FALSE
  <2>1. control[k].op \in {"commit", "rollback", "abort"}
    BY <1>5 DEF Whole, Requests, Ending
  <2>2. CASE control[k].op = "abort"
    BY <1>1, <1>3, <1>5, <2>2 DEF Whole, Asked
  <2>3. CASE control[k].op # "abort"
    BY <1>1, <1>3, <1>5, <2>1, <2>3 DEF Whole, Asked, DischargeOK
  <2> QED
    BY <2>2, <2>3
<1>6. Pending(own, x)
  BY <1>2, <1>4, <1>5 DEF Pending, Whole, Asked
<1> QED
  BY <1>1, <1>4, <1>6 DEF Whole, Asked

\* Posting and retiring keep the invariant.
LEMMA WorkWhole ==
  ASSUME NEW own, Whole(own), NEW t \in Txn, Post(t) \/ Retire(t)
  PROVE  Whole(own)' /\ \E S : AppMove(S)
<1>1. Typed
  BY DEF Whole
<1>2. PICK x, n, F : WorkMove(t, x, n, F)
  BY <1>1, WorkMoves
<1>3. /\ task[t].pc = "open" /\ x = task[t].txn /\ IsSeq(F) /\ wire' = wire \o F
      /\ Len(F) = FramesIn(Work[t][n]) /\ n = task[t].done + 1 /\ task[t].done \in Nat /\ n \in Nat
      /\ n \in 1 .. Len(Work[t])
  <2>1. Len(Work[t]) \in Nat
    BY TransactionsAssumption
  <2> QED
    BY <1>1, <1>2, <2>1 DEF WorkMove, Typed
<1>4. \A i \in 1 .. Len(F) :
        /\ F[i].txn = x /\ F[i].n = n /\ F[i].type = Work[t][n].kind /\ Part(F[i]) = i
        /\ F[i].type = "post" =>
             /\ F[i].w = Work[t][n] /\ F[i].part = i
             /\ F[i].id = IF i = 1 THEN Delivery(F[i].w.link, n, t) ELSE Continuation
  BY <1>2 DEF WorkMove
<1>5. /\ task' = [task EXCEPT ![t].done = n]
      /\ acked' = IF Work[t][n].kind = "post" /\ Work[t][n].settled THEN [acked EXCEPT ![t] = @ \cup {n}] ELSE acked
      /\ UNCHANGED <<plan, count, unsettled, answer, back, txns, issued, control, inbox, coord, session, applied, asked>>
  BY <1>2 DEF WorkMove, resource
<1>6. /\ IsSeq(wire') /\ Len(wire) \in Nat /\ Len(F) \in Nat /\ Len(wire') = Len(wire) + Len(F)
      /\ \A i \in 1 .. Len(wire) : wire'[i] = wire[i]
      /\ \A i \in 1 .. Len(F) : wire'[Len(wire) + i] = F[i]
  <2>1. IsSeq(wire) /\ IsSeq(F) /\ wire' = wire \o F
    BY <1>1, <1>3 DEF Typed
  <2> QED
    BY <2>1, Joined
<1>7. /\ task' \in [Txn -> [pc : Places, txn : Nat, done : Nat]]
      /\ task'[t].pc = "open" /\ task'[t].txn = x /\ task'[t].done = n
      /\ \A u \in Txn : task'[u].pc = task[u].pc /\ task'[u].txn = task[u].txn
      /\ \A u \in Txn : u # t => task'[u] = task[u]
  BY ZenonT(60), <1>1, <1>3, <1>5 DEF Typed
<1>8. /\ acked' \in [Txn -> SUBSET Nat] /\ \A u \in Txn : u # t => acked'[u] = acked[u]
      /\ acked[t] \subseteq acked'[t] /\ acked'[t] \subseteq acked[t] \cup {n}
      /\ Work[t][n].kind = "post" /\ Work[t][n].settled => n \in acked'[t]
  <2>1. acked \in [Txn -> SUBSET Nat]
    BY <1>1 DEF Typed
  <2> QED
    BY <1>3, <1>5, <2>1
<1>9. Typed'
  BY <1>1, <1>5, <1>6, <1>7, <1>8 DEF Typed
<1> DEFINE S == {F[i] : i \in 1 .. Len(F)}
<1>10. \A i \in 1 .. Len(wire') :
         \/ i \in 1 .. Len(wire) /\ wire'[i] = wire[i]
         \/ i - Len(wire) \in 1 .. Len(F) /\ i > Len(wire) /\ wire'[i] = F[i - Len(wire)]
  <2>1. ASSUME NEW i \in 1 .. Len(wire'), i > Len(wire)
        PROVE  i - Len(wire) \in 1 .. Len(F) /\ wire'[i] = F[i - Len(wire)]
    <3>1. i - Len(wire) \in 1 .. Len(F) /\ Len(wire) + (i - Len(wire)) = i
      BY <1>6, <2>1
    <3>2. wire'[Len(wire) + (i - Len(wire))] = F[i - Len(wire)]
      BY <1>6, <3>1
    <3> QED
      BY <3>1, <3>2
  <2> QED
    BY <1>6, <2>1
<1>11. Grown(S)
  BY <1>6, <1>10 DEF Grown
<1>12. AppMove(S)
  <2>1. \A u \in Txn : PcStep(task[u].pc, task'[u].pc) /\ task'[u].txn = task[u].txn
                       /\ (task[u].pc = "declaring" => task'[u].pc # "open")
                       /\ ~(task[u].pc = "committing" /\ task'[u].pc = "committed")
    BY <1>7 DEF PcStep
  <2>2. \A u \in Txn : task'[u].done = task[u].done \/ (task[u].pc = "open" /\ task'[u].done > task[u].done)
    <3>1. task[t].pc = "open" /\ task'[t].done > task[t].done
      BY <1>3, <1>7
    <3>2. \A u \in Txn : u # t => task'[u].done = task[u].done
      BY <1>7
    <3> QED
      BY <3>1, <3>2
  <2>3. \A u \in Txn : acked[u] \subseteq acked'[u] /\ \A m \in acked'[u] : m \in acked[u] \/ m \in 1 .. task'[u].done
    <3>1. n \in 1 .. n
      BY <1>3
    <3>2. ASSUME NEW u \in Txn, u # t PROVE acked'[u] = acked[u]
      BY <1>8, <3>2
    <3>3. task'[t].done = n /\ acked[t] \subseteq acked'[t] /\ acked'[t] \subseteq acked[t] \cup {n}
      BY <1>7, <1>8
    <3> QED
      BY <3>1, <3>2, <3>3
  <2>4. /\ UNCHANGED <<plan, back, txns, issued, control, inbox, coord, session, applied>>
        /\ answer' = answer /\ asked' = asked
    BY <1>5
  <2>5. \A c \in CtlLink :
          /\ count'[c] >= count[c]
          /\ \A k \in Nat : k < count[c] /\ k \in DOMAIN unsettled'[c] =>
               k \in DOMAIN unsettled[c] /\ unsettled'[c][k] = unsettled[c][k]
    BY <1>1, <1>5, LinksStay
  <2> HIDE DEF S
  <2> QED
    BY <1>11, <2>1, <2>2, <2>3, <2>4, <2>5 DEF AppMove
<1>13. \A f \in S : f.type \in {"post", "retire"} /\ IsWork(f) /\ ~IsDeclare(f) /\ FrameOK(own, f)'
  <2>1. \A f \in S : f.type \in {"post", "retire"}
    <3>1. Work[t][n].kind \in {"post", "retire"}
      BY <1>3, ItemFacts
    <3>2. \A i \in 1 .. Len(F) : F[i].type = Work[t][n].kind
      BY <1>4
    <3> QED
      BY <3>1, <3>2
  <2> QED
    BY <2>1 DEF IsWork, IsDeclare, FrameOK, IsDischarge
<1> HIDE DEF S
<1>14. Ids(own)' /\ Requests' /\ Routed' /\ Declares(own)'
  BY <1>9, <1>12, <1>13, AppIds, AppRequests, AppRouted, AppDeclares DEF Whole
<1>15. Asked(own)' /\ Tags' /\ Learned(own)'
  BY <1>9, <1>12, <1>13, AppAsked, AppTags, AppLearned DEF Whole
<1>16. Applied(own)' /\ Outcomes'
  <2>1. \A u \in Txn : task'[u].done \in 0 .. Len(Work[u])
    BY <1>3, <1>7 DEF Whole, Applied
  <2> QED
    BY <1>9, <1>12, <2>1, AppApplied, AppOutcomes DEF Whole
<1>17. /\ x \in 1 .. issued /\ own[x] = t /\ x # NoId /\ Pending(own, x)
       /\ \A i \in 1 .. Len(wire) : ~Ends(own, x, wire[i])
  BY <1>3, OpenPending
<1>18. \A i \in 1 .. Len(F) : WorkOK(own, x, F[i])'
  <2>1. SUFFICES ASSUME NEW i \in 1 .. Len(F) PROVE WorkOK(own, x, F[i])'
    OBVIOUS
  <2>2. n \in 1 .. n /\ FramesIn(Work[t][n]) \in Nat
    BY <1>3, ItemFacts
  <2>3. F[i].type = "post" => i \in 1 .. F[i].w.frames
    <3>1. F[i].type = Work[t][n].kind /\ (F[i].type = "post" => F[i].w = Work[t][n])
      BY <1>4
    <3>2. Work[t][n].kind = "post" => FramesIn(Work[t][n]) = Work[t][n].frames
      BY <1>3, ItemFacts
    <3>3. Len(F) = FramesIn(Work[t][n])
      BY <1>3
    <3> QED
      BY <3>1, <3>2, <3>3
  <2> QED
    BY <1>4, <1>5, <1>7, <1>17, <2>2, <2>3 DEF WorkOK
<1>19. \A y, f : WorkOK(own, y, f) => WorkOK(own, y, f)'
  BY <1>1, <1>9, <1>12, AppWorkOK DEF Whole
<1>20. \A i \in 1 .. Len(wire) : IsWork(wire[i]) /\ wire[i].txn = x => \A k \in 1 .. Len(F) : Precedes(wire[i], F[k])
  <2>1. SUFFICES ASSUME NEW i \in 1 .. Len(wire), IsWork(wire[i]), wire[i].txn = x, NEW k \in 1 .. Len(F)
                 PROVE  Precedes(wire[i], F[k])
    OBVIOUS
  <2>2. wire[i].n \in 1 .. task[t].done
    BY <1>17, <2>1 DEF Whole, OnWire, WorkOK
  <2>3. F[k].n = task[t].done + 1 /\ task[t].done \in Nat
    BY <1>3, <1>4
  <2>4. PICK a, b : a = wire[i].n /\ b = F[k].n
    OBVIOUS
  <2>5. a < b
    BY <2>2, <2>3, <2>4
  <2> QED
    BY <2>4, <2>5 DEF Precedes
<1>21. OnWire(own)'
  <2>1. \A y, f : Ends(own, y, f)' <=> Ends(own, y, f)
    BY <1>5 DEF Ends, Ctl
  <2>2. \A y : Pending(own, y) => Pending(own, y)'
    BY <1>5, <2>1 DEF Pending
  <2>3. ASSUME NEW i \in 1 .. Len(wire'), IsWork(wire'[i]), i \in 1 .. Len(wire), wire'[i] = wire[i]
        PROVE  /\ WorkOK(own, wire[i].txn, wire[i])' /\ Pending(own, wire[i].txn)'
               /\ \A j \in 1 .. Len(wire') : j < i =>
                    /\ ~Ends(own, wire[i].txn, wire[j])'
                    /\ IsWork(wire'[j]) /\ wire'[j].txn = wire'[i].txn => Precedes(wire'[j], wire'[i])
    <3>1. PICK f, y : f = wire[i] /\ y = f.txn
      OBVIOUS
    <3>2. WorkOK(own, y, f) /\ Pending(own, y)
      BY <2>3, <3>1 DEF Whole, OnWire
    <3>3. ASSUME NEW j \in 1 .. Len(wire'), j < i
          PROVE  /\ j \in 1 .. Len(wire) /\ wire'[j] = wire[j] /\ ~Ends(own, y, wire[j])
                 /\ IsWork(wire[j]) /\ wire[j].txn = y => Precedes(wire[j], wire[i])
      <4>1. j \in 1 .. Len(wire)
        BY <1>6, <2>3, <3>3
      <4> QED
        BY <1>6, <2>3, <3>1, <3>3, <4>1 DEF Whole, OnWire
    <3> QED
      BY <1>19, <2>1, <2>2, <2>3, <3>1, <3>2, <3>3
  <2>4. ASSUME NEW i \in 1 .. Len(wire'), i > Len(wire), i - Len(wire) \in 1 .. Len(F), wire'[i] = F[i - Len(wire)]
        PROVE  /\ WorkOK(own, wire[i].txn, wire[i])' /\ Pending(own, wire[i].txn)'
               /\ \A j \in 1 .. Len(wire') : j < i =>
                    /\ ~Ends(own, wire[i].txn, wire[j])'
                    /\ IsWork(wire'[j]) /\ wire'[j].txn = wire'[i].txn => Precedes(wire'[j], wire'[i])
    <3>1. PICK k \in 1 .. Len(F) : k = i - Len(wire)
      BY <2>4
    <3>2. wire'[i] = F[k] /\ F[k].txn = x
      BY <1>4, <2>4, <3>1
    <3>3. \A j \in 1 .. Len(F) : F[j].type \in {"post", "retire"}
      BY <1>13 DEF S
    <3>4. ASSUME NEW j \in 1 .. Len(wire'), j < i
          PROVE  ~Ends(own, x, wire'[j]) /\ (IsWork(wire'[j]) /\ wire'[j].txn = x => Precedes(wire'[j], F[k]))
      <4>1. CASE j \in 1 .. Len(wire) /\ wire'[j] = wire[j]
        BY <1>17, <1>20, <4>1
      <4>2. CASE j - Len(wire) \in 1 .. Len(F) /\ wire'[j] = F[j - Len(wire)]
        <5>1. PICK l \in 1 .. Len(F) : l = j - Len(wire)
          BY <4>2
        <5>2. l < k /\ wire'[j] = F[l]
          BY <1>6, <3>1, <3>4, <4>2, <5>1
        <5>3. Precedes(F[l], F[k])
          BY <1>4, <5>2 DEF Precedes
        <5>4. ~Ends(own, x, F[l])
          BY <3>3 DEF Ends, IsDischarge
        <5> QED
          BY <5>2, <5>3, <5>4
      <4> QED
        BY <1>10, <4>1, <4>2
    <3> QED
      BY <1>17, <1>18, <2>1, <2>2, <3>2, <3>4
  <2> QED
    BY <1>10, <2>3, <2>4 DEF OnWire
<1>22. Kept(own)'
  <2>1. ASSUME NEW y \in DOMAIN txns, NEW k \in 1 .. Len(txns[y])
        PROVE  /\ IsWork(txns[y][k]) /\ WorkOK(own, y, txns[y][k])'
               /\ \A l \in 1 .. Len(txns[y]) : k < l => Precedes(txns[y][k], txns[y][l])
               /\ \A i \in 1 .. Len(wire') : IsWork(wire'[i]) /\ wire'[i].txn = y => Precedes(txns[y][k], wire'[i])
    <3>1. PICK f : f = txns[y][k]
      OBVIOUS
    <3>2. IsWork(f) /\ WorkOK(own, y, f)
      BY <3>1 DEF Whole, Kept
    <3>3. ASSUME NEW i \in 1 .. Len(wire'), IsWork(wire'[i]), wire'[i].txn = y PROVE Precedes(f, wire'[i])
      <4>1. CASE i \in 1 .. Len(wire) /\ wire'[i] = wire[i]
        BY <3>1, <3>3, <4>1 DEF Whole, Kept
      <4>2. CASE i - Len(wire) \in 1 .. Len(F) /\ wire'[i] = F[i - Len(wire)]
        <5>1. PICK l \in 1 .. Len(F) : wire'[i] = F[l]
          BY <4>2
        <5>2. y = x /\ F[l].n = n
          BY <1>4, <3>3, <5>1
        <5>3. f.n \in 1 .. task[t].done
          BY <1>17, <3>2, <5>2 DEF WorkOK
        <5> QED
          BY SMTT(30), <1>3, <5>1, <5>2, <5>3 DEF Precedes
      <4> QED
        BY <1>10, <4>1, <4>2
    <3>4. \A l \in 1 .. Len(txns[y]) : k < l => Precedes(txns[y][k], txns[y][l])
      BY DEF Whole, Kept
    <3> QED
      BY <1>5, <1>19, <3>1, <3>2, <3>3, <3>4
  <2>2. ASSUME NEW y \in DOMAIN txns, task'[own[y]].txn = y,
               NEW m \in 1 .. task'[own[y]].done, NEW p \in 1 .. FramesIn(Work[own[y]][m])
        PROVE  \/ \E k \in 1 .. Len(txns[y]) : Numbered(txns[y][k], m, p)
               \/ \E i \in 1 .. Len(wire') : IsWork(wire'[i]) /\ wire'[i].txn = y /\ Numbered(wire'[i], m, p)
    <3>1. own[y] \in Txn
      BY <1>1 DEF Typed, Whole, Ids
    <3>2. CASE own[y] = t /\ m = n
      <4>1. y = x /\ p \in 1 .. Len(F)
        BY <1>3, <1>7, <2>2, <3>2
      <4>2. Len(wire) + p \in 1 .. Len(wire') /\ wire'[Len(wire) + p] = F[p]
        BY <1>6, <4>1
      <4>3. F[p].txn = y /\ Numbered(F[p], m, p) /\ IsWork(F[p])
        BY <1>4, <1>13, <3>2, <4>1 DEF Numbered, S
      <4> QED
        BY <4>2, <4>3
    <3>3. CASE own[y] # t \/ m # n
      <4>1. task[own[y]].txn = y /\ m \in 1 .. task[own[y]].done
        BY <1>3, <1>7, <2>2, <3>1, <3>3
      <4>2. \/ \E k \in 1 .. Len(txns[y]) : Numbered(txns[y][k], m, p)
            \/ \E i \in 1 .. Len(wire) : IsWork(wire[i]) /\ wire[i].txn = y /\ Numbered(wire[i], m, p)
        BY <4>1 DEF Whole, Kept
      <4>3. \A i \in 1 .. Len(wire) : i \in 1 .. Len(wire') /\ wire'[i] = wire[i]
        BY <1>6
      <4> QED
        BY <4>2, <4>3
    <3> QED
      BY <3>2, <3>3
  <2> QED
    BY <1>5, <2>1, <2>2 DEF Kept
<1>23. Posted'
  <2>1. ASSUME NEW u \in Txn, NEW m \in Posts(u)'
        PROVE  \/ m \in acked'[u]
               \/ \E i \in 1 .. Len(back) : Presumed(back[i], u, m)
               \/ \E i \in 1 .. Len(wire') : /\ wire'[i].type = "post" /\ wire'[i].txn = task'[u].txn
                                             /\ wire'[i].n = m /\ wire'[i].part = 1 /\ ~wire'[i].w.settled
    <3>1. m \in 1 .. task'[u].done /\ Work[u][m].kind = "post"
      BY DEF Posts
    <3>2. CASE u = t /\ m = n
      <4>1. CASE Work[t][n].settled
        BY <1>8, <3>1, <3>2, <4>1
      <4>2. CASE ~Work[t][n].settled
        <5>1. 1 \in 1 .. Len(F)
          BY <1>3, <1>6, ItemFacts
        <5>2. Len(wire) + 1 \in 1 .. Len(wire') /\ wire'[Len(wire) + 1] = F[1]
          BY <1>6, <5>1
        <5>3. F[1].type = "post" /\ F[1].txn = x /\ F[1].n = n /\ F[1].part = 1 /\ ~F[1].w.settled
          BY <1>4, <3>1, <3>2, <4>2, <5>1
        <5> QED
          BY <1>7, <3>2, <5>2, <5>3
      <4> QED
        BY <4>1, <4>2
    <3>3. CASE u # t \/ m # n
      <4>1. m \in Posts(u) /\ task'[u].txn = task[u].txn /\ acked[u] \subseteq acked'[u]
        BY <1>3, <1>7, <1>8, <3>1, <3>3 DEF Posts
      <4>2. \A i \in 1 .. Len(wire) : i \in 1 .. Len(wire') /\ wire'[i] = wire[i]
        BY <1>6
      <4> QED
        BY <4>1, <4>2 DEF Whole, Posted
    <3> QED
      BY <3>2, <3>3
  <2> QED
    BY <1>5, <2>1 DEF Posted
<1>24. Whole(own)'
  BY <1>9, <1>14, <1>15, <1>16, <1>21, <1>22, <1>23 DEF Whole
<1> QED
  BY <1>12, <1>24

-----------------------------------------------------------------------------
(* Dispositions                                                            *)

\* A disposition taken from the head of back: what it acknowledges, if anything, is acknowledged.
LEMMA TakenDone ==
  ASSUME IsSeq(back), back # <<>>, back' = Tail(back), UNCHANGED <<task, txns, applied>>,
         \A t \in Txn : acked[t] \subseteq acked'[t] /\ \A n : Presumed(back[1], t, n) => n \in acked'[t],
         NEW t \in Txn, NEW i \in Nat, DoneBefore(t, i + 1)
  PROVE  DoneBefore(t, i)'
<1>1. /\ Len(back) \in Nat /\ Len(back) >= 1 /\ Len(back') = Len(back) - 1
      /\ \A j \in 1 .. Len(back) - 1 : back'[j] = back[j + 1]
  BY Taken
<1>2. CarriedWhole(t)' = CarriedWhole(t) /\ Posts(t)' = Posts(t)
  BY SameCarried DEF Posts
<1>3. ASSUME NEW n, NEW j \in 1 .. Len(back), j < i + 1, Presumed(back[j], t, n)
      PROVE  n \in acked'[t] \/ \E k \in 1 .. Len(back') : k < i /\ Presumed(back'[k], t, n)
  <2>1. CASE j = 1
    BY <1>3, <2>1
  <2>2. CASE j # 1
    <3>1. j - 1 \in 1 .. Len(back) - 1 /\ (j - 1) + 1 = j /\ j - 1 < i
      BY <1>1, <1>3, <2>2
    <3>2. back'[j - 1] = back[j]
      BY <1>1, <3>1
    <3> QED
      BY <1>1, <1>3, <3>1, <3>2
  <2> QED
    BY <2>1, <2>2
<1>4. acked[t] \subseteq acked'[t]
  OBVIOUS
<1> QED
  BY <1>2, <1>3, <1>4 DEF DoneBefore

\* What is known of a frame depends on the application alone.
LEMMA SameFrames ==
  ASSUME UNCHANGED <<plan, task, issued, asked>>, NEW own
  PROVE  /\ \A c, id : MsgOK(c, id)' <=> MsgOK(c, id)
         /\ \A id, op, x : DischargeOK(own, id, op, x)' <=> DischargeOK(own, id, op, x)
         /\ \A c, id : DeclareOK(own, c, id)' <=> DeclareOK(own, c, id)
         /\ \A f : FrameOK(own, f)' <=> FrameOK(own, f)
         /\ \A x, f : WorkOK(own, x, f)' <=> WorkOK(own, x, f)
         /\ \A x, f : Ends(own, x, f)' <=> Ends(own, x, f)
         /\ \A t : Posts(t)' = Posts(t)
<1>1. \A c, id : MsgOK(c, id)' <=> MsgOK(c, id)
  BY DEF MsgOK, Ctl
<1>2. \A id, op, x : DischargeOK(own, id, op, x)' <=> DischargeOK(own, id, op, x)
  BY DEF DischargeOK
<1>3. \A c, id : DeclareOK(own, c, id)' <=> DeclareOK(own, c, id)
  BY DEF DeclareOK, Ctl
<1>4. \A c : Left(c)' <=> Left(c)
  BY DEF Left, Ctl
<1>5. \A f : FrameOK(own, f)' <=> FrameOK(own, f)
  BY <1>1, <1>2, <1>4 DEF FrameOK
<1>6. \A x, f : WorkOK(own, x, f)' <=> WorkOK(own, x, f)
  BY DEF WorkOK
<1>7. \A x, f : Ends(own, x, f)' <=> Ends(own, x, f)
  BY DEF Ends, Ctl
<1>8. \A t : Posts(t)' = Posts(t)
  BY DEF Posts
<1> QED
  BY <1>1, <1>2, <1>3, <1>5, <1>6, <1>7, <1>8

\* LinkRelay::on_incoming_disposition
LEMMA OnDispositionWhole ==
  ASSUME NEW own, Whole(own), OnDisposition
  PROVE  Whole(own)'
<1>1. PICK d, c : d = Head(back) /\ c = d.id.link
  BY SMTT(30)
<1>2. /\ UNCHANGED <<plan, task, count, wire, txns, issued, control, inbox, coord, attached, session, applied, asked>>
      /\ back # <<>> /\ back' = Tail(back) /\ Typed
  BY ZenonT(60) DEF OnDisposition, resource, Whole
<1>3. \/ /\ c \in CtlLink /\ d.id.tag \in DOMAIN unsettled[c]
         /\ unsettled' = [unsettled EXCEPT ![c] = Restrict(@, DOMAIN @ \ {d.id.tag})]
         /\ LET t == unsettled[c][d.id.tag] IN
            answer' = IF t \in Txn /\ task[t].pc \in Waiting
                      THEN [answer EXCEPT ![t] = [op |-> d.op, txn |-> d.txn, of |-> d.id.of]]
                      ELSE answer
         /\ UNCHANGED acked
      \/ /\ c \in CtlLink /\ d.id.tag \notin DOMAIN unsettled[c]
         /\ UNCHANGED <<unsettled, answer, acked>>
      \/ /\ c \in Links
         /\ acked' = [acked EXCEPT ![d.id.of] = @ \cup {d.id.tag}]
         /\ UNCHANGED <<unsettled, answer>>
  BY <1>1 DEF OnDisposition
<1>4. /\ IsSeq(back) /\ IsSeq(back') /\ Len(back) \in Nat /\ Len(back) >= 1 /\ Len(back') = Len(back) - 1
      /\ d = back[1] /\ \A i \in 1 .. Len(back) - 1 : back'[i] = back[i + 1]
  BY <1>1, <1>2, Taken DEF Typed
<1>5. \A i \in 1 .. Len(back') : i + 1 \in 1 .. Len(back) /\ back'[i] = back[i + 1]
  BY <1>4
<1>6. 1 \in 1 .. Len(back)
  BY <1>4
<1>7. /\ unsettled' = [e \in CtlLink |-> unsettled'[e]]
      /\ \A e \in CtlLink : \A k : k \in DOMAIN unsettled'[e] => k \in DOMAIN unsettled[e] /\ unsettled'[e][k] = unsettled[e][k]
  <2>1. CASE unsettled' = unsettled
    BY <1>2, <2>1 DEF Typed
  <2>2. CASE c \in CtlLink /\ unsettled' = [unsettled EXCEPT ![c] = Restrict(@, DOMAIN @ \ {d.id.tag})]
    <3> DEFINE U == Restrict(unsettled[c], DOMAIN unsettled[c] \ {d.id.tag})
    <3>1. \A k \in DOMAIN U : k \in DOMAIN unsettled[c] /\ U[k] = unsettled[c][k]
      BY DEF Restrict
    <3>2. unsettled' = [unsettled EXCEPT ![c] = U]
      BY <2>2
    <3> HIDE DEF U
    <3>3. /\ unsettled' = [e \in CtlLink |-> unsettled'[e]] /\ unsettled'[c] = U
          /\ \A e \in CtlLink : e # c => unsettled'[e] = unsettled[e]
      BY <1>2, <2>2, <3>2 DEF Typed
    <3> QED
      BY <3>1, <3>3
  <2> QED
    BY <1>3, <2>1, <2>2
<1>8. /\ answer' = [t \in Txn |-> answer'[t]]
      /\ \A t \in Txn : \/ answer'[t] = answer[t]
                        \/ /\ answer'[t] = [op |-> d.op, txn |-> d.txn, of |-> d.id.of] /\ task[t].pc \in Waiting
                           /\ c \in CtlLink /\ d.id.tag \in DOMAIN unsettled[c] /\ unsettled[c][d.id.tag] = t
  <2>1. answer = [t \in Txn |-> answer[t]]
    BY <1>2 DEF Typed
  <2>2. CASE answer' = answer
    BY <2>1, <2>2
  <2>3. CASE /\ c \in CtlLink /\ d.id.tag \in DOMAIN unsettled[c]
             /\ unsettled[c][d.id.tag] \in Txn /\ task[unsettled[c][d.id.tag]].pc \in Waiting
             /\ answer' = [answer EXCEPT ![unsettled[c][d.id.tag]] = [op |-> d.op, txn |-> d.txn, of |-> d.id.of]]
    BY <2>1, <2>3
  <2> QED
    BY <1>3, <2>2, <2>3
<1>9. /\ acked' \in [Txn -> SUBSET Nat] /\ \A t \in Txn : acked[t] \subseteq acked'[t]
      /\ \A t \in Txn : \A n : Presumed(d, t, n) => n \in acked'[t]
      /\ \A t \in Txn : acked'[t] \subseteq 1 .. task[t].done
  <2>1. acked \in [Txn -> SUBSET Nat] /\ \A t \in Txn : acked[t] \subseteq 1 .. task[t].done
    BY <1>2 DEF Typed, Whole, Outcomes
  <2>2. CASE c \in CtlLink
    <3>1. acked' = acked
      BY <1>3, <2>2, TransactionsAssumption
    <3>2. d.op # "presumed"
      BY <1>1, <1>4, <1>6, <2>2 DEF Whole, Outcomes
    <3> QED
      BY <2>1, <3>1, <3>2 DEF Presumed
  <2>3. CASE c \notin CtlLink
    <3>1. acked' = [acked EXCEPT ![d.id.of] = @ \cup {d.id.tag}]
      BY <1>3, <2>3
    <3>2. d.id.of \in Txn /\ d.id.tag \in 1 .. task[d.id.of].done /\ d.id.tag \in Nat
      BY <1>1, <1>4, <1>6, <2>3 DEF Whole, Outcomes
    <3> QED
      BY <2>1, <3>1, <3>2 DEF Presumed
  <2> QED
    BY <2>2, <2>3
<1>10. Typed'
  BY <1>2, <1>4, <1>7, <1>8, <1>9 DEF Typed
<1>11. /\ Ids(own)' /\ Requests' /\ Routed' /\ Declares(own)' /\ Asked(own)'
  <2>1. Ids(own)'
    BY <1>2 DEF Whole, Ids, Declared, Ending, Ctl
  <2>2. Requests' /\ Routed'
    BY <1>2 DEF Whole, Requests, Routed
  <2>3. Declares(own)'
    BY <1>2 DEF Whole, Declares, DeclareOK, Single, Ctl
  <2>4. Asked(own)'
    BY <1>2, SameFrames DEF Whole, Asked
  <2> QED
    BY <2>1, <2>2, <2>3, <2>4
<1>12. /\ OnWire(own)' /\ Kept(own)' /\ Applied(own)'
  <2>1. \A x, f : WorkOK(own, x, f)' <=> WorkOK(own, x, f)
    BY <1>2, SameFrames
  <2>2. \A x, f : Ends(own, x, f)' <=> Ends(own, x, f)
    BY <1>2, SameFrames
  <2>3. \A x : Pending(own, x)' <=> Pending(own, x)
    BY <1>2, <2>2 DEF Pending
  <2>4. OnWire(own)'
    BY <1>2, <2>1, <2>2, <2>3 DEF Whole, OnWire
  <2>5. Kept(own)'
    BY <1>2, <2>1 DEF Whole, Kept
  <2>6. Applied(own)'
    BY <1>2, SameCarried DEF Whole, Applied
  <2> QED
    BY <2>4, <2>5, <2>6
<1>13. Tags'
  <2>1. \A e \in CtlLink : \A id : TagOK(e, id) => TagOK(e, id)'
    BY <1>2, <1>7 DEF TagOK
  <2>2. \A i \in 1 .. Len(wire) : IsDeclare(wire[i]) => wire[i].link \in CtlLink
    BY DEF Whole, Routed, IsDeclare
  <2>3. \A k \in 1 .. Len(control) : control[k].link \in CtlLink
    BY DEF Whole, Requests
  <2>4. (\A i \in 1 .. Len(back) : back[i].op = "declared" => TagOK(back[i].id.link, back[i].id))'
    BY <1>5, <2>1 DEF Whole, Tags, Learned
  <2>5. (\A i \in 1 .. Len(wire) : IsDeclare(wire[i]) => TagOK(wire[i].link, wire[i].id))'
    BY <1>2, <2>1, <2>2 DEF Whole, Tags
  <2>6. (\A k \in 1 .. Len(control) : control[k].op = "allocate" => TagOK(control[k].link, coord[control[k].link].id))'
    BY <1>2, <2>1, <2>3 DEF Whole, Tags
  <2>7. (\A e \in CtlLink : Declared(e) => TagOK(e, coord[e].id))'
    BY <1>2, <2>1 DEF Whole, Tags, Declared
  <2>8. (\A e \in CtlLink : \A i \in 1 .. Len(inbox[e]) : IsDeclare(inbox[e][i]) => TagOK(e, inbox[e][i].id))'
    BY <1>2, <2>1 DEF Whole, Tags
  <2> QED
    BY <2>4, <2>5, <2>6, <2>7, <2>8 DEF Tags
<1>14. Learned(own)'
  <2>1. \A e, id : MsgOK(e, id) => MsgOK(e, id)'
    BY <1>2 DEF MsgOK, Ctl
  <2>2. ASSUME NEW t \in Txn, answer'[t].op = "declared"
        PROVE  answer'[t].txn \in 1 .. issued /\ own[answer'[t].txn] = t
    <3>1. CASE answer'[t] = answer[t]
      BY <2>2, <3>1 DEF Whole, Learned
    <3>2. CASE /\ answer'[t] = [op |-> d.op, txn |-> d.txn, of |-> d.id.of]
               /\ c \in CtlLink /\ d.id.tag \in DOMAIN unsettled[c] /\ unsettled[c][d.id.tag] = t
      <4>1. d.op = "declared" /\ answer'[t].txn = d.txn
        BY <2>2, <3>2
      <4>2. TagOK(c, d.id) /\ d.txn \in 1 .. issued /\ own[d.txn] = d.id.of
        BY <1>1, <1>4, <1>6, <4>1 DEF Whole, Tags, Learned
      <4>3. d.id.of = t
        BY <3>2, <4>2 DEF TagOK
      <4> QED
        BY <4>1, <4>2, <4>3
    <3> QED
      BY <1>8, <3>1, <3>2
  <2>3. (\A i \in 1 .. Len(back) :
       /\ back[i].id.link \in CtlLink => MsgOK(back[i].id.link, back[i].id)
       /\ back[i].op = "declared" => /\ back[i].id.link \in CtlLink
                                     /\ back[i].txn \in 1 .. issued /\ own[back[i].txn] = back[i].id.of)'
    BY <1>2, <1>5, <2>1 DEF Whole, Learned
  <2> QED
    BY <1>2, <2>2, <2>3 DEF Whole, Learned
<1>15. Posted'
  <2>1. ASSUME NEW t \in Txn, NEW n \in Posts(t)', n \notin acked'[t], NEW i \in 1 .. Len(back), Presumed(back[i], t, n)
        PROVE  \E k \in 1 .. Len(back') : Presumed(back'[k], t, n)
    <3>1. i # 1
      BY <1>4, <1>9, <2>1
    <3>2. i - 1 \in 1 .. Len(back) - 1 /\ (i - 1) + 1 = i /\ i - 1 \in 1 .. Len(back')
      BY <1>4, <3>1
    <3> QED
      BY <1>4, <2>1, <3>2
  <2>2. \A t \in Txn : Posts(t)' = Posts(t)
    BY <1>2 DEF Posts
  <2> QED
    BY <1>2, <1>9, <2>1, <2>2 DEF Whole, Posted
<1>16. Outcomes'
  <2>1. \A t \in Txn : \A i \in Nat : DoneBefore(t, i + 1) => DoneBefore(t, i)'
    BY <1>2, <1>4, <1>9, TakenDone
  <2>2. (\A i \in 1 .. Len(back) :
       /\ back[i].id.link \in CtlLink => back[i].op \in {"declared", "accepted", "rejected"}
       /\ back[i].op = "accepted" => back[i].id.link \in CtlLink /\ DoneBefore(back[i].id.of, i)
       /\ back[i].id.link \notin CtlLink =>
            /\ back[i].id.link \in Links /\ back[i].op = "presumed" /\ back[i].id.of \in Txn
            /\ back[i].id.tag \in 1 .. task[back[i].id.of].done)'
    <3>1. \A i \in 1 .. Len(back) : back[i].id.link \in CtlLink => back[i].id.of \in Txn
      BY DEF Whole, Learned, MsgOK
    <3>2. \A i \in 1 .. Len(back') : i \in Nat
      OBVIOUS
    <3> QED
      BY <1>2, <1>5, <2>1, <3>1, <3>2 DEF Whole, Outcomes
  <2>3. (\A e \in CtlLink :
       /\ coord[e].got.op \in {"none", "declared", "accepted", "rejected"}
       /\ coord[e].got.op = "accepted" => coord[e].pc = "answered" /\ DoneBefore(coord[e].id.of, Len(back) + 1))'
    <3>1. \A e \in CtlLink : coord[e].got.op = "accepted" => coord[e].id.of \in Txn
      BY DEF Whole, Outcomes, Asked, MsgOK
    <3>2. Len(back) \in Nat /\ Len(back') + 1 = Len(back)
      BY <1>4
    <3>3. \A t \in Txn : DoneBefore(t, Len(back) + 1) => DoneBefore(t, Len(back) + 1)'
      <4>1. PICK m \in Nat : m = Len(back)
        BY <3>2
      <4>2. \A t \in Txn : DoneBefore(t, m + 1) => DoneBefore(t, m)'
        BY <2>1
      <4> QED
        BY <3>2, <4>1, <4>2
    <3> QED
      BY <1>2, <3>1, <3>3 DEF Whole, Outcomes
  <2>4. ASSUME NEW t \in Txn
        PROVE  /\ answer'[t].op = "accepted" /\ answer'[t].of = t => DoneBefore(t, 1)'
               /\ task'[t].pc = "committed" => answer'[t].op = "accepted"
               /\ acked'[t] \subseteq 1 .. task'[t].done
    <3>1. ASSUME answer'[t].op = "accepted", answer'[t].of = t PROVE DoneBefore(t, 1)'
      <4>1. DoneBefore(t, 1)
        <5>1. CASE answer'[t] = answer[t]
          BY <3>1, <5>1 DEF Whole, Outcomes
        <5>2. CASE answer'[t] = [op |-> d.op, txn |-> d.txn, of |-> d.id.of]
          <6>1. d.op = "accepted" /\ d.id.of = t
            BY <3>1, <5>2
          <6> QED
            BY <1>1, <1>4, <1>6, <6>1 DEF Whole, Outcomes
        <5> QED
          BY <1>8, <5>1, <5>2
      <4>2. CarriedWhole(t)' = CarriedWhole(t) /\ Posts(t)' = Posts(t) /\ acked[t] \subseteq acked'[t]
        BY <1>2, <1>9, SameCarried DEF Posts
      <4>3. \A j \in 1 .. Len(back) : ~(j < 1)
        BY <1>4
      <4> QED
        BY <1>2, <4>1, <4>2, <4>3 DEF DoneBefore
    <3>2. task'[t].pc = "committed" => answer'[t].op = "accepted"
      BY <1>2, <1>8 DEF Whole, Outcomes, Waiting
    <3> QED
      BY <1>2, <1>9, <3>1, <3>2
  <2>5. (\A t \in Txn :
       /\ answer[t].op = "accepted" /\ answer[t].of = t => DoneBefore(t, 1)
       /\ task[t].pc = "committed" => answer[t].op = "accepted"
       /\ acked[t] \subseteq 1 .. task[t].done)'
    BY <2>4
  <2> QED
    BY <2>2, <2>3, <2>5 DEF Outcomes
<1> QED
  BY <1>10, <1>11, <1>12, <1>13, <1>14, <1>15, <1>16 DEF Whole

-----------------------------------------------------------------------------
(* Steps of the resource                                                   *)

\* Positions of the wire when its first frame has been taken.
LEMMA WireTaken ==
  ASSUME IsSeq(wire), wire # <<>>, wire' = Tail(wire)
  PROVE  /\ IsSeq(wire') /\ Len(wire) \in Nat /\ Len(wire') \in Nat /\ 1 \in 1 .. Len(wire) /\ Head(wire) = wire[1]
         /\ \A i \in 1 .. Len(wire') : i + 1 \in 1 .. Len(wire) /\ wire'[i] = wire[i + 1] /\ 1 < i + 1
         /\ \A i \in 1 .. Len(wire) : i = 1 \/ \E j \in 1 .. Len(wire') : j + 1 = i /\ wire'[j] = wire[i]
<1>1. /\ IsSeq(wire') /\ Len(wire) \in Nat /\ Len(wire) >= 1 /\ Len(wire') = Len(wire) - 1
      /\ Head(wire) = wire[1] /\ \A i \in 1 .. Len(wire) - 1 : wire'[i] = wire[i + 1]
  BY Taken
<1>2. ASSUME NEW i \in 1 .. Len(wire), i # 1
      PROVE  \E j \in 1 .. Len(wire') : j + 1 = i /\ wire'[j] = wire[i]
  <2>1. i - 1 \in 1 .. Len(wire) - 1 /\ (i - 1) + 1 = i /\ i - 1 \in 1 .. Len(wire')
    BY <1>1, <1>2
  <2>2. wire'[i - 1] = wire[i]
    BY SMTT(30), <1>1, <2>1
  <2> QED
    BY <2>1, <2>2
<1> QED
  BY <1>1, <1>2

\* Work on the wire finds its transaction, which is why the session does not end over it.
LEMMA WorkFinds ==
  ASSUME NEW own, Whole(own), wire # <<>>, NEW f, f = Head(wire), IsWork(f)
  PROVE  /\ WorkOK(own, f.txn, f) /\ Pending(own, f.txn) /\ f.txn \in DOMAIN txns
         /\ f.txn \in 1 .. issued /\ own[f.txn] \in Txn
<1>1. IsSeq(wire)
  BY DEF Whole, Typed
<1>2. f = wire[1] /\ 1 \in 1 .. Len(wire)
  BY <1>1, Taken
<1>3. WorkOK(own, f.txn, f) /\ Pending(own, f.txn)
  BY <1>2 DEF Whole, OnWire
<1> QED
  BY <1>3 DEF WorkOK, Pending, Whole, Ids

\* What SessionEngine::on_incoming does: work goes to its transaction, control to the coordinator.
IncomingEffect(own, f) ==
  /\ UNCHANGED <<plan, task, count, unsettled, answer, acked, issued, control, coord, session, applied, asked>>
  /\ \A c \in CtlLink : inbox'[c] = inbox[c] \/ (inbox'[c] = Append(inbox[c], f) /\ f.link = c /\ ~IsWork(f))
  /\ DOMAIN txns' = DOMAIN txns
  /\ \A x \in DOMAIN txns : txns'[x] = IF IsWork(f) /\ x = f.txn THEN Append(txns[x], f) ELSE txns[x]
  /\ IsSeq(back') /\ Len(back') \in Nat /\ Len(back) \in Nat /\ Len(back') >= Len(back)
  /\ \A i \in 1 .. Len(back) : back'[i] = back[i]
  /\ \A i \in 1 .. Len(back') : i > Len(back) =>
       /\ f.type = "post" /\ back'[i].op = "presumed" /\ back'[i].id = Delivery(f.w.link, f.n, own[f.txn])
  /\ f.type = "post" /\ f.part = 1 /\ ~f.w.settled =>
       \E i \in 1 .. Len(back') : Presumed(back'[i], own[f.txn], f.n)

\* ... that is what it does.
LEMMA IncomingFacts ==
  ASSUME NEW own, Whole(own), OnIncoming
  PROVE  \E f : /\ f = Head(wire) /\ wire # <<>> /\ wire' = Tail(wire) /\ IncomingEffect(own, f) /\ Typed'
<1>1. PICK f : f = Head(wire)
  OBVIOUS
<1>2. /\ wire # <<>> /\ wire' = Tail(wire)
      /\ UNCHANGED <<plan, task, count, unsettled, answer, acked, issued, control, coord, applied, asked>>
      /\ Typed
  BY DEF OnIncoming, app, Whole
<1>3. \/ /\ f.type \in {"post", "retire"} /\ KeepWork(f) /\ UNCHANGED <<inbox, attached>>
      \/ /\ ~IsWork(f) /\ f.link \in CtlLink
         /\ inbox' = [inbox EXCEPT ![f.link] = Append(@, f)]
         /\ UNCHANGED <<txns, back, session, attached>>
      \/ /\ ~IsWork(f) /\ UNCHANGED <<txns, back, session, inbox>>
  <2>1. /\ f = wire[1] /\ 1 \in 1 .. Len(wire)
    BY <1>1, <1>2, Taken DEF Typed
  <2>2. f.type = "control" => f.link \in CtlLink
    BY <2>1 DEF Whole, Routed
  <2> QED
    BY <1>1, <2>2 DEF OnIncoming, IsWork
<1>4. IsSeq(wire') /\ IsSeq(back) /\ Len(back) \in Nat
  BY <1>2, WireTaken, Lengths DEF Typed
<1>5. CASE f.type \in {"post", "retire"} /\ KeepWork(f) /\ UNCHANGED <<inbox, attached>>
  <2>1. /\ WorkOK(own, f.txn, f) /\ f.txn \in DOMAIN txns /\ own[f.txn] \in Txn
    BY <1>1, <1>2, <1>5, WorkFinds DEF IsWork
  <2>2. /\ txns' = [txns EXCEPT ![f.txn] = Append(@, f)] /\ session' = session
        /\ back' = IF f.type = "post" THEN back \o Presumptive(f) ELSE back
    BY <1>5, <2>1 DEF KeepWork
  <2>3. /\ DOMAIN txns' = DOMAIN txns /\ txns' = [x \in DOMAIN txns' |-> txns'[x]]
        /\ \A x \in DOMAIN txns : txns'[x] = IF x = f.txn THEN Append(txns[x], f) ELSE txns[x]
    BY <1>2, <2>2 DEF Typed
  <2>4. \A x \in DOMAIN txns' : IsSeq(txns'[x])
    <3>1. \A s : IsSeq(s) => IsSeq(Append(s, f))
      BY Added
    <3>2. \A x \in DOMAIN txns : IsSeq(txns[x])
      BY <1>2 DEF Typed
    <3>3. \A x \in DOMAIN txns : txns'[x] = txns[x] \/ txns'[x] = Append(txns[x], f)
      BY <2>3
    <3>4. DOMAIN txns' = DOMAIN txns
      BY <2>3
    <3> QED
      BY <3>1, <3>2, <3>3, <3>4, Zenon
  <2>5. /\ IsSeq(back') /\ Len(back') \in Nat /\ Len(back') >= Len(back)
        /\ \A i \in 1 .. Len(back) : back'[i] = back[i]
        /\ \A i \in 1 .. Len(back') : i > Len(back) =>
             /\ f.type = "post" /\ back'[i].op = "presumed" /\ back'[i].id = Delivery(f.w.link, f.n, own[f.txn])
        /\ f.type = "post" /\ f.part = 1 /\ ~f.w.settled =>
             \E i \in 1 .. Len(back') : Presumed(back'[i], own[f.txn], f.n)
    <3>1. CASE f.type = "post" /\ ~(f.id = Continuation \/ f.w.settled)
      <4>1. PICK e : e = [id |-> f.id, op |-> "presumed", txn |-> f.txn]
        OBVIOUS
      <4>2. back' = back \o <<e>>
        BY <2>2, <3>1, <4>1 DEF Presumptive
      <4>3. IsSeq(<<e>>) /\ Len(<<e>>) = 1 /\ <<e>>[1] = e
        <5>1. <<e>> \in Seq({e})
          OBVIOUS
        <5> QED
          BY <5>1 DEF IsSeq
      <4>4. /\ IsSeq(back') /\ Len(back') = Len(back) + 1
            /\ \A i \in 1 .. Len(back) : back'[i] = back[i]
            /\ back'[Len(back) + 1] = e
        <5>1. PICK u : u = <<e>>
          OBVIOUS
        <5>2. /\ IsSeq(back \o u) /\ Len(back \o u) = Len(back) + Len(u)
              /\ \A i \in 1 .. Len(back) : (back \o u)[i] = back[i]
              /\ \A i \in 1 .. Len(u) : (back \o u)[Len(back) + i] = u[i]
          <6>1. PICK b : b = back
            OBVIOUS
          <6>2. IsSeq(u) /\ IsSeq(b)
            BY <1>4, <4>3, <5>1, <6>1
          <6>3. /\ IsSeq(b \o u) /\ Len(b \o u) = Len(b) + Len(u)
                /\ \A i \in 1 .. Len(b) : (b \o u)[i] = b[i]
                /\ \A i \in 1 .. Len(u) : (b \o u)[Len(b) + i] = u[i]
            BY <6>2, Joined
          <6> QED
            BY <6>1, <6>3
        <5>3. Len(u) = 1 /\ u[1] = e /\ back' = back \o u
          BY <4>2, <4>3, <5>1
        <5> QED
          BY <1>4, <5>2, <5>3
      <4>5. f.id = Delivery(f.w.link, f.n, own[f.txn])
        BY <2>1, <3>1 DEF WorkOK
      <4>6. e.op = "presumed" /\ e.id = Delivery(f.w.link, f.n, own[f.txn])
        BY <4>1, <4>5
      <4>7. e.id.of = own[f.txn] /\ e.id.tag = f.n
        BY <4>6 DEF Delivery
      <4>8. Presumed(e, own[f.txn], f.n)
        BY <4>6, <4>7 DEF Presumed
      <4>9. \A i \in 1 .. Len(back') : i > Len(back) => back'[i] = e
        BY <1>4, <4>4
      <4>10. Len(back) + 1 \in 1 .. Len(back') /\ Len(back') \in Nat /\ Len(back') >= Len(back)
        BY <1>4, <4>4
      <4> QED
        BY <3>1, <4>4, <4>6, <4>8, <4>9, <4>10
    <3>2. CASE f.type = "post" /\ (f.id = Continuation \/ f.w.settled)
      <4>1. back' = back
        <5>1. back' = back \o <<>>
          BY <2>2, <3>2 DEF Presumptive
        <5>2. PICK R : back \in Seq(R)
          BY <1>4 DEF IsSeq
        <5> QED
          BY <5>1, <5>2
      <4>2. f.part = 1 => f.w.settled
        <5>1. ASSUME f.part = 1, f.id = Continuation PROVE FALSE
          <6>1. Delivery(f.w.link, f.n, own[f.txn]) = Continuation
            BY <2>1, <3>2, <5>1 DEF WorkOK
          <6>2. "tag" \in DOMAIN Delivery(f.w.link, f.n, own[f.txn]) /\ "tag" \notin DOMAIN Continuation
            BY DEF Delivery, Continuation
          <6> QED
            BY <6>1, <6>2
        <5> QED
          BY <3>2, <5>1
      <4> QED
        BY <1>4, <4>1, <4>2
    <3>3. CASE f.type # "post"
      BY <1>4, <2>2, <3>3
    <3> QED
      BY <3>1, <3>2, <3>3
  <2>6. IncomingEffect(own, f)
    BY <1>2, <1>4, <1>5, <2>2, <2>3, <2>5 DEF IncomingEffect, IsWork
  <2>7. Typed'
    BY <1>2, <1>4, <1>5, <2>2, <2>3, <2>4, <2>5 DEF Typed
  <2> QED
    BY <1>1, <1>2, <2>6, <2>7
<1>6. CASE /\ ~IsWork(f) /\ UNCHANGED <<txns, back, session>>
           /\ \/ UNCHANGED inbox
              \/ f.link \in CtlLink /\ inbox' = [inbox EXCEPT ![f.link] = Append(@, f)]
  <2>1. /\ inbox' = [c \in CtlLink |-> inbox'[c]]
        /\ \A c \in CtlLink : inbox'[c] = inbox[c] \/ (inbox'[c] = Append(inbox[c], f) /\ f.link = c)
    BY <1>2, <1>6 DEF Typed
  <2>2. \A c \in CtlLink : IsSeq(inbox'[c])
    <3>1. \A s : IsSeq(s) => IsSeq(Append(s, f))
      BY Added
    <3>2. \A c \in CtlLink : IsSeq(inbox[c])
      BY <1>2 DEF Typed
    <3> QED
      BY <2>1, <3>1, <3>2, Zenon
  <2>3. f.type # "post"
    BY <1>6 DEF IsWork
  <2>4. IncomingEffect(own, f)
    BY <1>2, <1>4, <1>6, <2>1, <2>3 DEF IncomingEffect
  <2>5. Typed'
    BY <1>2, <1>4, <1>6, <2>1, <2>2 DEF Typed
  <2> QED
    BY <1>1, <1>2, <2>4, <2>5
<1> QED
  BY <1>3, <1>5, <1>6

\* SessionEngine::on_incoming
LEMMA OnIncomingWhole ==
  ASSUME NEW own, Whole(own), OnIncoming
  PROVE  Whole(own)'
<1>1. PICK f : f = Head(wire) /\ wire # <<>> /\ wire' = Tail(wire) /\ IncomingEffect(own, f) /\ Typed'
  BY IncomingFacts
<1>2. UNCHANGED <<plan, task, count, unsettled, answer, acked, issued, control, coord, session, applied, asked>> /\ Typed
  BY <1>1 DEF IncomingEffect, Whole
<1>3. /\ Len(wire) \in Nat /\ Len(wire') \in Nat /\ 1 \in 1 .. Len(wire) /\ f = wire[1]
      /\ \A i \in 1 .. Len(wire') : i + 1 \in 1 .. Len(wire) /\ wire'[i] = wire[i + 1] /\ 1 < i + 1
      /\ \A i \in 1 .. Len(wire) : i = 1 \/ \E j \in 1 .. Len(wire') : j + 1 = i /\ wire'[j] = wire[i]
  BY <1>1, <1>2, WireTaken DEF Typed
<1>4. \A c \in CtlLink : Len(inbox[c]) \in Nat /\ \A i \in 1 .. Len(inbox'[c]) :
        \/ i \in 1 .. Len(inbox[c]) /\ inbox'[c][i] = inbox[c][i]
        \/ i = Len(inbox[c]) + 1 /\ inbox'[c][i] = f /\ f.link = c /\ ~IsWork(f)
  <2> TAKE c \in CtlLink
  <2>1. IsSeq(inbox[c]) /\ Len(inbox[c]) \in Nat
    BY <1>2, Lengths DEF Typed
  <2>2. CASE inbox'[c] = inbox[c]
    BY <2>1, <2>2
  <2>3. CASE inbox'[c] = Append(inbox[c], f) /\ f.link = c /\ ~IsWork(f)
    <3>1. PICK s : s = inbox[c]
      OBVIOUS
    <3>2. /\ Len(Append(s, f)) = Len(s) + 1 /\ Append(s, f)[Len(s) + 1] = f
          /\ \A i \in 1 .. Len(s) : Append(s, f)[i] = s[i]
      BY <2>1, <3>1, Added
    <3> QED
      BY <2>1, <2>3, <3>1, <3>2
  <2> QED
    BY <1>1, <2>2, <2>3 DEF IncomingEffect
<1>5. /\ IsWork(f) => WorkOK(own, f.txn, f) /\ f.txn \in DOMAIN txns /\ f.txn \in 1 .. issued /\ own[f.txn] \in Txn
      /\ ~IsWork(f) => f.type \in {"control", "detach"}
  BY <1>1, <1>3, WorkFinds DEF IsWork, Whole, Routed
<1>6. /\ \A i \in 1 .. Len(wire') : wire'[i] = wire[i + 1] /\ i + 1 \in 1 .. Len(wire)
      /\ \A i, j \in 1 .. Len(wire') : i + 1 = j + 1 => i = j
  BY <1>3
<1>7. Ids(own)' /\ Requests'
  BY <1>2 DEF Whole, Ids, Declared, Ending, Ctl, Requests
<1>8. Routed'
  <2>1. (\A i \in 1 .. Len(wire) :
           /\ wire[i].type \in {"control", "detach", "post", "retire"}
           /\ wire[i].type = "control" => wire[i].link \in CtlLink
           /\ wire[i].type = "detach" => wire[i].link \in CtlLink \cup Links)'
    BY <1>6 DEF Whole, Routed
  <2>2. (\A c \in CtlLink : \A i \in 1 .. Len(inbox[c]) :
           inbox[c][i].type \in {"control", "detach"} /\ inbox[c][i].link = c)'
    BY <1>4, <1>5 DEF Whole, Routed
  <2> QED
    BY <2>1, <2>2 DEF Routed
<1>9. Declares(own)'
  <2>1. Single(wire)'
    <3>1. Single(wire)
      BY DEF Whole, Declares
    <3> QED
      BY <1>6, <3>1 DEF Single
  <2>2. IsDeclare(f) => \A j \in 1 .. Len(wire') : IsDeclare(wire'[j]) => wire'[j].id.of # f.id.of
    <3>1. Single(wire)
      BY DEF Whole, Declares
    <3> QED
      BY <1>3, <3>1 DEF Single
  <2>3. \A c \in CtlLink : \A i \in 1 .. Len(inbox[c]) : IsDeclare(f) /\ IsDeclare(inbox[c][i]) => inbox[c][i].id.of # f.id.of
    BY <1>3 DEF Whole, Declares
  <2>4. (\A c \in CtlLink : Single(inbox[c]))'
    <3>1. ASSUME NEW c \in CtlLink, NEW i \in 1 .. Len(inbox'[c]), NEW j \in 1 .. Len(inbox'[c]),
                 IsDeclare(inbox'[c][i]), IsDeclare(inbox'[c][j]), inbox'[c][i].id.of = inbox'[c][j].id.of
          PROVE  i = j
      <4>1. Single(inbox[c])
        BY DEF Whole, Declares
      <4>2. CASE i \in 1 .. Len(inbox[c]) /\ j \in 1 .. Len(inbox[c])
        BY SMTT(30), <1>4, <3>1, <4>1, <4>2 DEF Single
      <4>3. CASE i = Len(inbox[c]) + 1 /\ j = Len(inbox[c]) + 1
        BY <4>3
      <4>4. CASE i \in 1 .. Len(inbox[c]) /\ j = Len(inbox[c]) + 1
        <5>1. inbox'[c][i] = inbox[c][i] /\ inbox'[c][j] = f
          BY <1>4, <4>4
        <5> QED
          BY <2>3, <3>1, <4>4, <5>1
      <4>5. CASE j \in 1 .. Len(inbox[c]) /\ i = Len(inbox[c]) + 1
        <5>1. inbox'[c][j] = inbox[c][j] /\ inbox'[c][i] = f
          BY <1>4, <4>5
        <5> QED
          BY <2>3, <3>1, <4>5, <5>1
      <4> QED
        BY <1>4, <4>2, <4>3, <4>4, <4>5
    <3> QED
      BY <3>1 DEF Single
  <2>5. \A c, id : DeclareOK(own, c, id)' <=> DeclareOK(own, c, id)
    BY <1>2, SameFrames
  <2>6. (\A i \in 1 .. Len(wire) : IsDeclare(wire[i]) => DeclareOK(own, wire[i].link, wire[i].id))'
    BY <1>6, <2>5 DEF Whole, Declares
  <2>7. (\A c \in CtlLink : \A i \in 1 .. Len(inbox[c]) : IsDeclare(inbox[c][i]) =>
           /\ DeclareOK(own, c, inbox[c][i].id)
           /\ \A j \in 1 .. Len(wire) : IsDeclare(wire[j]) => wire[j].id.of # inbox[c][i].id.of)'
    <3>1. ASSUME NEW c \in CtlLink, NEW i \in 1 .. Len(inbox'[c]), IsDeclare(inbox'[c][i])
          PROVE  /\ DeclareOK(own, c, inbox[c][i].id)'
                 /\ \A j \in 1 .. Len(wire') : IsDeclare(wire'[j]) => wire'[j].id.of # inbox'[c][i].id.of
      <4>1. CASE i \in 1 .. Len(inbox[c]) /\ inbox'[c][i] = inbox[c][i]
        <5>1. /\ DeclareOK(own, c, inbox[c][i].id)
              /\ \A j \in 1 .. Len(wire) : IsDeclare(wire[j]) => wire[j].id.of # inbox[c][i].id.of
          BY <3>1, <4>1 DEF Whole, Declares
        <5> QED
          BY <1>6, <2>5, <4>1, <5>1
      <4>2. CASE inbox'[c][i] = f /\ f.link = c
        <5>1. IsDeclare(f) /\ DeclareOK(own, c, f.id)
          BY <1>3, <3>1, <4>2 DEF Whole, Declares
        <5> QED
          BY <2>2, <2>5, <4>2, <5>1
      <4> QED
        BY <1>4, <4>1, <4>2
    <3> QED
      BY <3>1
  <2>8. (\A k \in 1 .. Len(control) : control[k].op = "allocate" =>
       LET c == control[k].link IN
       /\ DeclareOK(own, c, coord[c].id)
       /\ \A j \in 1 .. Len(wire) : IsDeclare(wire[j]) => wire[j].id.of # coord[c].id.of
       /\ \A i \in 1 .. Len(inbox[c]) : IsDeclare(inbox[c][i]) => inbox[c][i].id.of # coord[c].id.of)'
    <3>1. ASSUME NEW k \in 1 .. Len(control), control[k].op = "allocate", NEW c, c = control[k].link
          PROVE  /\ DeclareOK(own, c, coord[c].id)'
                 /\ \A j \in 1 .. Len(wire') : IsDeclare(wire'[j]) => wire'[j].id.of # coord[c].id.of
                 /\ \A i \in 1 .. Len(inbox'[c]) : IsDeclare(inbox'[c][i]) => inbox'[c][i].id.of # coord[c].id.of
      <4>1. /\ DeclareOK(own, c, coord[c].id) /\ c \in CtlLink
            /\ \A j \in 1 .. Len(wire) : IsDeclare(wire[j]) => wire[j].id.of # coord[c].id.of
            /\ \A i \in 1 .. Len(inbox[c]) : IsDeclare(inbox[c][i]) => inbox[c][i].id.of # coord[c].id.of
        BY <3>1 DEF Whole, Declares, Requests
      <4>2. IsDeclare(f) => f.id.of # coord[c].id.of
        BY <1>3, <4>1
      <4>3. DeclareOK(own, c, coord[c].id)'
        BY <1>2, <2>5, <4>1
      <4>4. \A j \in 1 .. Len(wire') : IsDeclare(wire'[j]) => wire'[j].id.of # coord[c].id.of
        BY <1>6, <4>1
      <4> QED
        BY SMTT(30), <1>4, <4>1, <4>2, <4>3, <4>4
    <3> QED
      BY ZenonT(60), <1>2, <3>1
  <2> QED
    BY <2>1, <2>4, <2>6, <2>7, <2>8 DEF Declares
<1>10. Asked(own)'
  <2>1. \A g : FrameOK(own, g)' <=> FrameOK(own, g)
    BY <1>2, SameFrames
  <2>2. (\A i \in 1 .. Len(wire) : FrameOK(own, wire[i]))'
    BY <1>6, <2>1 DEF Whole, Asked
  <2>3. (\A c \in CtlLink : \A i \in 1 .. Len(inbox[c]) : FrameOK(own, inbox[c][i]))'
    BY <1>3, <1>4, <2>1 DEF Whole, Asked
  <2> QED
    BY <1>2, <2>2, <2>3, SameFrames DEF Whole, Asked
<1>11. Tags'
  <2>1. \A c, id : TagOK(c, id)' <=> TagOK(c, id)
    BY <1>2 DEF TagOK
  <2>2. (\A i \in 1 .. Len(wire) : IsDeclare(wire[i]) => TagOK(wire[i].link, wire[i].id))'
    BY <1>6, <2>1 DEF Whole, Tags
  <2>3. (\A c \in CtlLink : \A i \in 1 .. Len(inbox[c]) : IsDeclare(inbox[c][i]) => TagOK(c, inbox[c][i].id))'
    BY SMTT(30), <1>3, <1>4, <2>1 DEF Whole, Tags
  <2>4. (\A i \in 1 .. Len(back) : back[i].op = "declared" => TagOK(back[i].id.link, back[i].id))'
    BY <1>1, <2>1 DEF Whole, Tags, IncomingEffect
  <2> QED
    BY <1>2, <2>1, <2>2, <2>3, <2>4 DEF Whole, Tags, Declared
<1>12. ASSUME NEW i \in 1 .. Len(back'), i > Len(back)
       PROVE  /\ back'[i].id.link \in Links /\ back'[i].id.link \notin CtlLink /\ back'[i].op = "presumed"
              /\ back'[i].id.of \in Txn /\ back'[i].id.tag \in 1 .. task[back'[i].id.of].done
  <2>1. f.type = "post" /\ back'[i].op = "presumed" /\ back'[i].id = Delivery(f.w.link, f.n, own[f.txn])
    BY <1>1, <1>12 DEF IncomingEffect
  <2>2. WorkOK(own, f.txn, f) /\ own[f.txn] \in Txn
    BY <1>5, <2>1 DEF IsWork
  <2>3. f.n \in 1 .. task[own[f.txn]].done /\ f.w = Work[own[f.txn]][f.n] /\ f.w.kind = "post"
    BY <2>1, <2>2 DEF WorkOK
  <2>4. f.w.link \in Links
    BY SMTT(30), <2>2, <2>3, ItemFacts DEF Whole, Applied
  <2>5. /\ back'[i].id.link = f.w.link /\ back'[i].id.of = own[f.txn] /\ back'[i].id.tag = f.n
    BY <2>1 DEF Delivery
  <2> QED
    BY <2>1, <2>2, <2>3, <2>4, <2>5, TransactionsAssumption
<1>13. /\ Len(back') \in Nat /\ Len(back) \in Nat
       /\ \A i \in 1 .. Len(back') : (i \in 1 .. Len(back) /\ back'[i] = back[i]) \/ i > Len(back)
       /\ \A i \in 1 .. Len(back) : i \in 1 .. Len(back') /\ back'[i] = back[i]
  BY <1>1 DEF IncomingEffect
<1>14. Learned(own)'
  <2>1. \A c, id : MsgOK(c, id)' <=> MsgOK(c, id)
    BY <1>2, SameFrames
  <2>2. (\A i \in 1 .. Len(back) :
       /\ back[i].id.link \in CtlLink => MsgOK(back[i].id.link, back[i].id)
       /\ back[i].op = "declared" => /\ back[i].id.link \in CtlLink
                                     /\ back[i].txn \in 1 .. issued /\ own[back[i].txn] = back[i].id.of)'
    BY <1>2, <1>12, <1>13, <2>1 DEF Whole, Learned
  <2> QED
    BY <1>2, <2>2 DEF Whole, Learned
<1>15. OnWire(own)'
  <2>1. /\ \A x, g : WorkOK(own, x, g)' <=> WorkOK(own, x, g)
        /\ \A x, g : Ends(own, x, g)' <=> Ends(own, x, g)
    BY <1>2, SameFrames
  <2>2. ASSUME NEW i \in 1 .. Len(wire'), IsWork(wire'[i])
        PROVE  Pending(own, wire[i].txn)'
    <3>1. PICK x : x = wire'[i].txn
      OBVIOUS
    <3>2. Pending(own, x) /\ ~Ends(own, x, f)
      BY <1>3, <2>2, <3>1 DEF Whole, OnWire
    <3>3. x \in DOMAIN txns'
      BY <1>1, <3>2 DEF Pending, IncomingEffect
    <3>4. \A c \in CtlLink : \A k \in 1 .. Len(inbox'[c]) : ~Ends(own, x, inbox'[c][k])
      BY <1>4, <3>2 DEF Pending
    <3>5. Pending(own, x)'
      BY <1>2, <2>1, <3>2, <3>3, <3>4 DEF Pending
    <3> QED
      BY <3>1, <3>5
  <2>3. ASSUME NEW i \in 1 .. Len(wire'), IsWork(wire'[i]), NEW j \in 1 .. Len(wire'), j < i
        PROVE  /\ ~Ends(own, wire'[i].txn, wire'[j])
               /\ IsWork(wire'[j]) /\ wire'[j].txn = wire'[i].txn => Precedes(wire'[j], wire'[i])
    <3>1. j + 1 < i + 1
      BY <2>3
    <3> QED
      BY <1>6, <2>3, <3>1 DEF Whole, OnWire
  <2>4. \A i \in 1 .. Len(wire') : IsWork(wire'[i]) => WorkOK(own, wire[i].txn, wire[i])'
    BY <1>6, <2>1 DEF Whole, OnWire
  <2>5. ASSUME NEW i \in 1 .. Len(wire'), IsWork(wire'[i]), NEW j \in 1 .. Len(wire'), j < i
        PROVE  ~Ends(own, wire[i].txn, wire[j])'
    BY <2>1, <2>3, <2>5
  <2> QED
    BY <2>2, <2>3, <2>4, <2>5 DEF OnWire
<1>16. Kept(own)'
  <2>1. \A x, g : WorkOK(own, x, g)' <=> WorkOK(own, x, g)
    BY <1>2, SameFrames
  <2>2. ASSUME NEW x \in DOMAIN txns
        PROVE  /\ Len(txns[x]) \in Nat
               /\ \A k \in 1 .. Len(txns'[x]) :
                    \/ k \in 1 .. Len(txns[x]) /\ txns'[x][k] = txns[x][k]
                    \/ k = Len(txns[x]) + 1 /\ txns'[x][k] = f /\ IsWork(f) /\ f.txn = x
               /\ \A k \in 1 .. Len(txns[x]) : k \in 1 .. Len(txns'[x]) /\ txns'[x][k] = txns[x][k]
               /\ IsWork(f) /\ f.txn = x => \E k \in 1 .. Len(txns'[x]) : txns'[x][k] = f
    <3>1. PICK s : s = txns[x]
      OBVIOUS
    <3>2. IsSeq(s) /\ Len(s) \in Nat
      BY <1>2, <3>1, Lengths DEF Typed
    <3>3. CASE IsWork(f) /\ f.txn = x
      <4>1. txns'[x] = Append(s, f)
        BY <1>1, <3>1, <3>3 DEF IncomingEffect
      <4>2. /\ Len(Append(s, f)) = Len(s) + 1 /\ Append(s, f)[Len(s) + 1] = f
            /\ \A i \in 1 .. Len(s) : Append(s, f)[i] = s[i]
        BY <3>2, Added
      <4>3. Len(s) + 1 \in 1 .. Len(txns'[x]) /\ txns'[x][Len(s) + 1] = f
        BY <3>2, <4>1, <4>2
      <4> QED
        BY <3>1, <3>2, <3>3, <4>1, <4>2, <4>3
    <3>4. CASE ~(IsWork(f) /\ f.txn = x)
      <4>1. txns'[x] = txns[x]
        BY <1>1, <3>4 DEF IncomingEffect
      <4> QED
        BY <3>1, <3>2, <3>4, <4>1
    <3> QED
      BY <3>3, <3>4
  <2>3. \A i \in 1 .. Len(wire') : IsWork(f) /\ IsWork(wire'[i]) /\ wire'[i].txn = f.txn => Precedes(f, wire'[i])
    BY <1>3 DEF Whole, OnWire
  <2>4. ASSUME NEW x \in DOMAIN txns, NEW k \in 1 .. Len(txns'[x])
        PROVE  /\ IsWork(txns'[x][k]) /\ WorkOK(own, x, txns[x][k])'
               /\ \A l \in 1 .. Len(txns'[x]) : k < l => Precedes(txns'[x][k], txns'[x][l])
               /\ \A i \in 1 .. Len(wire') : IsWork(wire'[i]) /\ wire'[i].txn = x => Precedes(txns'[x][k], wire'[i])
    <3>1. CASE k \in 1 .. Len(txns[x]) /\ txns'[x][k] = txns[x][k]
      <4>1. /\ IsWork(txns[x][k]) /\ WorkOK(own, x, txns[x][k])
            /\ \A l \in 1 .. Len(txns[x]) : k < l => Precedes(txns[x][k], txns[x][l])
            /\ \A i \in 1 .. Len(wire) : IsWork(wire[i]) /\ wire[i].txn = x => Precedes(txns[x][k], wire[i])
        BY <3>1 DEF Whole, Kept
      <4>2. ASSUME NEW l \in 1 .. Len(txns'[x]), k < l PROVE Precedes(txns'[x][k], txns'[x][l])
        <5>1. CASE l \in 1 .. Len(txns[x]) /\ txns'[x][l] = txns[x][l]
          BY <3>1, <4>1, <4>2, <5>1
        <5>2. CASE txns'[x][l] = f /\ IsWork(f) /\ f.txn = x
          BY <1>3, <3>1, <4>1, <5>2
        <5> QED
          BY <2>2, <5>1, <5>2
      <4>3. \A i \in 1 .. Len(wire') : IsWork(wire'[i]) /\ wire'[i].txn = x => Precedes(txns'[x][k], wire'[i])
        BY <1>6, <3>1, <4>1
      <4> QED
        BY <2>1, <3>1, <4>1, <4>2, <4>3
    <3>2. CASE k = Len(txns[x]) + 1 /\ txns'[x][k] = f /\ IsWork(f) /\ f.txn = x
      <4>1. \A l \in 1 .. Len(txns'[x]) : ~(k < l)
        BY <2>2, <3>2
      <4>2. WorkOK(own, x, f)
        BY <1>5, <3>2
      <4> QED
        BY <2>1, <2>3, <3>2, <4>1, <4>2
    <3> QED
      BY <2>2, <3>1, <3>2
  <2>5. ASSUME NEW x \in DOMAIN txns, task[own[x]].txn = x, NEW n \in 1 .. task[own[x]].done,
               NEW p \in 1 .. FramesIn(Work[own[x]][n])
        PROVE  \/ \E k \in 1 .. Len(txns'[x]) : Numbered(txns'[x][k], n, p)
               \/ \E i \in 1 .. Len(wire') : IsWork(wire'[i]) /\ wire'[i].txn = x /\ Numbered(wire'[i], n, p)
    <3>1. \/ \E k \in 1 .. Len(txns[x]) : Numbered(txns[x][k], n, p)
          \/ \E i \in 1 .. Len(wire) : IsWork(wire[i]) /\ wire[i].txn = x /\ Numbered(wire[i], n, p)
      BY <2>5 DEF Whole, Kept
    <3>2. CASE \E k \in 1 .. Len(txns[x]) : Numbered(txns[x][k], n, p)
      BY <2>2, <3>2
    <3>3. ASSUME NEW i \in 1 .. Len(wire), IsWork(wire[i]), wire[i].txn = x, Numbered(wire[i], n, p)
          PROVE  \/ \E k \in 1 .. Len(txns'[x]) : Numbered(txns'[x][k], n, p)
                 \/ \E j \in 1 .. Len(wire') : IsWork(wire'[j]) /\ wire'[j].txn = x /\ Numbered(wire'[j], n, p)
      <4>1. CASE i = 1
        BY <1>3, <2>2, <3>3, <4>1
      <4>2. CASE i # 1
        BY <1>3, <3>3, <4>2
      <4> QED
        BY <4>1, <4>2
    <3> QED
      BY <3>1, <3>2, <3>3
  <2>6. DOMAIN txns' = DOMAIN txns
    BY <1>1 DEF IncomingEffect
  <2> QED
    BY <1>2, <2>4, <2>5, <2>6 DEF Kept
<1>17. Applied(own)'
  <2>1. DOMAIN txns' = DOMAIN txns
    BY <1>1 DEF IncomingEffect
  <2> QED
    BY <1>2, <2>1, SameCarried DEF Whole, Applied
<1>18. Posted'
  <2>1. \A t : Posts(t)' = Posts(t)
    BY <1>2, SameFrames
  <2>2. ASSUME NEW t \in Txn, NEW n \in Posts(t), NEW i \in 1 .. Len(wire),
               wire[i].type = "post", wire[i].txn = task[t].txn, wire[i].n = n, wire[i].part = 1, ~wire[i].w.settled
        PROVE  \/ \E k \in 1 .. Len(back') : Presumed(back'[k], t, n)
               \/ \E k \in 1 .. Len(wire') : /\ wire'[k].type = "post" /\ wire'[k].txn = task[t].txn
                                              /\ wire'[k].n = n /\ wire'[k].part = 1 /\ ~wire'[k].w.settled
    <3>1. CASE i = 1
      <4>1. /\ f.type = "post" /\ f.part = 1 /\ ~f.w.settled /\ f.txn = task[t].txn /\ f.n = n
        BY <1>3, <2>2, <3>1
      <4>2. f.txn \in 1 .. issued
        BY <1>5, <4>1 DEF IsWork
      <4>3. task[t].txn # NoId
        BY <1>2, <4>1, <4>2 DEF NoId, Typed
      <4>4. own[f.txn] = t
        BY <4>1, <4>3 DEF Whole, Learned
      <4> QED
        BY <1>1, <4>1, <4>4 DEF IncomingEffect
    <3>2. CASE i # 1
      BY SMTT(30), <1>3, <2>2, <3>2
    <3> QED
      BY <3>1, <3>2
  <2>3. ASSUME NEW t \in Txn, NEW n \in Posts(t), NEW i \in 1 .. Len(back), Presumed(back[i], t, n)
        PROVE  \E k \in 1 .. Len(back') : Presumed(back'[k], t, n)
    BY <1>13, <2>3
  <2> QED
    BY <1>2, <2>1, <2>2, <2>3 DEF Whole, Posted
<1>19. Outcomes'
  <2>1. \A t \in Txn : \A i, j \in Nat : i <= j /\ DoneBefore(t, i) => DoneBefore(t, j)'
    <3>1. \A t : Posts(t)' = Posts(t)
      BY <1>2, SameFrames
    <3>2. \A t \in Txn : CarriedWhole(t)' = CarriedWhole(t)
      BY <1>2, SameCarried
    <3>3. DOMAIN txns' = DOMAIN txns
      BY <1>1 DEF IncomingEffect
    <3>4. ASSUME NEW t \in Txn, NEW i \in Nat, NEW j \in Nat, i <= j, NEW n,
                 \E k \in 1 .. Len(back) : k < i /\ Presumed(back[k], t, n)
          PROVE  \E k \in 1 .. Len(back') : k < j /\ Presumed(back'[k], t, n)
      <4>1. PICK k \in 1 .. Len(back) : k < i /\ Presumed(back[k], t, n)
        BY <3>4
      <4>2. k \in 1 .. Len(back') /\ k < j /\ back'[k] = back[k]
        BY <1>13, <3>4, <4>1
      <4> QED
        BY <4>1, <4>2
    <3> QED
      BY <1>2, <3>1, <3>2, <3>3, <3>4 DEF DoneBefore
  <2>2. (\A i \in 1 .. Len(back) :
       /\ back[i].id.link \in CtlLink => back[i].op \in {"declared", "accepted", "rejected"}
       /\ back[i].op = "accepted" => back[i].id.link \in CtlLink /\ DoneBefore(back[i].id.of, i)
       /\ back[i].id.link \notin CtlLink =>
            /\ back[i].id.link \in Links /\ back[i].op = "presumed" /\ back[i].id.of \in Txn
            /\ back[i].id.tag \in 1 .. task[back[i].id.of].done)'
    <3>1. \A i \in 1 .. Len(back) : back[i].id.link \in CtlLink => back[i].id.of \in Txn
      BY DEF Whole, Learned, MsgOK
    <3>2. \A t \in Txn : \A i \in 1 .. Len(back') : DoneBefore(t, i) => DoneBefore(t, i)'
      <4>1. \A i \in 1 .. Len(back') : i \in Nat /\ i <= i
        OBVIOUS
      <4> QED
        BY <2>1, <4>1
    <3>3. \A i \in 1 .. Len(back') : i > Len(back) => 
            /\ back'[i].id.link \in Links /\ back'[i].id.link \notin CtlLink /\ back'[i].op = "presumed"
            /\ back'[i].id.of \in Txn /\ back'[i].id.tag \in 1 .. task'[back'[i].id.of].done
      BY <1>2, <1>12
    <3>4. ASSUME NEW i \in 1 .. Len(back'), i \in 1 .. Len(back), back'[i] = back[i]
          PROVE (/\ back[i].id.link \in CtlLink => back[i].op \in {"declared", "accepted", "rejected"}
                 /\ back[i].op = "accepted" => back[i].id.link \in CtlLink /\ DoneBefore(back[i].id.of, i)
                 /\ back[i].id.link \notin CtlLink =>
                      /\ back[i].id.link \in Links /\ back[i].op = "presumed" /\ back[i].id.of \in Txn
                      /\ back[i].id.tag \in 1 .. task[back[i].id.of].done)'
      BY <1>2, <3>1, <3>2, <3>4 DEF Whole, Outcomes
    <3> QED
      BY <1>13, <3>3, <3>4
  <2>3. (\A e \in CtlLink :
       /\ coord[e].got.op \in {"none", "declared", "accepted", "rejected"}
       /\ coord[e].got.op = "accepted" => coord[e].pc = "answered" /\ DoneBefore(coord[e].id.of, Len(back) + 1))'
    <3>1. \A e \in CtlLink : coord[e].got.op = "accepted" => coord[e].id.of \in Txn
      BY DEF Whole, Outcomes, Asked, MsgOK
    <3>2. PICK m \in Nat, q \in Nat : m = Len(back) + 1 /\ q = Len(back') + 1 /\ m <= q
      BY <1>1, <1>13 DEF IncomingEffect
    <3>3. \A t \in Txn : DoneBefore(t, m) => DoneBefore(t, q)'
      BY <2>1, <3>2
    <3>4. \A t \in Txn : DoneBefore(t, Len(back) + 1) => DoneBefore(t, Len(back) + 1)'
      BY <3>2, <3>3
    <3> QED
      BY <1>2, <3>1, <3>4 DEF Whole, Outcomes
  <2>4. \A t \in Txn : DoneBefore(t, 1) => DoneBefore(t, 1)'
    BY <2>1
  <2> QED
    BY <1>2, <2>2, <2>3, <2>4 DEF Whole, Outcomes
<1> QED
  BY <1>1, <1>7, <1>8, <1>9, <1>10, <1>11, <1>14, <1>15, <1>16, <1>17, <1>18, <1>19 DEF Whole

-----------------------------------------------------------------------------
(* Steps of a coordinator                                                  *)

\* What was done before i is done before j, when the outcomes sent have only become more.
LEMMA DoneLater ==
  ASSUME Len(back) \in Nat, Len(back') \in Nat, Len(back') >= Len(back), \A i \in 1 .. Len(back) : back'[i] = back[i],
         UNCHANGED <<task, applied, acked>>, DOMAIN txns' \subseteq DOMAIN txns,
         NEW t \in Txn, NEW i \in Nat, NEW j \in Nat, i <= j, DoneBefore(t, i)
  PROVE  DoneBefore(t, j)'
<1>1. Posts(t)' = Posts(t) /\ CarriedWhole(t)' = CarriedWhole(t)
  BY SameCarried DEF Posts
<1>2. ASSUME NEW n, \E k \in 1 .. Len(back) : k < i /\ Presumed(back[k], t, n)
      PROVE  \E k \in 1 .. Len(back') : k < j /\ Presumed(back'[k], t, n)
  <2>1. PICK k \in 1 .. Len(back) : k < i /\ Presumed(back[k], t, n)
    BY <1>2
  <2>2. k \in 1 .. Len(back') /\ k < j /\ back'[k] = back[k]
    BY <2>1
  <2> QED
    BY <2>1, <2>2
<1> QED
  BY <1>1, <1>2 DEF DoneBefore

\* Positions of the inbox of c when its first message has been taken.
LEMMA InboxTaken ==
  ASSUME Typed, NEW c \in CtlLink, inbox[c] # <<>>, inbox' = [inbox EXCEPT ![c] = Tail(@)]
  PROVE  /\ Head(inbox[c]) = inbox[c][1] /\ 1 \in 1 .. Len(inbox[c])
         /\ inbox' = [e \in CtlLink |-> inbox'[e]] /\ \A e \in CtlLink : IsSeq(inbox'[e])
         /\ \A e \in CtlLink : e # c => inbox'[e] = inbox[e]
         /\ \A i \in 1 .. Len(inbox'[c]) : /\ i + 1 \in 1 .. Len(inbox[c]) /\ inbox'[c][i] = inbox[c][i + 1] /\ i + 1 # 1
         /\ \A i, j \in 1 .. Len(inbox'[c]) : i + 1 = j + 1 => i = j
         /\ \A e \in CtlLink : \A i \in 1 .. Len(inbox'[e]) : \E j \in 1 .. Len(inbox[e]) : inbox'[e][i] = inbox[e][j]
<1>1. PICK s : s = inbox[c]
  OBVIOUS
<1>2. IsSeq(s) /\ s # <<>>
  BY <1>1 DEF Typed
<1>3. /\ IsSeq(Tail(s)) /\ Len(s) \in Nat /\ Len(s) >= 1 /\ Len(Tail(s)) = Len(s) - 1
      /\ Head(s) = s[1] /\ \A i \in 1 .. Len(s) - 1 : Tail(s)[i] = s[i + 1]
  BY <1>2, Taken
<1>4. /\ inbox'[c] = Tail(s) /\ \A e \in CtlLink : e # c => inbox'[e] = inbox[e]
      /\ inbox' = [e \in CtlLink |-> inbox'[e]]
  BY <1>1 DEF Typed
<1>5. \A i \in 1 .. Len(inbox'[c]) : i + 1 \in 1 .. Len(inbox[c]) /\ inbox'[c][i] = inbox[c][i + 1] /\ i + 1 # 1
  <2>1. PICK u : u = Tail(s)
    OBVIOUS
  <2>2. \A i \in 1 .. Len(u) : i + 1 \in 1 .. Len(s) /\ u[i] = s[i + 1] /\ i + 1 # 1
    BY <1>3, <2>1
  <2> QED
    BY <1>1, <1>4, <2>1, <2>2, Zenon
<1>6. \A e \in CtlLink : IsSeq(inbox'[e])
  BY <1>3, <1>4 DEF Typed
<1>7. ASSUME NEW e \in CtlLink, NEW i \in 1 .. Len(inbox'[e])
      PROVE  \E j \in 1 .. Len(inbox[e]) : inbox'[e][i] = inbox[e][j]
  BY <1>4, <1>5
<1> QED
  BY <1>1, <1>3, <1>4, <1>5, <1>6, <1>7

\* What no step of a coordinator changes.
LEMMA CoordinatorSame ==
  ASSUME NEW own, Whole(own), UNCHANGED <<plan, task, count, unsettled, wire, txns, issued, session, applied, asked>>
  PROVE  /\ Kept(own)' /\ Applied(own)' /\ Single(wire)'
         /\ (\A i \in 1 .. Len(wire) : IsDeclare(wire[i]) => DeclareOK(own, wire[i].link, wire[i].id))'
         /\ (\A i \in 1 .. Len(wire) : FrameOK(own, wire[i]))'
         /\ (\A i \in 1 .. Len(wire) : IsDeclare(wire[i]) => TagOK(wire[i].link, wire[i].id))'
         /\ \A c, id : TagOK(c, id)' <=> TagOK(c, id)
<1>1. Kept(own)'
  BY ZenonT(60), SameFrames DEF Whole, Kept
<1>2. Applied(own)'
  BY SameCarried DEF Whole, Applied
<1>3. Single(wire)'
  BY DEF Whole, Declares, Single
<1>4. (\A i \in 1 .. Len(wire) : IsDeclare(wire[i]) => DeclareOK(own, wire[i].link, wire[i].id))'
  BY SameFrames DEF Whole, Declares
<1>5. (\A i \in 1 .. Len(wire) : FrameOK(own, wire[i]))'
  BY SameFrames DEF Whole, Asked
<1>6. \A c, id : TagOK(c, id)' <=> TagOK(c, id)
  BY DEF TagOK
<1>7. (\A i \in 1 .. Len(wire) : IsDeclare(wire[i]) => TagOK(wire[i].link, wire[i].id))'
  BY <1>6 DEF Whole, Tags
<1> QED
  BY <1>1, <1>2, <1>3, <1>4, <1>5, <1>6, <1>7

\* A coordinator takes a message from its inbox: what stays in the inboxes is as it was.
LEMMA InboxKept ==
  ASSUME NEW own, Whole(own), UNCHANGED <<plan, task, count, unsettled, wire, txns, issued, session, applied, asked>>,
         NEW c \in CtlLink, inbox[c] # <<>>, inbox' = [inbox EXCEPT ![c] = Tail(@)]
  PROVE  /\ Routed' /\ (\A e \in CtlLink : Single(inbox[e]))'
         /\ (\A e \in CtlLink : \A i \in 1 .. Len(inbox[e]) : IsDeclare(inbox[e][i]) =>
               /\ DeclareOK(own, e, inbox[e][i].id)
               /\ \A j \in 1 .. Len(wire) : IsDeclare(wire[j]) => wire[j].id.of # inbox[e][i].id.of)'
         /\ (\A e \in CtlLink : \A i \in 1 .. Len(inbox[e]) : FrameOK(own, inbox[e][i]))'
         /\ (\A e \in CtlLink : \A i \in 1 .. Len(inbox[e]) : IsDeclare(inbox[e][i]) => TagOK(e, inbox[e][i].id))'
         /\ \A x : \A e \in CtlLink : (\A k \in 1 .. Len(inbox[e]) : ~Ends(own, x, inbox[e][k])) =>
              (\A k \in 1 .. Len(inbox[e]) : ~Ends(own, x, inbox[e][k]))'
<1>1. /\ \A e \in CtlLink : e # c => inbox'[e] = inbox[e]
      /\ \A i \in 1 .. Len(inbox'[c]) : /\ i + 1 \in 1 .. Len(inbox[c]) /\ inbox'[c][i] = inbox[c][i + 1] /\ i + 1 # 1
      /\ \A i, j \in 1 .. Len(inbox'[c]) : i + 1 = j + 1 => i = j
      /\ \A e \in CtlLink : \A i \in 1 .. Len(inbox'[e]) : \E j \in 1 .. Len(inbox[e]) : inbox'[e][i] = inbox[e][j]
  BY InboxTaken DEF Whole
<1>2. Routed'
  <2>1. (\A e \in CtlLink : \A i \in 1 .. Len(inbox[e]) :
           inbox[e][i].type \in {"control", "detach"} /\ inbox[e][i].link = e)'
    BY <1>1 DEF Whole, Routed
  <2> QED
    BY <2>1 DEF Whole, Routed
<1>3. ASSUME NEW e \in CtlLink, NEW i \in 1 .. Len(inbox'[e]), NEW j \in 1 .. Len(inbox'[e]),
             IsDeclare(inbox'[e][i]), IsDeclare(inbox'[e][j]), inbox'[e][i].id.of = inbox'[e][j].id.of
      PROVE  i = j
  <2>1. Single(inbox[e])
    BY DEF Whole, Declares
  <2>2. CASE e = c
    <3>1. /\ i + 1 \in 1 .. Len(inbox[c]) /\ inbox'[c][i] = inbox[c][i + 1]
          /\ j + 1 \in 1 .. Len(inbox[c]) /\ inbox'[c][j] = inbox[c][j + 1] /\ (i + 1 = j + 1 => i = j)
      BY <1>1, <2>2
    <3> QED
      BY <1>3, <2>1, <2>2, <3>1, Zenon DEF Single
  <2>3. CASE e # c
    BY <1>1, <1>3, <2>1, <2>3 DEF Single
  <2> QED
    BY <2>2, <2>3
<1>4. (\A e \in CtlLink : Single(inbox[e]))'
  BY ZenonT(60), <1>3 DEF Single
<1>5. (\A e \in CtlLink : \A i \in 1 .. Len(inbox[e]) : IsDeclare(inbox[e][i]) =>
               /\ DeclareOK(own, e, inbox[e][i].id)
               /\ \A j \in 1 .. Len(wire) : IsDeclare(wire[j]) => wire[j].id.of # inbox[e][i].id.of)'
  <2>1. \A e, id : DeclareOK(own, e, id)' <=> DeclareOK(own, e, id)
    BY SameFrames
  <2>2. ASSUME NEW e \in CtlLink, NEW i \in 1 .. Len(inbox'[e]), IsDeclare(inbox'[e][i])
        PROVE  /\ DeclareOK(own, e, inbox[e][i].id)'
               /\ \A j \in 1 .. Len(wire) : IsDeclare(wire[j]) => wire[j].id.of # inbox'[e][i].id.of
    <3>1. PICK j \in 1 .. Len(inbox[e]) : inbox'[e][i] = inbox[e][j]
      BY <1>1
    <3>2. /\ DeclareOK(own, e, inbox[e][j].id)
          /\ \A k \in 1 .. Len(wire) : IsDeclare(wire[k]) => wire[k].id.of # inbox[e][j].id.of
      BY <2>2, <3>1 DEF Whole, Declares
    <3> QED
      BY <2>1, <3>1, <3>2
  <2> QED
    BY <2>2
<1>6. (\A e \in CtlLink : \A i \in 1 .. Len(inbox[e]) : FrameOK(own, inbox[e][i]))'
  <2>1. \A g : FrameOK(own, g)' <=> FrameOK(own, g)
    BY SameFrames
  <2> QED
    BY <1>1, <2>1 DEF Whole, Asked
<1>7. (\A e \in CtlLink : \A i \in 1 .. Len(inbox[e]) : IsDeclare(inbox[e][i]) => TagOK(e, inbox[e][i].id))'
  BY ZenonT(60), <1>1, CoordinatorSame DEF Whole, Tags
<1>8. \A x : \A e \in CtlLink : (\A k \in 1 .. Len(inbox[e]) : ~Ends(own, x, inbox[e][k])) =>
              (\A k \in 1 .. Len(inbox[e]) : ~Ends(own, x, inbox[e][k]))'
  <2>1. \A x, g : Ends(own, x, g)' <=> Ends(own, x, g)
    BY SameFrames
  <2> QED
    BY <1>1, <2>1
<1> QED
  BY <1>2, <1>4, <1>5, <1>6, <1>7, <1>8

\* An outcome is sent on the control link: what is known of the outcomes sent.
LEMMA OutcomeSent ==
  ASSUME NEW own, Whole(own), UNCHANGED <<plan, task, answer, acked, count, unsettled, wire, txns, issued, applied, asked>>,
         NEW d, back' = Append(back, d), d.op \in {"declared", "accepted", "rejected"},
         d.id.link \in CtlLink, MsgOK(d.id.link, d.id),
         d.op = "declared" => TagOK(d.id.link, d.id) /\ d.txn \in 1 .. issued /\ own[d.txn] = d.id.of,
         d.op = "accepted" => DoneBefore(d.id.of, Len(back) + 1),
         \A c \in CtlLink : coord'[c].got.op \in {"none", "declared", "accepted", "rejected"},
         \A c \in CtlLink : coord'[c].got.op = "accepted" => coord' [c] = coord[c]
  PROVE  /\ IsSeq(back') /\ Learned(own)' /\ Posted' /\ Outcomes'
         /\ (\A i \in 1 .. Len(back) : back[i].op = "declared" => TagOK(back[i].id.link, back[i].id))'
<1>1. IsSeq(back) /\ Typed
  BY DEF Whole, Typed
<1>2. /\ IsSeq(back') /\ Len(back) \in Nat /\ Len(back') = Len(back) + 1 /\ back'[Len(back) + 1] = d
      /\ \A i \in 1 .. Len(back) : back'[i] = back[i]
  BY <1>1, Added
<1>3. /\ \A i \in 1 .. Len(back') : (i \in 1 .. Len(back) /\ back'[i] = back[i]) \/ (i = Len(back) + 1 /\ back'[i] = d)
      /\ \A i \in 1 .. Len(back) : i \in 1 .. Len(back') /\ back'[i] = back[i]
  BY <1>2
<1>4. \A c, id : MsgOK(c, id)' <=> MsgOK(c, id)
  BY SameFrames
<1>5. \A c, id : TagOK(c, id)' <=> TagOK(c, id)
  BY DEF TagOK
<1>6. (\A i \in 1 .. Len(back) : back[i].op = "declared" => TagOK(back[i].id.link, back[i].id))'
  BY <1>3, <1>5 DEF Whole, Tags
<1>7. (\A i \in 1 .. Len(back) :
       /\ back[i].id.link \in CtlLink => MsgOK(back[i].id.link, back[i].id)
       /\ back[i].op = "declared" => /\ back[i].id.link \in CtlLink
                                     /\ back[i].txn \in 1 .. issued /\ own[back[i].txn] = back[i].id.of)'
  BY <1>3, <1>4 DEF Whole, Learned
<1>8. Learned(own)'
  BY <1>7 DEF Whole, Learned
<1>9. Posted'
  <2>1. \A t : Posts(t)' = Posts(t)
    BY SameFrames
  <2>2. ASSUME NEW t \in Txn, NEW n \in Posts(t), NEW i \in 1 .. Len(back), Presumed(back[i], t, n)
        PROVE  \E k \in 1 .. Len(back') : Presumed(back'[k], t, n)
    BY <1>3, <2>2
  <2> QED
    BY <2>1, <2>2 DEF Whole, Posted
<1>10. Outcomes'
  <2>1. \A t \in Txn : \A i, j \in Nat : i <= j /\ DoneBefore(t, i) => DoneBefore(t, j)'
    BY <1>2, DoneLater
  <2>2. \A t \in Txn : \A i \in Nat : DoneBefore(t, i) => DoneBefore(t, i)'
    BY <2>1
  <2>3. \A i \in 1 .. Len(back) : back[i].id.link \in CtlLink => back[i].id.of \in Txn
    BY DEF Whole, Learned, MsgOK
  <2>4. ASSUME NEW i \in 1 .. Len(back'), i \in 1 .. Len(back), back'[i] = back[i]
          PROVE (/\ back[i].id.link \in CtlLink => back[i].op \in {"declared", "accepted", "rejected"}
                 /\ back[i].op = "accepted" => back[i].id.link \in CtlLink /\ DoneBefore(back[i].id.of, i)
                 /\ back[i].id.link \notin CtlLink =>
                      /\ back[i].id.link \in Links /\ back[i].op = "presumed" /\ back[i].id.of \in Txn
                      /\ back[i].id.tag \in 1 .. task[back[i].id.of].done)'
    <3>1. i \in Nat
      OBVIOUS
    <3> QED
      BY <2>2, <2>3, <2>4, <3>1 DEF Whole, Outcomes
  <2>5. ASSUME NEW i \in 1 .. Len(back'), i = Len(back) + 1, back'[i] = d
          PROVE (/\ back[i].id.link \in CtlLink => back[i].op \in {"declared", "accepted", "rejected"}
                 /\ back[i].op = "accepted" => back[i].id.link \in CtlLink /\ DoneBefore(back[i].id.of, i)
                 /\ back[i].id.link \notin CtlLink =>
                      /\ back[i].id.link \in Links /\ back[i].op = "presumed" /\ back[i].id.of \in Txn
                      /\ back[i].id.tag \in 1 .. task[back[i].id.of].done)'
    <3>1. i \in Nat /\ d.id.of \in Txn
      BY DEF MsgOK
    <3>2. d.op = "accepted" => DoneBefore(d.id.of, i)
      BY <2>5
    <3>3. d.op = "accepted" => DoneBefore(d.id.of, i)'
      BY <2>2, <3>1, <3>2
    <3> QED
      BY <2>5, <3>3
  <2>6. (\A i \in 1 .. Len(back) :
       /\ back[i].id.link \in CtlLink => back[i].op \in {"declared", "accepted", "rejected"}
       /\ back[i].op = "accepted" => back[i].id.link \in CtlLink /\ DoneBefore(back[i].id.of, i)
       /\ back[i].id.link \notin CtlLink =>
            /\ back[i].id.link \in Links /\ back[i].op = "presumed" /\ back[i].id.of \in Txn
            /\ back[i].id.tag \in 1 .. task[back[i].id.of].done)'
    BY <1>3, <2>4, <2>5
  <2>7. (\A e \in CtlLink :
       /\ coord[e].got.op \in {"none", "declared", "accepted", "rejected"}
       /\ coord[e].got.op = "accepted" => coord[e].pc = "answered" /\ DoneBefore(coord[e].id.of, Len(back) + 1))'
    <3>1. \A e \in CtlLink : coord[e].got.op = "accepted" => coord[e].id.of \in Txn
      BY DEF Whole, Outcomes, Asked, MsgOK
    <3>2. PICK m \in Nat, q \in Nat : m = Len(back) + 1 /\ q = Len(back') + 1 /\ m <= q
      BY <1>2
    <3>3. \A t \in Txn : DoneBefore(t, m) => DoneBefore(t, q)'
      BY <2>1, <3>2
    <3>4. \A t \in Txn : DoneBefore(t, Len(back) + 1) => DoneBefore(t, Len(back) + 1)'
      BY <3>2, <3>3
    <3> QED
      BY <3>1, <3>4 DEF Whole, Outcomes
  <2>8. \A t \in Txn : DoneBefore(t, 1) => DoneBefore(t, 1)'
    BY <2>2
  <2> QED
    BY <2>6, <2>7, <2>8 DEF Whole, Outcomes
<1> QED
  BY <1>2, <1>6, <1>8, <1>9, <1>10

\* Nothing is sent: what is known of the outcomes sent stays true.
LEMMA OutcomesSame ==
  ASSUME NEW own, Whole(own), UNCHANGED <<plan, task, answer, acked, count, unsettled, wire, back, txns, issued, applied, asked>>,
         \A c \in CtlLink : coord'[c].got.op \in {"none", "declared", "accepted", "rejected"},
         \A c \in CtlLink : coord'[c].got.op = "accepted" => coord' [c] = coord[c]
  PROVE  /\ Learned(own)' /\ Posted' /\ Outcomes'
         /\ (\A i \in 1 .. Len(back) : back[i].op = "declared" => TagOK(back[i].id.link, back[i].id))'
<1>1. \A t \in Txn : \A i : DoneBefore(t, i)' <=> DoneBefore(t, i)
  BY SameCarried, SameFrames DEF DoneBefore
<1>2. \A c, id : TagOK(c, id)' <=> TagOK(c, id)
  BY DEF TagOK
<1>3. Learned(own)'
  BY SameFrames DEF Whole, Learned
<1>4. Posted'
  BY SameFrames DEF Whole, Posted
<1>5. \A i \in 1 .. Len(back) : back[i].id.link \in CtlLink => back[i].id.of \in Txn
  BY DEF Whole, Learned, MsgOK
<1>6. \A c \in CtlLink : coord[c].got.op = "accepted" => coord[c].id.of \in Txn
  BY DEF Whole, Outcomes, Asked, MsgOK
<1>7. Outcomes'
  BY <1>1, <1>5, <1>6 DEF Whole, Outcomes
<1> QED
  BY <1>2, <1>3, <1>4, <1>7 DEF Whole, Tags

\* TxnCoordinator::handle_delivery_result: the outcome is sent.
LEMMA OnAnswerWhole ==
  ASSUME NEW own, Whole(own), NEW c \in CtlLink, OnAnswer(c)
  PROVE  Whole(own)'
<1>1. PICK got, d : got = coord[c].got /\ d = [id |-> coord[c].id, op |-> got.op, txn |-> got.txn]
  OBVIOUS
<1>2. /\ UNCHANGED <<plan, task, count, unsettled, answer, acked, wire, txns, issued, control, inbox, session, applied, asked>>
      /\ coord[c].pc = "answered" /\ back' = Append(back, d) /\ Typed
  BY <1>1 DEF OnAnswer, app, Disposed, Whole
<1>3. /\ coord' = [e \in CtlLink |-> [pc |-> coord'[e].pc, txn_ids |-> coord'[e].txn_ids,
                                      id |-> coord'[e].id, got |-> coord'[e].got]]
      /\ \A e \in CtlLink : e # c => coord'[e] = coord[e]
      /\ coord'[c].pc = "idle" /\ coord'[c].got.op = "none"
      /\ coord'[c].txn_ids = IF Declared(c) THEN coord[c].txn_ids \cup {coord[c].got.txn} ELSE coord[c].txn_ids
  <2>1. PICK v : v = [Idle EXCEPT !.txn_ids =
                    IF got.op = "declared" THEN coord[c].txn_ids \cup {got.txn} ELSE coord[c].txn_ids]
    OBVIOUS
  <2>2. /\ v = [pc |-> v.pc, txn_ids |-> v.txn_ids, id |-> v.id, got |-> v.got]
        /\ v.pc = "idle" /\ v.got.op = "none"
        /\ v.txn_ids = IF Declared(c) THEN coord[c].txn_ids \cup {coord[c].got.txn} ELSE coord[c].txn_ids
    BY <1>1, <2>1 DEF Idle, Declared
  <2>3. coord' = [coord EXCEPT ![c] = v]
    BY <1>1, <2>1 DEF OnAnswer
  <2> QED
    BY <1>2, <2>2, <2>3 DEF Typed
<1>4. \A k \in 1 .. Len(control) : control[k].op # "abort" => control[k].link # c
  BY <1>2 DEF Whole, Requests
<1>5. \A k \in 1 .. Len(control) : control[k].link \in CtlLink
  BY DEF Whole, Requests
<1>6. Requests'
  BY <1>2, <1>3, <1>4 DEF Whole, Requests
<1>7. Ids(own)'
  <2>1. \A t : Ctl(t)' = Ctl(t)
    BY <1>2 DEF Ctl
  <2>2. /\ own \in [1 .. issued -> Txn] /\ \A x, y \in 1 .. issued : own[x] = own[y] => x = y
        /\ \A x \in 1 .. issued : task[own[x]].pc # "idle"
    BY DEF Whole, Ids
  <2>3. ASSUME NEW e \in CtlLink
        PROVE  (/\ coord[e].txn_ids \subseteq 1 .. issued
                /\ \A x \in coord[e].txn_ids : Ctl(own[x]) = e
                /\ Declared(e) =>
                     /\ coord[e].pc = "answered" /\ coord[e].got = [op |-> "declared", txn |-> coord[e].got.txn]
                     /\ coord[e].got.txn \in 1 .. issued /\ Ctl(own[coord[e].got.txn]) = e
                     /\ own[coord[e].got.txn] = coord[e].id.of
                     /\ coord[e].got.txn \notin coord[e].txn_ids
                /\ coord[e].pc = "gone" => coord[e].txn_ids = {})'
    <3>1. CASE e = c
      <4>1. \A x \in coord'[c].txn_ids : x \in 1 .. issued /\ Ctl(own[x]) = c
        <5>1. \A x \in coord[c].txn_ids : x \in 1 .. issued /\ Ctl(own[x]) = c
          BY DEF Whole, Ids
        <5>2. Declared(c) => coord[c].got.txn \in 1 .. issued /\ Ctl(own[coord[c].got.txn]) = c
          BY DEF Whole, Ids
        <5>3. \A x \in coord'[c].txn_ids : x \in coord[c].txn_ids \/ (Declared(c) /\ x = coord[c].got.txn)
          BY <1>3
        <5> QED
          BY <5>1, <5>2, <5>3
      <4> QED
        BY <1>2, <1>3, <2>1, <3>1, <4>1 DEF Declared
    <3>2. CASE e # c
      BY <1>2, <1>3, <2>1, <3>2 DEF Whole, Ids, Declared
    <3> QED
      BY <3>1, <3>2
  <2>4. ASSUME NEW i \in 1 .. Len(control), Ending(control[i])
        PROVE  (/\ control[i].txn \in 1 .. issued /\ Ctl(own[control[i].txn]) = control[i].link
                /\ \A j \in 1 .. Len(control) : Ending(control[j]) /\ control[j].txn = control[i].txn => j = i
                /\ control[i].txn \notin coord[control[i].link].txn_ids
                /\ Declared(control[i].link) => coord[control[i].link].got.txn # control[i].txn)'
    <3>1. /\ control[i].txn \in 1 .. issued /\ Ctl(own[control[i].txn]) = control[i].link
          /\ \A j \in 1 .. Len(control) : Ending(control[j]) /\ control[j].txn = control[i].txn => j = i
          /\ control[i].txn \notin coord[control[i].link].txn_ids
          /\ Declared(control[i].link) => coord[control[i].link].got.txn # control[i].txn
      BY <2>4 DEF Whole, Ids
    <3>2. CASE control[i].link = c
      BY <1>2, <1>3, <2>1, <3>1, <3>2 DEF Declared
    <3>3. CASE control[i].link # c
      BY <1>2, <1>3, <1>5, <2>1, <3>1, <3>3 DEF Declared
    <3> QED
      BY <3>2, <3>3
  <2>5. (\A e \in CtlLink :
                /\ coord[e].txn_ids \subseteq 1 .. issued
                /\ \A x \in coord[e].txn_ids : Ctl(own[x]) = e
                /\ Declared(e) =>
                     /\ coord[e].pc = "answered" /\ coord[e].got = [op |-> "declared", txn |-> coord[e].got.txn]
                     /\ coord[e].got.txn \in 1 .. issued /\ Ctl(own[coord[e].got.txn]) = e
                     /\ own[coord[e].got.txn] = coord[e].id.of
                     /\ coord[e].got.txn \notin coord[e].txn_ids
                /\ coord[e].pc = "gone" => coord[e].txn_ids = {})'
    BY <2>3
  <2>6. (\A i \in 1 .. Len(control) : Ending(control[i]) =>
                /\ control[i].txn \in 1 .. issued /\ Ctl(own[control[i].txn]) = control[i].link
                /\ \A j \in 1 .. Len(control) : Ending(control[j]) /\ control[j].txn = control[i].txn => j = i
                /\ control[i].txn \notin coord[control[i].link].txn_ids
                /\ Declared(control[i].link) => coord[control[i].link].got.txn # control[i].txn)'
    BY <1>2, <2>4
  <2> QED
    BY <1>2, <2>2, <2>5, <2>6 DEF Ids
<1>8. Routed'
  BY <1>2 DEF Whole, Routed
<1>9. Declares(own)'
  <2>1. /\ \A e, id : DeclareOK(own, e, id)' <=> DeclareOK(own, e, id)
    BY <1>2, SameFrames
  <2>2. (\A k \in 1 .. Len(control) : control[k].op = "allocate" =>
       LET e == control[k].link IN
       /\ DeclareOK(own, e, coord[e].id)
       /\ \A j \in 1 .. Len(wire) : IsDeclare(wire[j]) => wire[j].id.of # coord[e].id.of
       /\ \A i \in 1 .. Len(inbox[e]) : IsDeclare(inbox[e][i]) => inbox[e][i].id.of # coord[e].id.of)'
    BY <1>2, <1>3, <1>4, <1>5, <2>1 DEF Whole, Declares
  <2>3. Single(wire)' /\ (\A e \in CtlLink : Single(inbox[e]))'
    BY <1>2 DEF Whole, Declares, Single
  <2> QED
    BY <1>2, <2>1, <2>2, <2>3 DEF Whole, Declares
<1>10. Asked(own)'
  <2>1. (\A e \in CtlLink : coord[e].pc \in {"asking", "answered"} => MsgOK(e, coord[e].id))'
    BY <1>2, <1>3, SameFrames DEF Whole, Asked
  <2>2. (\A k \in 1 .. Len(control) :
       /\ control[k].op \in {"commit", "rollback"} =>
            DischargeOK(own, coord[control[k].link].id, control[k].op, control[k].txn)
       /\ control[k].op = "abort" => task[own[control[k].txn]].pc \in Final)'
    <3>1. ASSUME NEW k \in 1 .. Len(control), control[k].op \in {"commit", "rollback"}
          PROVE  DischargeOK(own, coord[control[k].link].id, control[k].op, control[k].txn)'
      <4>1. PICK id, op, x : id = coord[control[k].link].id /\ op = control[k].op /\ x = control[k].txn
        OBVIOUS
      <4>2. DischargeOK(own, id, op, x)
        BY <3>1, <4>1 DEF Whole, Asked
      <4>3. DischargeOK(own, id, op, x)'
        BY <1>2, <4>2, SameFrames
      <4>4. id = coord'[control'[k].link].id /\ op = control'[k].op /\ x = control'[k].txn
        BY <1>2, <1>3, <1>4, <1>5, <3>1, <4>1
      <4> QED
        BY <4>3, <4>4
    <3>2. \A k \in 1 .. Len(control) : control[k].op = "abort" => task[own[control[k].txn]].pc \in Final
      BY DEF Whole, Asked
    <3> QED
      BY <1>2, <3>1, <3>2
  <2> QED
    BY <1>2, <2>1, <2>2, SameFrames DEF Whole, Asked
<1>11. /\ d.id = coord[c].id /\ d.op = coord[c].got.op /\ d.txn = coord[c].got.txn /\ d.id.link = c
       /\ MsgOK(c, d.id) /\ d.op \in {"declared", "accepted", "rejected"}
       /\ d.op = "declared" => TagOK(c, d.id) /\ d.txn \in 1 .. issued /\ own[d.txn] = d.id.of
       /\ d.op = "accepted" => DoneBefore(d.id.of, Len(back) + 1)
  <2>1. d.id = coord[c].id /\ d.op = coord[c].got.op /\ d.txn = coord[c].got.txn
    BY <1>1
  <2>2. MsgOK(c, d.id)
    BY <1>2, <2>1 DEF Whole, Asked
  <2>3. d.id.link = c
    BY <2>2 DEF MsgOK
  <2>4. d.op \in {"declared", "accepted", "rejected"}
    BY <1>2, <2>1 DEF Whole, Outcomes, Requests
  <2>5. d.op = "declared" => TagOK(c, d.id) /\ d.txn \in 1 .. issued /\ own[d.txn] = d.id.of
    BY <2>1 DEF Whole, Ids, Tags, Declared
  <2>6. d.op = "accepted" => DoneBefore(d.id.of, Len(back) + 1)
    BY <2>1 DEF Whole, Outcomes
  <2> QED
    BY <2>1, <2>2, <2>3, <2>4, <2>5, <2>6
<1>12. /\ IsSeq(back') /\ Learned(own)' /\ Posted' /\ Outcomes'
       /\ (\A i \in 1 .. Len(back) : back[i].op = "declared" => TagOK(back[i].id.link, back[i].id))'
  <2>1. /\ \A e \in CtlLink : coord'[e].got.op \in {"none", "declared", "accepted", "rejected"}
        /\ \A e \in CtlLink : coord'[e].got.op = "accepted" => coord' [e] = coord[e]
    BY <1>3 DEF Whole, Outcomes
  <2> QED
    BY <1>2, <1>11, <2>1, OutcomeSent
<1>13. Kept(own)' /\ Applied(own)'
  BY <1>2, CoordinatorSame
<1>14. Tags'
  <2>1. \A e, id : TagOK(e, id)' <=> TagOK(e, id)
    BY <1>2 DEF TagOK
  <2>2. (\A k \in 1 .. Len(control) : control[k].op = "allocate" => TagOK(control[k].link, coord[control[k].link].id))'
    BY <1>2, <1>3, <1>4, <1>5, <2>1 DEF Whole, Tags
  <2>3. (\A e \in CtlLink : Declared(e) => TagOK(e, coord[e].id))'
    BY <1>3, <2>1 DEF Whole, Tags, Declared
  <2> QED
    BY <1>2, <1>12, <2>1, <2>2, <2>3 DEF Whole, Tags
<1>15. OnWire(own)'
  <2>1. \A x : Pending(own, x)' <=> Pending(own, x)
    BY <1>2, SameFrames DEF Pending
  <2> QED
    BY <1>2, <2>1, SameFrames DEF Whole, OnWire
<1>16. Typed'
  BY <1>2, <1>3, <1>12 DEF Typed
<1> QED
  BY <1>6, <1>7, <1>8, <1>9, <1>10, <1>12, <1>13, <1>14, <1>15, <1>16 DEF Whole

\* The coordinator c has taken f from its inbox and asks the session for what f demands: for
\* a declare or a discharge one request, for a detach the aborts of its transactions.
RequestEffect(own, c, f) ==
  /\ UNCHANGED <<plan, task, count, unsettled, answer, acked, wire, back, txns, issued, session, applied, asked>>
  /\ coord[c].pc = "idle" /\ inbox[c] # <<>> /\ f = Head(inbox[c]) /\ inbox' = [inbox EXCEPT ![c] = Tail(@)]
  /\ IsSeq(control') /\ Len(control') >= Len(control) /\ \A k \in 1 .. Len(control) : control'[k] = control[k]
  /\ coord' = [e \in CtlLink |-> [pc |-> coord'[e].pc, txn_ids |-> coord'[e].txn_ids,
                                  id |-> coord'[e].id, got |-> coord'[e].got]]
  /\ \A e \in CtlLink : e # c => coord'[e] = coord[e]
  /\ coord'[c].pc \in {"asking", "gone"} /\ coord'[c].got.op = "none" /\ coord'[c].txn_ids \subseteq coord[c].txn_ids
  /\ coord'[c].pc = "gone" => coord'[c].txn_ids = {}
  /\ coord'[c].pc = "asking" => f.type = "control" /\ coord'[c].id = f.id
  /\ \A k \in 1 .. Len(control') : k > Len(control) =>
       /\ control'[k].link = c /\ control'[k].op \in {"allocate", "commit", "rollback", "abort"}
       /\ Ending(control'[k]) => /\ control'[k].txn \in coord[c].txn_ids \ coord'[c].txn_ids
                                 /\ Ends(own, control'[k].txn, f)
       /\ control'[k].op # "abort" => coord'[c].pc = "asking"
       /\ control'[k].op = "allocate" => IsDeclare(f)
       /\ control'[k].op \in {"commit", "rollback"} =>
            IsDischarge(f) /\ f.op = control'[k].op /\ f.txn = control'[k].txn
       /\ control'[k].op = "abort" => f.type = "detach"
       /\ \A j \in 1 .. Len(control') : j > Len(control) =>
            /\ control'[k].op # "abort" /\ control'[j].op # "abort" => j = k
            /\ Ending(control'[k]) /\ Ending(control'[j]) /\ control'[j].txn = control'[k].txn => j = k

\* Requests of a coordinator.
LEMMA RequestWhole ==
  ASSUME NEW own, Whole(own), NEW c \in CtlLink, NEW f, RequestEffect(own, c, f)
  PROVE  Whole(own)'
<1>1. /\ UNCHANGED <<plan, task, count, unsettled, answer, acked, wire, back, txns, issued, session, applied, asked>>
      /\ coord[c].pc = "idle" /\ inbox[c] # <<>> /\ f = Head(inbox[c]) /\ inbox' = [inbox EXCEPT ![c] = Tail(@)]
      /\ Typed
  BY DEF RequestEffect, Whole
<1>2. /\ \A e \in CtlLink : e # c => coord'[e] = coord[e]
      /\ coord'[c].pc \in {"asking", "gone"} /\ coord'[c].got.op = "none" /\ coord'[c].txn_ids \subseteq coord[c].txn_ids
      /\ coord'[c].pc = "gone" => coord'[c].txn_ids = {}
      /\ coord'[c].pc = "asking" => f.type = "control" /\ coord'[c].id = f.id
  BY DEF RequestEffect
<1>3. /\ f = inbox[c][1] /\ 1 \in 1 .. Len(inbox[c])
      /\ inbox' = [e \in CtlLink |-> inbox'[e]] /\ \A e \in CtlLink : IsSeq(inbox'[e])
      /\ \A e \in CtlLink : e # c => inbox'[e] = inbox[e]
      /\ \A i \in 1 .. Len(inbox'[c]) : /\ i + 1 \in 1 .. Len(inbox[c]) /\ inbox'[c][i] = inbox[c][i + 1] /\ i + 1 # 1
  BY <1>1, InboxTaken
<1>4. Len(control) \in Nat /\ Len(control') \in Nat /\ IsSeq(control')
  BY <1>1, Lengths DEF Typed, RequestEffect
<1>5. /\ \A k \in 1 .. Len(control') : (k \in 1 .. Len(control) /\ control'[k] = control[k]) \/ k > Len(control)
      /\ \A k \in 1 .. Len(control) : k \in 1 .. Len(control') /\ control'[k] = control[k] /\ ~(k > Len(control))
  BY <1>4 DEF RequestEffect
<1>6. \A k \in 1 .. Len(control) : control[k].link \in CtlLink /\ (control[k].op # "abort" => control[k].link # c)
  BY <1>1 DEF Whole, Requests
<1>7. Typed'
  BY <1>1, <1>3, <1>4 DEF Typed, RequestEffect
<1>8. FrameOK(own, f) /\ f.type \in {"control", "detach"} /\ f.link = c
  BY <1>3 DEF Whole, Asked, Routed
<1>9. Requests'
  <2>1. ASSUME NEW k \in 1 .. Len(control')
        PROVE  /\ control'[k].link \in CtlLink /\ control'[k].op \in {"allocate", "commit", "rollback", "abort"}
               /\ control'[k].op # "abort" =>
                    /\ coord'[control'[k].link].pc = "asking"
                    /\ \A j \in 1 .. Len(control') :
                         control'[j].op # "abort" /\ control'[j].link = control'[k].link => j = k
    <3>1. CASE k \in 1 .. Len(control) /\ control'[k] = control[k]
      <4>1. /\ control[k].op \in {"allocate", "commit", "rollback", "abort"} /\ control[k].link \in CtlLink
            /\ control[k].op # "abort" =>
                    /\ coord[control[k].link].pc = "asking"
                    /\ \A j \in 1 .. Len(control) :
                         control[j].op # "abort" /\ control[j].link = control[k].link => j = k
        BY <3>1 DEF Whole, Requests
      <4>2. ASSUME control[k].op # "abort", NEW j \in 1 .. Len(control'), control'[j].op # "abort",
                   control'[j].link = control[k].link
            PROVE  j = k
        <5>1. control[k].link # c
          BY <1>6, <3>1, <4>2
        <5>2. ~(j > Len(control))
          BY <4>2, <5>1 DEF RequestEffect
        <5> QED
          BY <1>5, <4>1, <4>2, <5>2
      <4>3. control[k].op # "abort" => coord'[control[k].link].pc = "asking"
        BY <1>2, <1>6, <3>1, <4>1
      <4> QED
        BY <3>1, <4>1, <4>2, <4>3
    <3>2. CASE k > Len(control)
      <4>1. /\ control'[k].link = c /\ control'[k].op \in {"allocate", "commit", "rollback", "abort"}
            /\ control'[k].op # "abort" => coord'[c].pc = "asking"
            /\ \A j \in 1 .. Len(control') : j > Len(control) =>
                 (control'[k].op # "abort" /\ control'[j].op # "abort" => j = k)
        BY <3>2 DEF RequestEffect
      <4>2. ASSUME control'[k].op # "abort", NEW j \in 1 .. Len(control'), control'[j].op # "abort", control'[j].link = c
            PROVE  j = k
        <5>1. CASE j > Len(control)
          BY <4>1, <4>2, <5>1
        <5>2. CASE j \in 1 .. Len(control) /\ control'[j] = control[j]
          BY <1>6, <4>2, <5>2
        <5> QED
          BY <1>5, <5>1, <5>2
      <4> QED
        BY <4>1, <4>2
    <3> QED
      BY <1>5, <3>1, <3>2
  <2>2. (\A e \in CtlLink : /\ coord[e].pc \in {"idle", "asking", "gone"} => coord[e].got.op = "none"
                            /\ coord[e].pc = "answered" => coord[e].got.op # "none")'
    <3>1. ASSUME NEW e \in CtlLink
          PROVE  /\ coord'[e].pc \in {"idle", "asking", "gone"} => coord'[e].got.op = "none"
                 /\ coord'[e].pc = "answered" => coord'[e].got.op # "none"
      <4>1. CASE e = c
        BY <1>2, <4>1
      <4>2. CASE e # c
        BY <1>2, <4>2 DEF Whole, Requests
      <4> QED
        BY <4>1, <4>2
    <3> QED
      BY <3>1
  <2> QED
    BY <2>1, <2>2 DEF Requests
<1>10. Ids(own)'
  <2>1. \A t : Ctl(t)' = Ctl(t)
    BY <1>1 DEF Ctl
  <2>2. /\ own \in [1 .. issued -> Txn] /\ \A x, y \in 1 .. issued : own[x] = own[y] => x = y
        /\ \A x \in 1 .. issued : task[own[x]].pc # "idle"
    BY DEF Whole, Ids
  <2>3. (\A e \in CtlLink :
                /\ coord[e].txn_ids \subseteq 1 .. issued
                /\ \A x \in coord[e].txn_ids : Ctl(own[x]) = e
                /\ Declared(e) =>
                     /\ coord[e].pc = "answered" /\ coord[e].got = [op |-> "declared", txn |-> coord[e].got.txn]
                     /\ coord[e].got.txn \in 1 .. issued /\ Ctl(own[coord[e].got.txn]) = e
                     /\ own[coord[e].got.txn] = coord[e].id.of
                     /\ coord[e].got.txn \notin coord[e].txn_ids
                /\ coord[e].pc = "gone" => coord[e].txn_ids = {})'
    <3>1. ASSUME NEW e \in CtlLink
        PROVE  (/\ coord[e].txn_ids \subseteq 1 .. issued
                /\ \A x \in coord[e].txn_ids : Ctl(own[x]) = e
                /\ Declared(e) =>
                     /\ coord[e].pc = "answered" /\ coord[e].got = [op |-> "declared", txn |-> coord[e].got.txn]
                     /\ coord[e].got.txn \in 1 .. issued /\ Ctl(own[coord[e].got.txn]) = e
                     /\ own[coord[e].got.txn] = coord[e].id.of
                     /\ coord[e].got.txn \notin coord[e].txn_ids
                /\ coord[e].pc = "gone" => coord[e].txn_ids = {})'
      <4>1. CASE e = c
        <5>1. \A x \in coord'[c].txn_ids : x \in 1 .. issued /\ Ctl(own[x]) = c
          BY <1>2 DEF Whole, Ids
        <5> QED
          BY <1>1, <1>2, <2>1, <4>1, <5>1 DEF Declared
      <4>2. CASE e # c
        BY <1>1, <1>2, <2>1, <4>2 DEF Whole, Ids, Declared
      <4> QED
        BY <4>1, <4>2
    <3> QED
      BY <3>1
  <2>4. \A k \in 1 .. Len(control) : Ending(control[k]) =>
          /\ control[k].txn \in 1 .. issued /\ Ctl(own[control[k].txn]) = control[k].link
          /\ \A j \in 1 .. Len(control) : Ending(control[j]) /\ control[j].txn = control[k].txn => j = k
          /\ control[k].txn \notin coord[control[k].link].txn_ids
          /\ Declared(control[k].link) => coord[control[k].link].got.txn # control[k].txn
    BY DEF Whole, Ids
  <2>5. ASSUME NEW k \in 1 .. Len(control'), k > Len(control), Ending(control'[k])
        PROVE  /\ control'[k].link = c /\ control'[k].txn \in 1 .. issued /\ Ctl(own[control'[k].txn]) = c
               /\ control'[k].txn \notin coord'[c].txn_ids
               /\ \A j \in 1 .. Len(control') : Ending(control'[j]) /\ control'[j].txn = control'[k].txn => j = k
    <3>1. /\ control'[k].link = c /\ control'[k].txn \in coord[c].txn_ids /\ control'[k].txn \notin coord'[c].txn_ids
          /\ \A j \in 1 .. Len(control') : j > Len(control) =>
               (Ending(control'[k]) /\ Ending(control'[j]) /\ control'[j].txn = control'[k].txn => j = k)
      BY <2>5 DEF RequestEffect
    <3>2. control'[k].txn \in 1 .. issued /\ Ctl(own[control'[k].txn]) = c
      BY <3>1 DEF Whole, Ids
    <3>3. ASSUME NEW j \in 1 .. Len(control), Ending(control[j]), control[j].txn = control'[k].txn
          PROVE  FALSE
      <4>1. control[j].link = c /\ control[j].txn \notin coord[c].txn_ids
        BY <2>4, <3>2, <3>3
      <4> QED
        BY <3>1, <3>3, <4>1
    <3>4. ASSUME NEW j \in 1 .. Len(control'), Ending(control'[j]), control'[j].txn = control'[k].txn PROVE j = k
      <4>1. CASE j > Len(control)
        BY <2>5, <3>1, <3>4, <4>1
      <4>2. CASE j \in 1 .. Len(control) /\ control'[j] = control[j]
        BY <3>3, <3>4, <4>2
      <4> QED
        BY <1>5, <4>1, <4>2
    <3> QED
      BY <3>1, <3>2, <3>4
  <2>6. ASSUME NEW k \in 1 .. Len(control), Ending(control[k])
        PROVE  /\ control[k].txn \in 1 .. issued /\ Ctl(own[control[k].txn]) = control[k].link
               /\ control[k].txn \notin coord'[control[k].link].txn_ids
               /\ \A j \in 1 .. Len(control') : Ending(control'[j]) /\ control'[j].txn = control[k].txn => j = k
               /\ coord'[control[k].link].got.op = "declared" => coord'[control[k].link].got.txn # control[k].txn
    <3>1. control[k].txn \notin coord'[control[k].link].txn_ids
      BY <1>2, <1>6, <2>4, <2>6
    <3>2. coord'[control[k].link].got.op = "declared" => coord'[control[k].link].got.txn # control[k].txn
      BY <1>2, <1>6, <2>4, <2>6 DEF Declared
    <3>3. ASSUME NEW j \in 1 .. Len(control'), Ending(control'[j]), control'[j].txn = control[k].txn PROVE j = k
      <4>1. CASE j > Len(control)
        <5>1. k \in 1 .. Len(control') /\ control'[k] = control[k] /\ Ending(control'[k])
          BY <1>5, <2>6
        <5> QED
          BY <2>5, <3>3, <4>1, <5>1
      <4>2. CASE j \in 1 .. Len(control) /\ control'[j] = control[j]
        BY <2>4, <2>6, <3>3, <4>2
      <4> QED
        BY <1>5, <4>1, <4>2
    <3> QED
      BY <2>4, <2>6, <3>1, <3>2, <3>3
  <2>7. ASSUME NEW k \in 1 .. Len(control'), Ending(control'[k])
        PROVE  (/\ control[k].txn \in 1 .. issued /\ Ctl(own[control[k].txn]) = control[k].link
                /\ \A j \in 1 .. Len(control) : Ending(control[j]) /\ control[j].txn = control[k].txn => j = k
                /\ control[k].txn \notin coord[control[k].link].txn_ids
                /\ Declared(control[k].link) => coord[control[k].link].got.txn # control[k].txn)'
    <3>1. CASE k > Len(control)
      BY <1>1, <1>2, <2>1, <2>5, <2>7, <3>1 DEF Declared
    <3>2. CASE k \in 1 .. Len(control) /\ control'[k] = control[k]
      BY <1>1, <2>1, <2>6, <2>7, <3>2 DEF Declared
    <3> QED
      BY <1>5, <3>1, <3>2
  <2>8. (\A k \in 1 .. Len(control) : Ending(control[k]) =>
                /\ control[k].txn \in 1 .. issued /\ Ctl(own[control[k].txn]) = control[k].link
                /\ \A j \in 1 .. Len(control) : Ending(control[j]) /\ control[j].txn = control[k].txn => j = k
                /\ control[k].txn \notin coord[control[k].link].txn_ids
                /\ Declared(control[k].link) => coord[control[k].link].got.txn # control[k].txn)'
    BY <2>7
  <2> QED
    BY <1>1, <2>2, <2>3, <2>8 DEF Ids
<1>11. /\ Routed' /\ (\A e \in CtlLink : Single(inbox[e]))'
       /\ (\A e \in CtlLink : \A i \in 1 .. Len(inbox[e]) : IsDeclare(inbox[e][i]) =>
             /\ DeclareOK(own, e, inbox[e][i].id)
             /\ \A j \in 1 .. Len(wire) : IsDeclare(wire[j]) => wire[j].id.of # inbox[e][i].id.of)'
       /\ (\A e \in CtlLink : \A i \in 1 .. Len(inbox[e]) : FrameOK(own, inbox[e][i]))'
       /\ (\A e \in CtlLink : \A i \in 1 .. Len(inbox[e]) : IsDeclare(inbox[e][i]) => TagOK(e, inbox[e][i].id))'
       /\ \A x : \A e \in CtlLink : (\A k \in 1 .. Len(inbox[e]) : ~Ends(own, x, inbox[e][k])) =>
            (\A k \in 1 .. Len(inbox[e]) : ~Ends(own, x, inbox[e][k]))'
  BY <1>1, InboxKept
<1>12. /\ Kept(own)' /\ Applied(own)' /\ Single(wire)'
       /\ (\A i \in 1 .. Len(wire) : IsDeclare(wire[i]) => DeclareOK(own, wire[i].link, wire[i].id))'
       /\ (\A i \in 1 .. Len(wire) : FrameOK(own, wire[i]))'
       /\ (\A i \in 1 .. Len(wire) : IsDeclare(wire[i]) => TagOK(wire[i].link, wire[i].id))'
       /\ \A e, id : TagOK(e, id)' <=> TagOK(e, id)
  BY <1>1, CoordinatorSame
<1>13. Declares(own)'
  <2>1. \A e, id : DeclareOK(own, e, id)' <=> DeclareOK(own, e, id)
    BY <1>1, SameFrames
  <2>2. ASSUME NEW k \in 1 .. Len(control'), control'[k].op = "allocate", NEW e, e = control'[k].link
        PROVE  /\ DeclareOK(own, e, coord[e].id)'
               /\ \A j \in 1 .. Len(wire) : IsDeclare(wire[j]) => wire[j].id.of # coord'[e].id.of
               /\ \A i \in 1 .. Len(inbox'[e]) : IsDeclare(inbox'[e][i]) => inbox'[e][i].id.of # coord'[e].id.of
    <3>1. CASE k \in 1 .. Len(control) /\ control'[k] = control[k]
      <4>1. e \in CtlLink /\ e # c /\ coord'[e] = coord[e] /\ inbox'[e] = inbox[e]
        BY <1>2, <1>3, <1>6, <2>2, <3>1
      <4>2. /\ DeclareOK(own, e, coord[e].id)
            /\ \A j \in 1 .. Len(wire) : IsDeclare(wire[j]) => wire[j].id.of # coord[e].id.of
            /\ \A i \in 1 .. Len(inbox[e]) : IsDeclare(inbox[e][i]) => inbox[e][i].id.of # coord[e].id.of
        BY <2>2, <3>1 DEF Whole, Declares
      <4> QED
        BY <2>1, <4>1, <4>2
    <3>2. CASE k > Len(control)
      <4>1. e = c /\ IsDeclare(f) /\ coord'[c].id = f.id
        BY <1>2, <2>2, <3>2 DEF RequestEffect
      <4>2. /\ DeclareOK(own, c, f.id)
            /\ \A j \in 1 .. Len(wire) : IsDeclare(wire[j]) => wire[j].id.of # f.id.of
        BY <1>3, <4>1 DEF Whole, Declares
      <4>3. Single(inbox[c])
        BY DEF Whole, Declares
      <4>4. \A i \in 1 .. Len(inbox'[c]) : IsDeclare(inbox'[c][i]) => inbox'[c][i].id.of # f.id.of
        BY <1>3, <4>1, <4>3 DEF Single
      <4> QED
        BY <2>1, <4>1, <4>2, <4>4
    <3> QED
      BY <1>5, <3>1, <3>2
  <2>3. (\A k \in 1 .. Len(control) : control[k].op = "allocate" =>
       LET e == control[k].link IN
       /\ DeclareOK(own, e, coord[e].id)
       /\ \A j \in 1 .. Len(wire) : IsDeclare(wire[j]) => wire[j].id.of # coord[e].id.of
       /\ \A i \in 1 .. Len(inbox[e]) : IsDeclare(inbox[e][i]) => inbox[e][i].id.of # coord[e].id.of)'
    BY <1>1, <2>2
  <2> QED
    BY <1>11, <1>12, <2>3 DEF Declares
<1>14. Asked(own)'
  <2>1. (\A e \in CtlLink : coord[e].pc \in {"asking", "answered"} => MsgOK(e, coord[e].id))'
    <3>1. f.type = "control" => MsgOK(c, f.id)
      BY <1>8 DEF FrameOK
    <3>2. \A e, id : MsgOK(e, id)' <=> MsgOK(e, id)
      BY <1>1, SameFrames
    <3> QED
      BY <1>2, <3>1, <3>2 DEF Whole, Asked
  <2>2. ASSUME NEW k \in 1 .. Len(control'), control'[k].op \in {"commit", "rollback"}
        PROVE  DischargeOK(own, coord[control[k].link].id, control[k].op, control[k].txn)'
    <3>1. PICK id, op, x : id = coord'[control'[k].link].id /\ op = control'[k].op /\ x = control'[k].txn
      OBVIOUS
    <3>2. DischargeOK(own, id, op, x)
      <4>1. CASE k \in 1 .. Len(control) /\ control'[k] = control[k]
        <5>1. coord'[control[k].link] = coord[control[k].link]
          BY <1>2, <1>6, <2>2, <4>1
        <5> QED
          BY <2>2, <3>1, <4>1, <5>1 DEF Whole, Asked
      <4>2. CASE k > Len(control)
        <5>1. /\ IsDischarge(f) /\ f.op = op /\ f.txn = x /\ id = f.id
          BY <1>2, <2>2, <3>1, <4>2 DEF RequestEffect
        <5> QED
          BY <1>8, <5>1 DEF FrameOK
      <4> QED
        BY <1>5, <4>1, <4>2
    <3>3. DischargeOK(own, id, op, x)'
      BY <1>1, <3>2, SameFrames
    <3> QED
      BY <3>1, <3>3
  <2>3. ASSUME NEW k \in 1 .. Len(control'), control'[k].op = "abort"
        PROVE  task[own[control'[k].txn]].pc \in Final
    <3>1. CASE k \in 1 .. Len(control) /\ control'[k] = control[k]
      BY <2>3, <3>1 DEF Whole, Asked
    <3>2. CASE k > Len(control)
      <4>1. f.type = "detach" /\ control'[k].txn \in coord[c].txn_ids
        BY <2>3, <3>2 DEF RequestEffect, Ending
      <4>2. Left(c)
        BY <1>8, <4>1 DEF FrameOK
      <4>3. own[control'[k].txn] \in Txn /\ Ctl(own[control'[k].txn]) = c
        BY <4>1 DEF Whole, Ids
      <4> QED
        BY <4>2, <4>3 DEF Left
    <3> QED
      BY <1>5, <3>1, <3>2
  <2>4. (\A k \in 1 .. Len(control) :
       /\ control[k].op \in {"commit", "rollback"} =>
            DischargeOK(own, coord[control[k].link].id, control[k].op, control[k].txn)
       /\ control[k].op = "abort" => task[own[control[k].txn]].pc \in Final)'
    BY <1>1, <2>2, <2>3
  <2>5. (\A x \in asked :
       /\ x \in 1 .. issued /\ task[own[x]].txn = x
       /\ task[own[x]].pc \notin Undischarged \cup {"rolling", "rolledback"})'
    BY <1>1 DEF Whole, Asked
  <2> QED
    BY <1>11, <1>12, <2>1, <2>4, <2>5 DEF Asked
<1>15. /\ Learned(own)' /\ Posted' /\ Outcomes'
       /\ (\A i \in 1 .. Len(back) : back[i].op = "declared" => TagOK(back[i].id.link, back[i].id))'
  <2>1. /\ \A e \in CtlLink : coord'[e].got.op \in {"none", "declared", "accepted", "rejected"}
        /\ \A e \in CtlLink : coord'[e].got.op = "accepted" => coord' [e] = coord[e]
    BY <1>2 DEF Whole, Outcomes
  <2> QED
    BY <1>1, <2>1, OutcomesSame
<1>16. Tags'
  <2>1. ASSUME NEW k \in 1 .. Len(control'), control'[k].op = "allocate", NEW e, e = control'[k].link
        PROVE  TagOK(e, coord'[e].id)
    <3>1. CASE k \in 1 .. Len(control) /\ control'[k] = control[k]
      <4>1. coord'[e] = coord[e]
        BY <1>2, <1>6, <2>1, <3>1
      <4> QED
        BY <2>1, <3>1, <4>1 DEF Whole, Tags
    <3>2. CASE k > Len(control)
      <4>1. e = c /\ IsDeclare(f) /\ coord'[c].id = f.id
        BY <1>2, <2>1, <3>2 DEF RequestEffect
      <4> QED
        BY <1>3, <4>1 DEF Whole, Tags
    <3> QED
      BY <1>5, <3>1, <3>2
  <2>2. (\A k \in 1 .. Len(control) : control[k].op = "allocate" => TagOK(control[k].link, coord[control[k].link].id))'
    <3>1. ASSUME NEW k \in 1 .. Len(control'), control'[k].op = "allocate"
          PROVE  TagOK(control[k].link, coord[control[k].link].id)'
      <4>1. PICK e, id : e = control'[k].link /\ id = coord'[e].id
        OBVIOUS
      <4>2. TagOK(e, id)
        BY <2>1, <3>1, <4>1
      <4>3. TagOK(e, id)'
        BY <1>12, <4>2
      <4> QED
        BY <4>1, <4>3
    <3> QED
      BY <3>1
  <2>3. (\A e \in CtlLink : Declared(e) => TagOK(e, coord[e].id))'
    BY <1>2, <1>12 DEF Whole, Tags, Declared
  <2> QED
    BY <1>11, <1>12, <1>15, <2>2, <2>3 DEF Tags
<1>17. OnWire(own)'
  <2>1. ASSUME NEW x, Pending(own, x) PROVE Pending(own, x)'
    <3>1. ~Ends(own, x, f)
      BY <1>3, <2>1 DEF Pending
    <3>2. ASSUME NEW k \in 1 .. Len(control'), Ending(control'[k]) PROVE control'[k].txn # x
      <4>1. CASE k \in 1 .. Len(control) /\ control'[k] = control[k]
        BY <2>1, <3>2, <4>1 DEF Pending
      <4>2. CASE k > Len(control)
        BY <3>1, <3>2, <4>2 DEF RequestEffect
      <4> QED
        BY <1>5, <4>1, <4>2
    <3>3. (\A e \in CtlLink : \A k \in 1 .. Len(inbox[e]) : ~Ends(own, x, inbox[e][k]))'
      BY <1>11, <2>1 DEF Pending
    <3> QED
      BY <1>1, <2>1, <3>2, <3>3 DEF Pending
  <2> QED
    BY <1>1, <2>1, SameFrames DEF Whole, OnWire
<1> QED
  BY <1>7, <1>9, <1>10, <1>11, <1>12, <1>13, <1>14, <1>15, <1>16, <1>17 DEF Whole

\* What the coordinator c asks the session for when it is sent f.
Demands(c, f, op) ==
  \/ f.op = "declare" /\ op = "allocate"
  \/ f.op \in {"commit", "rollback"} /\ op = f.op /\ f.txn \in coord[c].txn_ids

\* TxnCoordinator::on_delivery, which asks the session.
LEMMA AskFacts ==
  ASSUME NEW own, Whole(own), NEW c \in CtlLink, NEW f, f = Head(inbox[c]), inbox[c] # <<>>,
         coord[c].pc = "idle", f.type = "control", inbox' = [inbox EXCEPT ![c] = Tail(@)],
         NEW op, Ask(c, f, op), Demands(c, f, op),
         UNCHANGED <<plan, app, wire, txns, issued, attached, session, applied, asked>>
  PROVE  /\ RequestEffect(own, c, f) /\ Len(control') = Len(control) + 1 /\ Len(control) \in Nat
         /\ control'[Len(control) + 1].op = op /\ control'[Len(control) + 1].txn = f.txn
         /\ coord'[c].txn_ids = coord[c].txn_ids \ {f.txn}
<1>1. PICK m : m = [op |-> op, link |-> c, txn |-> f.txn]
  OBVIOUS
<1>2. m.op = op /\ m.link = c /\ m.txn = f.txn
  BY <1>1
<1>3. /\ control' = Append(control, m) /\ back' = back /\ Typed
      /\ coord' = [coord EXCEPT ![c].pc = "asking", ![c].id = f.id, ![c].txn_ids = @ \ {f.txn}]
  BY <1>1 DEF Ask, Whole
<1>4. UNCHANGED <<plan, task, count, unsettled, answer, acked, wire, back, txns, issued, session, applied, asked>>
  BY <1>3 DEF app
<1>5. /\ IsSeq(control') /\ Len(control) \in Nat /\ Len(control') = Len(control) + 1 /\ control'[Len(control) + 1] = m
      /\ \A k \in 1 .. Len(control) : control'[k] = control[k]
  BY <1>3, Added DEF Typed
<1>6. \A k \in 1 .. Len(control') : k > Len(control) => k = Len(control) + 1 /\ control'[k] = m
  BY SMTT(30), <1>5
<1>7. /\ coord' = [e \in CtlLink |-> [pc |-> coord'[e].pc, txn_ids |-> coord'[e].txn_ids,
                                  id |-> coord'[e].id, got |-> coord'[e].got]]
      /\ \A e \in CtlLink : e # c => coord'[e] = coord[e]
      /\ coord'[c].pc = "asking" /\ coord'[c].id = f.id /\ coord'[c].got = coord[c].got
      /\ coord'[c].txn_ids = coord[c].txn_ids \ {f.txn}
  <2>1. coord = [e \in CtlLink |-> [pc |-> coord[e].pc, txn_ids |-> coord[e].txn_ids,
                                    id |-> coord[e].id, got |-> coord[e].got]]
    BY <1>3 DEF Typed
  <2>2. PICK w, v : w = coord[c] /\ v = [w EXCEPT !.pc = "asking", !.id = f.id, !.txn_ids = @ \ {f.txn}]
    OBVIOUS
  <2>3. w = [pc |-> w.pc, txn_ids |-> w.txn_ids, id |-> w.id, got |-> w.got]
    BY <2>1, <2>2
  <2>4. /\ v = [pc |-> v.pc, txn_ids |-> v.txn_ids, id |-> v.id, got |-> v.got]
        /\ v.pc = "asking" /\ v.id = f.id /\ v.got = w.got /\ v.txn_ids = w.txn_ids \ {f.txn}
    BY <2>2, <2>3
  <2>5. coord' = [coord EXCEPT ![c] = v]
    BY <1>3, <2>1, <2>2
  <2> QED
    BY ZenonT(60), <2>1, <2>2, <2>4, <2>5
<1>8. coord[c].got.op = "none"
  BY DEF Whole, Requests
<1>9. /\ op = "allocate" => IsDeclare(f)
      /\ op # "allocate" => IsDischarge(f) /\ f.op = op /\ f.txn \in coord[c].txn_ids /\ Ends(own, f.txn, f)
      /\ op \in {"allocate", "commit", "rollback"}
  BY DEF Demands, IsDeclare, IsDischarge, Ends
<1>10. \A k \in 1 .. Len(control') : k > Len(control) =>
       /\ control'[k].link = c /\ control'[k].op \in {"allocate", "commit", "rollback", "abort"}
       /\ Ending(control'[k]) => /\ control'[k].txn \in coord[c].txn_ids \ coord'[c].txn_ids
                                 /\ Ends(own, control'[k].txn, f)
       /\ control'[k].op # "abort" => coord'[c].pc = "asking"
       /\ control'[k].op = "allocate" => IsDeclare(f)
       /\ control'[k].op \in {"commit", "rollback"} =>
            IsDischarge(f) /\ f.op = control'[k].op /\ f.txn = control'[k].txn
       /\ control'[k].op = "abort" => f.type = "detach"
  BY <1>2, <1>6, <1>7, <1>9 DEF Ending
<1>11. \A k, j \in 1 .. Len(control') : k > Len(control) /\ j > Len(control) => j = k
  BY <1>6
<1>12. Len(control') >= Len(control)
  BY <1>5
<1>13. RequestEffect(own, c, f)
  BY <1>4, <1>5, <1>7, <1>8, <1>10, <1>11, <1>12 DEF RequestEffect
<1> QED
  BY <1>2, <1>5, <1>7, <1>13

\* What OnDelivery does: it asks or refuses.
LEMMA OnDeliveryCases ==
  ASSUME NEW own, Whole(own), NEW c \in CtlLink, OnDelivery(c)
  PROVE  \/ \E f : /\ RequestEffect(own, c, f) /\ f.type = "control" /\ Len(control') = Len(control) + 1 /\ Len(control) \in Nat
                   /\ coord'[c].txn_ids = coord[c].txn_ids \ {f.txn}
                   /\ IsDeclare(f) \/ (Ending(control'[Len(control) + 1]) /\ control'[Len(control) + 1].txn = f.txn)
         \/ \E f : /\ f = Head(inbox[c]) /\ f.type = "control" /\ Disposed(f.id, "rejected", f.txn)
                   /\ inbox[c] # <<>> /\ inbox' = [inbox EXCEPT ![c] = Tail(@)]
                   /\ UNCHANGED <<plan, app, wire, txns, issued, session, applied, asked, control, coord>>
<1>1. PICK f : f = Head(inbox[c])
  OBVIOUS
<1>2. /\ coord[c].pc = "idle" /\ inbox[c] # <<>> /\ f.type = "control"
      /\ inbox' = [inbox EXCEPT ![c] = Tail(@)]
      /\ UNCHANGED <<plan, app, wire, txns, issued, attached, session, applied, asked>>
  BY <1>1 DEF OnDelivery
<1>3. \/ f.op = "declare" /\ Ask(c, f, "allocate")
      \/ f.op = "global" /\ Disposed(f.id, "rejected", f.txn) /\ UNCHANGED <<control, coord>>
      \/ f.op \in {"commit", "rollback"} /\ f.txn \in coord[c].txn_ids /\ Ask(c, f, f.op)
      \/ /\ f.op \in {"commit", "rollback"} /\ f.txn \notin coord[c].txn_ids
         /\ Disposed(f.id, "rejected", f.txn) /\ UNCHANGED <<control, coord>>
  BY <1>1 DEF OnDelivery
<1>4. CASE Disposed(f.id, "rejected", f.txn) /\ UNCHANGED <<control, coord>>
  BY <1>1, <1>2, <1>4
<1>5. CASE f.op = "declare" /\ Ask(c, f, "allocate")
  <2>1. PICK op : op = "allocate"
    OBVIOUS
  <2>2. /\ RequestEffect(own, c, f) /\ Len(control') = Len(control) + 1 /\ Len(control) \in Nat
        /\ coord'[c].txn_ids = coord[c].txn_ids \ {f.txn}
    <3>1. Ask(c, f, op) /\ Demands(c, f, op)
      BY <1>5, <2>1 DEF Demands
    <3> QED
      BY <1>1, <1>2, <3>1, AskFacts
  <2>3. IsDeclare(f)
    BY <1>2, <1>5 DEF IsDeclare
  <2> QED
    BY <1>2, <2>2, <2>3
<1>6. CASE f.op \in {"commit", "rollback"} /\ f.txn \in coord[c].txn_ids /\ Ask(c, f, f.op)
  <2>1. PICK op : op = f.op
    OBVIOUS
  <2>2. /\ RequestEffect(own, c, f) /\ Len(control') = Len(control) + 1 /\ Len(control) \in Nat
        /\ coord'[c].txn_ids = coord[c].txn_ids \ {f.txn}
        /\ control'[Len(control) + 1].op = op /\ control'[Len(control) + 1].txn = f.txn
    <3>1. Ask(c, f, op) /\ Demands(c, f, op)
      BY <1>6, <2>1 DEF Demands
    <3> QED
      BY <1>1, <1>2, <3>1, AskFacts
  <2>3. Ending(control'[Len(control) + 1]) /\ control'[Len(control) + 1].txn = f.txn
    BY <1>6, <2>1, <2>2 DEF Ending
  <2> QED
    BY <1>2, <2>2, <2>3
<1> QED
  BY <1>3, <1>4, <1>5, <1>6

\* TxnCoordinator::on_delivery
LEMMA OnDeliveryWhole ==
  ASSUME NEW own, Whole(own), NEW c \in CtlLink, OnDelivery(c)
  PROVE  Whole(own)'
<1>1. CASE \E f : RequestEffect(own, c, f)
  BY <1>1, RequestWhole
<1>2. ASSUME NEW f, f = Head(inbox[c]), f.type = "control", Disposed(f.id, "rejected", f.txn),
             inbox[c] # <<>>, inbox' = [inbox EXCEPT ![c] = Tail(@)],
             UNCHANGED <<plan, app, wire, txns, issued, session, applied, asked, control, coord>>
      PROVE  Whole(own)'
  <2>1. PICK d : d = [id |-> f.id, op |-> "rejected", txn |-> f.txn]
    OBVIOUS
  <2>2. /\ back' = Append(back, d) /\ d.op = "rejected" /\ d.id = f.id /\ Typed
        /\ UNCHANGED <<plan, task, count, unsettled, answer, acked, wire, txns, issued, session, applied, asked, control, coord>>
    BY <1>2, <2>1 DEF Disposed, app, Whole
  <2>3. /\ f = inbox[c][1] /\ 1 \in 1 .. Len(inbox[c])
        /\ inbox' = [e \in CtlLink |-> inbox'[e]] /\ \A e \in CtlLink : IsSeq(inbox'[e])
        /\ \A e \in CtlLink : \A i \in 1 .. Len(inbox'[e]) : \E j \in 1 .. Len(inbox[e]) : inbox'[e][i] = inbox[e][j]
    BY <1>2, <2>2, InboxTaken
  <2>4. FrameOK(own, f) /\ f.link = c
    BY <2>3 DEF Whole, Asked, Routed
  <2>5. MsgOK(c, d.id)
    BY <1>2, <2>2, <2>4 DEF FrameOK
  <2>6. d.id.link = c
    BY <2>5 DEF MsgOK
  <2>7. /\ IsSeq(back') /\ Learned(own)' /\ Posted' /\ Outcomes'
        /\ (\A i \in 1 .. Len(back) : back[i].op = "declared" => TagOK(back[i].id.link, back[i].id))'
    <3>1. /\ \A e \in CtlLink : coord'[e].got.op \in {"none", "declared", "accepted", "rejected"}
          /\ \A e \in CtlLink : coord'[e].got.op = "accepted" => coord' [e] = coord[e]
      BY <2>2 DEF Whole, Outcomes
    <3>2. d.op \in {"declared", "accepted", "rejected"} /\ d.op # "declared" /\ d.op # "accepted"
      BY <2>2
    <3>3. d.id.link \in CtlLink /\ MsgOK(d.id.link, d.id)
      BY <2>5, <2>6
    <3> QED
      BY <2>2, <3>1, <3>2, <3>3, OutcomeSent
  <2>8. /\ Routed' /\ (\A e \in CtlLink : Single(inbox[e]))'
        /\ (\A e \in CtlLink : \A i \in 1 .. Len(inbox[e]) : IsDeclare(inbox[e][i]) =>
              /\ DeclareOK(own, e, inbox[e][i].id)
              /\ \A j \in 1 .. Len(wire) : IsDeclare(wire[j]) => wire[j].id.of # inbox[e][i].id.of)'
        /\ (\A e \in CtlLink : \A i \in 1 .. Len(inbox[e]) : FrameOK(own, inbox[e][i]))'
        /\ (\A e \in CtlLink : \A i \in 1 .. Len(inbox[e]) : IsDeclare(inbox[e][i]) => TagOK(e, inbox[e][i].id))'
        /\ \A x : \A e \in CtlLink : (\A k \in 1 .. Len(inbox[e]) : ~Ends(own, x, inbox[e][k])) =>
             (\A k \in 1 .. Len(inbox[e]) : ~Ends(own, x, inbox[e][k]))'
    BY <1>2, <2>2, InboxKept
  <2>9. /\ Kept(own)' /\ Applied(own)' /\ Single(wire)'
        /\ (\A i \in 1 .. Len(wire) : IsDeclare(wire[i]) => DeclareOK(own, wire[i].link, wire[i].id))'
        /\ (\A i \in 1 .. Len(wire) : FrameOK(own, wire[i]))'
        /\ (\A i \in 1 .. Len(wire) : IsDeclare(wire[i]) => TagOK(wire[i].link, wire[i].id))'
        /\ \A e, id : TagOK(e, id)' <=> TagOK(e, id)
    BY <2>2, CoordinatorSame
  <2>10. Ids(own)' /\ Requests'
    BY <2>2 DEF Whole, Ids, Declared, Ending, Ctl, Requests
  <2>11. Declares(own)'
    <3>1. \A e, id : DeclareOK(own, e, id)' <=> DeclareOK(own, e, id)
      BY <2>2, SameFrames
    <3>2. ASSUME NEW k \in 1 .. Len(control), control[k].op = "allocate", NEW e, e = control[k].link
          PROVE  /\ DeclareOK(own, e, coord[e].id)
                 /\ \A j \in 1 .. Len(wire) : IsDeclare(wire[j]) => wire[j].id.of # coord[e].id.of
                 /\ \A i \in 1 .. Len(inbox'[e]) : IsDeclare(inbox'[e][i]) => inbox'[e][i].id.of # coord[e].id.of
      <4>1. e \in CtlLink
        BY <3>2 DEF Whole, Requests
      <4>2. /\ DeclareOK(own, e, coord[e].id)
            /\ \A j \in 1 .. Len(wire) : IsDeclare(wire[j]) => wire[j].id.of # coord[e].id.of
            /\ \A i \in 1 .. Len(inbox[e]) : IsDeclare(inbox[e][i]) => inbox[e][i].id.of # coord[e].id.of
        BY <3>2 DEF Whole, Declares
      <4> QED
        BY <2>3, <4>1, <4>2
    <3>3. (\A k \in 1 .. Len(control) : control[k].op = "allocate" =>
         LET e == control[k].link IN
         /\ DeclareOK(own, e, coord[e].id)
         /\ \A j \in 1 .. Len(wire) : IsDeclare(wire[j]) => wire[j].id.of # coord[e].id.of
         /\ \A i \in 1 .. Len(inbox[e]) : IsDeclare(inbox[e][i]) => inbox[e][i].id.of # coord[e].id.of)'
      BY ZenonT(60), <2>2, <3>1, <3>2
    <3> QED
      BY <2>8, <2>9, <3>3 DEF Declares
  <2>12. Asked(own)'
    <3>1. (\A x \in asked :
         /\ x \in 1 .. issued /\ task[own[x]].txn = x
         /\ task[own[x]].pc \notin Undischarged \cup {"rolling", "rolledback"})'
      BY <2>2 DEF Whole, Asked
    <3>2. (\A e \in CtlLink : coord[e].pc \in {"asking", "answered"} => MsgOK(e, coord[e].id))'
      BY <2>2, SameFrames DEF Whole, Asked
    <3>3. (\A k \in 1 .. Len(control) :
         /\ control[k].op \in {"commit", "rollback"} =>
              DischargeOK(own, coord[control[k].link].id, control[k].op, control[k].txn)
         /\ control[k].op = "abort" => task[own[control[k].txn]].pc \in Final)'
      BY <2>2, SameFrames DEF Whole, Asked
    <3> QED
      BY <2>8, <2>9, <3>1, <3>2, <3>3 DEF Asked
  <2>13. Tags'
    BY <2>2, <2>7, <2>8, <2>9 DEF Whole, Tags, Declared
  <2>14. OnWire(own)'
    <3>1. \A x : Pending(own, x) => Pending(own, x)'
      BY <2>2, <2>8 DEF Pending
    <3> QED
      BY <2>2, <3>1, SameFrames DEF Whole, OnWire
  <2>15. Typed'
    BY <2>2, <2>3, <2>7 DEF Typed
  <2> QED
    BY <2>7, <2>8, <2>9, <2>10, <2>11, <2>12, <2>13, <2>14, <2>15 DEF Whole
<1> QED
  BY <1>1, <1>2, OnDeliveryCases

\* Arrangements of members of a finite set; one as long as the set is large has them all.
LEMMA Arranged ==
  ASSUME NEW T, IsFiniteSet(T), NEW s \in SetToAllKPermutations(T)
  PROVE  \E m \in Nat :
           /\ s \in [1 .. m -> T] /\ \A i, j \in 1 .. m : s[i] = s[j] => i = j
           /\ Len(s) = m /\ IsSeq(s) /\ DOMAIN s = 1 .. m
           /\ m = Cardinality(T) => \A x \in T : \E i \in 1 .. m : s[i] = x
<1>1. PICK U \in SUBSET T : s \in SetToSeqs(U)
  BY DEF SetToAllKPermutations
<1>2. PICK m : m = Cardinality(U)
  OBVIOUS
<1>3. IsFiniteSet(U) /\ m \in Nat /\ (Cardinality(T) = Cardinality(U) => T = U)
  BY <1>2, FS_Subset, FS_CardinalityType
<1>4. s \in [1 .. m -> U] /\ \A i, j \in 1 .. m : i # j => s[i] # s[j]
  BY <1>1, <1>2 DEF SetToSeqs
<1>5. s = [i \in 1 .. m |-> s[i]]
  BY <1>4
<1>6. IsSeq(s) /\ Len(s) = m
  BY <1>3, <1>5, Listed
<1>7. ASSUME m = Cardinality(T), NEW x \in T PROVE \E i \in 1 .. m : s[i] = x
  <2>1. U = T
    BY <1>2, <1>3, <1>7
  <2>2. s \in Injection(1 .. m, U)
    BY <1>4 DEF Injection, IsInjective
  <2>3. Cardinality(1 .. m) = m
    BY <1>3, FS_Interval
  <2>4. s \in Surjection(1 .. m, U)
    BY <1>2, <1>3, <2>2, <2>3, FS_Injection
  <2> QED
    BY <2>1, <2>4 DEF Surjection
<1> QED
  BY <1>3, <1>4, <1>5, <1>6, <1>7

\* The transactions of a coordinator are finitely many.
LEMMA HeldFinite ==
  ASSUME NEW own, Whole(own), NEW c \in CtlLink
  PROVE  IsFiniteSet(coord[c].txn_ids) /\ Cardinality(coord[c].txn_ids) \in Nat
<1>1. coord[c].txn_ids \in SUBSET (1 .. issued) /\ issued \in Nat
  BY DEF Whole, Ids, Typed
<1>2. IsFiniteSet(1 .. issued)
  BY <1>1, FS_Interval
<1> QED
  BY <1>1, <1>2, FS_Subset, FS_CardinalityType

\* Drop for TxnCoordinator: the aborts that find room.
LEMMA AbortFacts ==
  ASSUME NEW own, Whole(own), NEW c \in CtlLink, OnRecvError(c)
  PROVE  \E f, s :
           /\ RequestEffect(own, c, f) /\ s \in Aborts(c) /\ coord'[c].txn_ids = {}
           /\ \A i \in 1 .. Len(s) : \E k \in 1 .. Len(control') : Ending(control'[k]) /\ control'[k].txn = s[i]
<1>1. PICK f : f = Head(inbox[c])
  OBVIOUS
<1>2. PICK s \in Aborts(c) :
        control' = control \o [i \in DOMAIN s |-> [op |-> "abort", link |-> c, txn |-> s[i]]]
  BY DEF OnRecvError
<1>3. PICK A : A = [i \in DOMAIN s |-> [op |-> "abort", link |-> c, txn |-> s[i]]]
  OBVIOUS
<1>4. /\ coord[c].pc = "idle" /\ inbox[c] # <<>> /\ f.type = "detach"
      /\ inbox' = [inbox EXCEPT ![c] = Tail(@)] /\ coord' = [coord EXCEPT ![c] = [Idle EXCEPT !.pc = "gone"]]
      /\ UNCHANGED <<plan, task, count, unsettled, answer, acked, wire, back, txns, issued, session, applied, asked>>
      /\ Typed
  BY <1>1 DEF OnRecvError, app, Whole
<1>5. PICK m \in Nat : /\ s \in [1 .. m -> coord[c].txn_ids] /\ \A i, j \in 1 .. m : s[i] = s[j] => i = j
                       /\ Len(s) = m /\ DOMAIN s = 1 .. m
  <2>1. s \in SetToAllKPermutations(coord[c].txn_ids)
    BY <1>2 DEF Aborts
  <2>2. PICK T : T = coord[c].txn_ids
    OBVIOUS
  <2>3. IsFiniteSet(T) /\ s \in SetToAllKPermutations(T)
    BY <2>1, <2>2, HeldFinite
  <2> QED
    BY <2>2, <2>3, Arranged
<1>6. A = [i \in 1 .. m |-> A[i]] /\ \A i \in 1 .. m : A[i].op = "abort" /\ A[i].link = c /\ A[i].txn = s[i]
  BY <1>3, <1>5
<1>7. IsSeq(A) /\ Len(A) = m
  BY <1>6, Listed
<1>8. /\ IsSeq(control') /\ Len(control) \in Nat /\ Len(control') = Len(control) + m
      /\ \A k \in 1 .. Len(control) : control'[k] = control[k]
      /\ \A i \in 1 .. m : control'[Len(control) + i] = A[i]
  <2>1. control' = control \o A /\ IsSeq(control)
    BY <1>2, <1>3, <1>4 DEF Typed
  <2>2. PICK b : b = control
    OBVIOUS
  <2>3. /\ IsSeq(b \o A) /\ Len(b) \in Nat /\ Len(b \o A) = Len(b) + Len(A)
        /\ \A k \in 1 .. Len(b) : (b \o A)[k] = b[k]
        /\ \A i \in 1 .. Len(A) : (b \o A)[Len(b) + i] = A[i]
    <3>1. IsSeq(b) /\ IsSeq(A)
      BY <1>7, <2>1, <2>2
    <3> QED
      BY <3>1, Joined
  <2> QED
    BY <1>7, <2>1, <2>2, <2>3
<1>9. \A k \in 1 .. Len(control') : k > Len(control) =>
        \E i \in 1 .. m : k = Len(control) + i /\ control'[k] = A[i]
  <2>1. ASSUME NEW k \in 1 .. Len(control'), k > Len(control)
        PROVE  \E i \in 1 .. m : k = Len(control) + i /\ control'[k] = A[i]
    <3>1. k - Len(control) \in 1 .. m /\ k = Len(control) + (k - Len(control))
      BY <1>8, <2>1
    <3> QED
      BY <1>8, <3>1
  <2> QED
    BY <2>1
<1>10. /\ coord' = [e \in CtlLink |-> [pc |-> coord'[e].pc, txn_ids |-> coord'[e].txn_ids,
                                  id |-> coord'[e].id, got |-> coord'[e].got]]
       /\ \A e \in CtlLink : e # c => coord'[e] = coord[e]
       /\ coord'[c].pc = "gone" /\ coord'[c].got.op = "none" /\ coord'[c].txn_ids = {}
  <2>1. PICK v : v = [Idle EXCEPT !.pc = "gone"]
    OBVIOUS
  <2>2. /\ v = [pc |-> v.pc, txn_ids |-> v.txn_ids, id |-> v.id, got |-> v.got]
        /\ v.pc = "gone" /\ v.got.op = "none" /\ v.txn_ids = {}
    BY <2>1 DEF Idle
  <2>3. coord' = [coord EXCEPT ![c] = v] /\ coord = [e \in CtlLink |-> coord[e]]
    BY <1>4, <2>1 DEF Typed
  <2>4. \A e \in CtlLink : coord[e] = [pc |-> coord[e].pc, txn_ids |-> coord[e].txn_ids,
                                          id |-> coord[e].id, got |-> coord[e].got]
    BY <1>4 DEF Typed
  <2>5. coord'[c] = v /\ coord' = [e \in CtlLink |-> coord'[e]] /\ \A e \in CtlLink : e # c => coord'[e] = coord[e]
    BY <2>3
  <2> QED
    BY <2>2, <2>4, <2>5
<1>11. f.link = c
  <2>1. f = inbox[c][1] /\ 1 \in 1 .. Len(inbox[c])
    BY <1>1, <1>4, InboxTaken
  <2> QED
    BY <2>1 DEF Whole, Routed
<1>12. ASSUME NEW k \in 1 .. Len(control'), k > Len(control)
       PROVE  /\ control'[k].link = c /\ control'[k].op = "abort" /\ control'[k].txn \in coord[c].txn_ids
              /\ Ends(own, control'[k].txn, f)
  <2>1. PICK i \in 1 .. m : k = Len(control) + i /\ control'[k] = A[i]
    BY <1>9, <1>12
  <2>2. /\ control'[k].link = c /\ control'[k].op = "abort" /\ control'[k].txn = s[i] /\ s[i] \in coord[c].txn_ids
    BY <1>5, <1>6, <2>1
  <2>3. Ctl(own[s[i]]) = c
    BY <2>2 DEF Whole, Ids
  <2> QED
    BY <1>4, <1>11, <2>2, <2>3 DEF Ends
<1>13. ASSUME NEW k \in 1 .. Len(control'), k > Len(control), NEW j \in 1 .. Len(control'), j > Len(control),
              control'[j].txn = control'[k].txn
       PROVE  j = k
  <2>1. PICK i \in 1 .. m : k = Len(control) + i /\ control'[k] = A[i]
    BY <1>9, <1>13
  <2>2. PICK l \in 1 .. m : j = Len(control) + l /\ control'[j] = A[l]
    BY <1>9, <1>13
  <2>3. s[i] = s[l]
    BY <1>6, <1>13, <2>1, <2>2
  <2>4. i = l
    BY <1>5, <2>3
  <2> QED
    BY <2>1, <2>2, <2>4
<1>14. Len(control') >= Len(control)
  BY <1>8
<1>15. RequestEffect(own, c, f)
  BY <1>1, <1>4, <1>8, <1>10, <1>12, <1>13, <1>14 DEF RequestEffect
<1>16. ASSUME NEW i \in 1 .. Len(s)
       PROVE  \E k \in 1 .. Len(control') : Ending(control'[k]) /\ control'[k].txn = s[i]
  <2>1. i \in 1 .. m /\ Len(control) + i \in 1 .. Len(control')
    BY <1>5, <1>8
  <2>2. control'[Len(control) + i].op = "abort" /\ control'[Len(control) + i].txn = s[i]
    BY <1>6, <1>8, <2>1
  <2> QED
    BY <2>1, <2>2 DEF Ending
<1>17. \A i \in 1 .. Len(s) : \E k \in 1 .. Len(control') : Ending(control'[k]) /\ control'[k].txn = s[i]
  BY <1>16
<1>18. coord'[c].txn_ids = {} /\ s \in Aborts(c)
  BY <1>2, <1>10
<1> QED
  BY <1>15, <1>17, <1>18, Zenon

\* TxnCoordinator::on_recv_error and Drop for TxnCoordinator
LEMMA OnRecvErrorWhole ==
  ASSUME NEW own, Whole(own), NEW c \in CtlLink, OnRecvError(c)
  PROVE  Whole(own)'
BY AbortFacts, RequestWhole

-----------------------------------------------------------------------------
(* The session's answers to its coordinators                               *)

\* Positions of the control channel when its first request has been taken.
LEMMA ControlTaken ==
  ASSUME IsSeq(control), control # <<>>, control' = Tail(control)
  PROVE  /\ IsSeq(control') /\ 1 \in 1 .. Len(control) /\ Head(control) = control[1]
         /\ \A k \in 1 .. Len(control') : k + 1 \in 1 .. Len(control) /\ control'[k] = control[k + 1] /\ k + 1 # 1
         /\ \A j, k \in 1 .. Len(control') : j + 1 = k + 1 => j = k
         /\ \A k \in 1 .. Len(control) : k = 1 \/ \E j \in 1 .. Len(control') : j + 1 = k /\ control'[j] = control[k]
<1>1. /\ IsSeq(control') /\ Len(control) \in Nat /\ Len(control) >= 1 /\ Len(control') = Len(control) - 1
      /\ Head(control) = control[1] /\ \A i \in 1 .. Len(control) - 1 : control'[i] = control[i + 1]
  BY Taken
<1>2. ASSUME NEW i \in 1 .. Len(control), i # 1
      PROVE  \E j \in 1 .. Len(control') : j + 1 = i /\ control'[j] = control[i]
  <2>1. i - 1 \in 1 .. Len(control) - 1 /\ (i - 1) + 1 = i /\ i - 1 \in 1 .. Len(control')
    BY <1>1, <1>2
  <2>2. control'[i - 1] = control[i]
    BY <1>1, <2>1
  <2> QED
    BY <2>1, <2>2
<1> QED
  BY <1>1, <1>2

\* The work carried out has become more by work of x: nothing changes for another transaction.
LEMMA CarriedMore ==
  ASSUME IsSeq(applied), IsSeq(applied'), Len(applied') >= Len(applied), \A i \in 1 .. Len(applied) : applied'[i] = applied[i],
         NEW x, \A i \in 1 .. Len(applied') : i > Len(applied) => applied'[i].txn = x,
         task' = task, NEW t, task[t].txn # x \/ Len(applied') = Len(applied)
  PROVE  CarriedOut(t)' = CarriedOut(t) /\ (CarriedWhole(t) => CarriedWhole(t)')
<1>1. /\ Len(applied) \in Nat /\ Len(applied') \in Nat
      /\ DOMAIN applied = 1 .. Len(applied) /\ DOMAIN applied' = 1 .. Len(applied')
  BY Lengths
<1>2. ASSUME NEW i PROVE i \in CarriedOut(t)' <=> i \in CarriedOut(t)
  <2>1. /\ i \in CarriedOut(t) <=> i \in 1 .. Len(applied) /\ applied[i].txn = task[t].txn
        /\ i \in CarriedOut(t)' <=> i \in 1 .. Len(applied') /\ applied'[i].txn = task[t].txn
    BY <1>1 DEF CarriedOut
  <2>2. CASE i \in 1 .. Len(applied)
    <3>1. i \in 1 .. Len(applied')
      <4>1. PICK a \in Nat, b \in Nat : a = Len(applied) /\ b = Len(applied') /\ b >= a
        BY <1>1
      <4>2. i \in 1 .. a => i \in 1 .. b
        BY <4>1
      <4> QED
        BY SMTT(30), <2>2, <4>1, <4>2
    <3>2. applied'[i] = applied[i]
      BY <2>2
    <3> QED
      BY <2>1, <2>2, <3>1, <3>2
  <2>3. CASE i \in 1 .. Len(applied') /\ i \notin 1 .. Len(applied)
    <3>1. i > Len(applied) /\ Len(applied') # Len(applied)
      <4>1. PICK a \in Nat, b \in Nat : a = Len(applied) /\ b = Len(applied') /\ b >= a
        BY <1>1
      <4>2. i \in 1 .. b /\ i \notin 1 .. a => i > a /\ b # a
        BY SMTT(30), <4>1
      <4> QED
        BY <2>3, <4>1, <4>2
    <3> QED
      BY <2>1, <2>3, <3>1
  <2> QED
    BY <2>1, <2>2, <2>3
<1>3. \A i \in CarriedOut(t) : applied'[i] = applied[i]
  BY <1>1 DEF CarriedOut
<1>4. CarriedOut(t)' = CarriedOut(t)
  BY <1>2
<1> QED
  BY SMTT(30), <1>3, <1>4 DEF CarriedWhole

\* What a request about a transaction handed out does: the transaction is over, its work is
\* carried out, in part at most when the session ends over it, and the coordinator is answered.
EndEffect(own, m) ==
  /\ UNCHANGED <<plan, task, count, unsettled, answer, acked, wire, back, issued, inbox, asked>>
  /\ control # <<>> /\ m = Head(control) /\ control' = Tail(control) /\ Ending(m)
  /\ txns' = [x \in DOMAIN txns \ {m.txn} |-> txns[x]]
  /\ IsSeq(applied') /\ Len(applied') >= Len(applied) /\ \A i \in 1 .. Len(applied) : applied'[i] = applied[i]
  /\ \A i \in 1 .. Len(applied') : i > Len(applied) => applied'[i].txn = m.txn
  /\ session' \in {session, "UnattachedHandle"}
  /\ \/ Len(applied') = Len(applied)
     \/ /\ m.txn \in asked /\ m.txn \in DOMAIN txns
        /\ session' = "up" => \E t : t = own[m.txn] /\ CarriedWhole(t)'
  /\ coord' = [e \in CtlLink |-> [pc |-> coord'[e].pc, txn_ids |-> coord'[e].txn_ids,
                                  id |-> coord'[e].id, got |-> coord'[e].got]]
  /\ \A e \in CtlLink :
       \/ coord'[e] = coord[e]
       \/ /\ e = m.link /\ m.op # "abort" /\ coord'[e].pc = "answered" /\ coord'[e].id = coord[e].id
          /\ coord'[e].txn_ids = coord[e].txn_ids /\ coord'[e].got.op \in {"accepted", "rejected"}
          /\ coord'[e].got.op = "accepted" => \E t : t = coord[e].id.of /\ DoneBefore(t, Len(back) + 1)'

\* ... and keeps the invariant.
LEMMA EndWhole ==
  ASSUME NEW own, Whole(own), NEW m, EndEffect(own, m)
  PROVE  Whole(own)'
<1>1. /\ UNCHANGED <<plan, task, count, unsettled, answer, acked, wire, back, issued, inbox, asked>>
      /\ Ending(m) /\ Typed /\ session' \in {session, "UnattachedHandle"}
  BY DEF EndEffect, Whole
<1>2. /\ IsSeq(control') /\ 1 \in 1 .. Len(control) /\ m = control[1]
      /\ \A k \in 1 .. Len(control') : k + 1 \in 1 .. Len(control) /\ control'[k] = control[k + 1] /\ k + 1 # 1
      /\ \A j, k \in 1 .. Len(control') : j + 1 = k + 1 => j = k
  BY <1>1, ControlTaken DEF EndEffect, Typed
<1>3. /\ txns' = [x \in DOMAIN txns' |-> txns'[x]] /\ DOMAIN txns' = DOMAIN txns \ {m.txn}
      /\ \A x \in DOMAIN txns' : x \in DOMAIN txns /\ x # m.txn /\ txns'[x] = txns[x]
  BY DEF EndEffect
<1>4. /\ m.txn \in 1 .. issued /\ own[m.txn] \in Txn /\ task[own[m.txn]].pc \notin Undischarged
      /\ m.op \in {"commit", "rollback", "abort"} /\ m.link \in CtlLink
  <2>1. m.txn \in 1 .. issued /\ m.op \in {"commit", "rollback", "abort"} /\ own[m.txn] \in Txn /\ m.link \in CtlLink
    BY <1>1, <1>2 DEF Whole, Ids, Requests, Ending
  <2>2. CASE m.op = "abort"
    BY <1>2, <2>1, <2>2 DEF Whole, Asked, Final, Undischarged
  <2>3. CASE m.op \in {"commit", "rollback"}
    <3>1. DischargeOK(own, coord[m.link].id, m.op, m.txn)
      BY <1>2, <2>3 DEF Whole, Asked
    <3> QED
      BY <2>1, <3>1 DEF DischargeOK
  <2> QED
    BY <2>1, <2>2, <2>3
<1>5. /\ \A e \in CtlLink : coord'[e].id = coord[e].id /\ coord'[e].txn_ids = coord[e].txn_ids
      /\ \A e \in CtlLink : coord'[e] = coord[e] \/
           /\ e = m.link /\ m.op # "abort" /\ coord'[e].pc = "answered" /\ coord[e].pc = "asking"
           /\ coord'[e].got.op \in {"accepted", "rejected"}
           /\ coord'[e].got.op = "accepted" => \E t : t = coord[e].id.of /\ DoneBefore(t, Len(back) + 1)'
  BY <1>2 DEF EndEffect, Whole, Requests
<1>6. \A e \in CtlLink : coord'[e].got.op = "declared" => coord'[e] = coord[e]
  BY <1>5
<1>7. Typed'
  <2>1. \A x \in DOMAIN txns' : IsSeq(txns'[x]) /\ x \in 1 .. issued
    BY <1>1, <1>3 DEF Typed
  <2>2. IsSeq(applied') /\ session' \in {"up", "UnattachedHandle"}
    BY <1>1 DEF EndEffect, Typed
  <2> QED
    BY <1>1, <1>2, <1>3, <2>1, <2>2 DEF Typed, EndEffect
<1>8. Ids(own)'
  <2>1. \A t : Ctl(t)' = Ctl(t)
    BY <1>1 DEF Ctl
  <2>2. /\ own \in [1 .. issued -> Txn] /\ \A x, y \in 1 .. issued : own[x] = own[y] => x = y
        /\ \A x \in 1 .. issued : task[own[x]].pc # "idle"
    BY DEF Whole, Ids
  <2>3. ASSUME NEW e \in CtlLink
        PROVE  (/\ coord[e].txn_ids \subseteq 1 .. issued
                /\ \A x \in coord[e].txn_ids : Ctl(own[x]) = e
                /\ Declared(e) =>
                     /\ coord[e].pc = "answered" /\ coord[e].got = [op |-> "declared", txn |-> coord[e].got.txn]
                     /\ coord[e].got.txn \in 1 .. issued /\ Ctl(own[coord[e].got.txn]) = e
                     /\ own[coord[e].got.txn] = coord[e].id.of
                     /\ coord[e].got.txn \notin coord[e].txn_ids
                /\ coord[e].pc = "gone" => coord[e].txn_ids = {})'
    <3>1. CASE coord'[e] = coord[e]
      BY <1>1, <2>1, <3>1 DEF Whole, Ids, Declared
    <3>2. CASE coord'[e].pc = "answered" /\ coord'[e].got.op \in {"accepted", "rejected"}
      BY ZenonT(60), <1>1, <1>5, <2>1, <3>2 DEF Whole, Ids, Declared
    <3> QED
      BY <1>5, <3>1, <3>2
  <2>4. ASSUME NEW k \in 1 .. Len(control'), Ending(control'[k])
        PROVE  (/\ control[k].txn \in 1 .. issued /\ Ctl(own[control[k].txn]) = control[k].link
                /\ \A j \in 1 .. Len(control) : Ending(control[j]) /\ control[j].txn = control[k].txn => j = k
                /\ control[k].txn \notin coord[control[k].link].txn_ids
                /\ Declared(control[k].link) => coord[control[k].link].got.txn # control[k].txn)'
    <3>1. PICK r : r = control'[k]
      OBVIOUS
    <3>2. r = control[k + 1] /\ k + 1 \in 1 .. Len(control) /\ Ending(r) /\ r.link \in CtlLink
      BY <1>2, <2>4, <3>1 DEF Whole, Requests
    <3>3. /\ r.txn \in 1 .. issued /\ Ctl(own[r.txn]) = r.link
          /\ \A j \in 1 .. Len(control) : Ending(control[j]) /\ control[j].txn = r.txn => j = k + 1
          /\ r.txn \notin coord[r.link].txn_ids
          /\ Declared(r.link) => coord[r.link].got.txn # r.txn
      BY <3>2 DEF Whole, Ids
    <3>4. \A j \in 1 .. Len(control') : Ending(control'[j]) /\ control'[j].txn = r.txn => j = k
      BY <1>2, <3>3
    <3>5. r.txn \notin coord'[r.link].txn_ids /\ (coord'[r.link].got.op = "declared" => coord'[r.link].got.txn # r.txn)
      BY <1>5, <1>6, <3>2, <3>3 DEF Declared
    <3> QED
      BY <1>1, <2>1, <3>1, <3>3, <3>4, <3>5 DEF Declared
  <2>5. (\A e \in CtlLink :
                /\ coord[e].txn_ids \subseteq 1 .. issued
                /\ \A x \in coord[e].txn_ids : Ctl(own[x]) = e
                /\ Declared(e) =>
                     /\ coord[e].pc = "answered" /\ coord[e].got = [op |-> "declared", txn |-> coord[e].got.txn]
                     /\ coord[e].got.txn \in 1 .. issued /\ Ctl(own[coord[e].got.txn]) = e
                     /\ own[coord[e].got.txn] = coord[e].id.of
                     /\ coord[e].got.txn \notin coord[e].txn_ids
                /\ coord[e].pc = "gone" => coord[e].txn_ids = {})'
    BY <2>3
  <2>6. (\A k \in 1 .. Len(control) : Ending(control[k]) =>
                /\ control[k].txn \in 1 .. issued /\ Ctl(own[control[k].txn]) = control[k].link
                /\ \A j \in 1 .. Len(control) : Ending(control[j]) /\ control[j].txn = control[k].txn => j = k
                /\ control[k].txn \notin coord[control[k].link].txn_ids
                /\ Declared(control[k].link) => coord[control[k].link].got.txn # control[k].txn)'
    BY <2>4
  <2> QED
    BY <1>1, <2>2, <2>5, <2>6 DEF Ids
<1>9. Requests'
  <2>1. ASSUME NEW k \in 1 .. Len(control')
        PROVE  /\ control'[k].link \in CtlLink /\ control'[k].op \in {"allocate", "commit", "rollback", "abort"}
               /\ control'[k].op # "abort" =>
                    /\ coord'[control'[k].link].pc = "asking"
                    /\ \A j \in 1 .. Len(control') :
                         control'[j].op # "abort" /\ control'[j].link = control'[k].link => j = k
    <3>1. PICK r : r = control'[k]
      OBVIOUS
    <3>2. r = control[k + 1] /\ k + 1 \in 1 .. Len(control) /\ k + 1 # 1
      BY <1>2, <3>1
    <3>3. /\ r.link \in CtlLink /\ r.op \in {"allocate", "commit", "rollback", "abort"}
          /\ r.op # "abort" =>
                    /\ coord[r.link].pc = "asking"
                    /\ \A j \in 1 .. Len(control) :
                         control[j].op # "abort" /\ control[j].link = r.link => j = k + 1
      BY <3>2 DEF Whole, Requests
    <3>4. r.op # "abort" => coord'[r.link] = coord[r.link]
      BY <1>2, <1>5, <3>2, <3>3
    <3>5. r.op # "abort" => \A j \in 1 .. Len(control') : control'[j].op # "abort" /\ control'[j].link = r.link => j = k
      BY ZenonT(60), <1>2, <3>3
    <3> QED
      BY <3>1, <3>3, <3>4, <3>5
  <2>2. ASSUME NEW e \in CtlLink
        PROVE  /\ coord'[e].pc \in {"idle", "asking", "gone"} => coord'[e].got.op = "none"
               /\ coord'[e].pc = "answered" => coord'[e].got.op # "none"
    <3>1. CASE coord'[e] = coord[e]
      BY <3>1 DEF Whole, Requests
    <3>2. CASE coord'[e].pc = "answered" /\ coord'[e].got.op \in {"accepted", "rejected"}
      BY <3>2
    <3> QED
      BY <1>5, <3>1, <3>2
  <2> QED
    BY <2>1, <2>2 DEF Requests
<1>10. Routed'
  BY <1>1 DEF Whole, Routed
<1>11. Declares(own)'
  <2>1. \A e, id : DeclareOK(own, e, id)' <=> DeclareOK(own, e, id)
    BY <1>1, SameFrames
  <2>2. ASSUME NEW k \in 1 .. Len(control'), control'[k].op = "allocate", NEW e, e = control'[k].link
        PROVE  /\ DeclareOK(own, e, coord[e].id)'
               /\ \A j \in 1 .. Len(wire) : IsDeclare(wire[j]) => wire[j].id.of # coord'[e].id.of
               /\ \A i \in 1 .. Len(inbox[e]) : IsDeclare(inbox[e][i]) => inbox[e][i].id.of # coord'[e].id.of
    <3>1. e \in CtlLink /\ coord'[e].id = coord[e].id
      BY <1>2, <1>5, <2>2 DEF Whole, Requests
    <3>2. /\ DeclareOK(own, e, coord[e].id)
          /\ \A j \in 1 .. Len(wire) : IsDeclare(wire[j]) => wire[j].id.of # coord[e].id.of
          /\ \A i \in 1 .. Len(inbox[e]) : IsDeclare(inbox[e][i]) => inbox[e][i].id.of # coord[e].id.of
      <4>1. k + 1 \in 1 .. Len(control) /\ control[k + 1].op = "allocate" /\ control[k + 1].link = e
        BY <1>2, <2>2
      <4> QED
        BY <4>1 DEF Whole, Declares
    <3> QED
      BY <2>1, <3>1, <3>2
  <2>3. (\A k \in 1 .. Len(control) : control[k].op = "allocate" =>
       LET e == control[k].link IN
       /\ DeclareOK(own, e, coord[e].id)
       /\ \A j \in 1 .. Len(wire) : IsDeclare(wire[j]) => wire[j].id.of # coord[e].id.of
       /\ \A i \in 1 .. Len(inbox[e]) : IsDeclare(inbox[e][i]) => inbox[e][i].id.of # coord[e].id.of)'
    BY <1>1, <2>2
  <2>4. Single(wire)' /\ (\A e \in CtlLink : Single(inbox[e]))'
    BY <1>1 DEF Whole, Declares, Single
  <2> QED
    BY <1>1, <2>1, <2>3, <2>4 DEF Whole, Declares
<1>12. Asked(own)'
  <2>1. (\A e \in CtlLink : coord[e].pc \in {"asking", "answered"} => MsgOK(e, coord[e].id))'
    <3>1. \A e, id : MsgOK(e, id)' <=> MsgOK(e, id)
      BY <1>1, SameFrames
    <3>2. \A e \in CtlLink : coord'[e].pc \in {"asking", "answered"} => coord[e].pc \in {"asking", "answered"}
      BY <1>5
    <3> QED
      BY <1>5, <3>1, <3>2 DEF Whole, Asked
  <2>2. ASSUME NEW k \in 1 .. Len(control'), control'[k].op \in {"commit", "rollback"}
        PROVE  DischargeOK(own, coord[control[k].link].id, control[k].op, control[k].txn)'
    <3>1. PICK id, op, x : id = coord'[control'[k].link].id /\ op = control'[k].op /\ x = control'[k].txn
      OBVIOUS
    <3>2. control'[k].link \in CtlLink
      BY <1>2 DEF Whole, Requests
    <3>3. DischargeOK(own, id, op, x)
      BY <1>2, <1>5, <2>2, <3>1, <3>2 DEF Whole, Asked
    <3>4. DischargeOK(own, id, op, x)'
      BY <1>1, <3>3, SameFrames
    <3> QED
      BY <3>1, <3>4
  <2>3. \A k \in 1 .. Len(control') : control'[k].op = "abort" => task[own[control'[k].txn]].pc \in Final
    BY <1>2 DEF Whole, Asked
  <2>4. (\A k \in 1 .. Len(control) :
       /\ control[k].op \in {"commit", "rollback"} =>
            DischargeOK(own, coord[control[k].link].id, control[k].op, control[k].txn)
       /\ control[k].op = "abort" => task[own[control[k].txn]].pc \in Final)'
    BY <1>1, <2>2, <2>3
  <2>5. (\A x \in asked :
       /\ x \in 1 .. issued /\ task[own[x]].txn = x
       /\ task[own[x]].pc \notin Undischarged \cup {"rolling", "rolledback"})'
    BY <1>1 DEF Whole, Asked
  <2>6. (\A i \in 1 .. Len(wire) : FrameOK(own, wire[i]))'
    BY <1>1, SameFrames DEF Whole, Asked
  <2>7. (\A e \in CtlLink : \A i \in 1 .. Len(inbox[e]) : FrameOK(own, inbox[e][i]))'
    BY <1>1, SameFrames DEF Whole, Asked
  <2> QED
    BY <2>1, <2>4, <2>5, <2>6, <2>7 DEF Asked
<1>13. Tags'
  <2>1. \A e, id : TagOK(e, id)' <=> TagOK(e, id)
    BY <1>1 DEF TagOK
  <2>2. (\A e \in CtlLink : Declared(e) => TagOK(e, coord[e].id))'
    BY <1>5, <1>6, <2>1 DEF Whole, Tags, Declared
  <2>3. ASSUME NEW k \in 1 .. Len(control'), control'[k].op = "allocate"
        PROVE  TagOK(control[k].link, coord[control[k].link].id)'
    <3>1. PICK e, id : e = control'[k].link /\ id = coord'[e].id
      OBVIOUS
    <3>2. e \in CtlLink /\ TagOK(e, coord[e].id)
      BY <1>2, <2>3, <3>1 DEF Whole, Tags, Requests
    <3>3. TagOK(e, id)'
      BY <1>5, <2>1, <3>1, <3>2
    <3> QED
      BY <3>1, <3>3
  <2>4. (\A k \in 1 .. Len(control) : control[k].op = "allocate" => TagOK(control[k].link, coord[control[k].link].id))'
    BY <2>3
  <2> QED
    BY <1>1, <2>1, <2>2, <2>4 DEF Whole, Tags
<1>14. Learned(own)'
  BY <1>1, SameFrames DEF Whole, Learned
<1>15. OnWire(own)'
  <2>1. ASSUME NEW x, Pending(own, x) PROVE Pending(own, x)'
    <3>1. x # m.txn /\ x \in DOMAIN txns'
      BY <1>1, <1>2, <1>3, <2>1 DEF Pending
    <3>2. \A k \in 1 .. Len(control') : Ending(control'[k]) => control'[k].txn # x
      BY <1>2, <2>1 DEF Pending
    <3>3. (\A e \in CtlLink : \A k \in 1 .. Len(inbox[e]) : ~Ends(own, x, inbox[e][k]))'
      BY <1>1, <2>1, SameFrames DEF Pending
    <3> QED
      BY <3>1, <3>2, <3>3 DEF Pending
  <2> QED
    BY <1>1, <2>1, SameFrames DEF Whole, OnWire
<1>16. Kept(own)'
  BY <1>1, <1>3, SameFrames DEF Whole, Kept
<1>17. ASSUME NEW t, task[t].txn # m.txn \/ Len(applied') = Len(applied)
       PROVE  CarriedOut(t)' = CarriedOut(t) /\ (CarriedWhole(t) => CarriedWhole(t)')
  <2>1. IsSeq(applied) /\ IsSeq(applied') /\ Len(applied') >= Len(applied)
    BY <1>1 DEF Typed, EndEffect
  <2>2. PICK x : x = m.txn
    OBVIOUS
  <2>3. /\ \A i \in 1 .. Len(applied) : applied'[i] = applied[i]
        /\ \A i \in 1 .. Len(applied') : i > Len(applied) => applied'[i].txn = x
    BY <2>2 DEF EndEffect
  <2> QED
    BY <1>1, <1>17, <2>1, <2>2, <2>3, CarriedMore
<1>18. Applied(own)'
  <2>1. \A x \in 1 .. issued : task[own[x]].pc \in Undischarged => x \in DOMAIN txns'
    BY <1>3, <1>4 DEF Whole, Applied
  <2>2. ASSUME NEW i \in 1 .. Len(applied') PROVE applied'[i].txn \in asked /\ applied'[i].txn \notin DOMAIN txns'
    <3>1. Len(applied) \in Nat /\ Len(applied') \in Nat
      BY <1>1, <1>7, Lengths DEF Typed
    <3>2. CASE i \in 1 .. Len(applied)
      <4>1. applied'[i] = applied[i]
        BY <3>2 DEF EndEffect
      <4> QED
        BY <1>3, <3>2, <4>1 DEF Whole, Applied
    <3>3. CASE i > Len(applied)
      <4>1. Len(applied') # Len(applied)
        BY <3>1, <3>3
      <4>2. applied'[i].txn = m.txn /\ m.txn \in asked
        BY <3>3, <4>1 DEF EndEffect
      <4> QED
        BY <1>3, <4>2
    <3> QED
      BY <3>1, <3>2, <3>3
  <2>3. ASSUME session' = "up", NEW t \in Txn, task[t].txn # NoId PROVE CarriedOut(t)' = {} \/ CarriedWhole(t)'
    <3>1. session = "up"
      BY <1>1, <2>3
    <3>2. CarriedOut(t) = {} \/ CarriedWhole(t)
      BY <2>3, <3>1 DEF Whole, Applied
    <3>3. CASE task[t].txn # m.txn \/ Len(applied') = Len(applied)
      BY <1>17, <3>2, <3>3
    <3>4. CASE task[t].txn = m.txn /\ Len(applied') # Len(applied)
      <4>1. own[m.txn] = t
        BY <2>3, <3>4 DEF Whole, Learned
      <4>2. \E u : u = own[m.txn] /\ CarriedWhole(u)'
        BY <2>3, <3>4 DEF EndEffect
      <4> QED
        BY <4>1, <4>2
    <3> QED
      BY <3>3, <3>4
  <2> QED
    BY <1>1, <2>1, <2>2, <2>3 DEF Whole, Applied
<1>19. Posted'
  BY <1>1, SameFrames DEF Whole, Posted
<1>20. Outcomes'
  <2>1. ASSUME NEW t \in Txn, NEW i, DoneBefore(t, i) PROVE DoneBefore(t, i)'
    <3>1. CASE task[t].pc \in {"committing", "committed"}
      <4>1. CarriedWhole(t) /\ task[t].txn \notin DOMAIN txns
        BY <2>1, <3>1 DEF DoneBefore
      <4>2. task[t].txn # m.txn \/ Len(applied') = Len(applied)
        BY <4>1 DEF EndEffect
      <4>3. CarriedWhole(t)' /\ task[t].txn \notin DOMAIN txns'
        BY <1>3, <1>17, <4>1, <4>2
      <4> QED
        BY <1>1, <2>1, <4>3, SameFrames DEF DoneBefore
    <3>2. CASE task[t].pc \notin {"committing", "committed"}
      BY <1>1, <2>1, <3>2 DEF DoneBefore
    <3> QED
      BY <3>1, <3>2
  <2>2. \A i \in 1 .. Len(back) : back[i].id.link \in CtlLink => back[i].id.of \in Txn
    BY DEF Whole, Learned, MsgOK
  <2>3. \A e \in CtlLink : coord[e].got.op = "accepted" => coord[e].id.of \in Txn
    BY DEF Whole, Outcomes, Asked, MsgOK
  <2>4. (\A i \in 1 .. Len(back) :
       /\ back[i].id.link \in CtlLink => back[i].op \in {"declared", "accepted", "rejected"}
       /\ back[i].op = "accepted" => back[i].id.link \in CtlLink /\ DoneBefore(back[i].id.of, i)
       /\ back[i].id.link \notin CtlLink =>
            /\ back[i].id.link \in Links /\ back[i].op = "presumed" /\ back[i].id.of \in Txn
            /\ back[i].id.tag \in 1 .. task[back[i].id.of].done)'
    BY <1>1, <2>1, <2>2 DEF Whole, Outcomes
  <2>5. ASSUME NEW e \in CtlLink
        PROVE  (/\ coord[e].got.op \in {"none", "declared", "accepted", "rejected"}
                /\ coord[e].got.op = "accepted" => coord[e].pc = "answered" /\ DoneBefore(coord[e].id.of, Len(back) + 1))'
    <3>1. CASE coord'[e] = coord[e]
      <4>1. PICK q : q = Len(back) + 1
        OBVIOUS
      <4>2. PICK t : t = coord[e].id.of
        OBVIOUS
      <4>3. coord[e].got.op = "accepted" => t \in Txn /\ DoneBefore(t, q) /\ coord[e].pc = "answered"
        BY <2>3, <4>1, <4>2 DEF Whole, Outcomes
      <4>4. coord[e].got.op = "accepted" => DoneBefore(t, q)'
        BY <2>1, <4>3
      <4>5. coord[e].got.op \in {"none", "declared", "accepted", "rejected"}
        BY DEF Whole, Outcomes
      <4> QED
        BY <1>1, <3>1, <4>1, <4>2, <4>3, <4>4, <4>5
    <3>2. CASE /\ coord'[e].pc = "answered" /\ coord'[e].got.op \in {"accepted", "rejected"}
               /\ coord'[e].got.op = "accepted" => \E t : t = coord[e].id.of /\ DoneBefore(t, Len(back) + 1)'
      BY <1>5, <3>2
    <3> QED
      BY <1>5, <3>1, <3>2
  <2>6. \A t \in Txn : DoneBefore(t, 1) => DoneBefore(t, 1)'
    BY <2>1
  <2>7. (\A t \in Txn :
       /\ answer[t].op = "accepted" /\ answer[t].of = t => DoneBefore(t, 1)
       /\ task[t].pc = "committed" => answer[t].op = "accepted"
       /\ acked[t] \subseteq 1 .. task[t].done)'
    BY <1>1, <2>6 DEF Whole, Outcomes
  <2> QED
    BY <2>4, <2>5, <2>7 DEF Outcomes
<1> QED
  BY <1>7, <1>8, <1>9, <1>10, <1>11, <1>12, <1>13, <1>14, <1>15, <1>16, <1>18, <1>19, <1>20 DEF Whole

\* A set of naturals has a least element.
LEMMA LeastNumber ==
  ASSUME NEW T, T \subseteq Nat, T # {}
  PROVE  \E x \in T : \A y \in T : x <= y
<1> DEFINE R == {ss \in Nat \X Nat : ss[1] < ss[2]}
<1>1. IsWellFoundedOn(R, Nat)
  BY NatLessThanWellFounded DEF OpToRel
<1>2. \E x \in T : \A y \in T : ~(<<y, x>> \in R)
  <2> HIDE DEF R
  <2> QED BY <1>1, WFMin
<1>3. PICK x \in T : \A y \in T : ~(<<y, x>> \in R)
  BY <1>2
<1>4. ASSUME NEW y \in T PROVE x <= y
  <2>1. x \in Nat /\ y \in Nat /\ <<y, x>> \in Nat \X Nat /\ <<y, x>>[1] = y /\ <<y, x>>[2] = x
    OBVIOUS
  <2>2. ~(y < x)
    BY <1>3, <2>1
  <2> QED BY <2>1, <2>2
<1> QED
  BY <1>4

\* commit_transaction carries out the first frames, up to one whose link is not attached.
LEMMA CarriedFacts ==
  ASSUME NEW s, IsSeq(s)
  PROVE  /\ IsSeq(Carried(s)) /\ Len(Carried(s)) \in Nat /\ Len(Carried(s)) <= Len(s)
         /\ \A i \in 1 .. Len(Carried(s)) : Carried(s)[i] = s[i]
         /\ Unrouted(s) = {} => Carried(s) = s
<1>1. PICK S : s \in Seq(S)
  BY DEF IsSeq
<1>2. CASE Unrouted(s) = {}
  BY <1>1, <1>2 DEF Carried
<1>3. CASE Unrouted(s) # {}
  <2>1. Unrouted(s) \subseteq 1 .. Len(s) /\ Len(s) \in Nat /\ 1 .. Len(s) \subseteq Nat
    BY <1>1 DEF Unrouted
  <2>2. \E i \in Unrouted(s) : \A j \in Unrouted(s) : i <= j
    BY <1>3, <2>1, LeastNumber
  <2>3. PICK r : r = CHOOSE i \in Unrouted(s) : \A j \in Unrouted(s) : i <= j
    OBVIOUS
  <2>4. r \in 1 .. Len(s)
    BY <2>1, <2>2, <2>3
  <2>5. Carried(s) = SubSeq(s, 1, r - 1)
    BY <1>3, <2>3 DEF Carried
  <2>6. PICK q \in Nat : q = r - 1 /\ q <= Len(s)
    BY <2>1, <2>4
  <2>7. SubSeq(s, 1, q) \in Seq(S) /\ Len(SubSeq(s, 1, q)) = q /\ \A i \in 1 .. q : SubSeq(s, 1, q)[i] = s[i]
    BY <1>1, <2>6
  <2> QED
    BY <1>3, <2>5, <2>6, <2>7 DEF IsSeq
<1> QED
  BY <1>2, <1>3

\* The answer of the session is with the coordinator.
LEMMA RespondFacts ==
  ASSUME Typed, NEW c \in CtlLink, NEW op, NEW x, Respond(c, op, x)
  PROVE  /\ coord' = [e \in CtlLink |-> [pc |-> coord'[e].pc, txn_ids |-> coord'[e].txn_ids,
                                  id |-> coord'[e].id, got |-> coord'[e].got]]
         /\ \A e \in CtlLink : e # c => coord'[e] = coord[e]
         /\ coord'[c].pc = "answered" /\ coord'[c].id = coord[c].id /\ coord'[c].txn_ids = coord[c].txn_ids
         /\ coord'[c].got = [op |-> op, txn |-> x] /\ coord'[c].got.op = op /\ coord'[c].got.txn = x
<1>1. coord = [e \in CtlLink |-> [pc |-> coord[e].pc, txn_ids |-> coord[e].txn_ids,
                                  id |-> coord[e].id, got |-> coord[e].got]]
  BY DEF Typed
<1>2. PICK g : g = [op |-> op, txn |-> x]
  OBVIOUS
<1>3. PICK w, v : w = coord[c] /\ v = [w EXCEPT !.pc = "answered", !.got = g]
  OBVIOUS
<1>4. w = [pc |-> w.pc, txn_ids |-> w.txn_ids, id |-> w.id, got |-> w.got]
  BY <1>1, <1>3
<1>5. /\ v = [pc |-> v.pc, txn_ids |-> v.txn_ids, id |-> v.id, got |-> v.got]
      /\ v.pc = "answered" /\ v.id = w.id /\ v.got = g /\ v.txn_ids = w.txn_ids
  BY <1>3, <1>4
<1>6. coord' = [coord EXCEPT ![c] = v]
  BY <1>1, <1>2, <1>3 DEF Respond
<1>7. g.op = op /\ g.txn = x
  BY <1>2
<1> QED
  BY <1>1, <1>2, <1>3, <1>5, <1>6, <1>7

\* The commit of x is at the head of the control channel: all its work is with the session.
LEMMA CommitReady ==
  ASSUME NEW own, Whole(own), NEW m, control # <<>>, m = Head(control), m.op \in {"commit", "rollback"}
  PROVE  /\ m.link \in CtlLink /\ coord[m.link].pc = "asking" /\ m.txn \in 1 .. issued
         /\ own[m.txn] = coord[m.link].id.of /\ own[m.txn] \in Txn /\ task[own[m.txn]].txn = m.txn
         /\ task[own[m.txn]].pc \notin Undischarged
         /\ m.op = "commit" => m.txn \in asked
         /\ m.op = "rollback" => task[own[m.txn]].pc \notin {"committing", "committed"}
         /\ \A i \in 1 .. Len(wire) : IsWork(wire[i]) => wire[i].txn # m.txn
<1>1. IsSeq(control) /\ 1 \in 1 .. Len(control) /\ m = control[1]
  <2>1. IsSeq(control)
    BY DEF Whole, Typed
  <2> QED
    BY <2>1, Taken
<1>2. Ending(m) /\ m.link \in CtlLink /\ coord[m.link].pc = "asking"
  BY <1>1 DEF Ending, Whole, Requests
<1>3. DischargeOK(own, coord[m.link].id, m.op, m.txn)
  BY SMTT(30), <1>1 DEF Whole, Asked
<1>4. own[m.txn] \in Txn
  BY <1>3 DEF DischargeOK, Whole, Ids
<1>5. \A i \in 1 .. Len(wire) : IsWork(wire[i]) => wire[i].txn # m.txn
  BY SMTT(30), <1>1, <1>2 DEF Whole, OnWire, Pending
<1> QED
  BY <1>2, <1>3, <1>4, <1>5 DEF DischargeOK

\* ... and is carried out whole.
LEMMA CommitWhole ==
  ASSUME NEW own, Whole(own), NEW m, control # <<>>, m = Head(control), m.op = "commit",
         NEW x, x = m.txn, x \in DOMAIN txns, applied' = applied \o txns[x], task' = task,
         NEW t, t = own[x]
  PROVE  CarriedWhole(t)'
<1>1. /\ t \in Txn /\ task[t].txn = x /\ x \in 1 .. issued
      /\ \A i \in 1 .. Len(wire) : IsWork(wire[i]) => wire[i].txn # x
  BY CommitReady
<1>2. PICK s, b : s = txns[x] /\ b = applied
  OBVIOUS
<1>3. IsSeq(s) /\ IsSeq(b)
  BY <1>2 DEF Whole, Typed
<1>4. /\ IsSeq(b \o s) /\ Len(b) \in Nat /\ Len(s) \in Nat /\ Len(b \o s) = Len(b) + Len(s)
      /\ \A i \in 1 .. Len(b) : (b \o s)[i] = b[i]
      /\ \A i \in 1 .. Len(s) : (b \o s)[Len(b) + i] = s[i]
  BY <1>3, Joined
<1>5. PICK p \in Nat, q \in Nat : p = Len(b) /\ q = Len(s)
  BY <1>4
<1>6. /\ applied' = b \o s /\ DOMAIN applied' = 1 .. p + q
      /\ \A i \in 1 .. p : applied'[i] = applied[i]
      /\ \A k \in 1 .. q : applied'[p + k] = s[k]
  BY <1>2, <1>4, <1>5, Lengths
<1>7. \A i \in 1 .. p : applied[i].txn # x
  BY <1>2, <1>5 DEF Whole, Applied
<1>8. \A k \in 1 .. q : /\ IsWork(s[k]) /\ WorkOK(own, x, s[k])
                        /\ \A l \in 1 .. q : k < l => Precedes(s[k], s[l])
  BY <1>2, <1>5 DEF Whole, Kept
<1>9. \A n \in 1 .. task[t].done : \A k \in 1 .. FramesIn(Work[t][n]) :
         \E l \in 1 .. q : Numbered(s[l], n, k)
  <2>1. ASSUME NEW n \in 1 .. task[t].done, NEW k \in 1 .. FramesIn(Work[t][n])
        PROVE  \E l \in 1 .. q : Numbered(s[l], n, k)
    <3>1. task[own[x]].txn = x /\ n \in 1 .. task[own[x]].done /\ k \in 1 .. FramesIn(Work[own[x]][n])
      BY <1>1
    <3>2. \/ \E l \in 1 .. Len(txns[x]) : Numbered(txns[x][l], n, k)
          \/ \E i \in 1 .. Len(wire) : IsWork(wire[i]) /\ wire[i].txn = x /\ Numbered(wire[i], n, k)
      BY <3>1 DEF Whole, Kept
    <3> QED
      BY <1>1, <1>2, <1>5, <3>2
  <2> QED
    BY <2>1
<1>10. ASSUME NEW i PROVE i \in CarriedOut(t)' => \E k \in 1 .. q : i = p + k /\ applied'[i] = s[k]
  <2>1. i \in CarriedOut(t)' => i \in 1 .. p + q /\ applied'[i].txn = x
    BY <1>1, <1>6 DEF CarriedOut
  <2>2. i \in 1 .. p + q => i \in 1 .. p \/ (i - p \in 1 .. q /\ i = p + (i - p))
    OBVIOUS
  <2>3. i \in 1 .. p => applied'[i].txn # x
    BY <1>6, <1>7
  <2> QED
    BY <1>6, <2>1, <2>2, <2>3
<1>11. ASSUME NEW k \in 1 .. q PROVE p + k \in CarriedOut(t)' /\ applied'[p + k] = s[k]
  <2>1. p + k \in 1 .. p + q
    OBVIOUS
  <2>2. s[k].txn = x
    BY <1>8 DEF WorkOK
  <2> QED
    BY <1>1, <1>6, <2>1, <2>2 DEF CarriedOut
<1>12. ASSUME NEW k \in 1 .. q
       PROVE  s[k].n \in 1 .. task[t].done /\ Part(s[k]) \in 1 .. FramesIn(Work[t][s[k].n])
  <2>1. WorkOK(own, x, s[k]) /\ IsWork(s[k])
    BY SMTT(30), <1>8
  <2>2. s[k].n \in 1 .. task[t].done /\ task[t].done \in 0 .. Len(Work[t])
    BY <1>1, <2>1 DEF WorkOK, Whole, Applied
  <2>3. PICK n : n = s[k].n
    OBVIOUS
  <2>4. Len(Work[t]) \in Nat
    BY <1>1, TransactionsAssumption
  <2>5. n \in 1 .. Len(Work[t])
    BY <2>2, <2>3, <2>4
  <2>6. CASE s[k].type = "post"
    BY ZenonT(60), <1>1, <2>1, <2>2, <2>3, <2>5, <2>6, ItemFacts DEF WorkOK, Part
  <2>7. CASE s[k].type # "post"
    <3>1. Part(s[k]) = 1
      BY <2>7 DEF Part
    <3>2. FramesIn(Work[t][n]) \in Nat /\ FramesIn(Work[t][n]) >= 1
      BY SMTT(30), <1>1, <2>5, ItemFacts
    <3> QED
      BY <2>2, <2>3, <3>1, <3>2
  <2> QED
    BY <2>6, <2>7
<1>13. (\A i \in CarriedOut(t) :
        applied[i].n \in 1 .. task[t].done /\ Part(applied[i]) \in 1 .. FramesIn(Work[t][applied[i].n]))'
  <2>1. ASSUME NEW i \in CarriedOut(t)'
        PROVE  applied'[i].n \in 1 .. task[t].done /\ Part(applied'[i]) \in 1 .. FramesIn(Work[t][applied'[i].n])
    <3>1. PICK k \in 1 .. q : i = p + k /\ applied'[i] = s[k]
      BY <1>10
    <3> QED
      BY <1>12, <3>1
  <2> QED
    BY <2>1 DEF Part
<1>14. (\A i, j \in CarriedOut(t) : i < j => Precedes(applied[i], applied[j]))'
  <2>1. ASSUME NEW i \in CarriedOut(t)', NEW j \in CarriedOut(t)', i < j
        PROVE  Precedes(applied'[i], applied'[j])
    <3>1. PICK k \in 1 .. q : i = p + k /\ applied'[i] = s[k]
      BY <1>10
    <3>2. PICK l \in 1 .. q : j = p + l /\ applied'[j] = s[l]
      BY <1>10
    <3>3. k < l
      BY <2>1, <3>1, <3>2
    <3> QED
      BY <1>8, <3>1, <3>2, <3>3
  <2> QED
    BY <2>1 DEF Precedes, Part
<1>15. (\A n \in 1 .. task[t].done : \A k \in 1 .. FramesIn(Work[t][n]) :
        \E i \in CarriedOut(t) : applied[i].n = n /\ Part(applied[i]) = k)'
  <2>1. ASSUME NEW n \in 1 .. task[t].done, NEW k \in 1 .. FramesIn(Work[t][n])
        PROVE  \E i \in CarriedOut(t)' : applied'[i].n = n /\ Part(applied'[i]) = k
    <3>1. PICK l \in 1 .. q : Numbered(s[l], n, k)
      BY <1>9
    <3> QED
      BY <1>11, <3>1 DEF Numbered
  <2> QED
    BY <2>1 DEF Part
<1> QED
  BY <1>13, <1>14, <1>15 DEF CarriedWhole

\* ... its answer is true.
LEMMA DischargeDone ==
  ASSUME NEW own, Whole(own), NEW m, control # <<>>, m = Head(control), m.op \in {"commit", "rollback"},
         UNCHANGED <<task, acked, back>>, NEW t, t = own[m.txn],
         m.op = "commit" => CarriedWhole(t)' /\ m.txn \notin DOMAIN txns'
  PROVE  DoneBefore(t, Len(back) + 1)'
<1>1. /\ t \in Txn /\ task[t].txn = m.txn /\ task[t].pc \notin Undischarged
      /\ m.op = "rollback" => task[t].pc \notin {"committing", "committed"}
      /\ \A i \in 1 .. Len(wire) : IsWork(wire[i]) => wire[i].txn # m.txn
  BY CommitReady
<1>2. CASE task[t].pc \notin {"committing", "committed"}
  BY <1>1, <1>2 DEF DoneBefore
<1>3. CASE task[t].pc \in {"committing", "committed"}
  <2>1. CarriedWhole(t)' /\ task[t].txn \notin DOMAIN txns'
    BY <1>1, <1>3
  <2>2. Len(back) \in Nat
    BY Lengths DEF Whole, Typed
  <2>3. ASSUME NEW n \in Posts(t)
        PROVE  n \in acked[t] \/ \E j \in 1 .. Len(back) : j < Len(back) + 1 /\ Presumed(back[j], t, n)
    <3>1. \/ n \in acked[t]
          \/ \E i \in 1 .. Len(back) : Presumed(back[i], t, n)
          \/ \E i \in 1 .. Len(wire) : wire[i].type = "post" /\ wire[i].txn = task[t].txn
      BY <1>1 DEF Whole, Posted
    <3>2. \A i \in 1 .. Len(wire) : wire[i].type = "post" => wire[i].txn # task[t].txn
      BY <1>1 DEF IsWork
    <3>3. \A j \in 1 .. Len(back) : j < Len(back) + 1
      BY <2>2
    <3> QED
      BY <3>1, <3>2, <3>3
  <2>4. Posts(t)' = Posts(t)
    BY DEF Posts
  <2>5. (\A n \in Posts(t) : n \in acked[t] \/ \E j \in 1 .. Len(back) : j < Len(back) + 1 /\ Presumed(back[j], t, n))'
    BY <2>3, <2>4
  <2> QED
    BY <1>1, <2>1, <2>5 DEF DoneBefore
<1> QED
  BY <1>2, <1>3

\* A request about a transaction handed out leaves the session and the application as they are.
EndFrame(own, m) ==
  /\ UNCHANGED <<plan, app, wire, back, issued, inbox, asked>>
  /\ control # <<>> /\ m = Head(control) /\ control' = Tail(control) /\ Ending(m)

\* The request at the head is about a coordinator's link.
LEMMA HeadLink ==
  ASSUME NEW own, Whole(own), NEW m, control # <<>>, m = Head(control)
  PROVE  IsSeq(control) /\ 1 \in 1 .. Len(control) /\ m = control[1] /\ m.link \in CtlLink
<1>1. IsSeq(control)
  BY DEF Whole, Typed
<1>2. 1 \in 1 .. Len(control) /\ m = control[1]
  BY <1>1, Taken
<1> QED
  BY <1>1, <1>2 DEF Whole, Requests

\* The work carried out stays the same.
LEMMA NoneCarried ==
  ASSUME Typed, applied' = applied
  PROVE  /\ IsSeq(applied') /\ Len(applied') >= Len(applied) /\ Len(applied') = Len(applied)
         /\ \A i \in 1 .. Len(applied) : applied'[i] = applied[i]
         /\ \A i \in 1 .. Len(applied') : ~(i > Len(applied))
<1>1. IsSeq(applied) /\ Len(applied) \in Nat
  BY Lengths DEF Typed
<1> QED
  BY <1>1

\* The work carried out has become more by the frames s.
LEMMA SomeCarried ==
  ASSUME Typed, NEW s, IsSeq(s), applied' = applied \o s
  PROVE  /\ IsSeq(applied') /\ Len(applied') >= Len(applied)
         /\ \A i \in 1 .. Len(applied) : applied'[i] = applied[i]
         /\ \A i \in 1 .. Len(applied') : i > Len(applied) => \E k \in 1 .. Len(s) : applied'[i] = s[k]
<1>1. PICK b : b = applied
  OBVIOUS
<1>2. IsSeq(s) /\ IsSeq(b)
  BY <1>1 DEF Typed
<1>3. /\ IsSeq(b \o s) /\ Len(b) \in Nat /\ Len(s) \in Nat /\ Len(b \o s) = Len(b) + Len(s)
      /\ \A i \in 1 .. Len(b) : (b \o s)[i] = b[i]
      /\ \A i \in 1 .. Len(s) : (b \o s)[Len(b) + i] = s[i]
  BY <1>2, Joined
<1>4. PICK p \in Nat, q \in Nat : p = Len(b) /\ q = Len(s)
  BY <1>3
<1>5. /\ applied' = b \o s /\ Len(applied') = p + q
      /\ \A i \in 1 .. p : applied'[i] = applied[i]
      /\ \A k \in 1 .. q : applied'[p + k] = s[k]
  BY <1>1, <1>3, <1>4
<1>6. ASSUME NEW i \in 1 .. p + q, i > p PROVE \E k \in 1 .. q : applied'[i] = s[k]
  <2>1. i - p \in 1 .. q /\ i = p + (i - p)
    BY <1>6
  <2> QED
    BY <1>5, <2>1
<1>7. p + q >= p
  OBVIOUS
<1> QED
  BY <1>1, <1>3, <1>4, <1>5, <1>6, <1>7

\* ResourceTransaction::commit_transaction
LEMMA CommitEffect ==
  ASSUME NEW own, Whole(own), NEW m, EndFrame(own, m), m.op = "commit", CommitTransaction(m.link, m.txn)
  PROVE  EndEffect(own, m)
<1>1. UNCHANGED <<plan, task, count, unsettled, answer, acked, wire, back, issued, inbox, asked>>
  BY DEF EndFrame, app
<1>2. PICK x, c, t : x = m.txn /\ c = m.link /\ t = own[x]
  OBVIOUS
<1>3. /\ c \in CtlLink /\ t = coord[c].id.of /\ x \in asked /\ Typed
      /\ control # <<>> /\ m = Head(control) /\ control' = Tail(control) /\ Ending(m)
  BY <1>2, CommitReady DEF EndFrame, Whole
<1>4. CASE x \notin DOMAIN txns
  <2>1. Respond(c, "rejected", x) /\ UNCHANGED <<txns, applied, session>>
    BY <1>2, <1>4 DEF CommitTransaction
  <2>2. txns' = [y \in DOMAIN txns \ {x} |-> txns[y]]
    <3>1. Typed /\ x \notin DOMAIN txns /\ txns' = txns
      BY <1>3, <1>4, <2>1
    <3>2. DOMAIN txns \ {x} = DOMAIN txns /\ txns = [y \in DOMAIN txns |-> txns[y]]
      BY <3>1 DEF Typed
    <3> QED
      BY <3>1, <3>2
  <2>3. /\ IsSeq(applied') /\ Len(applied') >= Len(applied) /\ Len(applied') = Len(applied)
        /\ \A i \in 1 .. Len(applied) : applied'[i] = applied[i]
        /\ \A i \in 1 .. Len(applied') : ~(i > Len(applied))
    BY <1>3, <2>1, NoneCarried
  <2>4. /\ coord' = [e \in CtlLink |-> [pc |-> coord'[e].pc, txn_ids |-> coord'[e].txn_ids,
                                  id |-> coord'[e].id, got |-> coord'[e].got]]
        /\ \A e \in CtlLink : e # c => coord'[e] = coord[e]
        /\ coord'[c].pc = "answered" /\ coord'[c].id = coord[c].id /\ coord'[c].txn_ids = coord[c].txn_ids
        /\ coord'[c].got.op = "rejected"
    BY <1>3, <2>1, RespondFacts
  <2> QED
    BY <1>1, <1>2, <1>3, <2>1, <2>2, <2>3, <2>4 DEF EndEffect
<1>5. CASE x \in DOMAIN txns
  <2>1. PICK s, u : s = txns[x] /\ u = Carried(s)
    OBVIOUS
  <2>2. txns' = [y \in DOMAIN txns \ {x} |-> txns[y]] /\ applied' = applied \o u
    BY <1>2, <1>5, <2>1 DEF CommitTransaction, Forget, Restrict
  <2>3. IsSeq(s) /\ \A k \in 1 .. Len(s) : s[k].txn = x
    BY <1>3, <1>5, <2>1 DEF Typed, Whole, Kept, WorkOK
  <2>4. /\ IsSeq(u) /\ Len(u) \in Nat /\ Len(u) <= Len(s) /\ \A k \in 1 .. Len(u) : u[k] = s[k]
        /\ Unrouted(s) = {} => u = s
    BY <2>1, <2>3, CarriedFacts
  <2>5. Len(s) \in Nat
    BY <2>3, Lengths
  <2>6. \A k \in 1 .. Len(u) : u[k].txn = x
    BY <2>3, <2>4, <2>5
  <2>7. /\ IsSeq(applied') /\ Len(applied') >= Len(applied)
        /\ \A i \in 1 .. Len(applied) : applied'[i] = applied[i]
        /\ \A i \in 1 .. Len(applied') : i > Len(applied) => applied'[i].txn = x
    BY SMTT(30), <1>3, <2>2, <2>4, <2>6, SomeCarried
  <2>8. CASE Unrouted(s) = {}
    <3>1. Respond(c, "accepted", x) /\ UNCHANGED session
      BY <1>2, <1>5, <2>1, <2>8 DEF CommitTransaction
    <3>2. applied' = applied \o txns[x]
      BY <2>1, <2>2, <2>4, <2>8
    <3>3. CarriedWhole(t)'
      BY <1>1, <1>2, <1>3, <1>5, <3>2, CommitWhole
    <3>4. x \notin DOMAIN txns'
      BY <2>2
    <3>5. DoneBefore(t, Len(back) + 1)'
      BY <1>1, <1>2, <1>3, <3>3, <3>4, DischargeDone
    <3>6. /\ coord' = [e \in CtlLink |-> [pc |-> coord'[e].pc, txn_ids |-> coord'[e].txn_ids,
                                  id |-> coord'[e].id, got |-> coord'[e].got]]
          /\ \A e \in CtlLink : e # c => coord'[e] = coord[e]
          /\ coord'[c].pc = "answered" /\ coord'[c].id = coord[c].id /\ coord'[c].txn_ids = coord[c].txn_ids
          /\ coord'[c].got.op = "accepted"
      BY <1>3, <3>1, RespondFacts
    <3> QED
      BY <1>1, <1>2, <1>3, <1>5, <2>2, <2>7, <3>1, <3>3, <3>5, <3>6 DEF EndEffect
  <2>9. CASE Unrouted(s) # {}
    <3>1. session' = "UnattachedHandle" /\ coord' = coord
      BY <1>2, <1>5, <2>1, <2>9 DEF CommitTransaction
    <3>2. coord' = [e \in CtlLink |-> [pc |-> coord'[e].pc, txn_ids |-> coord'[e].txn_ids,
                                  id |-> coord'[e].id, got |-> coord'[e].got]]
      BY <1>3, <3>1 DEF Typed
    <3> QED
      BY <1>1, <1>2, <1>3, <1>5, <2>2, <2>7, <3>1, <3>2 DEF EndEffect
  <2> QED
    BY <2>8, <2>9
<1> QED
  BY <1>4, <1>5

\* ResourceTransaction::rollback_transaction
LEMMA RollbackEffect ==
  ASSUME NEW own, Whole(own), NEW m, EndFrame(own, m), m.op = "rollback", RollbackTransaction(m.link, m.txn)
  PROVE  EndEffect(own, m)
<1>1. UNCHANGED <<plan, task, count, unsettled, answer, acked, wire, back, issued, inbox, asked>>
  BY DEF EndFrame, app
<1>2. PICK x, c, t, op : x = m.txn /\ c = m.link /\ t = own[x] /\ op = IF x \in DOMAIN txns THEN "accepted" ELSE "rejected"
  OBVIOUS
<1>3. /\ c \in CtlLink /\ t = coord[c].id.of /\ Typed /\ op \in {"accepted", "rejected"}
      /\ control # <<>> /\ m = Head(control) /\ control' = Tail(control) /\ Ending(m)
  BY <1>2, CommitReady DEF EndFrame, Whole
<1>4. /\ Respond(c, op, x) /\ UNCHANGED <<applied, session>>
      /\ txns' = [y \in DOMAIN txns \ {x} |-> txns[y]]
  BY <1>2 DEF RollbackTransaction, Forget, Restrict
<1>5. /\ IsSeq(applied') /\ Len(applied') >= Len(applied) /\ Len(applied') = Len(applied)
      /\ \A i \in 1 .. Len(applied) : applied'[i] = applied[i]
      /\ \A i \in 1 .. Len(applied') : ~(i > Len(applied))
  BY <1>3, <1>4, NoneCarried
<1>6. DoneBefore(t, Len(back) + 1)'
  BY <1>1, <1>2, <1>3, DischargeDone
<1>7. /\ coord' = [e \in CtlLink |-> [pc |-> coord'[e].pc, txn_ids |-> coord'[e].txn_ids,
                                  id |-> coord'[e].id, got |-> coord'[e].got]]
      /\ \A e \in CtlLink : e # c => coord'[e] = coord[e]
      /\ coord'[c].pc = "answered" /\ coord'[c].id = coord[c].id /\ coord'[c].txn_ids = coord[c].txn_ids
      /\ coord'[c].got.op = op
  BY <1>3, <1>4, RespondFacts
<1> QED
  BY <1>1, <1>2, <1>3, <1>4, <1>5, <1>6, <1>7 DEF EndEffect

\* A coordinator that is gone aborts.
LEMMA AbortEffect ==
  ASSUME NEW own, Whole(own), NEW m, EndFrame(own, m), m.op = "abort", txns' = Forget(m.txn),
         UNCHANGED <<coord, applied, session>>
  PROVE  EndEffect(own, m)
<1>1. UNCHANGED <<plan, task, count, unsettled, answer, acked, wire, back, issued, inbox, asked>>
  BY DEF EndFrame, app
<1>2. /\ Typed /\ control # <<>> /\ m = Head(control) /\ control' = Tail(control) /\ Ending(m)
  BY DEF EndFrame, Whole
<1>3. txns' = [y \in DOMAIN txns \ {m.txn} |-> txns[y]]
  BY DEF Forget, Restrict
<1>4. /\ IsSeq(applied') /\ Len(applied') >= Len(applied) /\ Len(applied') = Len(applied)
      /\ \A i \in 1 .. Len(applied) : applied'[i] = applied[i]
      /\ \A i \in 1 .. Len(applied') : ~(i > Len(applied))
  BY <1>2, NoneCarried
<1>5. coord' = [e \in CtlLink |-> [pc |-> coord'[e].pc, txn_ids |-> coord'[e].txn_ids,
                                  id |-> coord'[e].id, got |-> coord'[e].got]]
  BY <1>2 DEF Typed
<1> QED
  BY <1>1, <1>2, <1>3, <1>4, <1>5 DEF EndEffect

\* An id is handed out: y, to the transaction u whose declare the coordinator c holds.
Extends(own, own2, u, y) ==
  /\ issued \in Nat /\ y = issued + 1 /\ issued' = y
  /\ own2 \in [1 .. y -> Txn] /\ own2[y] = u /\ \A x \in 1 .. issued : own2[x] = own[x]

\* The owners with one more.
LEMMA ExtendFacts ==
  ASSUME NEW own, NEW own2, NEW u, NEW y, Extends(own, own2, u, y)
  PROVE  /\ y \in 1 .. y /\ y \notin 1 .. issued /\ y # NoId /\ issued' = y
         /\ \A x \in 1 .. issued : x \in 1 .. y /\ own2[x] = own[x] /\ x # y
         /\ \A x \in 1 .. y : x \in 1 .. issued \/ x = y
BY DEF Extends, NoId

AllocateEffect(own, own2, m, c, u, y) ==
  /\ UNCHANGED <<plan, task, count, unsettled, answer, acked, wire, back, inbox, session, applied, asked>>
  /\ control # <<>> /\ m = Head(control) /\ control' = Tail(control) /\ m.op = "allocate" /\ c = m.link
  /\ Extends(own, own2, u, y) /\ u = coord[c].id.of
  /\ txns' = [x \in DOMAIN txns' |-> txns'[x]] /\ DOMAIN txns' = DOMAIN txns \cup {y}
  /\ txns'[y] = <<>> /\ \A x \in DOMAIN txns : txns'[x] = txns[x]
  /\ coord' = [e \in CtlLink |-> [pc |-> coord'[e].pc, txn_ids |-> coord'[e].txn_ids,
                                  id |-> coord'[e].id, got |-> coord'[e].got]]
  /\ \A e \in CtlLink : e # c => coord'[e] = coord[e]
  /\ coord'[c].pc = "answered" /\ coord'[c].id = coord[c].id /\ coord'[c].txn_ids = coord[c].txn_ids
  /\ coord'[c].got = [op |-> "declared", txn |-> y] /\ coord'[c].got.op = "declared" /\ coord'[c].got.txn = y

\* SessionEngine::on_control allocates a transaction id.
LEMMA AllocateFacts ==
  ASSUME NEW own, Whole(own), NEW m, control # <<>>, m = Head(control), control' = Tail(control), m.op = "allocate",
         issued' = issued + 1, txns' = Put(txns, issued + 1, <<>>), Respond(m.link, "declared", issued + 1),
         UNCHANGED <<applied, session>>, UNCHANGED <<plan, app, wire, back, inbox, attached, asked>>
  PROVE  \E own2, u, y : AllocateEffect(own, own2, m, m.link, u, y)
<1>1. PICK c, u, y : c = m.link /\ u = coord[c].id.of /\ y = issued + 1
  OBVIOUS
<1>2. Typed /\ issued \in Nat /\ 1 \in 1 .. Len(control) /\ m = control[1] /\ c \in CtlLink
  BY <1>1, HeadLink DEF Whole, Typed
<1>3. DeclareOK(own, c, coord[c].id)
  BY <1>1, <1>2 DEF Whole, Declares
<1>4. u \in Txn
  BY <1>1, <1>3 DEF DeclareOK
<1>5. PICK own2 : own2 = [x \in 1 .. y |-> IF x = y THEN u ELSE own[x]]
  OBVIOUS
<1>6. own \in [1 .. issued -> Txn]
  BY DEF Whole, Ids
<1>7. Extends(own, own2, u, y)
  <2>1. \A x \in 1 .. y : x = y \/ x \in 1 .. issued
    BY <1>1, <1>2
  <2>2. y \in 1 .. y /\ \A x \in 1 .. issued : x \in 1 .. y /\ x # y
    BY <1>1, <1>2
  <2> QED
    BY <1>1, <1>2, <1>4, <1>5, <1>6, <2>1, <2>2 DEF Extends
<1>8. Respond(c, "declared", y)
  BY <1>1
<1>9. /\ coord' = [e \in CtlLink |-> [pc |-> coord'[e].pc, txn_ids |-> coord'[e].txn_ids,
                                  id |-> coord'[e].id, got |-> coord'[e].got]]
      /\ \A e \in CtlLink : e # c => coord'[e] = coord[e]
      /\ coord'[c].pc = "answered" /\ coord'[c].id = coord[c].id /\ coord'[c].txn_ids = coord[c].txn_ids
      /\ coord'[c].got = [op |-> "declared", txn |-> y] /\ coord'[c].got.op = "declared" /\ coord'[c].got.txn = y
  BY <1>2, <1>8, RespondFacts
<1>10. y \notin DOMAIN txns
  BY <1>1, <1>2 DEF Typed
<1>11. txns' = [x \in DOMAIN txns \cup {y} |-> IF x = y THEN <<>> ELSE txns[x]]
  BY <1>1 DEF Put
<1>12. /\ txns' = [x \in DOMAIN txns' |-> txns'[x]] /\ DOMAIN txns' = DOMAIN txns \cup {y}
       /\ txns'[y] = <<>> /\ \A x \in DOMAIN txns : txns'[x] = txns[x]
  BY <1>10, <1>11
<1>13. UNCHANGED <<plan, task, count, unsettled, answer, acked, wire, back, inbox, session, applied, asked>>
  BY DEF app
<1>14. AllocateEffect(own, own2, m, c, u, y)
  BY <1>1, <1>7, <1>9, <1>12, <1>13 DEF AllocateEffect
<1> QED
  BY <1>1, <1>14

\* What is known of the frames of an id handed out before.
LEMMA ExtendFrames ==
  ASSUME NEW own, NEW own2, NEW u, NEW y, Extends(own, own2, u, y), UNCHANGED <<plan, task, asked>>
  PROVE  /\ \A t : Ctl(t)' = Ctl(t)
         /\ \A e, id : MsgOK(e, id)' <=> MsgOK(e, id)
         /\ \A e : Left(e)' <=> Left(e)
         /\ \A e, id : DeclareOK(own, e, id) /\ id.of # u => DeclareOK(own2, e, id)'
         /\ \A id, op, x : DischargeOK(own, id, op, x) => DischargeOK(own2, id, op, x)'
         /\ \A f : FrameOK(own, f) => FrameOK(own2, f)'
         /\ \A x, f : WorkOK(own, x, f) => WorkOK(own2, x, f)'
         /\ \A f : \A x \in 1 .. issued : Ends(own2, x, f)' <=> Ends(own, x, f)
<1>1. \A x \in 1 .. issued : x \in 1 .. issued' /\ own2[x] = own[x]
  BY ExtendFacts
<1>2. \A x \in 1 .. issued' : x \in 1 .. issued \/ own2[x] = u
  BY ExtendFacts DEF Extends
<1>3. \A t : Ctl(t)' = Ctl(t)
  BY DEF Ctl
<1>4. \A e, id : MsgOK(e, id)' <=> MsgOK(e, id)
  BY <1>3 DEF MsgOK
<1>5. \A e : Left(e)' <=> Left(e)
  BY <1>3 DEF Left
<1>6. ASSUME NEW e, NEW id, DeclareOK(own, e, id), id.of # u PROVE DeclareOK(own2, e, id)'
  BY <1>1, <1>2, <1>3, <1>6 DEF DeclareOK
<1>7. ASSUME NEW id, NEW op, NEW x, DischargeOK(own, id, op, x) PROVE DischargeOK(own2, id, op, x)'
  BY <1>1, <1>7 DEF DischargeOK
<1>8. ASSUME NEW f, FrameOK(own, f) PROVE FrameOK(own2, f)'
  <2>1. /\ f.type = "control" => MsgOK(f.link, f.id)'
        /\ f.type = "detach" /\ f.link \in CtlLink => Left(f.link)'
        /\ IsDeclare(f) => f.txn = NoId
    BY <1>4, <1>5, <1>8 DEF FrameOK
  <2>2. IsDischarge(f) => DischargeOK(own2, f.id, f.op, f.txn)'
    BY <1>7, <1>8 DEF FrameOK
  <2> QED
    BY <2>1, <2>2 DEF FrameOK
<1>9. ASSUME NEW x, NEW f, WorkOK(own, x, f) PROVE WorkOK(own2, x, f)'
  <2>1. x \in 1 .. issued
    BY <1>9 DEF WorkOK
  <2> QED
    BY <1>1, <1>9, <2>1 DEF WorkOK
<1>10. ASSUME NEW f, NEW x \in 1 .. issued PROVE Ends(own2, x, f)' <=> Ends(own, x, f)
  BY <1>1, <1>3 DEF Ends
<1> QED
  BY <1>3, <1>4, <1>5, <1>6, <1>7, <1>8, <1>9, <1>10

\* ... and keeps the invariant, with the new owner.
LEMMA AllocateWhole ==
  ASSUME NEW own, NEW own2, NEW m, NEW c, NEW u, NEW y, Whole(own), AllocateEffect(own, own2, m, c, u, y)
  PROVE  Whole(own2)'
<1>1. /\ UNCHANGED <<plan, task, count, unsettled, answer, acked, wire, back, inbox, session, applied, asked>>
      /\ Typed /\ Extends(own, own2, u, y) /\ u = coord[c].id.of /\ m.op = "allocate" /\ c = m.link
  BY SMTT(30) DEF AllocateEffect, Whole
<1>2. /\ IsSeq(control') /\ 1 \in 1 .. Len(control) /\ m = control[1]
      /\ \A k \in 1 .. Len(control') : k + 1 \in 1 .. Len(control) /\ control'[k] = control[k + 1] /\ k + 1 # 1
      /\ \A j, k \in 1 .. Len(control') : j + 1 = k + 1 => j = k
  BY <1>1, ControlTaken DEF AllocateEffect, Typed
<1>3. /\ txns' = [x \in DOMAIN txns' |-> txns'[x]] /\ DOMAIN txns' = DOMAIN txns \cup {y}
      /\ txns'[y] = <<>> /\ \A x \in DOMAIN txns : txns'[x] = txns[x]
  BY DEF AllocateEffect
<1>4. /\ c \in CtlLink /\ coord[c].pc = "asking" /\ coord[c].got.op = "none"
      /\ u \in Txn /\ Ctl(u) = c /\ task[u].pc # "idle" /\ \A x \in 1 .. issued : own[x] # u
      /\ \A j \in 1 .. Len(wire) : IsDeclare(wire[j]) => wire[j].id.of # u
      /\ \A i \in 1 .. Len(inbox[c]) : IsDeclare(inbox[c][i]) => inbox[c][i].id.of # u
  <2>1. c \in CtlLink /\ coord[c].pc = "asking" /\ coord[c].got.op = "none"
    BY SMTT(30), <1>1, <1>2 DEF Whole, Requests
  <2>2. /\ DeclareOK(own, c, coord[c].id)
        /\ \A j \in 1 .. Len(wire) : IsDeclare(wire[j]) => wire[j].id.of # coord[c].id.of
        /\ \A i \in 1 .. Len(inbox[c]) : IsDeclare(inbox[c][i]) => inbox[c][i].id.of # coord[c].id.of
    BY <1>1, <1>2 DEF Whole, Declares
  <2> QED
    BY <1>1, <2>1, <2>2 DEF DeclareOK
<1>5. /\ coord' = [e \in CtlLink |-> [pc |-> coord'[e].pc, txn_ids |-> coord'[e].txn_ids,
                                  id |-> coord'[e].id, got |-> coord'[e].got]]
      /\ \A e \in CtlLink : e # c => coord'[e] = coord[e]
      /\ coord'[c].pc = "answered" /\ coord'[c].id = coord[c].id /\ coord'[c].txn_ids = coord[c].txn_ids
      /\ coord'[c].got = [op |-> "declared", txn |-> y] /\ coord'[c].got.op = "declared" /\ coord'[c].got.txn = y
  BY DEF AllocateEffect
<1>6. /\ y \in 1 .. y /\ y \notin 1 .. issued /\ y # NoId /\ issued' = y
      /\ \A x \in 1 .. issued : x \in 1 .. y /\ own2[x] = own[x] /\ x # y
      /\ \A x \in 1 .. y : x \in 1 .. issued \/ x = y
      /\ own2[y] = u /\ own2 \in [1 .. y -> Txn]
  BY <1>1, ExtendFacts DEF Extends
<1>7. /\ \A t : Ctl(t)' = Ctl(t)
      /\ \A e, id : MsgOK(e, id)' <=> MsgOK(e, id)
      /\ \A e, id : DeclareOK(own, e, id) /\ id.of # u => DeclareOK(own2, e, id)'
      /\ \A id, op, x : DischargeOK(own, id, op, x) => DischargeOK(own2, id, op, x)'
      /\ \A f : FrameOK(own, f) => FrameOK(own2, f)'
      /\ \A x, f : WorkOK(own, x, f) => WorkOK(own2, x, f)'
      /\ \A f : \A x \in 1 .. issued : Ends(own2, x, f)' <=> Ends(own, x, f)
  BY <1>1, ExtendFrames
<1>8. ASSUME NEW k \in 1 .. Len(control')
      PROVE  /\ control'[k].link \in CtlLink
             /\ control'[k].op # "abort" => control'[k].link # c /\ coord'[control'[k].link] = coord[control'[k].link]
  <2>1. PICK r : r = control'[k]
    OBVIOUS
  <2>2. r = control[k + 1] /\ k + 1 \in 1 .. Len(control) /\ k + 1 # 1
    BY <1>2, <2>1
  <2>3. r.link \in CtlLink
    BY <2>2 DEF Whole, Requests
  <2>4. r.op # "abort" => \A j \in 1 .. Len(control) : control[j].op # "abort" /\ control[j].link = r.link => j = k + 1
    BY <2>2 DEF Whole, Requests
  <2>5. control[1].op # "abort" /\ control[1].link = c
    BY <1>1, <1>2
  <2>6. r.op # "abort" => r.link # c
    BY <1>2, <2>2, <2>4, <2>5
  <2> QED
    BY <1>5, <2>1, <2>3, <2>6
<1>9. \A t \in Txn : task[t].txn # NoId => task[t].txn \in 1 .. issued /\ own[task[t].txn] = t /\ task[t].txn # y
  BY SMTT(30), <1>6 DEF Whole, Learned
<1>10. DOMAIN txns \subseteq 1 .. issued /\ asked \subseteq 1 .. issued
  BY ZenonT(60), <1>1 DEF Typed, Whole, Asked
<1>11. Typed'
  <2>1. ASSUME NEW x \in DOMAIN txns' PROVE IsSeq(txns'[x]) /\ x \in 1 .. issued'
    <3>1. CASE x = y
      BY <1>3, <1>6, <3>1, Empty
    <3>2. CASE x \in DOMAIN txns
      BY <1>1, <1>3, <1>6, <1>10, <3>2 DEF Typed
    <3> QED
      BY <1>3, <2>1, <3>1, <3>2
  <2>2. issued' \in Nat
    BY <1>1 DEF Extends
  <2> QED
    BY ZenonT(60), <1>1, <1>2, <1>3, <1>5, <2>1, <2>2 DEF Typed
<1>12. Ids(own2)'
  <2>1. \A x, z \in 1 .. y : own2[x] = own2[z] => x = z
    BY <1>4, <1>6 DEF Whole, Ids
  <2>2. \A x \in 1 .. y : task[own2[x]].pc # "idle"
    BY <1>4, <1>6 DEF Whole, Ids
  <2>3. ASSUME NEW e \in CtlLink
        PROVE  (/\ coord[e].txn_ids \subseteq 1 .. issued
                /\ \A x \in coord[e].txn_ids : Ctl(own2[x]) = e
                /\ Declared(e) =>
                     /\ coord[e].pc = "answered" /\ coord[e].got = [op |-> "declared", txn |-> coord[e].got.txn]
                     /\ coord[e].got.txn \in 1 .. issued /\ Ctl(own2[coord[e].got.txn]) = e
                     /\ own2[coord[e].got.txn] = coord[e].id.of
                     /\ coord[e].got.txn \notin coord[e].txn_ids
                /\ coord[e].pc = "gone" => coord[e].txn_ids = {})'
    <3>1. coord'[e].txn_ids = coord[e].txn_ids /\ coord[e].txn_ids \subseteq 1 .. issued
      BY <1>5 DEF Whole, Ids
    <3>2. \A x \in coord'[e].txn_ids : x \in 1 .. issued' /\ (Ctl(own2[x]) = e)'
      <4>1. ASSUME NEW x \in coord[e].txn_ids PROVE x \in 1 .. issued' /\ Ctl(own2[x])' = e
        <5>1. Ctl(own[x]) = e /\ x \in 1 .. issued
          BY <3>1 DEF Whole, Ids
        <5>2. own2[x] = own[x] /\ x \in 1 .. issued'
          BY <1>6, <5>1
        <5> QED
          BY <1>7, <5>1, <5>2
      <4> QED
        BY <3>1, <4>1
    <3>3. CASE e = c
      <4>1. /\ coord'[e].pc = "answered" /\ coord'[e].got = [op |-> "declared", txn |-> y] /\ coord'[e].got.txn = y
            /\ y \in 1 .. issued' /\ own2[y] = coord'[e].id.of /\ y \notin coord'[e].txn_ids
        BY <1>1, <1>5, <1>6, <3>1, <3>3
      <4>2. Ctl(own2[y])' = e
        BY <1>4, <1>6, <1>7, <3>3
      <4>3. /\ coord'[e].txn_ids \subseteq 1 .. issued' /\ coord'[e].pc # "gone"
            /\ (\A x \in coord[e].txn_ids : Ctl(own2[x]) = e)'
        BY <3>2, <4>1
      <4> QED
        BY <4>1, <4>2, <4>3
    <3>4. CASE e # c
      <4>1. coord'[e] = coord[e]
        BY <1>5, <3>4
      <4>2. PICK x : x = coord[e].got.txn
        OBVIOUS
      <4>3. /\ coord[e].got.op = "declared" =>
                     /\ coord[e].pc = "answered" /\ coord[e].got = [op |-> "declared", txn |-> x]
                     /\ x \in 1 .. issued /\ Ctl(own[x]) = e
                     /\ own[x] = coord[e].id.of /\ x \notin coord[e].txn_ids
            /\ coord[e].pc = "gone" => coord[e].txn_ids = {}
        BY <4>2 DEF Whole, Ids, Declared
      <4>4. x \in 1 .. issued => own2[x] = own[x] /\ x \in 1 .. issued'
        BY <1>6
      <4> QED
        BY <1>7, <3>2, <4>1, <4>2, <4>3, <4>4 DEF Declared
    <3> QED
      BY <3>3, <3>4
  <2>4. ASSUME NEW k \in 1 .. Len(control'), Ending(control'[k])
        PROVE  (/\ control[k].txn \in 1 .. issued /\ Ctl(own2[control[k].txn]) = control[k].link
                /\ \A j \in 1 .. Len(control) : Ending(control[j]) /\ control[j].txn = control[k].txn => j = k
                /\ control[k].txn \notin coord[control[k].link].txn_ids
                /\ Declared(control[k].link) => coord[control[k].link].got.txn # control[k].txn)'
    <3>1. PICK r : r = control'[k]
      OBVIOUS
    <3>2. r = control[k + 1] /\ k + 1 \in 1 .. Len(control) /\ Ending(r) /\ r.link \in CtlLink
      BY <1>2, <1>8, <2>4, <3>1
    <3>3. /\ r.txn \in 1 .. issued /\ Ctl(own[r.txn]) = r.link
          /\ \A j \in 1 .. Len(control) : Ending(control[j]) /\ control[j].txn = r.txn => j = k + 1
          /\ r.txn \notin coord[r.link].txn_ids
          /\ Declared(r.link) => coord[r.link].got.txn # r.txn
      BY <3>2 DEF Whole, Ids
    <3>4. \A j \in 1 .. Len(control') : Ending(control'[j]) /\ control'[j].txn = r.txn => j = k
      BY <1>2, <3>3
    <3>5. r.txn \notin coord'[r.link].txn_ids /\ (coord'[r.link].got.op = "declared" => coord'[r.link].got.txn # r.txn)
      BY <1>5, <1>6, <3>2, <3>3 DEF Declared
    <3>6. r.txn \in 1 .. issued' /\ own2[r.txn] = own[r.txn]
      BY <1>6, <3>3
    <3> QED
      BY <1>7, <3>1, <3>3, <3>4, <3>5, <3>6 DEF Declared
  <2>5. (\A e \in CtlLink :
                /\ coord[e].txn_ids \subseteq 1 .. issued
                /\ \A x \in coord[e].txn_ids : Ctl(own2[x]) = e
                /\ Declared(e) =>
                     /\ coord[e].pc = "answered" /\ coord[e].got = [op |-> "declared", txn |-> coord[e].got.txn]
                     /\ coord[e].got.txn \in 1 .. issued /\ Ctl(own2[coord[e].got.txn]) = e
                     /\ own2[coord[e].got.txn] = coord[e].id.of
                     /\ coord[e].got.txn \notin coord[e].txn_ids
                /\ coord[e].pc = "gone" => coord[e].txn_ids = {})'
    BY <2>3
  <2>6. (\A k \in 1 .. Len(control) : Ending(control[k]) =>
                /\ control[k].txn \in 1 .. issued /\ Ctl(own2[control[k].txn]) = control[k].link
                /\ \A j \in 1 .. Len(control) : Ending(control[j]) /\ control[j].txn = control[k].txn => j = k
                /\ control[k].txn \notin coord[control[k].link].txn_ids
                /\ Declared(control[k].link) => coord[control[k].link].got.txn # control[k].txn)'
    BY <2>4
  <2> QED
    BY <1>1, <1>6, <2>1, <2>2, <2>5, <2>6 DEF Ids
<1>13. Requests'
  <2>1. ASSUME NEW k \in 1 .. Len(control')
        PROVE  /\ control'[k].link \in CtlLink /\ control'[k].op \in {"allocate", "commit", "rollback", "abort"}
               /\ control'[k].op # "abort" =>
                    /\ coord'[control'[k].link].pc = "asking"
                    /\ \A j \in 1 .. Len(control') :
                         control'[j].op # "abort" /\ control'[j].link = control'[k].link => j = k
    <3>1. PICK r : r = control'[k]
      OBVIOUS
    <3>2. r = control[k + 1] /\ k + 1 \in 1 .. Len(control) /\ k + 1 # 1
      BY <1>2, <3>1
    <3>3. /\ r.link \in CtlLink /\ r.op \in {"allocate", "commit", "rollback", "abort"}
          /\ r.op # "abort" =>
                    /\ coord[r.link].pc = "asking"
                    /\ \A j \in 1 .. Len(control) :
                         control[j].op # "abort" /\ control[j].link = r.link => j = k + 1
      BY <3>2 DEF Whole, Requests
    <3>4. r.op # "abort" => coord'[r.link] = coord[r.link]
      BY <1>8, <3>1
    <3>5. r.op # "abort" => \A j \in 1 .. Len(control') : control'[j].op # "abort" /\ control'[j].link = r.link => j = k
      BY <1>2, <3>3
    <3> QED
      BY <3>1, <3>3, <3>4, <3>5
  <2>2. ASSUME NEW e \in CtlLink
        PROVE  /\ coord'[e].pc \in {"idle", "asking", "gone"} => coord'[e].got.op = "none"
               /\ coord'[e].pc = "answered" => coord'[e].got.op # "none"
    <3>1. CASE e # c
      BY <1>5, <3>1 DEF Whole, Requests
    <3>2. CASE e = c
      BY <1>5, <3>2
    <3> QED
      BY <3>1, <3>2
  <2> QED
    BY <2>1, <2>2 DEF Requests
<1>14. Routed'
  BY <1>1 DEF Whole, Routed
<1>15. Declares(own2)'
  <2>1. (\A i \in 1 .. Len(wire) : IsDeclare(wire[i]) => DeclareOK(own2, wire[i].link, wire[i].id))'
    BY <1>1, <1>4, <1>7 DEF Whole, Declares
  <2>2. \A e, id : DeclareOK(own, e, id) /\ e # c => DeclareOK(own2, e, id)'
    BY <1>4, <1>7 DEF DeclareOK
  <2>3. ASSUME NEW e \in CtlLink, NEW i \in 1 .. Len(inbox[e]), IsDeclare(inbox[e][i])
        PROVE  /\ DeclareOK(own2, e, inbox[e][i].id)'
               /\ \A j \in 1 .. Len(wire) : IsDeclare(wire[j]) => wire[j].id.of # inbox[e][i].id.of
    <3>1. PICK f : f = inbox[e][i]
      OBVIOUS
    <3>2. DeclareOK(own, e, f.id) /\ \A j \in 1 .. Len(wire) : IsDeclare(wire[j]) => wire[j].id.of # f.id.of
      BY <2>3, <3>1 DEF Whole, Declares
    <3>3. e = c => f.id.of # u
      BY <1>4, <2>3, <3>1
    <3>4. DeclareOK(own2, e, f.id)'
      BY <1>7, <2>2, <3>2, <3>3
    <3> QED
      BY <1>1, <3>1, <3>2, <3>4
  <2>4. ASSUME NEW k \in 1 .. Len(control'), control'[k].op = "allocate", NEW e, e = control'[k].link
        PROVE  /\ DeclareOK(own2, e, coord[e].id)'
               /\ \A j \in 1 .. Len(wire) : IsDeclare(wire[j]) => wire[j].id.of # coord'[e].id.of
               /\ \A i \in 1 .. Len(inbox[e]) : IsDeclare(inbox[e][i]) => inbox[e][i].id.of # coord'[e].id.of
    <3>1. e \in CtlLink /\ e # c /\ coord'[e] = coord[e]
      BY <1>8, <2>4
    <3>2. PICK id : id = coord[e].id
      OBVIOUS
    <3>3. /\ DeclareOK(own, e, id)
          /\ \A j \in 1 .. Len(wire) : IsDeclare(wire[j]) => wire[j].id.of # id.of
          /\ \A i \in 1 .. Len(inbox[e]) : IsDeclare(inbox[e][i]) => inbox[e][i].id.of # id.of
      <4>1. k + 1 \in 1 .. Len(control) /\ control[k + 1].op = "allocate" /\ control[k + 1].link = e
        BY <1>2, <2>4
      <4> QED
        BY <3>2, <4>1 DEF Whole, Declares
    <3>4. DeclareOK(own2, e, id)'
      BY <2>2, <3>1, <3>3
    <3> QED
      BY <3>1, <3>2, <3>3, <3>4
  <2>5. (\A k \in 1 .. Len(control) : control[k].op = "allocate" =>
       LET e == control[k].link IN
       /\ DeclareOK(own2, e, coord[e].id)
       /\ \A j \in 1 .. Len(wire) : IsDeclare(wire[j]) => wire[j].id.of # coord[e].id.of
       /\ \A i \in 1 .. Len(inbox[e]) : IsDeclare(inbox[e][i]) => inbox[e][i].id.of # coord[e].id.of)'
    BY <1>1, <2>4
  <2>6. (\A e \in CtlLink : \A i \in 1 .. Len(inbox[e]) : IsDeclare(inbox[e][i]) =>
       /\ DeclareOK(own2, e, inbox[e][i].id)
       /\ \A j \in 1 .. Len(wire) : IsDeclare(wire[j]) => wire[j].id.of # inbox[e][i].id.of)'
    BY <1>1, <2>3
  <2>7. Single(wire)' /\ (\A e \in CtlLink : Single(inbox[e]))'
    BY <1>1 DEF Whole, Declares, Single
  <2> QED
    BY <2>1, <2>5, <2>6, <2>7 DEF Declares
<1>16. Asked(own2)'
  <2>1. (\A e \in CtlLink : coord[e].pc \in {"asking", "answered"} => MsgOK(e, coord[e].id))'
    <3>1. \A e \in CtlLink : coord'[e].id = coord[e].id /\ (coord'[e].pc \in {"asking", "answered"} => coord[e].pc \in {"asking", "answered"})
      BY <1>4, <1>5
    <3> QED
      BY <1>7, <3>1 DEF Whole, Asked
  <2>2. ASSUME NEW k \in 1 .. Len(control'), control'[k].op \in {"commit", "rollback"}
        PROVE  DischargeOK(own2, coord[control[k].link].id, control[k].op, control[k].txn)'
    <3>1. PICK id, op, x : id = coord'[control'[k].link].id /\ op = control'[k].op /\ x = control'[k].txn
      OBVIOUS
    <3>2. coord'[control'[k].link] = coord[control'[k].link]
      BY <1>8, <2>2
    <3>3. DischargeOK(own, id, op, x)
      BY <1>2, <2>2, <3>1, <3>2 DEF Whole, Asked
    <3>4. DischargeOK(own2, id, op, x)'
      BY <1>7, <3>3
    <3> QED
      BY <3>1, <3>4
  <2>3. ASSUME NEW k \in 1 .. Len(control'), control'[k].op = "abort"
        PROVE  task[own2[control'[k].txn]].pc \in Final
    <3>1. k + 1 \in 1 .. Len(control) /\ control'[k] = control[k + 1] /\ Ending(control[k + 1])
      BY <1>2, <2>3 DEF Ending
    <3>2. control[k + 1].txn \in 1 .. issued /\ task[own[control[k + 1].txn]].pc \in Final
      BY <2>3, <3>1 DEF Whole, Ids, Asked
    <3> QED
      BY <1>6, <3>1, <3>2
  <2>4. (\A k \in 1 .. Len(control) :
       /\ control[k].op \in {"commit", "rollback"} =>
            DischargeOK(own2, coord[control[k].link].id, control[k].op, control[k].txn)
       /\ control[k].op = "abort" => task[own2[control[k].txn]].pc \in Final)'
    BY <1>1, <2>2, <2>3
  <2>5. (\A x \in asked :
       /\ x \in 1 .. issued /\ task[own2[x]].txn = x
       /\ task[own2[x]].pc \notin Undischarged \cup {"rolling", "rolledback"})'
    BY <1>1, <1>6 DEF Whole, Asked
  <2>6. (\A i \in 1 .. Len(wire) : FrameOK(own2, wire[i]))'
    BY <1>1, <1>7 DEF Whole, Asked
  <2>7. (\A e \in CtlLink : \A i \in 1 .. Len(inbox[e]) : FrameOK(own2, inbox[e][i]))'
    BY <1>1, <1>7 DEF Whole, Asked
  <2> QED
    BY <2>1, <2>4, <2>5, <2>6, <2>7 DEF Asked
<1>17. Tags'
  <2>1. \A e, id : TagOK(e, id)' <=> TagOK(e, id)
    BY <1>1 DEF TagOK
  <2>2. (\A e \in CtlLink : Declared(e) => TagOK(e, coord[e].id))'
    <3>1. TagOK(c, coord[c].id)
      BY <1>1, <1>2 DEF Whole, Tags
    <3>2. ASSUME NEW e \in CtlLink, Declared(e)' PROVE TagOK(e, coord[e].id)'
      <4>1. PICK id : id = coord[e].id
        OBVIOUS
      <4>2. coord'[e].id = id
        BY <1>5, <4>1
      <4>3. TagOK(e, id)
        BY <1>5, <3>1, <3>2, <4>1 DEF Whole, Tags, Declared
      <4> QED
        BY <2>1, <4>2, <4>3
    <3> QED
      BY <3>2
  <2>3. ASSUME NEW k \in 1 .. Len(control'), control'[k].op = "allocate"
        PROVE  TagOK(control[k].link, coord[control[k].link].id)'
    <3>1. PICK e, id : e = control'[k].link /\ id = coord'[e].id
      OBVIOUS
    <3>2. e \in CtlLink /\ TagOK(e, coord[e].id) /\ coord'[e] = coord[e]
      BY ZenonT(60), <1>2, <1>8, <2>3, <3>1 DEF Whole, Tags
    <3>3. TagOK(e, id)'
      BY <2>1, <3>1, <3>2
    <3> QED
      BY <3>1, <3>3
  <2>4. (\A k \in 1 .. Len(control) : control[k].op = "allocate" => TagOK(control[k].link, coord[control[k].link].id))'
    BY <2>3
  <2> QED
    BY <1>1, <2>1, <2>2, <2>4 DEF Whole, Tags
<1>18. Learned(own2)'
  <2>1. \A t \in Txn :
          /\ task[t].txn # NoId => task[t].txn \in 1 .. issued' /\ own2[task[t].txn] = t
          /\ answer[t].op = "declared" => answer[t].txn \in 1 .. issued' /\ own2[answer[t].txn] = t
    BY <1>6 DEF Whole, Learned
  <2>2. \A i \in 1 .. Len(back) : back[i].op = "declared" => /\ back[i].id.link \in CtlLink
                                      /\ back[i].txn \in 1 .. issued' /\ own2[back[i].txn] = back[i].id.of
    BY <1>6 DEF Whole, Learned
  <2>3. (\A i \in 1 .. Len(back) : back[i].id.link \in CtlLink => MsgOK(back[i].id.link, back[i].id))'
    BY <1>1, <1>7 DEF Whole, Learned
  <2>4. \A t \in Txn :
       /\ task[t].pc \notin {"idle", "declaring", "failed", "gone"} => task[t].txn # NoId
       /\ task[t].pc \in {"idle", "declaring"} => task[t].txn = NoId /\ task[t].done = 0
    BY DEF Whole, Learned
  <2> QED
    BY <1>1, <2>1, <2>2, <2>3, <2>4 DEF Learned
<1>19. OnWire(own2)'
  <2>1. ASSUME NEW x, x \in 1 .. issued, Pending(own, x) PROVE Pending(own2, x)'
    <3>1. x \in DOMAIN txns'
      BY <1>3, <2>1 DEF Pending
    <3>2. \A k \in 1 .. Len(control') : Ending(control'[k]) => control'[k].txn # x
      BY <1>2, <2>1 DEF Pending
    <3>3. (\A e \in CtlLink : \A k \in 1 .. Len(inbox[e]) : ~Ends(own2, x, inbox[e][k]))'
      BY <1>1, <1>7, <2>1 DEF Pending
    <3> QED
      BY <3>1, <3>2, <3>3 DEF Pending
  <2>2. ASSUME NEW i \in 1 .. Len(wire), IsWork(wire[i])
        PROVE  (/\ WorkOK(own2, wire[i].txn, wire[i]) /\ Pending(own2, wire[i].txn)
                /\ \A j \in 1 .. Len(wire) : j < i =>
                     /\ ~Ends(own2, wire[i].txn, wire[j])
                     /\ IsWork(wire[j]) /\ wire[j].txn = wire[i].txn => Precedes(wire[j], wire[i]))'
    <3>1. PICK f, x : f = wire[i] /\ x = f.txn
      OBVIOUS
    <3>2. /\ WorkOK(own, x, f) /\ Pending(own, x)
          /\ \A j \in 1 .. Len(wire) : j < i =>
                     /\ ~Ends(own, x, wire[j])
                     /\ IsWork(wire[j]) /\ wire[j].txn = x => Precedes(wire[j], f)
      BY <2>2, <3>1 DEF Whole, OnWire
    <3>3. x \in 1 .. issued
      BY <3>2 DEF WorkOK
    <3>4. WorkOK(own2, x, f)' /\ Pending(own2, x)'
      BY <1>7, <2>1, <3>2, <3>3
    <3>5. (\A j \in 1 .. Len(wire) : j < i => ~Ends(own2, x, wire[j]))'
      BY <1>1, <1>7, <3>2, <3>3
    <3> QED
      BY <1>1, <3>1, <3>2, <3>4, <3>5
  <2> QED
    BY <1>1, <2>2 DEF OnWire
<1>20. Kept(own2)'
  <2>1. ASSUME NEW x \in DOMAIN txns'
        PROVE  (/\ \A k \in 1 .. Len(txns[x]) :
                    /\ IsWork(txns[x][k]) /\ WorkOK(own2, x, txns[x][k])
                    /\ \A l \in 1 .. Len(txns[x]) : k < l => Precedes(txns[x][k], txns[x][l])
                    /\ \A i \in 1 .. Len(wire) : IsWork(wire[i]) /\ wire[i].txn = x => Precedes(txns[x][k], wire[i])
                /\ task[own2[x]].txn = x =>
                    \A n \in 1 .. task[own2[x]].done : \A p \in 1 .. FramesIn(Work[own2[x]][n]) :
                      \/ \E k \in 1 .. Len(txns[x]) : Numbered(txns[x][k], n, p)
                      \/ \E i \in 1 .. Len(wire) : IsWork(wire[i]) /\ wire[i].txn = x /\ Numbered(wire[i], n, p))'
    <3>1. CASE x = y
      <4>1. txns'[x] = <<>> /\ Len(txns'[x]) = 0
        BY <1>3, <3>1, Empty
      <4>2. task[own2[x]].txn # x
        BY <1>4, <1>6, <1>9, <3>1
      <4>3. 1 .. 0 = {}
        OBVIOUS
      <4> QED
        BY <1>1, <4>1, <4>2, <4>3
    <3>2. CASE x \in DOMAIN txns
      <4>1. PICK s, t : s = txns[x] /\ t = own[x]
        OBVIOUS
      <4>2. txns'[x] = s /\ own2[x] = t
        BY <1>3, <1>6, <1>10, <3>2, <4>1
      <4>3. /\ \A k \in 1 .. Len(s) :
                    /\ IsWork(s[k]) /\ WorkOK(own, x, s[k])
                    /\ \A l \in 1 .. Len(s) : k < l => Precedes(s[k], s[l])
                    /\ \A i \in 1 .. Len(wire) : IsWork(wire[i]) /\ wire[i].txn = x => Precedes(s[k], wire[i])
            /\ task[t].txn = x =>
                    \A n \in 1 .. task[t].done : \A p \in 1 .. FramesIn(Work[t][n]) :
                      \/ \E k \in 1 .. Len(s) : Numbered(s[k], n, p)
                      \/ \E i \in 1 .. Len(wire) : IsWork(wire[i]) /\ wire[i].txn = x /\ Numbered(wire[i], n, p)
        BY <3>2, <4>1 DEF Whole, Kept
      <4>4. \A k \in 1 .. Len(s) : WorkOK(own2, x, s[k])'
        BY <1>7, <4>3
      <4> QED
        BY <1>1, <4>2, <4>3, <4>4
    <3> QED
      BY <1>3, <2>1, <3>1, <3>2
  <2>2. (\A x \in DOMAIN txns :
               /\ \A k \in 1 .. Len(txns[x]) :
                    /\ IsWork(txns[x][k]) /\ WorkOK(own2, x, txns[x][k])
                    /\ \A l \in 1 .. Len(txns[x]) : k < l => Precedes(txns[x][k], txns[x][l])
                    /\ \A i \in 1 .. Len(wire) : IsWork(wire[i]) /\ wire[i].txn = x => Precedes(txns[x][k], wire[i])
               /\ task[own2[x]].txn = x =>
                    \A n \in 1 .. task[own2[x]].done : \A p \in 1 .. FramesIn(Work[own2[x]][n]) :
                      \/ \E k \in 1 .. Len(txns[x]) : Numbered(txns[x][k], n, p)
                      \/ \E i \in 1 .. Len(wire) : IsWork(wire[i]) /\ wire[i].txn = x /\ Numbered(wire[i], n, p))'
    BY <2>1
  <2> QED
    BY <2>2 DEF Kept
<1>21. \A t : CarriedOut(t)' = CarriedOut(t) /\ (CarriedWhole(t)' <=> CarriedWhole(t))
  BY <1>1 DEF CarriedOut, CarriedWhole
<1>22. Applied(own2)'
  <2>1. \A x \in 1 .. issued' : task[own2[x]].pc \in Undischarged => x \in DOMAIN txns'
    BY <1>3, <1>6 DEF Whole, Applied
  <2>2. \A i \in 1 .. Len(applied) : applied[i].txn \in asked /\ applied[i].txn \notin DOMAIN txns'
    BY <1>3, <1>6, <1>10 DEF Whole, Applied
  <2> QED
    BY <1>1, <1>21, <2>1, <2>2 DEF Whole, Applied
<1>23. Posted'
  BY <1>1 DEF Whole, Posted, Posts
<1>24. Outcomes'
  <2>1. ASSUME NEW t \in Txn, NEW i, DoneBefore(t, i) PROVE DoneBefore(t, i)'
    <3>1. task[t].txn \notin DOMAIN txns => task[t].txn \notin DOMAIN txns'
      BY <1>3, <1>6, <1>9
    <3>2. Posts(t)' = Posts(t)
      BY <1>1 DEF Posts
    <3> QED
      BY <1>1, <1>21, <2>1, <3>1, <3>2 DEF DoneBefore
  <2>2. \A i \in 1 .. Len(back) : back[i].id.link \in CtlLink => back[i].id.of \in Txn
    BY DEF Whole, Learned, MsgOK
  <2>3. \A e \in CtlLink : coord[e].got.op = "accepted" => coord[e].id.of \in Txn
    BY DEF Whole, Outcomes, Asked, MsgOK
  <2>4. (\A i \in 1 .. Len(back) :
       /\ back[i].id.link \in CtlLink => back[i].op \in {"declared", "accepted", "rejected"}
       /\ back[i].op = "accepted" => back[i].id.link \in CtlLink /\ DoneBefore(back[i].id.of, i)
       /\ back[i].id.link \notin CtlLink =>
            /\ back[i].id.link \in Links /\ back[i].op = "presumed" /\ back[i].id.of \in Txn
            /\ back[i].id.tag \in 1 .. task[back[i].id.of].done)'
    BY <1>1, <2>1, <2>2 DEF Whole, Outcomes
  <2>5. ASSUME NEW e \in CtlLink
        PROVE  (/\ coord[e].got.op \in {"none", "declared", "accepted", "rejected"}
                /\ coord[e].got.op = "accepted" => coord[e].pc = "answered" /\ DoneBefore(coord[e].id.of, Len(back) + 1))'
    <3>1. CASE e # c
      <4>1. PICK q : q = Len(back) + 1
        OBVIOUS
      <4>2. PICK t : t = coord[e].id.of
        OBVIOUS
      <4>3. coord[e].got.op = "accepted" => t \in Txn /\ DoneBefore(t, q) /\ coord[e].pc = "answered"
        BY <2>3, <4>1, <4>2 DEF Whole, Outcomes
      <4>4. coord[e].got.op = "accepted" => DoneBefore(t, q)'
        BY <2>1, <4>3
      <4>5. coord[e].got.op \in {"none", "declared", "accepted", "rejected"} /\ coord'[e] = coord[e]
        BY <1>5, <3>1 DEF Whole, Outcomes
      <4> QED
        BY <1>1, <4>1, <4>2, <4>3, <4>4, <4>5
    <3>2. CASE e = c
      BY <1>5, <3>2
    <3> QED
      BY <3>1, <3>2
  <2>6. \A t \in Txn : DoneBefore(t, 1) => DoneBefore(t, 1)'
    BY <2>1
  <2>7. (\A t \in Txn :
       /\ answer[t].op = "accepted" /\ answer[t].of = t => DoneBefore(t, 1)
       /\ task[t].pc = "committed" => answer[t].op = "accepted"
       /\ acked[t] \subseteq 1 .. task[t].done)'
    BY <1>1, <2>6 DEF Whole, Outcomes
  <2> QED
    BY <2>4, <2>5, <2>7 DEF Outcomes
<1> QED
  BY <1>11, <1>12, <1>13, <1>14, <1>15, <1>16, <1>17, <1>18, <1>19, <1>20, <1>22, <1>23, <1>24 DEF Whole

\* SessionEngine::on_control
LEMMA OnControlWhole ==
  ASSUME NEW own, Whole(own), OnControl
  PROVE  \/ \E m : EndEffect(own, m)
         \/ \E own2, m, u, y : AllocateEffect(own, own2, m, m.link, u, y)
<1>1. PICK m : m = Head(control)
  OBVIOUS
<1>2. /\ control # <<>> /\ control' = Tail(control)
      /\ UNCHANGED <<plan, app, wire, back, inbox, attached, asked>>
  BY DEF OnControl
<1>3. CASE /\ m.op = "allocate" /\ issued' = issued + 1 /\ txns' = Put(txns, issued + 1, <<>>)
           /\ Respond(m.link, "declared", issued + 1) /\ UNCHANGED <<applied, session>>
  <2>1. \E own2, u, y : AllocateEffect(own, own2, m, m.link, u, y)
    BY <1>1, <1>2, <1>3, AllocateFacts
  <2> QED
    BY <2>1
<1>4. CASE m.op # "allocate" /\ UNCHANGED issued
  <2>1. EndFrame(own, m)
    BY <1>1, <1>2, <1>4 DEF EndFrame, Ending
  <2>2. \/ m.op = "commit" /\ CommitTransaction(m.link, m.txn)
        \/ m.op = "rollback" /\ RollbackTransaction(m.link, m.txn)
        \/ m.op = "abort" /\ txns' = Forget(m.txn) /\ UNCHANGED <<coord, applied, session>>
    BY <1>1, <1>4 DEF OnControl
  <2>3. EndEffect(own, m)
    BY <2>1, <2>2, CommitEffect, RollbackEffect, AbortEffect
  <2> QED
    BY <2>3
<1>5. \/ /\ m.op = "allocate" /\ issued' = issued + 1 /\ txns' = Put(txns, issued + 1, <<>>)
         /\ Respond(m.link, "declared", issued + 1) /\ UNCHANGED <<applied, session>>
      \/ m.op # "allocate" /\ UNCHANGED issued
  BY <1>1 DEF OnControl
<1> QED
  BY <1>3, <1>4, <1>5

-----------------------------------------------------------------------------
(* The invariant holds                                                     *)

\* A step of the application keeps the invariant.
LEMMA AppStepWhole ==
  ASSUME NEW own, Whole(own), AppStep
  PROVE  Whole(own)' /\ \E S : AppMove(S)
BY DeclareWhole, DischargeWhole, WorkWhole, ReturnWhole, CancelWhole, RegisterWhole, GiveUpWhole,
   RollbackOnDropWhole, CloseWhole DEF AppStep

\* A step of the engines keeps the invariant; the session hands out an id at most.
LEMMA EngineStepWhole ==
  ASSUME NEW own, Whole(own), EngineStep
  PROVE  \E own2 : Whole(own2)'
<1>1. CASE OnControl
  <2>1. CASE \E m : EndEffect(own, m)
    BY <2>1, EndWhole
  <2>2. CASE \E own2, m, u, y : AllocateEffect(own, own2, m, m.link, u, y)
    <3>1. PICK own2, m, u, y : AllocateEffect(own, own2, m, m.link, u, y)
      BY <2>2
    <3>2. PICK c : c = m.link
      OBVIOUS
    <3>3. AllocateEffect(own, own2, m, c, u, y)
      BY <3>1, <3>2
    <3>4. Whole(own2)'
      BY <3>3, AllocateWhole
    <3> QED
      BY <3>4
  <2> QED
    BY <1>1, <2>1, <2>2, OnControlWhole
<1>2. CASE OnDisposition \/ OnIncoming \/ \E c \in CtlLink : OnDelivery(c) \/ OnAnswer(c) \/ OnRecvError(c)
  <2>1. Whole(own)'
    BY <1>2, OnDispositionWhole, OnIncomingWhole, OnDeliveryWhole, OnAnswerWhole, OnRecvErrorWhole
  <2> QED
    BY <2>1
<1> QED
  BY <1>1, <1>2 DEF EngineStep

\* Nothing happens.
LEMMA StutterWhole ==
  ASSUME NEW own, Whole(own), UNCHANGED vars
  PROVE  Whole(own)'
<1>1. /\ UNCHANGED <<plan, task, count, unsettled, answer, acked, wire, back>>
      /\ UNCHANGED <<txns, issued, control, inbox, coord, session, applied, asked>>
  BY DEF vars, app, resource
<1>2. /\ \A e, id : MsgOK(e, id)' <=> MsgOK(e, id)
      /\ \A id, op, x : DischargeOK(own, id, op, x)' <=> DischargeOK(own, id, op, x)
      /\ \A e, id : DeclareOK(own, e, id)' <=> DeclareOK(own, e, id)
      /\ \A f : FrameOK(own, f)' <=> FrameOK(own, f)
      /\ \A x, f : WorkOK(own, x, f)' <=> WorkOK(own, x, f)
      /\ \A x, f : Ends(own, x, f)' <=> Ends(own, x, f)
      /\ \A t : Posts(t)' = Posts(t)
  BY <1>1, SameFrames
<1>3. \A t : CarriedOut(t)' = CarriedOut(t) /\ (CarriedWhole(t)' <=> CarriedWhole(t))
  BY <1>1 DEF CarriedOut, CarriedWhole
<1>4. \A x : Pending(own, x) => Pending(own, x)'
  BY <1>1, <1>2 DEF Pending
<1>5. \A t, i : DoneBefore(t, i) => DoneBefore(t, i)'
  BY <1>1, <1>2, <1>3 DEF DoneBefore
<1>6. Typed' /\ Requests' /\ Routed'
  BY <1>1 DEF Whole, Typed, Requests, Routed
<1>7. Ids(own)'
  BY <1>1 DEF Whole, Ids, Declared, Ctl
<1>8. Declares(own)'
  BY <1>1, <1>2 DEF Whole, Declares, Single
<1>9. Asked(own)'
  BY SMTT(30), <1>1, <1>2 DEF Whole, Asked
<1>10. Tags' /\ Learned(own)'
  BY <1>1, <1>2 DEF Whole, Tags, TagOK, Learned, Declared
<1>11. OnWire(own)'
  BY <1>1, <1>2, <1>4 DEF Whole, OnWire
<1>12. Kept(own)'
  BY <1>1, <1>2 DEF Whole, Kept
<1>13. Applied(own)' /\ Posted'
  BY <1>1, <1>2, <1>3 DEF Whole, Applied, Posted
<1>14. Outcomes'
  <2>1. (\A i \in 1 .. Len(back) :
       /\ back[i].id.link \in CtlLink => back[i].op \in {"declared", "accepted", "rejected"}
       /\ back[i].op = "accepted" => back[i].id.link \in CtlLink /\ DoneBefore(back[i].id.of, i)
       /\ back[i].id.link \notin CtlLink =>
            /\ back[i].id.link \in Links /\ back[i].op = "presumed" /\ back[i].id.of \in Txn
            /\ back[i].id.tag \in 1 .. task[back[i].id.of].done)'
    BY <1>1, <1>5 DEF Whole, Outcomes
  <2>2. (\A c \in CtlLink :
       /\ coord[c].got.op \in {"none", "declared", "accepted", "rejected"}
       /\ coord[c].got.op = "accepted" => coord[c].pc = "answered" /\ DoneBefore(coord[c].id.of, Len(back) + 1))'
    BY <1>1, <1>5 DEF Whole, Outcomes
  <2>3. \A t \in Txn : DoneBefore(t, 1) => DoneBefore(t, 1)'
    BY <1>5
  <2>4. (\A t \in Txn :
       /\ answer[t].op = "accepted" /\ answer[t].of = t => DoneBefore(t, 1)
       /\ task[t].pc = "committed" => answer[t].op = "accepted"
       /\ acked[t] \subseteq 1 .. task[t].done)'
    BY <1>1, <2>3 DEF Whole, Outcomes
  <2> QED
    BY <2>1, <2>2, <2>4 DEF Outcomes
<1> QED
  BY <1>6, <1>7, <1>8, <1>9, <1>10, <1>11, <1>12, <1>13, <1>14 DEF Whole

\* No id has been handed out yet.
LEMMA InitWhole ==
  ASSUME Init, NEW own, own = [x \in {} |-> x]
  PROVE  Whole(own)
<1>1. /\ plan \in Plans /\ Plans \subseteq Plan
      /\ task = [t \in Txn |-> [pc |-> "idle", txn |-> NoId, done |-> 0]]
      /\ count = [c \in CtlLink |-> 0] /\ unsettled = [c \in CtlLink |-> <<>>]
      /\ answer = [t \in Txn |-> [op |-> "none"]] /\ acked = [t \in Txn |-> {}]
      /\ wire = <<>> /\ back = <<>> /\ txns = <<>> /\ issued = 0 /\ control = <<>>
      /\ inbox = [c \in CtlLink |-> <<>>] /\ coord = [c \in CtlLink |-> Idle]
      /\ session = "up" /\ applied = <<>> /\ asked = {}
  BY TransactionsAssumption DEF Init
<1>2. /\ IsSeq(<<>>) /\ Len(<<>>) = 0 /\ 1 .. Len(<<>>) = {} /\ 1 .. 0 = {} /\ DOMAIN <<>> = {}
  BY Empty
<1>3. \A t \in Txn : task[t].pc = "idle" /\ task[t].txn = NoId /\ task[t].done = 0 /\ answer[t].op = "none" /\ acked[t] = {}
  BY <1>1
<1>4. \A c \in CtlLink : /\ inbox[c] = <<>> /\ coord[c].pc = "idle" /\ coord[c].txn_ids = {} /\ coord[c].got.op = "none"
                         /\ coord[c] = [pc |-> coord[c].pc, txn_ids |-> coord[c].txn_ids, id |-> coord[c].id, got |-> coord[c].got]
  BY <1>1 DEF Idle
<1>5. Typed
  <2>1. task \in [Txn -> [pc : Places, txn : Nat, done : Nat]]
    BY <1>1 DEF Places, NoId
  <2>2. /\ count \in [CtlLink -> Nat] /\ acked \in [Txn -> SUBSET Nat]
        /\ unsettled = [c \in CtlLink |-> unsettled[c]] /\ answer = [t \in Txn |-> answer[t]]
        /\ inbox = [c \in CtlLink |-> inbox[c]]
    BY <1>1
  <2>3. coord = [c \in CtlLink |-> [pc |-> coord[c].pc, txn_ids |-> coord[c].txn_ids,
                                    id |-> coord[c].id, got |-> coord[c].got]]
    BY <1>1, <1>4
  <2>4. txns = [x \in DOMAIN txns |-> txns[x]] /\ DOMAIN txns = {}
    BY <1>1, <1>2
  <2> QED
    BY <1>1, <1>2, <1>4, <2>1, <2>2, <2>3, <2>4 DEF Typed
<1>6. Requests /\ Routed
  BY <1>1, <1>2, <1>4 DEF Requests, Routed
<1>7. Ids(own)
  <2>1. own \in [1 .. issued -> Txn]
    BY <1>1, <1>2
  <2> QED
    BY <1>1, <1>2, <1>4, <2>1 DEF Ids, Declared
<1>8. Declares(own) /\ Asked(own)
  BY <1>1, <1>2, <1>4 DEF Declares, Asked, Single
<1>9. Tags /\ Learned(own)
  BY <1>1, <1>2, <1>3, <1>4 DEF Tags, Learned, Declared
<1>10. OnWire(own) /\ Kept(own)
  BY <1>1, <1>2 DEF OnWire, Kept
<1>11. Applied(own)
  <2>1. \A t \in Txn : Len(Work[t]) \in Nat
    BY TransactionsAssumption
  <2>2. \A t \in Txn : task[t].done \in 0 .. Len(Work[t])
    BY <1>3, <2>1
  <2> QED
    BY <1>1, <1>2, <1>3, <2>2 DEF Applied
<1>12. Posted
  <2>1. \A t \in Txn : Posts(t) = {}
    BY <1>2, <1>3 DEF Posts
  <2> QED
    BY <2>1 DEF Posted
<1>13. Outcomes
  BY <1>1, <1>2, <1>3, <1>4 DEF Outcomes
<1> QED
  BY <1>5, <1>6, <1>7, <1>8, <1>9, <1>10, <1>11, <1>12, <1>13 DEF Whole

\* There are owners for which it holds.
WholeInv == \E own \in [1 .. issued -> Txn] : Whole(own)

\* It holds at the start.
LEMMA InitInv == Init => WholeInv
<1>1. PICK own : own = [x \in {} |-> x]
  OBVIOUS
<1>2. ASSUME Init PROVE WholeInv
  <2>1. Whole(own)
    BY <1>1, <1>2, InitWhole
  <2>2. own \in [1 .. issued -> Txn]
    BY <2>1 DEF Whole, Ids
  <2> QED
    BY <2>1, <2>2 DEF WholeInv
<1> QED
  BY <1>2

\* Every step keeps it.
LEMMA NextInv ==
  ASSUME WholeInv, [Next]_vars
  PROVE  WholeInv'
<1>1. PICK own : Whole(own)
  BY DEF WholeInv
<1>2. \E own2 : Whole(own2)'
  BY <1>1, AppStepWhole, EngineStepWhole, StutterWhole DEF Next
<1>3. PICK own2 : Whole(own2)'
  BY <1>2
<1>4. own2 \in [1 .. issued' -> Txn]
  BY <1>3 DEF Whole, Ids
<1> QED
  BY <1>3, <1>4 DEF WholeInv

\* It says that transactions are atomic.
LEMMA WholeCommitted ==
  ASSUME NEW own, Whole(own)
  PROVE  CommittedWhole
<1>1. DOMAIN applied = 1 .. Len(applied) /\ Len(back) \in Nat
  BY Lengths DEF Whole, Typed
<1>2. session # "UnknownTxnId" /\ (session = "up" \/ session = "UnattachedHandle")
  BY DEF Whole, Typed
<1>3. \A i \in DOMAIN applied : applied[i].txn \in asked
  BY <1>1 DEF Whole, Applied
<1>4. ASSUME NEW t \in Txn, task[t].txn # NoId
      PROVE  /\ CarriedOut(t) = {} \/ CarriedWhole(t) \/ session = "UnattachedHandle"
             /\ task[t].pc = "committed" /\ Answered(t) => CarriedWhole(t) /\ Posts(t) \subseteq acked[t]
             /\ task[t].pc = "rolledback" => CarriedOut(t) = {}
  <2>1. CarriedOut(t) = {} \/ CarriedWhole(t) \/ session = "UnattachedHandle"
    BY <1>2, <1>4 DEF Whole, Applied
  <2>2. ASSUME task[t].pc = "committed", Answered(t) PROVE CarriedWhole(t) /\ Posts(t) \subseteq acked[t]
    <3>1. DoneBefore(t, 1)
      BY <2>2 DEF Whole, Outcomes, Answered
    <3>2. \A j \in 1 .. Len(back) : ~(j < 1)
      BY <1>1
    <3> QED
      BY <2>2, <3>1, <3>2 DEF DoneBefore
  <2>3. ASSUME task[t].pc = "rolledback", NEW i \in CarriedOut(t) PROVE FALSE
    <3>1. task[t].txn \in asked
      BY <1>3 DEF CarriedOut
    <3>2. own[task[t].txn] = t
      BY <1>4 DEF Whole, Learned
    <3> QED
      BY <2>3, <3>1, <3>2 DEF Whole, Asked
  <2> QED
    BY <2>1, <2>2, <2>3
<1> QED
  BY <1>2, <1>3, <1>4 DEF CommittedWhole

\* The invariant holds in every reachable state.
THEOREM InvariantHolds == Spec => []WholeInv
<1>1. Init => WholeInv
  BY InitInv
<1>2. WholeInv /\ [Next]_vars => WholeInv'
  BY NextInv
<1> QED
  BY <1>1, <1>2, PTL DEF Spec

\* Transactions are atomic, whatever the applications post, drop and close and however their
\* frames and the coordinators' requests interleave (commit_transaction, rollback_transaction):
\* the resource carries out the work of a transaction whole, in order and only if it was asked
\* to commit it; no work comes too late; after commit() all of it is done, after rollback() none.
THEOREM TransactionsAtomic == Spec => []CommittedWhole
<1>1. WholeInv => CommittedWhole
  BY WholeCommitted DEF WholeInv
<1> QED
  BY <1>1, InvariantHolds, PTL

-----------------------------------------------------------------------------
(* No transaction is left open                                             *)

\* The transaction a request is about.
Concerns(own, m) == IF Ending(m) THEN own[m.txn] ELSE coord[m.link].id.of

\* Requests are about different transactions, and about none that a coordinator holds.
LEMMA RequestsDiffer ==
  ASSUME NEW own, Whole(own)
  PROVE  /\ \A k \in 1 .. Len(control) : Concerns(own, control[k]) \in Txn
         /\ \A k, l \in 1 .. Len(control) : Concerns(own, control[k]) = Concerns(own, control[l]) => k = l
         /\ \A k \in 1 .. Len(control) : \A c \in CtlLink : \A x \in coord[c].txn_ids : Concerns(own, control[k]) # own[x]
<1>1. /\ own \in [1 .. issued -> Txn] /\ \A x, y \in 1 .. issued : own[x] = own[y] => x = y
  BY DEF Whole, Ids
<1>2. ASSUME NEW k \in 1 .. Len(control), Ending(control[k])
      PROVE  /\ Concerns(own, control[k]) = own[control[k].txn] /\ control[k].txn \in 1 .. issued
             /\ Ctl(own[control[k].txn]) = control[k].link
             /\ \A j \in 1 .. Len(control) : Ending(control[j]) /\ control[j].txn = control[k].txn => j = k
             /\ control[k].txn \notin coord[control[k].link].txn_ids
  BY <1>2 DEF Concerns, Whole, Ids
<1>3. ASSUME NEW k \in 1 .. Len(control), ~Ending(control[k])
      PROVE  /\ Concerns(own, control[k]) \in Txn /\ Ctl(Concerns(own, control[k])) = control[k].link
             /\ \A x \in 1 .. issued : own[x] # Concerns(own, control[k])
             /\ \A j \in 1 .. Len(control) : ~Ending(control[j]) /\ control[j].link = control[k].link => j = k
  <2>1. control[k].op = "allocate" /\ Concerns(own, control[k]) = coord[control[k].link].id.of
    BY <1>3 DEF Ending, Concerns
  <2>2. DeclareOK(own, control[k].link, coord[control[k].link].id)
    BY <2>1 DEF Whole, Declares
  <2>3. \A j \in 1 .. Len(control) : control[j].op = "allocate" /\ control[j].link = control[k].link => j = k
    BY <2>1 DEF Whole, Requests
  <2> QED
    BY <2>1, <2>2, <2>3 DEF DeclareOK, Ending
<1>4. ASSUME NEW k \in 1 .. Len(control) PROVE Concerns(own, control[k]) \in Txn
  BY <1>1, <1>2, <1>3
<1>5. ASSUME NEW k \in 1 .. Len(control), NEW l \in 1 .. Len(control), Concerns(own, control[k]) = Concerns(own, control[l])
      PROVE  k = l
  <2>1. CASE Ending(control[k]) /\ Ending(control[l])
    BY <1>1, <1>2, <1>5, <2>1
  <2>2. CASE Ending(control[k]) /\ ~Ending(control[l])
    BY <1>2, <1>3, <1>5, <2>2
  <2>3. CASE ~Ending(control[k]) /\ Ending(control[l])
    BY <1>2, <1>3, <1>5, <2>3
  <2>4. CASE ~Ending(control[k]) /\ ~Ending(control[l])
    <3>1. control[k].link = control[l].link
      BY <1>3, <1>5, <2>4
    <3> QED
      BY <1>3, <2>4, <3>1
  <2> QED
    BY <2>1, <2>2, <2>3, <2>4
<1>6. ASSUME NEW k \in 1 .. Len(control), NEW c \in CtlLink, NEW x \in coord[c].txn_ids
      PROVE  Concerns(own, control[k]) # own[x]
  <2>1. x \in 1 .. issued /\ Ctl(own[x]) = c
    BY DEF Whole, Ids
  <2>2. CASE Ending(control[k])
    <3>1. control[k].txn = x => control[k].link = c /\ control[k].txn \notin coord[c].txn_ids
      BY <1>2, <2>1, <2>2
    <3> QED
      BY <1>1, <1>2, <2>1, <2>2, <3>1
  <2>3. CASE ~Ending(control[k])
    BY <1>3, <2>1, <2>3
  <2> QED
    BY <2>2, <2>3
<1> QED
  BY <1>4, <1>5, <1>6

\* A finite set and its image under an injection are as large.
LEMMA ImageSize ==
  ASSUME NEW S, IsFiniteSet(S), NEW f, \A x, y \in S : f[x] = f[y] => x = y
  PROVE  IsFiniteSet({f[x] : x \in S}) /\ Cardinality({f[x] : x \in S}) = Cardinality(S)
<1> DEFINE T == {f[x] : x \in S}
           g == [x \in S |-> f[x]]
<1>1. /\ g \in [S -> T] /\ \A x, y \in S : g[x] = g[y] => x = y
      /\ \A z \in T : \E x \in S : g[x] = z
  OBVIOUS
<1>2. ExistsBijection(S, T)
  <2> HIDE DEF T, g
  <2> QED BY <1>1 DEF ExistsBijection, Bijection, Injection, Surjection, IsInjective
<1> HIDE DEF T
<1>3. IsFiniteSet(T) /\ Cardinality(T) = Cardinality(S)
  BY <1>2, FS_Bijection
<1> QED
  BY <1>3 DEF T

\* There is room for the aborts of a coordinator.
LEMMA RoomForAborts ==
  ASSUME RoomForAll, NEW own, Whole(own), NEW c \in CtlLink
  PROVE  Cardinality(coord[c].txn_ids) <= ControlCap - Len(control)
<1>1. IsSeq(control) /\ Len(control) \in Nat
  BY Lengths DEF Whole, Typed
<1>2. PICK S, I, f : S = coord[c].txn_ids /\ I = 1 .. Len(control) /\ f = [k \in I |-> Concerns(own, control[k])]
  OBVIOUS
<1>3. IsFiniteSet(S) /\ Cardinality(S) \in Nat /\ S \subseteq 1 .. issued
  BY <1>2, HeldFinite DEF Whole, Ids
<1>4. IsFiniteSet(I) /\ Cardinality(I) = Len(control)
  <2>1. PICK n \in Nat : n = Len(control)
    BY <1>1
  <2>2. IsFiniteSet(1 .. n) /\ Cardinality(1 .. n) = IF 1 > n THEN 0 ELSE n - 1 + 1
    BY FS_Interval
  <2>3. Cardinality(1 .. n) = n
    BY <2>2
  <2> QED
    BY <1>2, <2>1, <2>2, <2>3
<1>5. /\ \A k \in I : f[k] \in Txn
      /\ \A k, l \in I : f[k] = f[l] => k = l
      /\ \A k \in I : \A x \in S : f[k] # own[x]
  BY <1>2, RequestsDiffer
<1>6. /\ \A x \in S : own[x] \in Txn
      /\ \A x, y \in S : own[x] = own[y] => x = y
  BY <1>3 DEF Whole, Ids
<1>7. PICK F, G : F = {f[k] : k \in I} /\ G = {own[x] : x \in S}
  OBVIOUS
<1>8. IsFiniteSet(F) /\ Cardinality(F) = Len(control)
  BY <1>4, <1>5, <1>7, ImageSize
<1>9. IsFiniteSet(G) /\ Cardinality(G) = Cardinality(S)
  BY <1>3, <1>6, <1>7, ImageSize
<1>10. F \cap G = {} /\ F \cup G \in SUBSET Txn
  BY <1>5, <1>6, <1>7
<1>11. Cardinality(F \cup G) = Cardinality(F) + Cardinality(G) - Cardinality({})
  BY <1>8, <1>9, <1>10, FS_Union
<1>12. Cardinality({}) = 0
  BY FS_EmptySet
<1>13. IsFiniteSet(Txn) /\ ControlCap \in Nat
  BY TransactionsAssumption
<1>14. Cardinality(F \cup G) <= Cardinality(Txn) /\ Cardinality(Txn) \in Nat
  BY <1>10, <1>13, FS_Subset, FS_CardinalityType
<1>15. Len(control) + Cardinality(S) <= ControlCap
  BY <1>1, <1>3, <1>8, <1>9, <1>11, <1>12, <1>13, <1>14 DEF RoomForAll
<1> QED
  BY <1>1, <1>2, <1>3, <1>13, <1>15

\* A coordinator that goes aborts all its transactions.
LEMMA RecvErrorCovered ==
  ASSUME RoomForAll, NEW own, Whole(own), Covered, NEW c \in CtlLink, OnRecvError(c)
  PROVE  Covered'
<1>1. PICK f, s : /\ RequestEffect(own, c, f) /\ s \in Aborts(c) /\ coord'[c].txn_ids = {}
                  /\ \A i \in 1 .. Len(s) : \E k \in 1 .. Len(control') : Ending(control'[k]) /\ control'[k].txn = s[i]
  BY AbortFacts
<1>2. PICK T : T = coord[c].txn_ids
  OBVIOUS
<1>3. IsFiniteSet(T) /\ Cardinality(T) \in Nat /\ Cardinality(T) <= ControlCap - Len(control)
  BY <1>2, HeldFinite, RoomForAborts
<1>4. Len(control) \in Nat /\ ControlCap \in Nat
  BY Lengths, TransactionsAssumption DEF Whole, Typed
<1>5. s \in SetToAllKPermutations(T) /\ Len(s) = Cardinality(T)
  BY <1>1, <1>2, <1>3, <1>4 DEF Aborts
<1>6. \A x \in T : \E i \in 1 .. Len(s) : s[i] = x
  BY SMTT(30), <1>3, <1>5, Arranged
<1>7. \A x \in T : \E k \in 1 .. Len(control') : Ending(control'[k]) /\ control'[k].txn = x
  BY <1>1, <1>6
<1>8. /\ txns' = txns /\ \A e \in CtlLink : e # c => coord'[e] = coord[e]
      /\ coord[c].pc = "idle" /\ coord'[c].got.op = "none"
      /\ Len(control') >= Len(control) /\ Len(control') \in Nat /\ \A k \in 1 .. Len(control) : control'[k] = control[k]
  BY <1>1, Lengths DEF RequestEffect
<1>9. ~Declared(c)
  BY <1>8 DEF Whole, Requests, Declared
<1>10. \A k \in 1 .. Len(control) : k \in 1 .. Len(control')
  BY <1>4, <1>8
<1>11. ASSUME NEW x \in DOMAIN txns
       PROVE  \/ \E e \in CtlLink : x \in coord'[e].txn_ids \/ (coord'[e].got.op = "declared" /\ coord'[e].got.txn = x)
              \/ \E i \in 1 .. Len(control') : Ending(control'[i]) /\ control'[i].txn = x
  <2>1. CASE \E e \in CtlLink : x \in coord[e].txn_ids \/ (Declared(e) /\ coord[e].got.txn = x)
    <3>1. PICK e \in CtlLink : x \in coord[e].txn_ids \/ (Declared(e) /\ coord[e].got.txn = x)
      BY <2>1
    <3>2. CASE e = c
      BY <1>2, <1>7, <1>9, <3>1, <3>2
    <3>3. CASE e # c
      BY <1>8, <3>1, <3>3 DEF Declared
    <3> QED
      BY <3>2, <3>3
  <2>2. CASE \E i \in 1 .. Len(control) : Ending(control[i]) /\ control[i].txn = x
    BY <1>8, <1>10, <2>2
  <2> QED
    BY <2>1, <2>2 DEF Covered
<1> QED
  BY <1>8, <1>11 DEF Covered, Declared

\* A coordinator that asks has the session end the transaction.
LEMMA DeliveryCovered ==
  ASSUME NEW own, Whole(own), Covered, NEW c \in CtlLink, OnDelivery(c)
  PROVE  Covered'
<1>1. CASE \E f : /\ f = Head(inbox[c]) /\ f.type = "control" /\ Disposed(f.id, "rejected", f.txn)
                  /\ inbox[c] # <<>> /\ inbox' = [inbox EXCEPT ![c] = Tail(@)]
                  /\ UNCHANGED <<plan, app, wire, txns, issued, session, applied, asked, control, coord>>
  <2>1. UNCHANGED <<txns, control, coord>>
    BY <1>1
  <2> QED
    BY <2>1 DEF Covered, Declared
<1>2. CASE \E f : /\ RequestEffect(own, c, f) /\ f.type = "control" /\ Len(control') = Len(control) + 1 /\ Len(control) \in Nat
                  /\ coord'[c].txn_ids = coord[c].txn_ids \ {f.txn}
                  /\ IsDeclare(f) \/ (Ending(control'[Len(control) + 1]) /\ control'[Len(control) + 1].txn = f.txn)
  <2>1. PICK f : /\ RequestEffect(own, c, f) /\ f.type = "control" /\ Len(control') = Len(control) + 1 /\ Len(control) \in Nat
                 /\ coord'[c].txn_ids = coord[c].txn_ids \ {f.txn}
                 /\ IsDeclare(f) \/ (Ending(control'[Len(control) + 1]) /\ control'[Len(control) + 1].txn = f.txn)
    BY <1>2
  <2>2. /\ txns' = txns /\ \A e \in CtlLink : e # c => coord'[e] = coord[e]
        /\ coord[c].pc = "idle" /\ inbox[c] # <<>> /\ f = Head(inbox[c])
        /\ \A k \in 1 .. Len(control) : control'[k] = control[k]
    BY <2>1 DEF RequestEffect
  <2>3. ~Declared(c)
    BY <2>2 DEF Whole, Requests, Declared
  <2>4. /\ Len(control) + 1 \in 1 .. Len(control') /\ \A k \in 1 .. Len(control) : k \in 1 .. Len(control')
    BY <2>1
  <2>5. IsDeclare(f) => f.txn \notin coord[c].txn_ids
    <3>1. f = inbox[c][1] /\ 1 \in 1 .. Len(inbox[c])
      <4>1. IsSeq(inbox[c])
        BY DEF Whole, Typed
      <4> QED
        BY <2>2, <4>1, Taken
    <3>2. IsDeclare(f) => f.txn = NoId
      BY <3>1 DEF Whole, Asked, FrameOK
    <3>3. NoId \notin 1 .. issued
      BY DEF NoId, Whole, Typed
    <3> QED
      BY ZenonT(60), <3>2, <3>3 DEF Whole, Ids
  <2>6. ASSUME NEW x \in DOMAIN txns
        PROVE  \/ \E e \in CtlLink : x \in coord'[e].txn_ids \/ (coord'[e].got.op = "declared" /\ coord'[e].got.txn = x)
               \/ \E i \in 1 .. Len(control') : Ending(control'[i]) /\ control'[i].txn = x
    <3>1. CASE \E e \in CtlLink : x \in coord[e].txn_ids \/ (Declared(e) /\ coord[e].got.txn = x)
      <4>1. PICK e \in CtlLink : x \in coord[e].txn_ids \/ (Declared(e) /\ coord[e].got.txn = x)
        BY <3>1
      <4>2. CASE e = c
        <5>1. x \in coord[c].txn_ids
          BY <2>3, <4>1, <4>2
        <5>2. CASE x = f.txn
          BY <2>1, <2>4, <2>5, <5>1, <5>2
        <5>3. CASE x # f.txn
          BY <2>1, <5>1, <5>3
        <5> QED
          BY <5>2, <5>3
      <4>3. CASE e # c
        BY <2>2, <4>1, <4>3 DEF Declared
      <4> QED
        BY <4>2, <4>3
    <3>2. CASE \E i \in 1 .. Len(control) : Ending(control[i]) /\ control[i].txn = x
      BY <2>2, <2>4, <3>2
    <3> QED
      BY <3>1, <3>2 DEF Covered
  <2> QED
    BY <2>2, <2>6 DEF Covered, Declared
<1> QED
  BY <1>1, <1>2, OnDeliveryCases

\* A coordinator takes the transaction that was handed out to it.
LEMMA AnswerCovered ==
  ASSUME NEW own, Whole(own), Covered, NEW c \in CtlLink, OnAnswer(c)
  PROVE  Covered'
<1>1. PICK T : T = IF coord[c].got.op = "declared" THEN coord[c].txn_ids \cup {coord[c].got.txn} ELSE coord[c].txn_ids
  OBVIOUS
<1>2. PICK v : v = [Idle EXCEPT !.txn_ids = T]
  OBVIOUS
<1>3. v.txn_ids = T
  BY <1>2 DEF Idle
<1>4. UNCHANGED <<txns, control>> /\ coord' = [coord EXCEPT ![c] = v] /\ coord = [e \in CtlLink |-> coord[e]]
  BY <1>1, <1>2 DEF OnAnswer, Whole, Typed
<1>5. coord'[c].txn_ids = T /\ \A e \in CtlLink : e # c => coord'[e] = coord[e]
  BY <1>3, <1>4
<1>6. ASSUME NEW x \in DOMAIN txns
      PROVE  \/ \E e \in CtlLink : x \in coord'[e].txn_ids \/ (coord'[e].got.op = "declared" /\ coord'[e].got.txn = x)
             \/ \E i \in 1 .. Len(control) : Ending(control[i]) /\ control[i].txn = x
  <2>1. CASE \E e \in CtlLink : x \in coord[e].txn_ids \/ (Declared(e) /\ coord[e].got.txn = x)
    <3>1. PICK e \in CtlLink : x \in coord[e].txn_ids \/ (Declared(e) /\ coord[e].got.txn = x)
      BY <2>1
    <3>2. CASE e = c
      BY <1>1, <1>5, <3>1, <3>2 DEF Declared
    <3>3. CASE e # c
      BY <1>5, <3>1, <3>3 DEF Declared
    <3> QED
      BY <3>2, <3>3
  <2> QED
    BY <2>1 DEF Covered
<1> QED
  BY <1>4, <1>6 DEF Covered, Declared

\* The session ends a transaction or hands one out.
LEMMA ControlCovered ==
  ASSUME NEW own, Whole(own), Covered, OnControl
  PROVE  Covered'
<1>1. CASE \E m : EndEffect(own, m)
  <2>1. PICK m : EndEffect(own, m)
    BY <1>1
  <2>2. /\ control # <<>> /\ m = Head(control) /\ control' = Tail(control) /\ IsSeq(control)
        /\ DOMAIN txns' = DOMAIN txns \ {m.txn}
    BY <2>1 DEF EndEffect, Whole, Typed
  <2>3. /\ m = control[1] /\ 1 \in 1 .. Len(control)
        /\ \A k \in 1 .. Len(control) : k = 1 \/ \E j \in 1 .. Len(control') : j + 1 = k /\ control'[j] = control[k]
    BY <2>2, ControlTaken
  <2>4. \A e \in CtlLink : /\ coord'[e].txn_ids = coord[e].txn_ids
                           /\ coord'[e] = coord[e] \/ (e = m.link /\ m.op # "abort")
    BY <2>1 DEF EndEffect
  <2>5. \A e \in CtlLink : Declared(e) => coord'[e] = coord[e]
    <3>1. m.op # "abort" => coord[m.link].pc = "asking" /\ m.link \in CtlLink
      BY <2>3 DEF Whole, Requests
    <3>2. \A e \in CtlLink : Declared(e) => coord[e].pc = "answered"
      BY DEF Whole, Ids
    <3> QED
      BY <2>4, <3>1, <3>2
  <2>6. ASSUME NEW x \in DOMAIN txns'
        PROVE  \/ \E e \in CtlLink : x \in coord'[e].txn_ids \/ (coord'[e].got.op = "declared" /\ coord'[e].got.txn = x)
               \/ \E i \in 1 .. Len(control') : Ending(control'[i]) /\ control'[i].txn = x
    <3>1. x \in DOMAIN txns /\ x # m.txn
      BY <2>2
    <3>2. CASE \E e \in CtlLink : x \in coord[e].txn_ids \/ (Declared(e) /\ coord[e].got.txn = x)
      BY <2>4, <2>5, <3>2 DEF Declared
    <3>3. CASE \E i \in 1 .. Len(control) : Ending(control[i]) /\ control[i].txn = x
      <4>1. PICK i \in 1 .. Len(control) : Ending(control[i]) /\ control[i].txn = x
        BY <3>3
      <4>2. i # 1
        BY <2>3, <3>1, <4>1
      <4>3. \E j \in 1 .. Len(control') : control'[j] = control[i]
        BY <2>3, <4>2
      <4> QED
        BY <4>1, <4>3
    <3> QED
      BY <3>1, <3>2, <3>3 DEF Covered
  <2> QED
    BY <2>6 DEF Covered, Declared
<1>2. CASE \E own2, m, u, y : AllocateEffect(own, own2, m, m.link, u, y)
  <2>1. PICK own2, m, u, y : AllocateEffect(own, own2, m, m.link, u, y)
    BY <1>2
  <2>2. PICK c : c = m.link
    OBVIOUS
  <2>3. AllocateEffect(own, own2, m, c, u, y)
    BY SMTT(30), <2>1, <2>2
  <2>4. /\ control # <<>> /\ m = Head(control) /\ control' = Tail(control) /\ IsSeq(control)
        /\ DOMAIN txns' = DOMAIN txns \cup {y} /\ m.op = "allocate"
        /\ \A e \in CtlLink : e # c => coord'[e] = coord[e]
        /\ coord'[c].txn_ids = coord[c].txn_ids /\ coord'[c].got.op = "declared" /\ coord'[c].got.txn = y
    BY <2>3 DEF AllocateEffect, Whole, Typed
  <2>5. /\ m = control[1] /\ 1 \in 1 .. Len(control)
        /\ \A k \in 1 .. Len(control) : k = 1 \/ \E j \in 1 .. Len(control') : j + 1 = k /\ control'[j] = control[k]
    BY <2>4, ControlTaken
  <2>6. c \in CtlLink /\ ~Declared(c)
    BY <2>2, <2>4, <2>5 DEF Whole, Requests, Declared
  <2>7. ASSUME NEW x \in DOMAIN txns'
        PROVE  \/ \E e \in CtlLink : x \in coord'[e].txn_ids \/ (coord'[e].got.op = "declared" /\ coord'[e].got.txn = x)
               \/ \E i \in 1 .. Len(control') : Ending(control'[i]) /\ control'[i].txn = x
    <3>1. CASE x = y
      BY <2>4, <2>6, <3>1
    <3>2. CASE x \in DOMAIN txns /\ \E e \in CtlLink : x \in coord[e].txn_ids \/ (Declared(e) /\ coord[e].got.txn = x)
      <4>1. PICK e \in CtlLink : x \in coord[e].txn_ids \/ (Declared(e) /\ coord[e].got.txn = x)
        BY <3>2
      <4>2. CASE e = c
        BY <2>4, <2>6, <4>1, <4>2
      <4>3. CASE e # c
        BY <2>4, <4>1, <4>3 DEF Declared
      <4> QED
        BY <4>2, <4>3
    <3>3. CASE \E i \in 1 .. Len(control) : Ending(control[i]) /\ control[i].txn = x
      <4>1. PICK i \in 1 .. Len(control) : Ending(control[i]) /\ control[i].txn = x
        BY <3>3
      <4>2. i # 1
        BY <2>4, <2>5, <4>1 DEF Ending
      <4>3. \E j \in 1 .. Len(control') : control'[j] = control[i]
        BY <2>5, <4>2
      <4> QED
        BY <4>1, <4>3
    <3> QED
      BY <2>4, <2>7, <3>1, <3>2, <3>3 DEF Covered
  <2> QED
    BY <2>7 DEF Covered, Declared
<1> QED
  BY <1>1, <1>2, OnControlWhole

\* Every step leaves the live transactions with a coordinator or in the control channel.
LEMMA NextCovered ==
  ASSUME RoomForAll, WholeInv, Covered, [Next]_vars
  PROVE  Covered'
<1>1. PICK own : Whole(own)
  BY DEF WholeInv
<1>2. CASE AppStep
  <2>1. PICK S : AppMove(S)
    BY <1>1, <1>2, AppStepWhole
  <2> QED
    BY <2>1, AppCovered
<1>3. CASE OnDisposition
  <2>1. UNCHANGED <<txns, control, coord>>
    BY <1>3 DEF OnDisposition, resource
  <2> QED
    BY SMTT(30), <2>1 DEF Covered, Declared
<1>4. CASE OnIncoming
  <2>1. PICK f : IncomingEffect(own, f)
    BY <1>1, <1>4, IncomingFacts
  <2>2. UNCHANGED <<control, coord>> /\ DOMAIN txns' = DOMAIN txns
    BY <2>1 DEF IncomingEffect
  <2> QED
    BY <2>2 DEF Covered, Declared
<1>5. CASE UNCHANGED vars
  <2>1. UNCHANGED <<txns, control, coord>>
    BY <1>5 DEF vars, resource
  <2> QED
    BY <2>1 DEF Covered, Declared
<1>6. CASE OnControl \/ \E c \in CtlLink : OnDelivery(c) \/ OnAnswer(c) \/ OnRecvError(c)
  BY <1>1, <1>6, ControlCovered, DeliveryCovered, AnswerCovered, RecvErrorCovered
<1> QED
  BY <1>2, <1>3, <1>4, <1>5, <1>6 DEF Next, EngineStep

\* A transaction that is covered is not left open.
LEMMA CoveredOpen ==
  ASSUME WholeInv, Covered
  PROVE  NothingLeftOpen
<1>1. PICK own : Whole(own)
  BY DEF WholeInv
<1>2. DOMAIN control = 1 .. Len(control)
  BY <1>1, Lengths DEF Whole, Typed
<1>3. ASSUME NEW c \in CtlLink, NEW x \in coord[c].txn_ids PROVE coord[c].pc # "gone"
  BY <1>1 DEF Whole, Ids
<1>4. ASSUME NEW c \in CtlLink, Declared(c)
      PROVE  coord[c].pc # "gone" /\ coord[c].got = [op |-> "declared", txn |-> coord[c].got.txn]
  BY <1>1, <1>4 DEF Whole, Ids
<1> QED
  BY <1>2, <1>3, <1>4 DEF Covered, NothingLeftOpen

\* No transaction is left open (Drop for TxnCoordinator): as long as the control channel has
\* room for a request of each transaction, a live transaction has a coordinator or a request
\* that will end it, whichever calls and handles are dropped and links are closed.
THEOREM NoneLeftOpen ==
  ASSUME RoomForAll
  PROVE  Spec => []NothingLeftOpen
<1>1. Init => Covered
  <2>1. DOMAIN <<>> = {}
    OBVIOUS
  <2> QED
    BY <2>1 DEF Init, Covered
<1>2. WholeInv /\ Covered /\ [Next]_vars => Covered'
  BY NextCovered
<1>3. WholeInv /\ Covered => NothingLeftOpen
  BY CoveredOpen
<1> QED
  BY <1>1, <1>2, <1>3, InvariantHolds, PTL DEF Spec

=============================================================================
