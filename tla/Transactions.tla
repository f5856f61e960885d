---------------------------- MODULE Transactions ----------------------------
(***************************************************************************)
(* Local transactions (fe2o3-amqp/src/transaction): applications declare,  *)
(* fill and discharge transactions over control links; the transactional   *)
(* session of the resource keeps the work of each until its coordinator    *)
(* has it committed or rolled back.                                        *)
(*                                                                         *)
(* A transaction is borrowed (Transaction: it shares the Controller        *)
(* `Shared' behind a mutex) or owned (OwnedTransaction: a control link of  *)
(* its own, named by the transaction).  All links are on one session,      *)
(* whose frames keep their order (SessionFlow), so that one queue stands   *)
(* for the link channel, the session and the connection.  Credit of the    *)
(* links is not modelled (LinkCredit); a transfer is handed over at once.  *)
(***************************************************************************)
EXTENDS Naturals, Sequences, FiniteSets, TLC, SequencesExt, Functions

CONSTANTS
    Txn,         \* transactions the application may have
    Shared,      \* the Controller borrowed transactions share
    Links,       \* links that work is posted on
    Work,        \* [Txn -> Seq(work items)]: what the application does in each
    ControlCap,  \* capacity of the session's control channel
    Plans        \* how the applications behave; see Plan

\* owned: the transactions with a control link of their own; global: those that ask for a
\* global id; dropping: those whose calls and handles may be dropped; closing: links that are
\* closed at some time.
Plan == [owned : SUBSET Txn, global : SUBSET Txn, dropping : SUBSET Txn, closing : SUBSET Links]

\* A post on a link in so many frames, or the retirement of a delivery of the resource.
PostWork(link, frames, settled) == [kind |-> "post", link |-> link, frames |-> frames, settled |-> settled]
RetireWork == [kind |-> "retire"]
WorkItem == [kind : {"post"}, link : Links, frames : Nat \ {0}, settled : BOOLEAN] \cup {RetireWork}

CtlLink == {Shared} \cup Txn
Nobody == "nobody"

ASSUME TransactionsAssumption ==
    /\ Shared \notin Txn /\ Nobody \notin Txn /\ Links \cap CtlLink = {} /\ IsFiniteSet(Txn)
    /\ Work \in [Txn -> Seq(WorkItem)] /\ Plans \subseteq Plan /\ ControlCap \in Nat \ {0}

VARIABLES
    plan,
    task,       \* each transaction of the application: where it is, its id, the work sent
    lock,       \* the Controller's mutex: the holder or Nobody
    count,      \* delivery-count of each control link, from which tags are made
    unsettled,  \* unsettled map of each control link: tag -> the call that waits
    answer,     \* what has arrived through the oneshot of each transaction's call
    acked,      \* posts of each transaction whose outcome has arrived
    left,       \* links the controller's side has closed
    wire,       \* from the controller's links to the resource's session
    back,       \* dispositions from the resource
    txns,       \* TransactionManager: live transactions and their work
    issued,     \* transaction ids handed out
    control,    \* the control channel of the resource's session
    inbox,      \* transfers and the Detach on their way to each coordinator
    coord,      \* the coordinator of each control link
    attached,   \* links of the resource on which work is posted
    session,    \* "up", or the error that has ended it
    applied,    \* work the resource has carried out: routed transfers, settled deliveries
    asked       \* ghost: transaction ids the application has asked to commit

app == <<task, lock, count, unsettled, answer, acked, left>>
resource == <<txns, issued, control, inbox, coord, attached, session, applied>>
vars == <<plan, app, wire, back, resource, asked>>

NoId == 0
Continuation == [link |-> Nobody]   \* a frame without delivery-id
Waiting == {"declaring", "committing", "rolling"}
Final == {"failed", "committed", "rolledback", "gone"}

Ctl(t) == IF t \in plan.owned THEN t ELSE Shared

\* A map with the entry k set to v.
Put(m, k, v) == [x \in DOMAIN m \cup {k} |-> IF x = k THEN v ELSE m[x]]

Idle == [pc |-> "idle", txn_ids |-> {}, id |-> Continuation, got |-> [op |-> "none"]]

Init ==
    /\ plan \in Plans
    /\ task = [t \in Txn |-> [pc |-> "idle", txn |-> NoId, done |-> 0]]
    /\ lock = Nobody /\ count = [c \in CtlLink |-> 0] /\ unsettled = [c \in CtlLink |-> <<>>]
    /\ answer = [t \in Txn |-> [op |-> "none"]] /\ acked = [t \in Txn |-> {}] /\ left = {}
    /\ wire = <<>> /\ back = <<>> /\ txns = <<>> /\ issued = 0 /\ control = <<>>
    /\ inbox = [c \in CtlLink |-> <<>>] /\ coord = [c \in CtlLink |-> Idle]
    /\ attached = Links /\ session = "up" /\ applied = <<>> /\ asked = {}

---------------------------------------------------------------------------
\* The controller

Locked(t) == t \notin plan.owned /\ lock # Nobody
Lock(t) == IF t \in plan.owned THEN lock ELSE t
Unlock(t) == IF lock = t THEN Nobody ELSE lock

\* A delivery is identified by its link and its tag, and by whose it is: delivery-ids, which
\* stand for link and tag on the wire, are the subject of Settlement.
Delivery(link, tag, of) == [link |-> link, tag |-> tag, of |-> of]
Control(id, op, txn) == [type |-> "control", id |-> id, link |-> id.link, op |-> op, txn |-> txn]
Detach(link) == [type |-> "detach", link |-> link]

\* send_on_control_link, mutex held: consume() makes the tag of the count before it moves on.
Call(t, op) ==
    LET c == Ctl(t) IN
    /\ ~Locked(t) /\ lock' = Lock(t)
    /\ count' = [count EXCEPT ![c] = @ + 1]
    /\ unsettled' = [unsettled EXCEPT ![c] = Put(@, count[c], t)]
    /\ answer' = [answer EXCEPT ![t] = [op |-> "none"]]
    /\ wire' = Append(wire, Control(Delivery(c, count[c], t), op, task[t].txn))

\* Transaction::declare, OwnedTransaction::declare_with_controller
Declare(t) ==
    /\ task[t].pc = "idle"
    /\ Call(t, IF t \in plan.global THEN "global" ELSE "declare")
    /\ task' = [task EXCEPT ![t].pc = "declaring"]
    /\ UNCHANGED <<plan, acked, left, back, resource, asked>>

\* TransactionDischarge::discharge; the flag is_discharged is the pc "open".
Discharge(t, fail) ==
    /\ task[t].pc = "open"
    /\ Call(t, IF fail THEN "rollback" ELSE "commit")
    /\ task' = [task EXCEPT ![t].pc = IF fail THEN "rolling" ELSE "committing"]
    /\ asked' = IF fail THEN asked ELSE asked \cup {task[t].txn}
    /\ UNCHANGED <<plan, acked, left, back, resource>>

\* post_inner: every frame carries the transactional state; the session numbers the first.
Post(t) ==
    LET n == task[t].done + 1
        w == Work[t][n]
        frame(i) == [type |-> "post", txn |-> task[t].txn, n |-> n, w |-> w, part |-> i,
                     id |-> IF i = 1 THEN Delivery(w.link, n, t) ELSE Continuation]
    IN
    /\ task[t].pc = "open" /\ n <= Len(Work[t]) /\ w.kind = "post" /\ w.link \notin left
    /\ wire' = wire \o [i \in 1 .. w.frames |-> frame(i)]
    /\ acked' = IF w.settled THEN [acked EXCEPT ![t] = @ \cup {n}] ELSE acked
    /\ task' = [task EXCEPT ![t].done = n]
    /\ UNCHANGED <<plan, lock, count, unsettled, answer, left, back, resource, asked>>

\* TransactionRetirement::retire: a disposition with the transactional state.
Retire(t) ==
    LET n == task[t].done + 1 IN
    /\ task[t].pc = "open" /\ n <= Len(Work[t]) /\ Work[t][n].kind = "retire"
    /\ wire' = Append(wire, [type |-> "retire", txn |-> task[t].txn, n |-> n])
    /\ task' = [task EXCEPT ![t].done = n]
    /\ UNCHANGED <<plan, lock, count, unsettled, answer, acked, left, back, resource, asked>>

\* What becomes of an owned control link when its transaction is over: closed or dropped.
Close(l) == wire' = Append(wire, Detach(l)) /\ left' = left \cup {l}
Leave(t) == IF t \in plan.owned THEN Close(t) ELSE UNCHANGED <<wire, left>>

\* declare_on_link, discharge_on_link: the outcome has come, and the mutex is released. A
\* handle whose discharge failed is dropped, which rolls back.
Return(t) ==
    LET ok == answer[t].op = IF task[t].pc = "declaring" THEN "declared" ELSE "accepted" IN
    /\ task[t].pc \in Waiting /\ answer[t].op # "none"
    /\ lock' = Unlock(t)
    /\ \/ /\ task[t].pc = "declaring" /\ ok
          /\ task' = [task EXCEPT ![t].pc = "open", ![t].txn = answer[t].txn]
          /\ UNCHANGED <<wire, left>>
       \/ /\ task[t].pc = "declaring" /\ ~ok
          /\ task' = [task EXCEPT ![t].pc = "failed"]
          /\ Leave(t)
       \/ /\ task[t].pc # "declaring" /\ ok
          /\ task' = [task EXCEPT ![t].pc = IF @ = "committing" THEN "committed" ELSE "rolledback"]
          /\ Leave(t)
       \/ /\ task[t].pc # "declaring" /\ ~ok
          /\ task' = [task EXCEPT ![t].pc = "dropping"]
          /\ UNCHANGED <<wire, left>>
    /\ UNCHANGED <<plan, count, unsettled, answer, acked, back, resource, asked>>

\* The future of a call is dropped at its await, or the handle between two calls.
Cancel(t) ==
    /\ t \in plan.dropping /\ task[t].pc \in Waiting \cup {"open"}
    /\ lock' = Unlock(t)
    /\ IF task[t].pc = "declaring"
       THEN task' = [task EXCEPT ![t].pc = "gone"] /\ Leave(t)
       ELSE task' = [task EXCEPT ![t].pc = "dropping"] /\ UNCHANGED <<wire, left>>
    /\ UNCHANGED <<plan, count, unsettled, answer, acked, back, resource, asked>>

\* rollback_on_drop: the tag is the count after try_consume() has moved it on, and the entry
\* is made after the transfer has gone.
RollbackOnDrop(t) ==
    LET c == Ctl(t) IN
    /\ task[t].pc = "dropping" /\ ~Locked(t) /\ lock' = Lock(t)
    /\ count' = [count EXCEPT ![c] = @ + 1]
    /\ wire' = Append(wire, Control(Delivery(c, count[c] + 1, t), "rollback", task[t].txn))
    /\ task' = [task EXCEPT ![t].pc = "registering"]
    /\ UNCHANGED <<plan, unsettled, answer, acked, left, back, resource, asked>>

\* ... the entry is made, unless try_write() fails; nobody waits for the outcome.
Register(t) ==
    /\ task[t].pc = "registering"
    /\ \/ unsettled' = [unsettled EXCEPT ![Ctl(t)] = Put(@, count[Ctl(t)], Nobody)]
       \/ UNCHANGED unsettled
    /\ task' = [task EXCEPT ![t].pc = "gone"] /\ lock' = Unlock(t) /\ Leave(t)
    /\ UNCHANGED <<plan, count, answer, acked, back, resource, asked>>

\* Drop for Transaction and rollback_on_drop: try_lock() has failed for the last time or
\* try_consume() finds no credit; or, the credit taken, a try_ operation after it fails.
GiveUp(t) ==
    /\ task[t].pc = "dropping"
    /\ \/ UNCHANGED count
       \/ ~Locked(t) /\ count' = [count EXCEPT ![Ctl(t)] = @ + 1]
    /\ task' = [task EXCEPT ![t].pc = "gone"] /\ Leave(t)
    /\ UNCHANGED <<plan, lock, unsettled, answer, acked, back, resource, asked>>

\* Controller::close: no transaction borrows it any longer.
CloseController ==
    /\ Shared \notin left /\ \A t \in Txn \ plan.owned : task[t].pc \in Final
    /\ Close(Shared)
    /\ UNCHANGED <<plan, task, lock, count, unsettled, answer, acked, back, resource, asked>>

\* A link that work was posted on is closed.
CloseLink(l) ==
    /\ l \in plan.closing \ left /\ Close(l)
    /\ UNCHANGED <<plan, task, lock, count, unsettled, answer, acked, back, resource, asked>>

\* The controller's session takes a disposition to the entry of its tag.
OnDisposition ==
    LET d == Head(back)
        c == d.id.link
    IN
    /\ back # <<>> /\ back' = Tail(back)
    /\ \/ /\ c \in CtlLink /\ d.id.tag \in DOMAIN unsettled[c]
          /\ unsettled' = [unsettled EXCEPT ![c] = Restrict(@, DOMAIN @ \ {d.id.tag})]
          /\ LET t == unsettled[c][d.id.tag] IN
             answer' = IF t \in Txn /\ task[t].pc \in Waiting
                       THEN [answer EXCEPT ![t] = [op |-> d.op, txn |-> d.txn, of |-> d.id.of]]
                       ELSE answer
          /\ UNCHANGED acked
       \/ /\ c \in CtlLink /\ d.id.tag \notin DOMAIN unsettled[c]
          /\ UNCHANGED <<unsettled, answer, acked>>
       \/ /\ c \in Links
          /\ acked' = [acked EXCEPT ![d.id.of] = @ \cup {d.id.tag}]
          /\ UNCHANGED <<unsettled, answer>>
    /\ UNCHANGED <<plan, task, lock, count, left, wire, resource, asked>>

---------------------------------------------------------------------------
\* The resource's session

\* ResourceTransaction::on_incoming_post: the presumptive outcome of an unsettled delivery.
Presumptive(f) ==
    IF f.id = Continuation \/ f.w.settled THEN <<>> ELSE <<[id |-> f.id, op |-> "presumed", txn |-> f.txn]>>

\* Mutant: a frame without delivery-id is taken for one without a transaction.
KeepWorkOfFirst(f) ==
    /\ txns' = IF f.type = "post" /\ f.id = Continuation THEN txns ELSE [txns EXCEPT ![f.txn] = Append(@, f)]
    /\ back' = IF f.type = "post" THEN back \o Presumptive(f) ELSE back
    /\ UNCHANGED session

\* TxnSession::on_incoming_transfer, on_incoming_disposition: work is kept with its
\* transaction; without one the session ends.
KeepWork(f) ==
    IF f.txn \in DOMAIN txns
    THEN /\ txns' = [txns EXCEPT ![f.txn] = Append(@, f)]
         /\ back' = IF f.type = "post" THEN back \o Presumptive(f) ELSE back
         /\ UNCHANGED session
    ELSE session' = "UnknownTxnId" /\ UNCHANGED <<txns, back>>

\* SessionEngine::on_incoming of the resource
OnIncoming ==
    LET f == Head(wire) IN
    /\ wire # <<>> /\ wire' = Tail(wire)
    /\ \/ /\ f.type \in {"post", "retire"} /\ KeepWork(f)
          /\ UNCHANGED <<inbox, attached>>
       \/ /\ f.type = "control" \/ (f.type = "detach" /\ f.link \in CtlLink)
          /\ inbox' = [inbox EXCEPT ![f.link] = Append(@, f)]
          /\ UNCHANGED <<txns, back, session, attached>>
       \/ /\ f.type = "detach" /\ f.link \in Links
          /\ attached' = attached \ {f.link}
          /\ UNCHANGED <<txns, back, session, inbox>>
    /\ UNCHANGED <<plan, app, issued, control, coord, applied, asked>>

\* commit_transaction: the frames go the way they would have gone, until one does not find
\* its link, which ends the session.
Unrouted(frames) ==
    {i \in DOMAIN frames : frames[i].type = "post" /\ frames[i].w.link \notin attached}
Carried(frames) ==
    IF Unrouted(frames) = {} THEN frames
    ELSE SubSeq(frames, 1, (CHOOSE i \in Unrouted(frames) : \A j \in Unrouted(frames) : i <= j) - 1)
Forget(txn) == Restrict(txns, DOMAIN txns \ {txn})

Respond(c, op, txn) == coord' = [coord EXCEPT ![c].pc = "answered", ![c].got = [op |-> op, txn |-> txn]]

CommitTransaction(c, txn) ==
    IF txn \notin DOMAIN txns
    THEN Respond(c, "rejected", txn) /\ UNCHANGED <<txns, applied, session>>
    ELSE /\ txns' = Forget(txn)
         /\ applied' = applied \o Carried(txns[txn])
         /\ IF Unrouted(txns[txn]) = {} THEN Respond(c, "accepted", txn) /\ UNCHANGED session
            ELSE session' = "UnattachedHandle" /\ UNCHANGED coord

RollbackTransaction(c, txn) ==
    /\ txns' = Forget(txn)
    /\ Respond(c, IF txn \in DOMAIN txns THEN "accepted" ELSE "rejected", txn)
    /\ UNCHANGED <<applied, session>>

\* SessionEngine::on_control
OnControl ==
    LET m == Head(control) IN
    /\ control # <<>> /\ control' = Tail(control)
    /\ \/ /\ m.op = "allocate"
          /\ issued' = issued + 1 /\ txns' = Put(txns, issued + 1, <<>>)
          /\ Respond(m.link, "declared", issued + 1)
          /\ UNCHANGED <<applied, session>>
       \/ m.op = "commit" /\ CommitTransaction(m.link, m.txn) /\ UNCHANGED issued
       \/ m.op = "rollback" /\ RollbackTransaction(m.link, m.txn) /\ UNCHANGED issued
       \/ /\ m.op = "abort" /\ txns' = Forget(m.txn)
          /\ UNCHANGED <<issued, coord, applied, session>>
    /\ UNCHANGED <<plan, app, wire, back, inbox, attached, asked>>

---------------------------------------------------------------------------
\* The coordinator of a control link

\* Mutant: a refusal is logged and not sent.
DisposedUnlessRejected(id, op, txn) ==
    back' = IF op = "rejected" THEN back ELSE Append(back, [id |-> id, op |-> op, txn |-> txn])

\* The disposition goes through the session's engine, which adds nothing to it.
Disposed(id, op, txn) == back' = Append(back, [id |-> id, op |-> op, txn |-> txn])
Ask(c, f, op) ==
    /\ Len(control) < ControlCap
    /\ control' = Append(control, [op |-> op, link |-> c, txn |-> f.txn])
    /\ coord' = [coord EXCEPT ![c].pc = "asking", ![c].id = f.id, ![c].txn_ids = @ \ {f.txn}]
    /\ UNCHANGED back

\* TxnCoordinator::on_delivery: on_declare and on_discharge up to the question to the session.
OnDelivery(c) ==
    LET f == Head(inbox[c]) IN
    /\ coord[c].pc = "idle" /\ inbox[c] # <<>> /\ f.type = "control"
    /\ inbox' = [inbox EXCEPT ![c] = Tail(@)]
    /\ \/ f.op = "declare" /\ Ask(c, f, "allocate")
       \/ f.op = "global" /\ Disposed(f.id, "rejected", f.txn) /\ UNCHANGED <<control, coord>>
       \/ f.op \in {"commit", "rollback"} /\ f.txn \in coord[c].txn_ids /\ Ask(c, f, f.op)
       \/ /\ f.op \in {"commit", "rollback"} /\ f.txn \notin coord[c].txn_ids
          /\ Disposed(f.id, "rejected", f.txn) /\ UNCHANGED <<control, coord>>
    /\ UNCHANGED <<plan, app, wire, txns, issued, attached, session, applied, asked>>

\* ... and from the session's answer: handle_delivery_result.
OnAnswer(c) ==
    LET got == coord[c].got IN
    /\ coord[c].pc = "answered"
    /\ Disposed(coord[c].id, got.op, got.txn)
    /\ coord' = [coord EXCEPT ![c] = [Idle EXCEPT !.txn_ids =
                    IF got.op = "declared" THEN coord[c].txn_ids \cup {got.txn} ELSE coord[c].txn_ids]]
    /\ UNCHANGED <<plan, app, wire, txns, issued, control, inbox, attached, session, applied, asked>>

\* Mutant: the coordinator goes without aborting its transactions.
AbortsNone(c) == {<<>>}

\* The link is closed: the loop ends and Drop for TxnCoordinator aborts what is left, as far
\* as the control channel takes it.
Aborts(c) ==
    LET room == ControlCap - Len(control)
        n == IF Cardinality(coord[c].txn_ids) < room THEN Cardinality(coord[c].txn_ids) ELSE room
    IN {s \in SetToAllKPermutations(coord[c].txn_ids) : Len(s) = n}
OnRecvError(c) ==
    /\ coord[c].pc = "idle" /\ inbox[c] # <<>> /\ Head(inbox[c]).type = "detach"
    /\ inbox' = [inbox EXCEPT ![c] = Tail(@)]
    /\ \E s \in Aborts(c) :
        control' = control \o [i \in DOMAIN s |-> [op |-> "abort", link |-> c, txn |-> s[i]]]
    /\ coord' = [coord EXCEPT ![c] = [Idle EXCEPT !.pc = "gone"]]
    /\ UNCHANGED <<plan, app, wire, back, txns, issued, attached, session, applied, asked>>

---------------------------------------------------------------------------
AppStep ==
    \/ \E t \in Txn : \/ Declare(t) \/ Post(t) \/ Retire(t) \/ Return(t) \/ Cancel(t)
                      \/ RollbackOnDrop(t) \/ Register(t) \/ GiveUp(t)
                      \/ \E fail \in BOOLEAN : Discharge(t, fail)
    \/ CloseController \/ \E l \in Links : CloseLink(l)
EngineStep ==
    \/ OnDisposition \/ OnIncoming \/ OnControl
    \/ \E c \in CtlLink : OnDelivery(c) \/ OnAnswer(c) \/ OnRecvError(c)

\* An ended session takes all its links with it (SessionLifecycle).
Next == session = "up" /\ (AppStep \/ EngineStep)

Spec == Init /\ [][Next]_vars

\* The engines and coordinators keep running, and a task whose answer has come is polled.
FairSpec == Spec /\ WF_vars(session = "up" /\ (EngineStep \/ \E t \in Txn : Return(t)))

---------------------------------------------------------------------------
TypeOK ==
    /\ plan \in Plan
    /\ \A t \in Txn : /\ task[t].pc \in Waiting \cup Final \cup {"idle", "open", "dropping", "registering"}
                      /\ task[t].txn \in 0 .. issued /\ task[t].done \in 0 .. Len(Work[t])
                      /\ acked[t] \subseteq 1 .. task[t].done
    /\ lock \in (Txn \ plan.owned) \cup {Nobody} /\ DOMAIN txns \subseteq 1 .. issued
    /\ Len(control) <= ControlCap /\ attached \subseteq Links /\ asked \subseteq 1 .. issued
    /\ session \in {"up", "UnknownTxnId", "UnattachedHandle"}

\* The frames of the work of t are numbered by the item and the part of it. Carried out whole:
\* each frame of what t has done once, and in order.
FramesIn(w) == IF w.kind = "post" THEN w.frames ELSE 1
Part(f) == IF f.type = "post" THEN f.part ELSE 1
Precedes(f, g) == f.n < g.n \/ (f.n = g.n /\ Part(f) < Part(g))
CarriedOut(t) == {i \in DOMAIN applied : applied[i].txn = task[t].txn}
CarriedWhole(t) ==
    /\ \A i \in CarriedOut(t) :
        applied[i].n \in 1 .. task[t].done /\ Part(applied[i]) \in 1 .. FramesIn(Work[t][applied[i].n])
    /\ \A i, j \in CarriedOut(t) : i < j => Precedes(applied[i], applied[j])
    /\ \A n \in 1 .. task[t].done : \A k \in 1 .. FramesIn(Work[t][n]) :
        \E i \in CarriedOut(t) : applied[i].n = n /\ Part(applied[i]) = k
Posts(t) == {n \in 1 .. task[t].done : Work[t][n].kind = "post"}
Answered(t) == answer[t].op # "none" /\ answer[t].of = t

\* Transactions are atomic (commit_transaction, rollback_transaction). The resource carries out
\* the work of a transaction whole and in order, and only if the application asked for the
\* commit; half of it only where the session ended over a link that was closed meanwhile. When
\* commit() returns, all of it has been carried out and every post acknowledged; after
\* rollback(), none. No work comes too late for its transaction.
CommittedWhole ==
    /\ session # "UnknownTxnId"
    /\ \A i \in DOMAIN applied : applied[i].txn \in asked
    /\ \A t \in Txn : task[t].txn # NoId =>
        /\ CarriedOut(t) = {} \/ CarriedWhole(t) \/ session = "UnattachedHandle"
        /\ task[t].pc = "committed" /\ Answered(t) => CarriedWhole(t) /\ Posts(t) \subseteq acked[t]
        /\ task[t].pc = "rolledback" => CarriedOut(t) = {}

\* A live transaction has a coordinator that can discharge it or abort it when the control link
\* goes, or a message in the control channel that will (Drop for TxnCoordinator); a declare that
\* nobody waits for and a drop without its rollback included.
NothingLeftOpen ==
    session = "up" => \A x \in DOMAIN txns :
        \/ \E c \in CtlLink : coord[c].pc # "gone" /\ (x \in coord[c].txn_ids \/ coord[c].got = [op |-> "declared", txn |-> x])
        \/ \E i \in DOMAIN control : control[i].txn = x

\* A declare or discharge that is not dropped comes to an end, with whatever else happens on
\* the control link, unless the session ends (send_on_control_link).
CallsEnd == \A t \in Txn : task[t].pc \in Waiting ~> (task[t].pc \notin Waiting \/ session # "up")

\* An outcome on the control link answers the call whose message it disposes of: "allow reusing
\* the same control link for declaring and discharging of multiple transactions"
\* (transaction/mod.rs).
AnswersBelong == \A t \in Txn : answer[t].op # "none" => answer[t].of = t
============================================================================
