--------------------------- MODULE MCTransactions ---------------------------
(* Two transactions that share a controller or have one each.              *)
EXTENDS Transactions
CONSTANTS t1, t2, l1, l2
WorkDef == t1 :> <<PostWork(l1, 2, FALSE), PostWork(l2, 1, TRUE)>> @@ t2 :> <<RetireWork>>
\* At most one misfortune: a transaction is dropped, asks for a global id, or l2 is closed.
PlansDef ==
    {p \in Plan : Cardinality(p.global) + Cardinality(p.dropping) + Cardinality(p.closing) <= 1
                  /\ l1 \notin p.closing /\ t1 \notin p.owned /\ t1 \notin p.global}
DropPlans == {p \in PlansDef : p.owned = {} /\ p.closing = {}}
=============================================================================
