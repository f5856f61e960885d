---------------------------- MODULE MCLinkCredit ----------------------------
(* Small instances of LinkCredit.                                          *)
EXTENDS LinkCredit

CONSTANT Disposer     \* a task with a ReceiverDisposer

Base == [initial |-> 0, auto |-> TRUE, tasks |-> {Owner}, auto_accept |-> {FALSE}, parallel |-> FALSE,
         cancelling |-> {}, draining |-> FALSE, credits |-> {MaxCredit}, sends |-> 5, controls |-> 1]
PlansDef ==
  { \* One task, nothing cancelled.
    Base,
    \* A second task disposes, sends and receives are dropped, send() races its session.
    [Base EXCEPT !.tasks = {Owner, Disposer}, !.auto_accept = BOOLEAN, !.parallel = TRUE,
                 !.cancelling = {"send", "recv"}, !.sends = 4],
    \* Manual credit is set, drained and set again while the delivery-count wraps.
    [Base EXCEPT !.initial = Modulus - 2, !.auto = FALSE, !.draining = TRUE, !.credits = {1, 2},
                 !.sends = 3, !.controls = 4],
    \* Manual credit is lowered below what is in flight.
    [Base EXCEPT !.auto = FALSE, !.credits = {1, 2}, !.sends = 3, !.controls = 2] }
=============================================================================
