--------------------------- MODULE SlidingWindow ---------------------------
(***************************************************************************)
(* What session flow control promises for one direction of a session: the  *)
(* transfers a sending endpoint hands over are put on the wire in order,   *)
(* never beyond the limit the receiving endpoint has granted, the limit    *)
(* never retreats and never runs further ahead of the receiver than its    *)
(* incoming-window.  Transfers are counted, never wrapped: this is the     *)
(* serial-number arithmetic the protocol has in mind.                      *)
(***************************************************************************)
EXTENDS Integers

CONSTANT Window      \* the receiver's incoming-window

VARIABLES handed,    \* transfers handed over by the links of the sender
          sent,      \* transfers put on the wire
          limit,     \* transfers the sender may have put on the wire so far
          received   \* transfers the receiver has taken off the wire

vars == <<handed, sent, limit, received>>

Init == handed = 0 /\ sent = 0 /\ limit \in 0 .. Window /\ received = 0

\* A link hands over one more transfer frame.
Hand == handed' = handed + 1 /\ UNCHANGED <<sent, limit, received>>

\* The sender learns of a later limit, uses some of what it has, or both.
Advance == /\ limit <= limit' /\ limit' <= received + Window
           /\ sent <= sent' /\ sent' <= handed /\ sent' <= limit'
           /\ UNCHANGED <<handed, received>>

\* The receiver takes the next transfer off the wire.
Receive == /\ received < sent
           /\ received' = received + 1
           /\ UNCHANGED <<handed, sent, limit>>

Next == Hand \/ Advance \/ Receive

Spec == Init /\ [][Next]_vars
=============================================================================
