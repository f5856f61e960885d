----------------------- MODULE MCConnectionLifecycle -----------------------
(* Small instances of ConnectionLifecycle.                                 *)
EXTENDS ConnectionLifecycle

Both(a, b) == [p \in Peer |-> IF p = A THEN a ELSE b]

OneEach == Both(1, 1)
OneNone == Both(1, 0)
=============================================================================
