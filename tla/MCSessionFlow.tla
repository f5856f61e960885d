--------------------------- MODULE MCSessionFlow ---------------------------
(* Small instances of SessionFlow.                                         *)
EXTENDS SessionFlow

Both(a, b) == [p \in Peer |-> IF p = A THEN a ELSE b]

\* Identifiers start low enough never to wrap.
LowIds == Both(0, 1)
\* Identifiers of A start just below the wrap.
HighIds == Both(Modulus - 2, 0)

OneTwo == Both(1, 2)
FourOne == Both(4, 1)
FourNone == Both(4, 0)
NoneTwo == Both(0, 2)
=============================================================================
