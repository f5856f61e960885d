---- MODULE MCSettlement ----
\* Small instances of Settlement.
EXTENDS Settlement

\* A message of two frames, two of one, one that is sent settled and one that is too large.
ShapeDef == << <<TRUE, FALSE>>, <<TRUE>>, <<TRUE>>, <<TRUE>>, <<TRUE, TRUE, FALSE>> >>
SizesDef == <<0, 2>>
Plan(mode, auto, count, outcomes, faults, resumes) ==
    [mode |-> mode, auto_accept |-> auto, count |-> count, outcomes |-> outcomes, faults |-> faults, resumes |-> resumes]
Endings == {"close", "drop", "cancel", "stop"}
PlansDef ==
    {Plan(m, FALSE, 5, Outcomes, {}, 0) : m \in {"First", "Second"}} \cup
    {Plan(m, TRUE, 5, {"accepted"}, {"suspend"} \cup Endings, 2) : m \in {"First", "Second"}} \cup
    {Plan(m, FALSE, 3, Outcomes, Endings, 1) : m \in {"First", "Second"}} \cup
    {Plan("First", FALSE, 2, {"accepted"}, {"suspend"}, 2)} \cup
    {Plan("Second", FALSE, 2, {"accepted"}, {"suspend"}, 1)} \cup
    {Plan(m, FALSE, 1, {"accepted"}, {"suspend"}, 3) : m \in {"First", "Second"}}
\* The session stops under senders whose receiver answers.
StopPlans == {Plan(m, FALSE, 4, {"accepted"}, {"stop"}, 0) : m \in {"First", "Second"}}
====
