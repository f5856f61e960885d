------------------------- MODULE MCSessionLifecycle -------------------------
EXTENDS SessionLifecycle
CONSTANTS s1, s2
\* A link of the client sends an errant frame in s1, one of the listener a question.
MCFrames == [e \in Endpoint |-> CASE e = <<Client, s1>> -> <<"bad">>
                                  [] e = <<Listener, s1>> -> <<"ask">>
                                  [] OTHER -> <<>>]
\* Client and listener ask for the end of s1.
MCEnds == [e \in Endpoint |-> CASE e = <<Client, s1>> -> <<FALSE>>
                                [] e = <<Listener, s1>> -> <<TRUE>>
                                [] OTHER -> <<>>]
=============================================================================
