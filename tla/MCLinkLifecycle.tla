--------------------------- MODULE MCLinkLifecycle ---------------------------
EXTENDS LinkLifecycle
\* Two links of the client; the listener may accept a third time for a resumption.
MCEnds == (Client :> 2) @@ (Listener :> 3)
MCCalls == (<<Client, 1>> :> {"close", "detach"}) @@ (<<Client, 2>> :> {"drop"})
           @@ (<<Listener, 1>> :> {"close", "detach"}) @@ (<<Listener, 2>> :> {"refuse"})
           @@ (<<Listener, 3>> :> {})
=============================================================================
