--------------------------- MODULE MCNegotiation ---------------------------
(***************************************************************************)
(* The configurations of Negotiation: every pair of a client and an        *)
(* acceptor for what decides on TLS and SASL, and every pair of limits     *)
(* for the exchange of Open, with the faults of the network.               *)
(***************************************************************************)
EXTENDS Negotiation

Clients ==
    {c \in Builders : c.frame = 4 /\ c.channels = 1 /\ c.idle = 0 /\ ~c.long /\ ~c.sends
                       /\ c.profile # "ScramSha512"}

Servers ==
    {s \in Acceptors : s.frame = 4 /\ s.channels = 1 /\ s.idle = 0 /\ ~s.long /\ ~s.sends
                        /\ s.sasl # "ScramSha1"}

\* One representative of the settings that do not matter to each other.
SensibleClient(c) ==
    /\ c.scheme # "amqps" => ~c.alt /\ c.domain /\ c.certificate
    /\ c.scheme = "other" => c.profile = "None" /\ ~c.url
    /\ ~c.domain => c.certificate /\ c.profile = "None" /\ ~c.url /\ ~c.alt
    /\ ~c.certificate => c.profile = "None" /\ ~c.url
    /\ c.url => c.profile \in {"None", "ScramSha256"}
    /\ c.profile \in {"None", "Anonymous", "External"} /\ ~c.url =>
          c.user = "u" /\ c.password = "p"
    /\ c.user = "x" => c.password = "p"

SensibleServer(s) ==
    /\ s.verifier = "q" => s.sasl = "ScramSha256"
    /\ s.asks => s.sasl \in {"External", "Lax"}

Layers ==
    [client : {c \in Clients : SensibleClient(c)},
     server : {s \in Servers : SensibleServer(s)}, fault : {"none"}]

\* The exchange of Open behind two short ways through SASL.
ClientLimits ==
    {c \in Builders :
        /\ c.scheme = "amqp" /\ ~c.alt /\ c.domain /\ c.certificate /\ ~c.url
        /\ c.profile \in {"None", "Anonymous"} /\ c.user = "u" /\ c.password = "p"
        /\ c.sends}

ServerLimits ==
    {s \in Acceptors :
        /\ s.tls = "none" /\ s.sasl \in {"None", "Anonymous"} /\ s.verifier = "p" /\ ~s.asks
        /\ s.frame \in {1, 4} /\ s.channels = 1 /\ s.idle \in {0, 3} /\ s.sends}

Limits ==
    {l \in [client : ClientLimits, server : ServerLimits,
            fault : {"none", "cut", "slow"}] :
        /\ (l.client.profile = "None") = (l.server.sasl = "None")
        /\ ~(l.client.long /\ l.server.long)
        /\ l.client.idle # 3
        /\ l.fault # "none" => l.client.frame = 4 /\ l.client.channels = 0
        /\ l.client.profile = "Anonymous" => l.client.channels = 0}

AllPlans == Layers \cup Limits
=============================================================================
