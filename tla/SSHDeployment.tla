--------------------------- MODULE SSHDeployment ----------------------------
(* SSHServices with the file that the agent renders for frpc, for any base    *)
(* file that the administrator keeps.                                         *)
EXTENDS SSHServices, FrpcConfig

CONSTANT Bases  \* contents of frpc.base.toml: sequences of lines

ASSUME BasesAssumption == \A base \in Bases : base \in Seq({base[i] : i \in DOMAIN base})

\* FRP_SSH_RUNBOOK.md:17, the proxies of the base file are in the generated one:
\* of the file rendered for a request that is on its way, frpc reads the base
\* file's settings with the agent's web server and nothing else of it, the base
\* file's proxies as they were, the agent's own port, and the enabled services
\* of the table that was listed.
RenderedIsMeant ==
    \A h \in Handlers, base \in Bases : wire[h] # None =>
        LET file == renderConfig(base, Enabled(wire[h]), ManagementPort)
            Lines(p) == {p[i] : i \in 2..6} IN
        /\ Settings(file) = Settings(base) \cup {WebServer[i] : i \in 1..4}
        /\ Proxies(file) = Proxies(base) \cup {Lines(Management(ManagementPort))}
              \cup {Lines(ServiceProxy(m)) : m \in Enabled(wire[h])}
=============================================================================
