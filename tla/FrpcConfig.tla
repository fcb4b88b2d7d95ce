----------------------------- MODULE FrpcConfig -----------------------------
(* The configuration that the agent makes for frpc: splitBaseConfig and       *)
(* renderConfig of cmd/frpc-agent/main.go.                                    *)
(*                                                                            *)
(* A file is a sequence of lines, a line a key with its value or the header   *)
(* of a proxy.  As in TOML, a key belongs to the last header above it, and to *)
(* the file when there is none.  Blank lines and comments are left out.       *)
EXTENDS Naturals, Sequences, SequencesExt

Header == <<"[[proxies]]">>
Key(name, value) == <<name, value>>

-----------------------------------------------------------------------------
(* What frpc reads in a file *)

Headers(file) == {i \in DOMAIN file : file[i] = Header}

\* The keys between one line and the next header.
Table(file, i) == {file[j] : j \in {k \in DOMAIN file : k > i /\ \A h \in Headers(file) : ~(i < h /\ h <= k)}}

Settings(file) == Table(file, 0)
Proxies(file) == {Table(file, i) : i \in Headers(file)}

-----------------------------------------------------------------------------
(* renderConfig *)

\* splitBaseConfig: everything before the first header, and the rest.
BaseGlobal(base) == SubSeq(base, 1, Min(Headers(base) \cup {Len(base) + 1}) - 1)
BaseProxies(base) == SubSeq(base, Len(BaseGlobal(base)) + 1, Len(base))

WebServer == <<Key("webServer.addr", "admin"), Key("webServer.port", "admin"),
               Key("webServer.user", "admin"), Key("webServer.password", "admin")>>

Proxy(name, ip, localPort, remotePort) ==
    <<Header, Key("name", name), Key("type", "tcp"), Key("localIP", ip),
      Key("localPort", localPort), Key("remotePort", remotePort)>>

Management(port) == Proxy("frpc-agent-management", "127.0.0.1", 6700, port)

\* A service's name and address are its target.
ServiceProxy(s) == Proxy(s.target, s.target, 22, s.port)

\* sort.Slice, by the remote ports: all services, in the order of their ports.
Sorted(services) ==
    CHOOSE list \in [1..Cardinality(services) -> services] :
        Range(list) = services /\ \A i, j \in DOMAIN list : i < j => list[i].port < list[j].port

ServiceProxies(services) == LET list == Sorted(services) IN
                            FlattenSeq([i \in DOMAIN list |-> ServiceProxy(list[i])])

\* Deviation: the base file is copied as a whole.
RenderUnsplit(base, services, managementPort) ==
    base \o WebServer \o Management(managementPort) \o ServiceProxies(services)

\* For the services that are enabled; the others are passed over.
renderConfig(base, services, managementPort) ==
    BaseGlobal(base) \o WebServer \o BaseProxies(base) \o Management(managementPort)
        \o ServiceProxies(services)
=============================================================================
