---------------------------- MODULE SSHServices ----------------------------
(* The backend's SSH services: handlers/ssh_services.go on the tables of      *)
(* database/db.go, and the agent at the other end of callFrpcAgent.           *)
(*                                                                            *)
(* The database has one connection, so a statement is atomic and no more than *)
(* a statement is: each step of a handler is one SQL statement or one end of  *)
(* the HTTP call to the agent, and handlers, crashes and the administrator's  *)
(* other requests come in between.  A port is one of FirstPort..LastPort, a   *)
(* target stands for the address and name a service maps its port to.         *)
EXTENDS Naturals, FiniteSets

CONSTANTS
    Handlers,      \* HTTP requests served at once
    FirstPort,     \* 6222
    LastPort,      \* 6299
    ManagementPort, \* the agent's own port behind the tunnel, 6999
    Targets,       \* addresses behind the tunnel
    DefaultPorts,  \* the ports SeedDefaultSSHServices creates services on
    DefaultTarget, \* the target of a seeded service
    None,          \* no row, no request
    MaxId,         \* bound: services ever created
    AuthPorts,     \* bound: ports whose tables the administrator edits
    MaxRestarts,   \* bound: restarts of the backend
    AgentMayFail,  \* may a call to the agent fail, be lost or be late
    DbMayFail      \* may a SQL statement fail

Ports == FirstPort..LastPort
Ids == 1..MaxId

ASSUME PortsAssumption == /\ FirstPort \in Nat \ {0} /\ LastPort \in Nat /\ FirstPort <= LastPort
                          /\ DefaultPorts \subseteq Ports
                          /\ ManagementPort \in Nat \ Ports
                          /\ IsFiniteSet(DefaultPorts)
ASSUME ValuesAssumption == DefaultTarget \in Targets /\ None \notin Targets
ASSUME BoundsAssumption == /\ MaxId \in Nat /\ MaxRestarts \in Nat
                           /\ Cardinality(DefaultPorts) <= MaxId
                           /\ AgentMayFail \in BOOLEAN /\ DbMayFail \in BOOLEAN

VARIABLES
    rows,      \* ssh_services: the row of each id, or None
    nextId,    \* its AUTOINCREMENT counter
    gate,      \* port_config: the ports whose row asks for a token or an address
    perms,     \* port_permissions: the ports some token may activate
    allow,     \* port_ip_allowlist: the ports with an allowed address
    opened,    \* history: the ports the administrator opened, not set since
    former,    \* history: permissions and addresses there when a service left
    pc,        \* the next step of each handler
    op,        \* its arguments and what it has read
    wire,      \* the apply request it has in flight to the agent
    deployed,  \* the mappings the agent has installed
    restarts   \* restarts so far

table    == <<rows, nextId>>
auth     == <<gate, perms, allow, opened, former>>
handlers == <<pc, op>>
agent    == <<wire, deployed>>
vars     == <<table, auth, handlers, agent, restarts>>

\* A port of 0 in a request asks for the next free port, or for no change.
Op == [id: Ids \cup {0}, port: Ports \cup {0}, old: Ports \cup {0},
       target: Targets, enabled: BOOLEAN]
\* A failed apply leaves `pending`; no statement writes FRP_SSH_RUNBOOK.md:205's
\* `failed`.
Row == [port: Ports, target: Targets, enabled: BOOLEAN,
        status: {"pending", "applied"}]
ASSUME NoneAssumption == None \notin Row
Mapping == [port: Ports, target: Targets]
Service == [port: Ports, target: Targets, enabled: BOOLEAN]
Requests == UNION {[I -> Service] : I \in SUBSET Ids}
Purging == {"purge permissions", "purge addresses", "purge gate"}
Statements == Purging \cup {"next port", "insert", "read", "update", "find", "erase", "gate",
                           "reread", "list", "applied", "failed"}
Steps == Statements \cup {"idle", "wait"}

Present == {i \in Ids : rows[i] # None}
UsedPorts == {rows[i].port : i \in Present}

\* The services of an apply request, one for each row, and the mappings the
\* agent makes of them: it passes over the disabled ones.
Services == [i \in Present |-> [port |-> rows[i].port, target |-> rows[i].target,
                                enabled |-> rows[i].enabled]]
Enabled(services) == {[port |-> services[i].port, target |-> services[i].target] :
                         i \in {j \in DOMAIN services : services[j].enabled}}

\* What the tables say of a port, apart from its gate.  A service leaves its port
\* by being deleted or moved; what is purged, or removed by the administrator, is
\* no one's any more.
Granted == ({"permission"} \X perms) \cup ({"address"} \X allow)
Record ==
    former' = (former \cup {g \in Granted : g[2] \in UsedPorts \ UsedPorts'}) \cap Granted'

-----------------------------------------------------------------------------
(* Start-up *)

\* SeedDefaultSSHServices: every default port without a service gets one, in
\* ascending order of port, and every default port gets a gate.
UsedIn(t) == {t[i].port : i \in {j \in Ids : t[j] # None}}

SeededRows(t, n) ==
    LET missing == DefaultPorts \ UsedIn(t)
        id(p)   == n + Cardinality({q \in missing : q < p})
        seed(p) == [port |-> p, target |-> DefaultTarget, enabled |-> TRUE,
                    status |-> "pending"]
    IN  [i \in Ids |-> IF \E p \in missing : id(p) = i
                         THEN seed(CHOOSE p \in missing : id(p) = i)
                         ELSE t[i]]

SeededNextId(t, n) == n + Cardinality(DefaultPorts \ UsedIn(t))

Args(id, port, old, target, enabled) ==
    [id |-> id, port |-> port, old |-> old, target |-> target, enabled |-> enabled]
NoOp == Args(0, 0, 0, DefaultTarget, TRUE)

Init == LET empty == [i \in Ids |-> None] IN
        /\ rows = SeededRows(empty, 1)
        /\ nextId = SeededNextId(empty, 1)
        /\ gate = DefaultPorts /\ perms = {} /\ allow = {}
        /\ opened = {} /\ former = {}
        /\ pc = [h \in Handlers |-> "idle"]
        /\ op = [h \in Handlers |-> NoOp]
        /\ wire = [h \in Handlers |-> None]
        /\ deployed = {}
        /\ restarts = 0

\* The backend dies between any two statements and starts again; what its
\* handlers had sent to the agent stays on its way.
Restart == /\ restarts < MaxRestarts
           /\ restarts' = restarts + 1
           /\ SeededNextId(rows, nextId) <= MaxId + 1
           /\ rows' = SeededRows(rows, nextId)
           /\ nextId' = SeededNextId(rows, nextId)
           /\ gate' = gate \cup DefaultPorts /\ opened' = opened \ DefaultPorts
           /\ pc' = [h \in Handlers |-> "idle"]
           /\ op' = [h \in Handlers |-> NoOp]
           /\ UNCHANGED <<perms, allow, former, agent>>

-----------------------------------------------------------------------------
(* Handlers *)

Goto(h, step) == pc' = [pc EXCEPT ![h] = step] /\ UNCHANGED op

\* The handler answers its request.
Finish(h) == pc' = [pc EXCEPT ![h] = "idle"] /\ op' = [op EXCEPT ![h] = NoOp]

\* The database part is over: applySSHServicesToAgent needs nothing of it.
Apply(h) == pc' = [pc EXCEPT ![h] = "list"] /\ op' = [op EXCEPT ![h] = NoOp]

Begin(h, step, o) == /\ pc[h] = "idle" /\ wire[h] = None
                     /\ pc' = [pc EXCEPT ![h] = step]
                     /\ op' = [op EXCEPT ![h] = o]
                     /\ UNCHANGED <<table, auth, agent, restarts>>

\* A statement fails: the handler returns its error, except that an update
\* discards the one of DeletePortAuthData and goes on to its new port.
Abort(h) == /\ DbMayFail /\ pc[h] \in Statements
            /\ IF pc[h] \in Purging /\ op[h].port # 0 THEN Goto(h, "gate") ELSE Finish(h)
            /\ UNCHANGED <<table, auth, agent, restarts>>

\* Deviation: the upper bound is off by one.
OneTooMany(p) == p = 0 \/ (FirstPort <= p /\ p <= LastPort + 1)

\* The ports that normalizeSSHServiceRequest accepts.
AcceptedPort(p) == p = 0 \/ (FirstPort <= p /\ p <= LastPort /\ p # ManagementPort)
RequestedPorts == {p \in 0..(LastPort + 1) \cup {ManagementPort} : AcceptedPort(p)}

\* POST /api/ssh-services: a port of the request, or the next free one.
ReceiveCreate(h) == \E t \in Targets, e \in BOOLEAN :
    \/ Begin(h, "next port", Args(0, FirstPort, 0, t, e))
    \/ \E p \in RequestedPorts \ {0} : Begin(h, "insert", Args(0, p, 0, t, e))

\* Deviation: the last port is not the end of the search.
NextPortUnbounded(h) ==
    /\ pc[h] = "next port"
    /\ \/ op[h].port \notin UsedPorts /\ Goto(h, "insert")
       \/ /\ op[h].port \in UsedPorts /\ op[h].port <= LastPort
          /\ op' = [op EXCEPT ![h].port = @ + 1] /\ UNCHANGED pc
    /\ UNCHANGED <<table, auth, agent, restarts>>

\* NextSSHRemotePort counts the services of one port after the other, and is
\* content with the first that has none at the time.
NextSSHRemotePort(h) ==
    /\ pc[h] = "next port"
    /\ \/ op[h].port \notin UsedPorts /\ Goto(h, "insert")
       \/ /\ op[h].port \in UsedPorts /\ op[h].port < LastPort
          /\ op' = [op EXCEPT ![h].port = @ + 1] /\ UNCHANGED pc
       \/ op[h].port \in UsedPorts /\ op[h].port = LastPort /\ Finish(h)
    /\ UNCHANGED <<table, auth, agent, restarts>>

\* Deviation: no UNIQUE constraint on remote_port.
InsertDuplicate(h) ==
    /\ pc[h] = "insert" /\ nextId <= MaxId
    /\ rows' = [rows EXCEPT ![nextId] = [port |-> op[h].port, target |-> op[h].target,
                                         enabled |-> op[h].enabled, status |-> "pending"]]
    /\ nextId' = nextId + 1
    /\ op' = [op EXCEPT ![h].id = nextId]
    /\ pc' = [pc EXCEPT ![h] = "gate"]
    /\ UNCHANGED <<auth, agent, restarts>>

\* INSERT INTO ssh_services: the UNIQUE constraint refuses a port in use.
Insert(h) ==
    /\ pc[h] = "insert"
    /\ \/ /\ op[h].port \in UsedPorts \/ nextId > MaxId
          /\ Finish(h) /\ UNCHANGED table
       \/ /\ op[h].port \notin UsedPorts /\ nextId <= MaxId
          /\ rows' = [rows EXCEPT ![nextId] = [port |-> op[h].port, target |-> op[h].target,
                                               enabled |-> op[h].enabled, status |-> "pending"]]
          /\ nextId' = nextId + 1
          /\ op' = [op EXCEPT ![h].id = nextId]
          /\ pc' = [pc EXCEPT ![h] = "gate"]
    /\ UNCHANGED <<auth, agent, restarts>>

\* PUT and DELETE /api/ssh-services/{id}
ReceiveUpdate(h) == \E i \in Ids, p \in RequestedPorts, t \in Targets, e \in BOOLEAN :
    i < nextId /\ Begin(h, "read", Args(i, p, 0, t, e))
ReceiveDelete(h) == \E i \in Ids :
    i < nextId /\ Begin(h, "find", Args(i, 0, 0, DefaultTarget, TRUE))

\* GetSSHServiceByID, whose row UpdateSSHService goes on to rely on.
Read(h) == /\ pc[h] = "read"
           /\ LET o == op[h] IN
              IF rows[o.id] = None THEN Finish(h)
              ELSE LET old == rows[o.id].port
                   IN  /\ pc' = [pc EXCEPT ![h] = "update"]
                       /\ op' = [op EXCEPT ![h] = Args(o.id, IF o.port = 0 THEN old ELSE o.port,
                                                       old, o.target, o.enabled)]
           /\ UNCHANGED <<table, auth, agent, restarts>>

\* Deviation: an upsert in place of the UPDATE.
UpdateOrInsert(h) ==
    /\ pc[h] = "update"
    /\ LET o == op[h]
           others == {rows[i].port : i \in Present \ {o.id}}
           after == IF o.port = o.old THEN "gate" ELSE "purge permissions" IN
       \/ o.port \in others /\ Finish(h) /\ UNCHANGED rows
       \/ /\ o.port \notin others
          /\ rows' = [rows EXCEPT ![o.id] = [port |-> o.port, target |-> o.target,
                                             enabled |-> o.enabled, status |-> "pending"]]
          /\ Goto(h, after)
    /\ UNCHANGED <<nextId, gate, perms, allow, opened, agent, restarts>>
    /\ Record

\* Deviation: the UPDATE does not reset apply_status.
UpdateKeepsStatus(h) ==
    /\ pc[h] = "update"
    /\ LET o == op[h]
           others == {rows[i].port : i \in Present \ {o.id}}
           after == IF o.port = o.old THEN "gate" ELSE "purge permissions" IN
       \/ rows[o.id] # None /\ o.port \in others /\ Finish(h) /\ UNCHANGED rows
       \/ /\ rows[o.id] # None /\ o.port \notin others
          /\ rows' = [rows EXCEPT ![o.id].port = o.port, ![o.id].target = o.target,
                                  ![o.id].enabled = o.enabled]
          /\ Goto(h, after)
       \/ rows[o.id] = None /\ Goto(h, after) /\ UNCHANGED rows
    /\ UNCHANGED <<nextId, gate, perms, allow, opened, agent, restarts>>
    /\ Record

\* UPDATE ssh_services ... WHERE id = ?: no error when the row is gone, one
\* when another row has the port.
Update(h) ==
    /\ pc[h] = "update"
    /\ LET o == op[h]
           others == {rows[i].port : i \in Present \ {o.id}}
           after == IF o.port = o.old THEN "gate" ELSE "purge permissions" IN
       \/ rows[o.id] # None /\ o.port \in others /\ Finish(h) /\ UNCHANGED rows
       \/ /\ rows[o.id] # None /\ o.port \notin others
          /\ rows' = [rows EXCEPT ![o.id] = [port |-> o.port, target |-> o.target,
                                             enabled |-> o.enabled, status |-> "pending"]]
          /\ Goto(h, after)
       \/ rows[o.id] = None /\ Goto(h, after) /\ UNCHANGED rows
    /\ UNCHANGED <<nextId, gate, perms, allow, opened, agent, restarts>>
    /\ Record

\* DeleteSSHService: the row's port is read first, and purged at the end.
Find(h) == /\ pc[h] = "find"
           /\ LET i == op[h].id IN
              IF rows[i] = None THEN Finish(h)
              ELSE /\ pc' = [pc EXCEPT ![h] = "erase"]
                   /\ op' = [op EXCEPT ![h].old = rows[i].port]
           /\ UNCHANGED <<table, auth, agent, restarts>>

\* Deviation: deleting a service removes its port_config row only.
EraseWithoutPurge(h) == /\ pc[h] = "erase"
                        /\ rows' = [rows EXCEPT ![op[h].id] = None]
                        /\ Goto(h, "purge gate")
                        /\ UNCHANGED <<nextId, gate, perms, allow, opened, agent, restarts>>
                        /\ Record

Erase(h) == /\ pc[h] = "erase"
            /\ rows' = [rows EXCEPT ![op[h].id] = None]
            /\ Goto(h, "purge permissions")
            /\ UNCHANGED <<nextId, gate, perms, allow, opened, agent, restarts>>
            /\ Record

\* DeletePortAuthData: three statements, none of them on ip_whitelist.
PurgePermissions(h) == /\ pc[h] = "purge permissions"
                       /\ perms' = perms \ {op[h].old}
                       /\ Goto(h, "purge addresses")
                       /\ UNCHANGED <<table, gate, allow, opened, agent, restarts>>
                       /\ Record

PurgeAddresses(h) == /\ pc[h] = "purge addresses"
                     /\ allow' = allow \ {op[h].old}
                     /\ Goto(h, "purge gate")
                     /\ UNCHANGED <<table, gate, perms, opened, agent, restarts>>
                     /\ Record

\* Deviation: an update has set the gate before it purges, not after.
PurgeGateLast(h) == /\ pc[h] = "purge gate"
                    /\ gate' = gate \ {op[h].old}
                    /\ IF op[h].port = 0 THEN Apply(h) ELSE Goto(h, "reread")
                    /\ UNCHANGED <<table, perms, allow, opened, former, agent, restarts>>

\* Deviation: a deletion is left for the next apply.
PurgeGateWithoutApply(h) ==
    /\ pc[h] = "purge gate"
    /\ gate' = gate \ {op[h].old}
    /\ IF op[h].port = 0 THEN Finish(h) ELSE Goto(h, "gate")
    /\ UNCHANGED <<table, perms, allow, opened, former, agent, restarts>>

PurgeGate(h) == /\ pc[h] = "purge gate"
                /\ gate' = gate \ {op[h].old}
                /\ IF op[h].port = 0 THEN Apply(h) ELSE Goto(h, "gate")
                /\ UNCHANGED <<table, perms, allow, opened, former, agent, restarts>>

\* SetPortConfig(port, "token", "whitelist")
SetGate(h) == /\ pc[h] = "gate"
              /\ gate' = gate \cup {op[h].port} /\ opened' = opened \ {op[h].port}
              /\ Goto(h, "reread")
              /\ UNCHANGED <<table, perms, allow, former, agent, restarts>>

\* The handler reads the row it will answer with, and gives up if it is gone.
Reread(h) == /\ pc[h] = "reread"
             /\ IF rows[op[h].id] = None THEN Finish(h) ELSE Apply(h)
             /\ UNCHANGED <<table, auth, agent, restarts>>

-----------------------------------------------------------------------------
(* applySSHServicesToAgent *)

\* POST /api/ssh-services/apply
ReceiveApply(h) == Begin(h, "list", NoOp)

\* ListSSHServices, and the request with what it read.
List(h) == /\ pc[h] = "list"
           /\ wire' = [wire EXCEPT ![h] = Services]
           /\ Goto(h, "wait")
           /\ UNCHANGED <<table, auth, deployed, restarts>>

\* validateApplyRequest
Accepts(services) ==
    \A i \in DOMAIN services :
        /\ services[i].port \in Ports \ {ManagementPort}
        /\ \A j \in DOMAIN services : services[j].port = services[i].port => j = i

\* Deviation: the status code of the agent's answer is not looked at.
AnyAnswerIsSuccess(h) ==
    /\ wire[h] # None
    /\ wire' = [wire EXCEPT ![h] = None]
    /\ deployed' = Enabled(wire[h]) \/ (AgentMayFail /\ deployed' = deployed)
    /\ IF pc[h] = "wait" THEN Goto(h, "applied") ELSE UNCHANGED handlers
    /\ UNCHANGED <<table, auth, restarts>>

\* The agent takes the request, in any order with others and possibly after
\* the backend has given up.  It answers 200 only for what it installed; an
\* error, or an answer lost with the tunnel it restarts, says nothing.
AgentApplies(h) ==
    /\ wire[h] # None
    /\ wire' = [wire EXCEPT ![h] = None]
    /\ \/ /\ Accepts(wire[h]) /\ deployed' = Enabled(wire[h])
          /\ IF pc[h] = "wait" THEN Goto(h, "applied") ELSE UNCHANGED handlers
       \/ /\ AgentMayFail \/ ~Accepts(wire[h])
          /\ deployed' = deployed \/ (Accepts(wire[h]) /\ deployed' = Enabled(wire[h]))
          /\ \/ pc[h] = "wait" /\ Goto(h, "failed")
             \/ (AgentMayFail \/ pc[h] # "wait") /\ UNCHANGED handlers
    /\ UNCHANGED <<table, auth, restarts>>

\* Deviation: a client without a timeout only notices a refused connection.
GiveUpIfRefused(h) == /\ AgentMayFail /\ pc[h] = "wait" /\ wire[h] # None
                      /\ Goto(h, "failed")
                      /\ wire' = [wire EXCEPT ![h] = None]
                      /\ UNCHANGED <<table, auth, deployed, restarts>>

\* callFrpcAgent's client gives up after 8 seconds; the request is lost, or
\* still on its way.
GiveUp(h) == /\ AgentMayFail /\ pc[h] = "wait"
             /\ Goto(h, "failed")
             /\ wire' \in {wire, [wire EXCEPT ![h] = None]}
             /\ UNCHANGED <<table, auth, deployed, restarts>>

\* MarkSSHServicesApplied and MarkSSHServicesApplyFailed write every row.
MarkAll(status) ==
    rows' = [i \in Ids |-> IF rows[i] = None THEN None
                           ELSE [rows[i] EXCEPT !.status = status]]

MarkApplied(h) == /\ pc[h] = "applied"
                  /\ MarkAll("applied")
                  /\ Finish(h)
                  /\ UNCHANGED <<nextId, auth, agent, restarts>>

MarkApplyFailed(h) == /\ pc[h] = "failed"
                      /\ MarkAll("pending")
                      /\ Finish(h)
                      /\ UNCHANGED <<nextId, auth, agent, restarts>>

-----------------------------------------------------------------------------
(* The administrator's other requests, on any port, with a service or without *)

AddPortPermission == /\ \E p \in AuthPorts : perms' = perms \cup {p}
                     /\ UNCHANGED <<table, gate, allow, opened, former, handlers, agent, restarts>>

RemovePortPermission == /\ \E p \in perms : perms' = perms \ {p}
                        /\ UNCHANGED <<table, gate, allow, opened, handlers, agent, restarts>>
                        /\ Record

AddPortIPAllow == /\ \E p \in AuthPorts : allow' = allow \cup {p}
                  /\ UNCHANGED <<table, gate, perms, opened, former, handlers, agent, restarts>>

RemovePortIPAllow == /\ \E p \in allow : allow' = allow \ {p}
                     /\ UNCHANGED <<table, gate, perms, opened, handlers, agent, restarts>>
                     /\ Record

\* SetPortConfig with the mode "token" or "ip".
RestrictPort == /\ \E p \in AuthPorts : gate' = gate \cup {p} /\ opened' = opened \ {p}
                /\ UNCHANGED <<table, perms, allow, former, handlers, agent, restarts>>

\* SetPortConfig with the mode "open", or DeletePortConfig.
OpenPort == /\ \E p \in AuthPorts : gate' = gate \ {p} /\ opened' = opened \cup {p}
            /\ UNCHANGED <<table, perms, allow, former, handlers, agent, restarts>>

-----------------------------------------------------------------------------
Receive(h) == ReceiveCreate(h) \/ ReceiveUpdate(h) \/ ReceiveDelete(h) \/ ReceiveApply(h)

Statement(h) == \/ NextSSHRemotePort(h) \/ Insert(h) \/ Read(h) \/ Update(h) \/ Find(h) \/ Erase(h)
                \/ PurgePermissions(h) \/ PurgeAddresses(h) \/ PurgeGate(h)
                \/ SetGate(h) \/ Reread(h) \/ List(h)
                \/ MarkApplied(h) \/ MarkApplyFailed(h)

Admin == \/ AddPortPermission \/ RemovePortPermission
         \/ AddPortIPAllow \/ RemovePortIPAllow \/ RestrictPort \/ OpenPort

Next == \/ \E h \in Handlers : \/ Receive(h) \/ Statement(h) \/ Abort(h)
                               \/ AgentApplies(h) \/ GiveUp(h)
        \/ Admin \/ Restart

Spec == Init /\ [][Next]_vars

\* A statement ends and so does a call to the agent: by its answer or by the
\* client's timeout.
Fairness == \A h \in Handlers : /\ WF_vars(Statement(h))
                                /\ WF_vars(AgentApplies(h) \/ GiveUp(h))

FairSpec == Spec /\ Fairness

\* No handler is at work and nothing is on its way to the agent.
Busy(h) == pc[h] # "idle" \/ wire[h] # None
Quiet == \A h \in Handlers : ~Busy(h)

\* The administrator waits for the end of a request, a late one included, before
\* sending another, and the backend is restarted between requests only. With one
\* handler and no restart every behaviour is such a one.
OneAtATime == \A g, h \in Handlers : Busy(g) /\ Busy(h) => g = h
SerialNext == Next /\ OneAtATime' /\ (restarts' # restarts => Quiet)
SerialSpec == Init /\ [][SerialNext]_vars

-----------------------------------------------------------------------------
(* Properties *)

\* Every variable stays in its domain.
TypeOK == /\ rows \in [Ids -> Row \cup {None}]
          /\ nextId \in 1..(MaxId + 1)
          /\ gate \subseteq Ports \cup AuthPorts /\ opened \subseteq AuthPorts
          /\ perms \subseteq AuthPorts /\ allow \subseteq AuthPorts
          /\ former \subseteq {"permission", "address"} \X AuthPorts
          /\ pc \in [Handlers -> Steps]
          /\ op \in [Handlers -> Op]
          /\ wire \in [Handlers -> Requests \cup {None}]
          /\ deployed \subseteq Mapping
          /\ restarts \in 0..MaxRestarts

\* No two services have the same public port, although NextSSHRemotePort
\* chooses one long before the row is inserted.
UniquePorts == \A i, j \in Present : rows[i].port = rows[j].port => i = j

\* The agent accepts every list of services that the backend sends: what the
\* one lets in, at whatever time, and the other lets through are the same.
WireAccepted == \A h \in Handlers : wire[h] # None => Accepts(wire[h])

\* What makes both inductive: a handler that is about to use a port or an id has
\* one, whether the request named it or a statement found it.
Prepared == \A h \in Handlers :
    /\ pc[h] \in {"next port", "insert", "update", "gate"} => op[h].port # 0
    /\ pc[h] \in {"read", "find", "update", "erase"} => op[h].id # 0
ServiceInv == TypeOK /\ Prepared /\ UniquePorts /\ WireAccepted

\* A deleted service stays deleted: neither an update that read its row before,
\* nor the seeding at a restart, brings its id back.
DeletedStaysDeleted ==
    [][\A i \in Ids : (i < nextId /\ rows[i] = None) => rows'[i] = None]_vars

\* MIGRATION_GUIDE.md:132, the port of a deleted service stops listening: when
\* every service has been deleted, a restart between requests brings none back.
RestartKeepsDeleted ==
    [][restarts' # restarts /\ Quiet /\ nextId > 1 /\ Present = {} => Present' = {}]_vars

\* A port whose access was decided: it has a gate, or the administrator opened it.
Decided == gate \cup opened

\* ADMIN_GUIDE.md:43, a port gets token authentication when a service is
\* created or changed: between requests, every service's port has a gate, unless
\* the administrator opened it since.
GateConfigured == Quiet => UsedPorts \subseteq Decided

\* FRP_SSH_RUNBOOK.md:117, a service whose status is `applied` is what the
\* agent exposes: its mapping when it is enabled, nothing when it is not.
AppliedDeployed ==
    \A i \in Present : rows[i].status = "applied" =>
        LET m == [port |-> rows[i].port, target |-> rows[i].target]
        IN  IF rows[i].enabled THEN m \in deployed
                               ELSE \A n \in deployed : n.port # m.port
AppliedIsDeployed == Quiet => AppliedDeployed

\* MIGRATION_GUIDE.md:129, a connection is refused without an activation:
\* between requests, every port the agent exposes has a gate (AuthCheck lets
\* everybody through a port that has none) or was opened by the administrator.
DeployedGated == \A m \in deployed : m.port \in Decided
ExposedIsGated == Quiet => DeployedGated

\* Between requests, when every service is `applied` (and there is one to say
\* so), the agent exposes the enabled services and no others: what was deleted
\* or moved, and what an earlier apply failed to bring, is accounted for.
DesiredDeployed ==
    (Present # {} /\ \A i \in Present : rows[i].status = "applied")
        => deployed = Enabled(Services)
DeployedIsDesired == Quiet => DesiredDeployed

\* ADMIN_GUIDE.md:43, a port that is used again inherits no permission and no
\* allowed address of a service that was there before: what the administrator
\* gave to the port meanwhile is not inherited.
NothingInherited == \A g \in former : g[2] \notin UsedPorts

\* Every request is answered, whatever the agent and the tunnel do.
RequestsFinish == \A h \in Handlers : (pc[h] # "idle") ~> (pc[h] = "idle")

-----------------------------------------------------------------------------
(* The inductive invariant behind the properties of one request at a time *)

\* The ports named by the handlers that are at certain steps.
Named(field, steps) == {op[h][field] : h \in {g \in Handlers : pc[g] \in steps}}

\* The row a handler has read or written is there, and a port it purges is free.
RowsInv == /\ \A i \in Ids : i >= nextId => rows[i] = None
           /\ \A h \in Handlers : LET o == op[h] IN
                /\ pc[h] \in {"update", "erase"} => rows[o.id] # None /\ rows[o.id].port = o.old
                /\ pc[h] \in {"find", "erase"} => o.port = 0
                /\ pc[h] \in Purging => o.old \notin UsedPorts
                /\ pc[h] \in Purging => o.port = 0 \/ rows[o.id] # None
                /\ pc[h] \in {"gate", "reread"} => rows[o.id] # None

\* Every service has its gate, or a handler is about to set it, or it was opened.
GateInv == UsedPorts \subseteq Decided \cup Named("port", Purging \cup {"gate"})

\* A request under way carries the table as it is.
ApplyInv == /\ AppliedDeployed
            /\ \A h \in Handlers :
                  /\ pc[h] = "applied" => deployed = Enabled(Services)
                  /\ wire[h] # None => wire[h] = Services /\ pc[h] \in {"wait", "failed", "idle"}

\* From a change of the table to the end of its apply the agent may lag behind, and
\* after one that failed no service is `applied`.
Unapplied == Purging \cup {"gate", "reread", "list", "wait", "failed"}
Settled == \A h \in Handlers : pc[h] \notin Unapplied
SettledInv == /\ Settled => DesiredDeployed
              /\ ~AgentMayFail /\ Settled => DeployedGated
              /\ \A h \in Handlers : pc[h] = "failed" => AgentMayFail

\* What a service left behind is what a handler has yet to purge.
FormerInv ==
    /\ former \subseteq Granted
    /\ \A p \in perms : <<"permission", p>> \in former =>
                            p \in Named("old", {"purge permissions"})
    /\ \A p \in allow : <<"address", p>> \in former =>
                            p \in Named("old", {"purge permissions", "purge addresses"})

SerialInv == OneAtATime /\ RowsInv /\ GateInv /\ ApplyInv /\ SettledInv
=============================================================================
