# A TLA+ model of frp-auth-manager

frp-auth-manager is a Go backend on a public server (`main.go`, `handlers/`,
`database/`, `middleware/`) that decides who may connect through an FRP tunnel
and manages SSH services behind it, and a Windows agent (`cmd/frpc-agent`) that
turns the list of services into the configuration of a frpc process. This
directory models their control in TLA+, checks it with TLC and proves the most
important parts with TLAPS.

## Inventory

| Part | State it keeps | Operations | What makes it correct |
| --- | --- | --- | --- |
| frpc-agent (`cmd/frpc-agent/main.go`) | generated, temporary and backup files; status in memory; the frpc process | `POST /v1/apply`, `POST /v1/restart-frpc`, `GET /v1/status`, start-up | only verified configurations are installed, by one step; a successful apply is what frpc serves; what is replaced is backed up; requests finish |
| SSH services (`handlers/ssh_services.go`, `database/db.go:541-661`) | table `ssh_services` and, for each port, rows of `port_config`, `port_permissions`, `port_ip_allowlist` | create, update, delete, apply, start-up seeding | unique ports; an exposed port has a gate; a reused port inherits no permission and no allowed address; `applied` means applied |
| Port authorization (`handlers/user.go`, `handlers/admin.go`, `database/db.go:172-539`) | tables `tokens`, `port_permissions`, `port_config`, `port_ip_allowlist`, `ip_whitelist` | activate, check, administration, cleaning | an address passes only as the port's policy says; an activation is permitted and ends; a revocation takes effect |
| Admin sessions (`middleware/auth.go`, `handlers/admin.go:18-69`) | a map of sessions under an RWMutex | login, check, logout, sweeping | a request is admitted or refused by what its session was meanwhile; every session ends |
| Validation and rendering (`normalizeSSHServiceRequest`, `validateApplyRequest`, `splitBaseConfig`, `renderConfig`) | none | pure functions | what one side accepts, so does the other; frpc reads in the file what was meant |
| Web page (`main.go:119-1011`) | the session token and the refresh timer; lists cached in the browser | load, login, logout, refresh; read, confirm, write | a logout takes effect; a page whose session has ended leaves the application; a write does what the page showed |
| frps dashboard proxy (`handlers/frp_proxy.go`) | none | pass-through | pure I/O |
| Windows wrappers and client tools | none | start, stop, install a key | platform I/O |

The parts interact by HTTP (browser to backend; backend to agent through the
tunnel on port 6999; frps to `AuthCheck` for every connection) and through the
SQLite file. `SetMaxOpenConns(1)` gives the backend one connection: an SQL
statement is atomic, a handler is not, and there is no transaction anywhere.

What is hard in this code: handlers interleave between statements; the agent
is reached through the tunnel whose client it restarts, so an answer may be
lost after the work was done, and the backend gives up after eight seconds;
both processes can die at any point, with a table, three kinds of files and a
child process to pick up again; several errors are discarded. `PROJECT.json`
lists the hazards one by one, with the properties that watch them.

## Modules

| Module | Models |
| --- | --- |
| `FrpcAgent` | the agent's handlers, files, status and frpc process |
| `ManagedConfig` | what the agent promises: one installed configuration, one live one |
| `FrpcConfig` | `splitBaseConfig` and `renderConfig`, and what frpc reads in a file |
| `SSHServices` | the backend's handlers of SSH services, their tables, both validations, and the agent at the other end of the call |
| `SSHDeployment` | `SSHServices` composed with `FrpcConfig`: the file rendered for each request on its way |
| `PortAuth` | UserActivate, AuthCheck, the administrator, the cleaner and time |
| `Sessions` | the session map with its handlers and the sweeper, for any clients |
| `AdminPage` | the page's handling of its session, composed with `Sessions`, which it implements |
| `FrpcAgentProofs`, `SSHServicesProofs`, `SSHDeploymentProofs`, `PortAuthProofs`, `SessionsProofs`, `AdminPageProofs` | theorems about the module of that name |
| `SSHSerialProofs`, `SSHReuseProofs` | theorems about `SSHServices` with one request at a time |
| `MCFrpcAgent`, `MCSSHServices`, `MCPortAuth` | the symmetries and base files of the small instances |

Operators called deviations in the modules are plausible mistakes in the code
(a missed unlock, a purge left out). No specification uses them; they stand
beside the definition they deviate from to show which property notices.

### FrpcAgent

Each request slot runs `handleApply` or `handleRestart`; every lock, file
operation and child process is a step, and the agent can crash between any two
of them. `apply` (main.go:292) is Lock, WriteTmp, Verify, Backup, Rename,
Reload, then Stop and Start if the reload fails; `recordApply` (main.go:410)
takes the mutex again, after apply released it. A configuration is one model
value that stands for a version and its services; whether `frpc verify` accepts
it is the set `ValidConfigs`. The frpc process is external: it starts serving
what the generated file holds, gives up, or dies.

### SSHServices, FrpcConfig and SSHDeployment

Each handler slot is a sequence of SQL statements and the two ends of the HTTP
call. `Abort` is a failing statement, `Restart` a crash of the backend followed
by `SeedDefaultSSHServices`. `wire` holds the apply request a handler has sent,
the services of the whole table with the disabled ones: the agent may take it at
any time, also after `GiveUp`, the client's timeout; it refuses what
`validateApplyRequest` refuses (`Accepts`) and answers 200 only for what it
installed. That last fact is what `AppliedIsInstalled` of `FrpcAgent` says of the
agent. A request's port is any that `normalizeSSHServiceRequest` accepts
(`AcceptedPort`), chosen from the range and its neighbours. A row keeps its port,
target, whether it is enabled, and its status, `pending` or `applied`; names,
notes and error texts are left out. Permissions and allowed addresses are kept as
sets of ports, since only inheritance by the next service matters here; `PortAuth`
has them in full. The administrator edits them, and sets, opens or deletes the
`port_config` row, on any port of `AuthPorts` at any moment, whether the port has a
service or not: no handler of these asks. Two history variables serve the
properties only: `opened`, the ports that the administrator opened, until they are
restricted again, and `former`, the permissions and addresses that were there when a
service left its port, for as long as they stay. What the administrator grants to a
port without a service is thereby told from what a service left on it.

`SerialSpec` is the same program used by one administrator who waits for each
answer: a request is received only when no other handler is at work or has a call
left at the agent's end, and the backend restarts between requests. The call of
the request itself may still arrive late, after its handler has given up.

`FrpcConfig` keeps a file as a sequence of lines, a key with its value or a
`[[proxies]]` header, and states what TOML makes of it (`Settings`, `Proxies`: a
key belongs to the last header above it). `renderConfig` puts lines together as
the code does; `RenderedIsMeant` of `SSHDeployment` compares what frpc reads in
the result with what was asked for.

### PortAuth

A step is one SQL statement of `UserActivate`, `AuthCheck` or an administrator's
request, the cleaner, or a tick. Instants are relative to now, so that time can
pass for ever in a finite model; `Tick` brings every stored instant nearer and
stops at -1, "in the past". `port_permissions` counts rows, because
`INSERT OR IGNORE` meets no UNIQUE constraint; deleting a token leaves its rows
(foreign keys are not switched on). `ZoneSkew` is how far local time runs ahead
of UTC: `TokenHasPortPermission` compares an expiry and `time.Now()` as texts
that carry the zone of each value, while `UserActivate` compares the same
expiry as a time. Any statement may fail (`DbMayFail`): a lookup of the permission
that fails is answered like a missing permission (user.go:56), one of the address
list or of the activations refuses the address, a deletion of expired activations
that fails is ignored, and a lookup of the port that fails lets everybody in, as if
the port had no row (step "unread"). A failing statement of the administrator or of
the cleaner changes nothing, like one that is not sent. Two history variables
serve the properties only: `seen`, the verdicts the policy would have given while
a check was at work, and `grace`, how much longer an activation of a token and
port may last.

### Sessions and AdminPage

In `Sessions` a section under `sessionMu` is one step: GetSession copies a
session under the read lock (`Lookup`) and tests its expiry after it
(`TestExpiry`); Logout destroys it in a third step. A request slot goes from
"sent" to "done" or "refused". Expiries are ticks ahead of now, as in `PortAuth`.
The map is in memory, so `Restart` ends every session. `Clients` lets anybody
send, give up or take anything. The history variable `witness` says for each
request whether its token was live at the moments of its handling.

`AdminPage` replaces `Clients` by the script of `indexHTML`: initSession (`Load`,
`CheckAnswer`), doLogin, doLogout, the refresh timer and `api`, whose 401 logs
out. A handler of the page is one step, as it is in a browser. `loadAll` sends
several requests at once, which are one "data" request here: what matters of
them is whether the session is refused. `localStorage` always holds what
`sessionToken` holds. A page that is loaded again forgets its requests; logins
and logouts the server has not answered go on as orphans, the others, which
cannot change the map, are dropped. The user waits for the answer of a login
before trying again. Requests and answers may be lost, and the backend may
restart. `PageImplementsServer` proves that each of these steps is one of
`Sessions`.

## Runs

| Run | What it checks | Bounds |
| --- | --- | --- |
| `agent_safety` | TypeOK, GeneratedIsVerified, ReportedOKIsVerified, the inductive invariant IInv, and the refinement ManagedSpec, with everything allowed to fail | 2 requests, 2 valid and 1 invalid configuration, 1 crash, 2 seconds, 2 starting frpc processes |
| `agent_apply` | AppliedIsInstalled, ReplacedIsBackedUp and RequestsFinish when `copyFile` and `stopFrpc` do not fail | the same, without crashes; no symmetry, since RequestsFinish is temporal |
| `agent_guard` | finds FrpcIsGuarded violated | 1 request, 1 configuration |
| `ssh_serial` | GateConfigured, AppliedIsDeployed, DeployedIsDesired, NothingInherited, RequestsFinish, RenderedIsMeant, TypeOK and the inductive invariant SerialInv for one request at a time (with one handler and no restart, `FairSpec` allows nothing else), with an agent that may fail, lose or delay anything and the administrator's edits of one port | 2 ports, 2 targets, 3 services ever, one of them seeded; the port edited is the seeded one; base files with no proxy and with two |
| `ssh_concurrent` | UniquePorts, WireAccepted and DeletedStaysDeleted with interleaved handlers, failing statements and a restart | 2 handlers, 2 ports, 2 services ever |
| `ssh_gate_race` | finds GateConfigured violated with two handlers | 2 handlers |
| `ssh_unreachable` | finds ExposedIsGated violated with one handler and an agent that cannot be reached | 1 handler |
| `ssh_reseeded` | finds RestartKeepsDeleted violated: every service is deleted, and one is back after a restart | 1 handler, 1 restart |
| `auth_activate` | TypeOK, EndsWithinWindow, the inductive invariant IInv, VerdictJustified and RevocationTakesEffect, with a port that moves between no row, tokens and addresses, and statements that may fail | 1 token, 1 port, 1 address, 1 activation request and 1 check at a time, a window of 1 tick, expiries 1 tick ahead, 1 permission row |
| `auth_zone` | finds RefusedForCause violated when local time is ahead of UTC, though no statement fails | 1 tick of skew |
| `web_sessions` | TypeOK, AnswerJustified, LogoutTakesEffect, SessionsEnd, ExpiredPageLeaves | 2 sessions, 2 requests in flight, 2 faults, 2 reloads, sessions of 1 tick |
| `web_login` | finds NewLoginIsKept violated | 2 sessions, 2 requests in flight, no fault, no reload |

Why the bounds are enough to be worth having. In the agent, two requests are
what it takes to contend for the mutex and the temporary file, two valid
configurations to tell an old one from a new one, one invalid one to be
refused. In the backend, two ports let a service move and a port be used again,
and three ids leave room for a service, its successor and a neighbour; two
handlers are what it takes to interleave. One base file has nothing on the far
side of the cut and one has two proxies there. In the authorization, requests of
different tokens touch each other only through the tables, which one token's
request, a check, the cleaner and the administrator already do; a longer window,
several rows of one permission and more addresses are left to the proofs, which
have no bounds. In the page, two sessions are an old and a new one, two slots a
late answer and what overtakes it.

DeployedIsDesired asks for a service to be left, because a failed apply is
recorded in the rows of the services only: when the last service is deleted
while the agent is down, no row shows it (see the hazards). AppliedIsDeployed
and GateConfigured hold for one request at a time and not for two:
`ssh_gate_race` shows it for the gate, and with two handlers TLC also refutes
AppliedIsDeployed, since `MarkSSHServicesApplied` marks rows made after the list
was read. VerdictJustified leaves out ports moved between tokens and addresses:
there `CheckPortIPAccess` combines the old mode with the new list mode, and TLC
finds an address let through that neither configuration allows. It also leaves out
checks whose lookup of the port failed, which are let through whatever the
configuration says. GateConfigured and ExposedIsGated excuse a port that the
administrator opened and that no service was created on or changed since.
NothingInherited is about permissions and addresses; activations are inherited.
LogoutTakesEffect leaves out a logout that the network loses: the page has
forgotten the token, and the session lives for its 24 hours.

### Fairness

`FrpcAgent`: a step that waits for the operating system ends (weak fairness);
`sync.Mutex` hands itself over to a waiter that has starved for a millisecond,
so acquiring is strongly fair; the service manager starts the agent again; a
started frpc serves or exits. No fairness for requests, crashes or frpc's death.
`SSHServices`: a statement ends, and a call to the agent ends by its answer or by
the client's timeout; whether the agent answers is not assumed. `PortAuth`:
activation requests go on, the cleaner's loop (main.go:42) comes round and its
DELETE does not fail for ever, and time passes; checks and the administrator are not assumed to do anything.
`AdminPage`: a request that arrived is handled and its answer reaches the page,
the refresh timer fires while it is set (main.go:374), the sweeper comes round
(auth.go:24) and time passes; the user is not assumed to do anything, and
nothing is assumed of requests that are lost.

### What the violations show

- `agent_guard`: README.md:11 says that frpc-agent guards frpc.exe
  (“守护 `frpc.exe`”); frpc is looked for once, at start-up (main.go:400).
- `ssh_gate_race`: ADMIN_GUIDE.md:43 says a new service's port has token
  authentication; a deletion still purging the same port removes it (db.go:637).
- `ssh_unreachable`: MIGRATION_GUIDE.md:129 says that without an activation the
  connection is refused; a deletion removes the port's configuration before the
  agent takes the mapping down, and `AuthCheck` allows a port without one.
- `ssh_reseeded`: MIGRATION_GUIDE.md:132 says that the port of a deleted service
  stops listening; a restart creates a deleted default service again (db.go:132),
  and the next apply exposes it. In the run the only service is deleted.
- `auth_zone`: USER_GUIDE.md:391 explains "token does not have permission for
  this port" as a missing permission; east of Greenwich an unexpired, enabled,
  permitted token gets that answer in the hours before its expiry (db.go:532).
- `web_login`: the comment at main.go:395 says that a refused session is only
  cleared “if another login hasn't updated the session in the meantime”. `api`
  does not ask: the late 401 of the session just left logs the new one out
  (main.go:438). The comparison that initSession makes is never reached, since
  CheckSession refuses with the text "false" (admin.go:53), which JavaScript
  takes for true.

Where code and text disagree in a way that is plain from reading, there is no run:

- FRP_SSH_RUNBOOK.md:205 says that the backend records `applied` or `failed`. A
  failed apply is recorded as `pending` (db.go:659), as ADMIN_GUIDE.md:41 has it;
  `Row` has the statuses that the code writes.
- ADMIN_GUIDE.md:43 says that a deletion keeps a reused port from inheriting old
  permissions. `DeletePortAuthData` (db.go:393) leaves `ip_whitelist` alone, so an
  activation serves the next service for what is left of its five minutes.
- The comment at user.go:101 speaks of a port without a configuration; any error of
  the lookup takes the same way, and lets the address in.

## Proofs

`FrpcAgentProofs`, for any requests, configurations and bounds:

- `TypeCorrect`, `GeneratedVerified` and `ReportedVerified`: the invariants
  TypeOK, GeneratedIsVerified and ReportedOKIsVerified.
- `AppliedInstalled`: AppliedIsInstalled, provided that `stopFrpc` does not fail.
- `ReplacedAreBackedUp`: ReplacedIsBackedUp, provided that `copyFile` does not fail.
- `Refinement`: every behaviour of the agent is one of `ManagedConfig`.

GeneratedIsVerified is not inductive: a step that renames an arbitrary temporary
file would break it. `IInv` adds that the mutex is held exactly by the request
inside `apply` (MutexInv), that the temporary file is that request's own and
verified from the backup on (TmpInv), that a request past its rename finds its
own configuration installed (InstalledInv), and that what serves between stop
and start was started by a concurrent restart, from the new file (StoppedInv).
For the backups, `BackupInv` adds that what a request has copied is still the
generated file when it comes to rename: two applies of one second write the same
backup file, but never both between their copies and their renames.
The assumptions are that absent and torn files are no configurations, and that
the valid configurations are configurations.

`SSHServicesProofs`, for any handlers, ports, targets, services and restarts,
with statements and calls that may fail:

- `TypeCorrect`: TypeOK.
- `PortsAreUnique`: UniquePorts.
- `AgentAccepts`: WireAccepted, so what the two validations ask for agrees.
- `DeletedStayDeleted`: DeletedStaysDeleted.

The inductive invariant, `ServiceInv` (`ServicesInvariant`), adds to them that a
handler about to use a port or an id has one (`Prepared`): a port of 0 in a
request means "the next free one" or "no change", and must have been replaced by
the time it is written. A handler carries nothing else from one statement to the
next that the argument needs; the UNIQUE constraint decides at the statement
itself, and the list is read in one. Seeding gives new ids, above all those ever
used, to ports that no row has (`Seeded`). The assumptions are that the default
ports are finitely many ports of the range with an id for each, that the
management port is outside the range, and that None is neither a target nor a row.

`SSHSerialProofs`, for any handlers, ports, targets, services and restarts, under
`SerialSpec`:

- `AppliedMeansDeployed`: AppliedIsDeployed, though statements and calls may fail.
- `GatesAreSet` and `DeployedMeansDesired`: GateConfigured and DeployedIsDesired,
  provided that no statement fails.
- `ExposedPortsAreGated`: ExposedIsGated, provided that no statement and no call
  fails. `ssh_unreachable` shows that the second condition is needed.

The properties speak of the moments between requests; what makes them inductive is
what holds within one. `SerialInv` says that whatever a request has made untrue,
its handler still has to repair: a port without its gate is the port of a handler
that has yet to set it, or the administrator opened it (GateInv); the port a handler
is purging is nobody's until it is done (RowsInv); the request on its way is the table as it is, and a row is marked
pending by whatever changes it, and applied only after the agent's answer
(ApplyInv); while the agent lags behind the table, a handler has not reached the
end of its apply, or a row is not marked as applied (SettledInv). A statement that
fails ends its handler before the repair, and these parts with it, which is why
the theorems exclude it; ApplyInv needs no repair and stands. That one handler is
at work is used in every step, and two refute it (`ssh_gate_race`). The administrator's
edits disturb none of these parts (`AdminAlone` of `SSHServicesProofs`).

`SSHReuseProofs`, under `SerialSpec`:

- `NothingIsInherited`: NothingInherited, provided that no statement fails. Its
  invariant is `FormerInv` beside `SerialInv`: what a service left on its port is
  there only while a handler has yet to purge that port, a permission until the first
  statement of the purge and an address until the second; and RowsInv says that no
  service is on the port a handler purges. The administrator may grant or remove
  anything at any of these moments, since what is granted anew is not in `former`; that
every step which frees a port or takes anything out of the two tables brings `former`
up to date is `StepRemembers` of `SSHServicesProofs`.

`SSHDeploymentProofs`, for any base files, ports, targets and services:

- `RenderedFile`: what frpc reads in the result of `renderConfig`, for any base
  file and any finite set of services with different ports.
- `RenderedMeansListed`: RenderedIsMeant, with any interleaving and any failures.

A part of a file that begins with a header takes no key of the part before it and
gives it none (FirstPart, SecondPart), so frpc reads the parts one by one
(PartsAreRead); the base file is cut where its first header is (BaseSplit), and the
web server's keys are put before the cut. That sorting gives back all services
(SortedExists), and that the entries of any number of services are read one by one
(ManyProxies), is by induction. The library's induction theorems take an operator,
which the provers cannot instantiate, but its theorem that the natural numbers are
well-founded takes none: from it follows induction over sets of numbers (Induct).
The ports differ because of `ServiceInv`. The assumption is that a base file is a
sequence of lines.

`PortAuthProofs`, for any tokens, ports, addresses, requests and window:

- `TypeCorrect`: TypeOK.
- `ActivationsEnd`: EndsWithinWindow.
- `ChecksAreJustified`: VerdictJustified, though any statement may fail.

EndsWithinWindow speaks of activations in the table; an activation on its way
there, computed before the token was revoked, must be bound as well
(PendingWithinWindow). `IInv` (`Inductive`) is the two and TypeOK. The argument
is that the expiry is fixed when the permission is checked, at which moment
`grace` is the whole window, and from then on `Tick` lowers both alike
(LaterMonotone). For VerdictJustified, `CheckInv` adds that the present moment is
among those seen, that a check is on the path of a mode it has seen, and that the
list mode it has read is the present one as long as nothing else excuses it.

`SessionsProofs` and `AdminPageProofs`, for any sessions, requests, lifetimes,
losses, reloads and restarts:

- `AnswersAreJustified`: AnswerJustified of `Sessions`, with any clients. The
  copy that GetSession makes must be tied to the map: while it is tested, the
  session has the same expiry or is gone (CopyInv).
- `PageTypes`: TypeOK of the page.
- `PageImplementsServer`: every behaviour of the page with its server is one of
  `Sessions`; hence `PageAnswersAreJustified`, AnswerJustified of the page.
- `LogoutsTakeEffect`: LogoutTakesEffect. A login must not bring an old session
  back, for which the tokens that the page and the answers to logins hold must
  have been issued (HeldIsIssued).

Only model-checked: liveness (under fairness it is outside what the prover
handles: RequestsFinish, RevocationTakesEffect, SessionsEnd, ExpiredPageLeaves).
Every safety invariant and every action property of a passing run is proved.

## Assumptions and limits

- `time.Now()` is taken together with the statement next to it; a statement
  waiting for the one connection while a window ends is not told apart.
- The durability of files under power loss is not modelled: a crash is the end
  of a process.
- `FrpcConfig` is about base files of settings followed by proxies. A base file
  that opens another table first, or has `[[proxies]]` in a comment, is cut
  elsewhere; `frpc verify`, which is not in the repository, is left to refuse it.
  So are services of one name, which neither validation forbids.
- In `FrpcAgent` frpc reads its file and serves it in one step: a frpc that read
  the old file just before a rename, and serves it just after, is not told apart.
- In `SSHServices`, with one request at a time, a call that the backend gave up may
  arrive until the next request begins, not after: one that overtakes a retry is not
  in the model.
- The sessions' tokens are never issued twice (256 random bits). Passwords are
  the choice of a login admitted or refused.
- In the page's model, `data` is refused by AdminAuth alone. The dashboard proxy
  passes the status of frps on (frp_proxy.go:52), so a 401 of frps, for the
  backend's own credentials, would log the administrator out as well.

## Not modelled

- The frps dashboard proxy, which passes a request and its answer through.
- Request signing (HMAC) and its verification: computation on bytes, with a
  clock window of its own.
- What the page shows, its forms and its read-confirm-write sequences: the
  server's side is any sequence of the requests they make, which `PortAuth` has;
  the hazards of the page's side (a cached mode, an expiry shifted by the zone's
  offset) are listed in `PROJECT.json` without a property, since no text of the
  repository says what two administrators may expect of each other.
- Windows service wrappers and client tools: start, stop, install a key.
- Names, notes, error texts, traffic limits (stored and never enforced), the
  choice of the client's address from headers, the list handlers.
- Activations in `SSHServices`: no statement there reads or writes them.

## Plan

Done, in this order: the agent, because everything exposed to the network
passes through the file it installs; its abstract specification and proofs; the
SSH services; the authorization; the sessions and the page that uses them; the
rendering of what is applied; proofs for each; the properties of one request at
a time. What would come next:

1. `System`, composing SSHServices, FrpcAgent and the gate of PortAuth: the
   agent's real steps in place of AgentApplies, the version number the agent
   does not compare, and the tunnel that frpc's restart cuts. Property: what is
   exposed between requests is what was asked for, and gated.
2. The page's read-confirm-write sequences, with two administrators.
3. Proofs: what each statement may disturb when another request is at work
   beside it, that is, the part of `SerialInv` that survives two handlers.
