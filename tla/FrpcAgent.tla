----------------------------- MODULE FrpcAgent -----------------------------
(* cmd/frpc-agent: the HTTP handlers of the Windows agent, the three kinds of *)
(* file they write, the in-memory status, and the frpc process they manage.   *)
(*                                                                            *)
(* A request slot r runs one handler at a time: handleApply, whose middle     *)
(* part (apply) holds the mutex mu, or handleRestart, which takes no mutex.   *)
(* Every file operation, child process and lock acquisition is a step, so the *)
(* agent may crash, and another handler may run, between any two of them.     *)
(* A configuration is a model value; it stands for the request's version and  *)
(* services together, so a configuration is also its own version number.      *)
EXTENDS Naturals

CONSTANTS
    Requests,      \* concurrent HTTP requests
    Configs,       \* configurations a request can carry
    ValidConfigs,  \* those whose rendering `frpc verify` accepts
    None,          \* no file, no process, or version 0
    Torn,          \* a file whose write was cut short
    MaxClock,      \* bound: the wall clock, in seconds
    MaxCrashes,    \* bound: crashes of the agent process
    MaxSpawned,    \* bound: frpc processes that are starting at once
    CopyMayFail,   \* may copyFile fail
    StopMayFail    \* may stopFrpc fail

ASSUME ConfigsAssumption == /\ ValidConfigs \subseteq Configs
                            /\ None \notin Configs
                            /\ Torn \notin Configs
                            /\ None # Torn
ASSUME RequestsAssumption == None \notin Requests
ASSUME BoundsAssumption == /\ MaxClock \in Nat
                           /\ MaxCrashes \in Nat
                           /\ MaxSpawned \in Nat \ {0}
                           /\ CopyMayFail \in BOOLEAN
                           /\ StopMayFail \in BOOLEAN

VARIABLES
    up,          \* is the agent process running
    pc,          \* the step each request is about to take
    req,         \* the configuration each apply request carries
    mu,          \* Agent.mu: the request that holds it, or None
    tmp,         \* the file GeneratedConfig + ".tmp"
    generated,   \* the file GeneratedConfig
    backups,     \* BackupDir: the copy named after each second
    version,     \* Agent.configVersion
    applyOK,     \* Agent.lastApplyOK
    serving,     \* the configuration the running frpc serves
    spawned,     \* frpc processes started and not yet serving
    clock,       \* the second time.Now() is in
    crashes      \* crashes so far

handlers == <<pc, req, mu>>
files    == <<tmp, generated, backups>>
status   == <<version, applyOK>>
frpc     == <<serving, spawned>>
bounds   == <<clock, crashes>>
vars     == <<up, handlers, files, status, frpc, bounds>>

\* The steps at which a request runs apply() and so holds mu.
Critical == {"write", "verify", "backup", "rename", "reload", "stop", "start"}
Steps == Critical \cup {"idle", "lock", "ok", "err", "rstop", "rstart"}

\* The agent is not running; an earlier run may have left a configuration, and
\* a frpc that serves it.
Init == /\ up = FALSE
        /\ pc = [r \in Requests |-> "idle"]
        /\ req = [r \in Requests |-> None]
        /\ mu = None
        /\ tmp = None
        /\ generated \in ValidConfigs \cup {None}
        /\ backups = [s \in 0..MaxClock |-> None]
        /\ version = None
        /\ applyOK = TRUE
        /\ serving \in {None, generated}
        /\ spawned = 0
        /\ clock = 0
        /\ crashes = 0

-----------------------------------------------------------------------------
(* handleApply *)

Goto(r, step) == pc' = [pc EXCEPT ![r] = step]

\* `return` inside apply: the deferred Unlock, then handleApply's recordApply.
Return(r, step) == /\ Goto(r, step)
                   /\ mu' = None
                   /\ UNCHANGED req

Keep(r, step) == /\ Goto(r, step)
                 /\ UNCHANGED <<mu, req>>

\* A signed, well-formed apply request arrives; validateApplyRequest accepts
\* it ("lock") or refuses it ("err").
ReceiveApply(r) == /\ up /\ pc[r] = "idle"
                   /\ \E c \in Configs, step \in {"lock", "err"} :
                         /\ req' = [req EXCEPT ![r] = c]
                         /\ Goto(r, step)
                   /\ UNCHANGED <<up, mu, files, status, frpc, bounds>>

\* Deviation: apply without the mutex.
LockWithoutMutex(r) == /\ pc[r] = "lock"
                       /\ mu' = r
                       /\ Goto(r, "write")
                       /\ UNCHANGED <<up, req, files, status, frpc, bounds>>

Lock(r) == /\ pc[r] = "lock" /\ mu = None
           /\ mu' = r
           /\ Goto(r, "write")
           /\ UNCHANGED <<up, req, files, status, frpc, bounds>>

\* Deviation: the rendering is written straight to the generated file.
WriteInPlace(r) == /\ pc[r] = "write"
                   /\ \/ Keep(r, "verify") /\ tmp' = req[r] /\ generated' = req[r]
                      \/ Return(r, "err") /\ generated' = Torn /\ UNCHANGED tmp
                   /\ UNCHANGED <<up, backups, status, frpc, bounds>>

\* Deviation: the early return of a failed write keeps the mutex.
WriteTmpWithoutUnlock(r) ==
    /\ pc[r] = "write"
    /\ \/ Keep(r, "verify") /\ tmp' = req[r]
       \/ Keep(r, "err") /\ tmp' \in {tmp, Torn}
    /\ UNCHANGED <<up, generated, backups, status, frpc, bounds>>

\* renderConfig and os.WriteFile(tmp).  The base file may be unreadable; a
\* failed write leaves what it had written.
WriteTmp(r) == /\ pc[r] = "write"
               /\ \/ Keep(r, "verify") /\ tmp' = req[r]
                  \/ Return(r, "err") /\ tmp' \in {tmp, Torn}
               /\ UNCHANGED <<up, generated, backups, status, frpc, bounds>>

\* verifyFrpcConfig(tmp): the child process can also fail for a reason of its
\* own, for instance when a concurrent stopFrpc kills every frpc.exe.
Verify(r) == /\ pc[r] = "verify"
             /\ \/ tmp \in ValidConfigs /\ Keep(r, "backup") /\ UNCHANGED tmp
                \/ Return(r, "err") /\ tmp' = None
             /\ UNCHANGED <<up, generated, backups, status, frpc, bounds>>

\* Deviation: a backup never overwrites the one of the same second.
BackupOncePerSecond(r) ==
    /\ pc[r] = "backup"
    /\ \/ Return(r, "err") /\ UNCHANGED backups
       \/ /\ Keep(r, "rename")
          /\ \/ generated = None /\ UNCHANGED backups
             \/ /\ generated # None
                /\ backups' = IF backups[clock] = None
                                THEN [backups EXCEPT ![clock] = generated]
                                ELSE backups
    /\ UNCHANGED <<up, tmp, generated, status, frpc, bounds>>

\* os.MkdirAll, then, when a generated file exists, copyFile to a name that
\* only tells seconds apart; copyFile's error is discarded.
Backup(r) == /\ pc[r] = "backup"
             /\ \/ Return(r, "err") /\ UNCHANGED backups
                \/ /\ Keep(r, "rename")
                   /\ \/ generated = None /\ UNCHANGED backups
                      \/ /\ generated # None
                         /\ backups' = [backups EXCEPT ![clock] = generated]
                      \/ /\ generated # None /\ CopyMayFail
                         /\ backups' \in {backups, [backups EXCEPT ![clock] = Torn]}
             /\ UNCHANGED <<up, tmp, generated, status, frpc, bounds>>

\* Deviation: the mutex covers the files only, not the reload that follows.
RenameThenUnlock(r) ==
    /\ pc[r] = "rename"
    /\ \/ Return(r, "reload") /\ generated' = tmp /\ tmp' = None
       \/ Return(r, "err") /\ UNCHANGED <<tmp, generated>>
    /\ UNCHANGED <<up, backups, status, frpc, bounds>>

\* os.Rename(tmp, GeneratedConfig)
Rename(r) == /\ pc[r] = "rename"
             /\ \/ Keep(r, "reload") /\ generated' = tmp /\ tmp' = None
                \/ Return(r, "err") /\ UNCHANGED <<tmp, generated>>
             /\ UNCHANGED <<up, backups, status, frpc, bounds>>

\* reloadFrpc: frpc's admin API makes the serving process re-read its file.
Reload(r) == /\ pc[r] = "reload"
             /\ \/ /\ serving # None
                   /\ serving' = generated
                   /\ Return(r, "ok")
                \/ Keep(r, "stop") /\ UNCHANGED serving
             /\ UNCHANGED <<up, files, status, spawned, bounds>>

\* stopFrpc kills every frpc process; its error is discarded.
StopFrpc == \/ serving' = None /\ spawned' = 0
            \/ StopMayFail /\ UNCHANGED frpc

Stop(r) == /\ pc[r] = "stop"
           /\ Keep(r, "start")
           /\ StopFrpc
           /\ UNCHANGED <<up, files, status, bounds>>

\* startFrpc is cmd.Start: it reports that a process exists, not that it serves.
Start(r) == /\ pc[r] = "start"
            /\ \/ spawned < MaxSpawned /\ spawned' = spawned + 1 /\ Return(r, "ok")
               \/ Return(r, "err") /\ UNCHANGED spawned
            /\ UNCHANGED <<up, files, status, serving, bounds>>

\* Deviation: recordApply sets the version and forgets the outcome.
RecordVersionOnly(r) ==
    /\ pc[r] \in {"ok", "err"} /\ mu = None
    /\ version' = req[r]
    /\ UNCHANGED applyOK
    /\ Goto(r, "idle")
    /\ req' = [req EXCEPT ![r] = None]
    /\ UNCHANGED <<up, mu, files, frpc, bounds>>

\* recordApply takes mu again, after apply has released it.
Record(r) == /\ pc[r] \in {"ok", "err"} /\ mu = None
             /\ version' = req[r]
             /\ applyOK' = (pc[r] = "ok")
             /\ Goto(r, "idle")
             /\ req' = [req EXCEPT ![r] = None]
             /\ UNCHANGED <<up, mu, files, frpc, bounds>>

-----------------------------------------------------------------------------
(* handleRestart: restartFrpc without the mutex *)

ReceiveRestart(r) == /\ up /\ pc[r] = "idle"
                     /\ Keep(r, "rstop")
                     /\ UNCHANGED <<up, files, status, frpc, bounds>>

RestartStop(r) == /\ pc[r] = "rstop"
                  /\ Keep(r, "rstart")
                  /\ StopFrpc
                  /\ UNCHANGED <<up, files, status, bounds>>

RestartStart(r) == /\ pc[r] = "rstart"
                   /\ \/ spawned < MaxSpawned /\ spawned' = spawned + 1
                      \/ UNCHANGED spawned
                   /\ Keep(r, "idle")
                   /\ UNCHANGED <<up, files, status, serving, bounds>>

-----------------------------------------------------------------------------
(* The frpc process, the clock, and crashes of the agent *)

\* A started frpc reads its file and opens its admin port; only one can hold it.
FrpcServes == /\ spawned > 0 /\ serving = None /\ generated # None
              /\ serving' = generated
              /\ spawned' = spawned - 1
              /\ UNCHANGED <<up, handlers, files, status, bounds>>

\* A started frpc gives up: no file, the port is taken, or the login failed.
FrpcGivesUp == /\ spawned > 0
               /\ spawned' = spawned - 1
               /\ UNCHANGED <<up, handlers, files, status, serving, bounds>>

FrpcDies == /\ serving # None
            /\ serving' = None
            /\ UNCHANGED <<up, handlers, files, status, spawned, bounds>>

Tick == /\ clock < MaxClock
        /\ clock' = clock + 1
        /\ UNCHANGED <<up, handlers, files, status, frpc, crashes>>

\* The agent process ends: killed, or stopped as a service while handlers run.
\* Files and the frpc process outlive it; a write in progress may be torn.
Crash == /\ up /\ crashes < MaxCrashes
         /\ up' = FALSE
         /\ crashes' = crashes + 1
         /\ pc' = [r \in Requests |-> "idle"]
         /\ req' = [r \in Requests |-> None]
         /\ mu' = None
         /\ \/ UNCHANGED <<tmp, backups>>
            \/ /\ \E r \in Requests : pc[r] = "write"
               /\ tmp' = Torn /\ UNCHANGED backups
            \/ /\ \E r \in Requests : pc[r] = "backup"
               /\ generated # None
               /\ backups' = [backups EXCEPT ![clock] = Torn] /\ UNCHANGED tmp
         /\ UNCHANGED <<generated, status, frpc, clock>>

\* run(): a fresh Agent, then ensureFrpcRunning, which starts frpc when none
\* runs and a generated file exists, and does nothing otherwise.
FrpcRunning == serving # None \/ spawned > 0

\* Deviation: start-up finishes the rename that a crash interrupted.
BootFinishesRename ==
    /\ ~up
    /\ up' = TRUE
    /\ version' = None
    /\ applyOK' = TRUE
    /\ IF tmp # None THEN generated' = tmp /\ tmp' = None
                     ELSE UNCHANGED <<generated, tmp>>
    /\ UNCHANGED <<handlers, backups, frpc, bounds>>

Boot == /\ ~up
        /\ up' = TRUE
        /\ version' = None
        /\ \/ (FrpcRunning \/ generated = None) /\ applyOK' = TRUE /\ UNCHANGED spawned
           \/ /\ ~FrpcRunning /\ generated # None
              /\ \/ applyOK' = TRUE /\ spawned' = 1
                 \/ applyOK' = FALSE /\ UNCHANGED spawned
        /\ UNCHANGED <<handlers, files, serving, bounds>>

-----------------------------------------------------------------------------
\* Steps that only wait for a file, a child process or a sleep.
Proceed(r) == \/ WriteTmp(r) \/ Verify(r) \/ Backup(r) \/ Rename(r)
              \/ Reload(r) \/ Stop(r) \/ Start(r)
              \/ RestartStop(r) \/ RestartStart(r)

Acquire(r) == Lock(r) \/ Record(r)

Receive(r) == ReceiveApply(r) \/ ReceiveRestart(r)

Next == \/ \E r \in Requests : Receive(r) \/ Acquire(r) \/ Proceed(r)
        \/ FrpcServes \/ FrpcGivesUp \/ FrpcDies
        \/ Tick \/ Crash \/ Boot

Spec == Init /\ [][Next]_vars

\* A step that waits for the operating system ends; sync.Mutex hands itself to
\* a waiter that has starved for 1ms, hence strong fairness; the service
\* manager restarts the agent; a started frpc serves or exits.
Fairness == /\ \A r \in Requests : WF_vars(Proceed(r)) /\ SF_vars(Acquire(r))
            /\ WF_vars(Boot)
            /\ WF_vars(FrpcServes \/ FrpcGivesUp)

FairSpec == Spec /\ Fairness

-----------------------------------------------------------------------------
(* Properties *)

\* Every variable stays in its domain.
TypeOK == /\ up \in BOOLEAN
          /\ pc \in [Requests -> Steps]
          /\ req \in [Requests -> Configs \cup {None}]
          /\ mu \in Requests \cup {None}
          /\ tmp \in Configs \cup {None, Torn}
          /\ generated \in Configs \cup {None}
          /\ backups \in [0..MaxClock -> Configs \cup {None, Torn}]
          /\ version \in Configs \cup {None}
          /\ applyOK \in BOOLEAN
          /\ serving \in Configs \cup {None}
          /\ spawned \in Nat
          /\ clock \in 0..MaxClock
          /\ crashes \in Nat

\* The generated file never holds a configuration that `frpc verify` has not
\* accepted, whatever crashes and however applies and restarts interleave: all
\* applies share one temporary file name, and only mu keeps one request from
\* overwriting it between another's verify and rename.
GeneratedIsVerified == generated \in ValidConfigs \cup {None}

\* An apply that is about to report success installed its own configuration,
\* and frpc serves that one or nothing: never the one before it.  Restart
\* requests, which take no mutex, cannot spoil this.
AppliedIsInstalled ==
    [][\A r \in Requests :
          (pc[r] # "ok" /\ pc'[r] = "ok") => /\ generated' = req[r]
                                            /\ serving' \in {req[r], None}]_vars

\* The previous generated file is in the backup directory before it is replaced.
ReplacedIsBackedUp ==
    [][(generated # None /\ generated' # generated)
          => \E s \in 0..MaxClock : backups[s] = generated]_vars

\* A version that the status reports as applied is a verified configuration.
ReportedOKIsVerified == (applyOK /\ version # None) => version \in ValidConfigs

\* Every accepted request is answered, or dropped by a crash: no handler waits
\* for the mutex for ever, recordApply's second acquisition included.
RequestsFinish == \A r \in Requests : (pc[r] # "idle") ~> (pc[r] = "idle")

\* README.md:11, the agent guards frpc: when frpc is down and a generated file
\* exists, the agent starts one again, unless a request comes to do so first.
FrpcIsGuarded ==
    (up /\ generated # None /\ serving = None)
        ~> (serving # None \/ spawned > 0 \/ \E r \in Requests : pc[r] # "idle")

\* The agent implements the managed configuration.
Managed == INSTANCE ManagedConfig WITH
    Good <- ValidConfigs, installed <- generated, live <- serving
ManagedSpec == Managed!Spec

-----------------------------------------------------------------------------
(* The inductive invariant behind the safety properties *)

\* The mutex is held exactly by the request that is inside apply().
MutexInv == \A r \in Requests : pc[r] \in Critical <=> mu = r

\* Inside apply() the temporary file is the request's own, and verified from
\* the backup on.
TmpInv == \A r \in Requests :
             /\ pc[r] \in {"verify", "backup", "rename"} => tmp = req[r]
             /\ pc[r] \in {"backup", "rename"} => tmp \in ValidConfigs

\* A request past its rename finds its own configuration installed, and one
\* that finished well carries a verified configuration.
InstalledInv == \A r \in Requests :
             /\ pc[r] \in {"reload", "stop", "start"} => generated = req[r]
             /\ pc[r] \in {"reload", "stop", "start", "ok"} => req[r] \in ValidConfigs

\* A frpc found serving between stop and start is one that a concurrent
\* restart launched, which has read the new file.
StoppedInv == ~StopMayFail =>
    \A r \in Requests : pc[r] = "start" => serving \in {None, req[r]}

\* The conjunction that every step preserves: the mutex, the files and the
\* process as seen from inside apply(), and what GeneratedIsVerified and
\* ReportedOKIsVerified say of them from outside.
IInv == /\ TypeOK /\ MutexInv /\ TmpInv /\ InstalledInv /\ StoppedInv
        /\ GeneratedIsVerified
        /\ serving \in ValidConfigs \cup {None}
        /\ ReportedOKIsVerified

\* When copies do not fail, the file that a request is about to replace is in the
\* backup directory: mu keeps it from being replaced between copy and rename.
BackupInv == \A r \in Requests :
                (pc[r] = "rename" /\ generated # None) =>
                    \E s \in 0..MaxClock : backups[s] = generated
=============================================================================
