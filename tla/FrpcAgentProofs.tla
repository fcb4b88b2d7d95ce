-------------------------- MODULE FrpcAgentProofs --------------------------
(* The agent's safety for any number of requests and configurations, and any  *)
(* bounds.  The argument: mu admits one request to the steps between writing  *)
(* the temporary file and the end of the reload, so what verify accepted is   *)
(* what rename installs, and what rename installed is what frpc reads.        *)
EXTENDS FrpcAgent, TLAPS

USE ConfigsAssumption, RequestsAssumption, BoundsAssumption

LEMMA InitInv == Init => IInv
<1> SUFFICES ASSUME Init PROVE IInv
  OBVIOUS
<1>1. TypeOK
  <2>1. /\ pc \in [Requests -> Steps] /\ req \in [Requests -> Configs \cup {None}]
        /\ backups \in [0..MaxClock -> Configs \cup {None, Torn}]
    BY DEF Init, Steps
  <2>2. /\ mu \in Requests \cup {None} /\ version \in Configs \cup {None}
        /\ generated \in Configs \cup {None} /\ serving \in Configs \cup {None}
        /\ tmp \in Configs \cup {None, Torn}
    BY DEF Init
  <2>3. spawned \in Nat /\ clock \in 0..MaxClock /\ crashes \in Nat
    BY DEF Init
  <2>4. up \in BOOLEAN /\ applyOK \in BOOLEAN
    BY DEF Init
  <2> QED
    BY <2>1, <2>2, <2>3, <2>4 DEF TypeOK
<1>2. MutexInv /\ TmpInv /\ InstalledInv /\ StoppedInv
  BY DEF Init, MutexInv, TmpInv, InstalledInv, StoppedInv, Critical
<1>3. GeneratedIsVerified /\ serving \in ValidConfigs \cup {None} /\ ReportedOKIsVerified
  BY DEF Init, GeneratedIsVerified, ReportedOKIsVerified
<1> QED
  BY <1>1, <1>2, <1>3 DEF IInv

LEMMA StepInv == IInv /\ [Next]_vars => IInv'
<1> SUFFICES ASSUME IInv, [Next]_vars PROVE IInv'
  OBVIOUS
<1> USE DEF IInv, TypeOK, MutexInv, TmpInv, InstalledInv, StoppedInv,
            GeneratedIsVerified, ReportedOKIsVerified, Critical, Steps,
            handlers, files, status, frpc, bounds, Goto, Keep, Return
<1>1. ASSUME NEW r \in Requests, ReceiveApply(r) PROVE IInv'
  BY <1>1 DEF ReceiveApply
<1>2. ASSUME NEW r \in Requests, ReceiveRestart(r) PROVE IInv'
  BY <1>2 DEF ReceiveRestart
<1>3. ASSUME NEW r \in Requests, Lock(r) PROVE IInv'
  BY <1>3 DEF Lock
<1>4. ASSUME NEW r \in Requests, Record(r) PROVE IInv'
  BY <1>4, ZenonT(60) DEF Record
<1>5. ASSUME NEW r \in Requests, WriteTmp(r) PROVE IInv'
  BY <1>5 DEF WriteTmp
<1>6. ASSUME NEW r \in Requests, Verify(r) PROVE IInv'
  BY <1>6 DEF Verify
<1>7. ASSUME NEW r \in Requests, Backup(r) PROVE IInv'
  BY <1>7 DEF Backup
<1>8. ASSUME NEW r \in Requests, Rename(r) PROVE IInv'
  BY <1>8 DEF Rename
<1>9. ASSUME NEW r \in Requests, Reload(r) PROVE IInv'
  BY <1>9 DEF Reload
<1>10. ASSUME NEW r \in Requests, Stop(r) PROVE IInv'
  BY <1>10 DEF Stop, StopFrpc
<1>11. ASSUME NEW r \in Requests, Start(r) PROVE IInv'
  BY <1>11 DEF Start
<1>12. ASSUME NEW r \in Requests, RestartStop(r) PROVE IInv'
  BY <1>12 DEF RestartStop, StopFrpc
<1>13. ASSUME NEW r \in Requests, RestartStart(r) PROVE IInv'
  BY <1>13 DEF RestartStart
<1>14. CASE FrpcServes
  BY <1>14 DEF FrpcServes
<1>15. CASE FrpcGivesUp
  BY <1>15 DEF FrpcGivesUp
<1>16. CASE FrpcDies
  BY <1>16 DEF FrpcDies
<1>17. CASE Tick
  BY <1>17 DEF Tick
<1>18. CASE Crash
  <2>1. /\ pc' = [r \in Requests |-> "idle"] /\ req' = [r \in Requests |-> None]
        /\ up' = FALSE /\ mu' = None /\ UNCHANGED <<generated, status, frpc, clock>>
    BY <1>18 DEF Crash
  <2>2. tmp' \in Configs \cup {None, Torn} /\ crashes' \in Nat
    BY <1>18 DEF Crash
  <2>3. backups' \in [0..MaxClock -> Configs \cup {None, Torn}]
    BY <1>18 DEF Crash
  <2> QED
    BY <2>1, <2>2, <2>3
<1>19. CASE Boot
  <2>1. /\ UNCHANGED <<handlers, files, serving, bounds>>
        /\ up' = TRUE /\ version' = None
    BY <1>19 DEF Boot
  <2>2. applyOK' \in BOOLEAN
    BY <1>19 DEF Boot
  <2>3. spawned' \in Nat
    <3>1. spawned' = 1 \/ spawned' = spawned
      BY <1>19 DEF Boot
    <3> QED
      BY <3>1
  <2> QED
    BY <2>1, <2>2, <2>3
<1>20. CASE UNCHANGED vars
  BY <1>20 DEF vars
<1> QED
  BY <1>1, <1>2, <1>3, <1>4, <1>5, <1>6, <1>7, <1>8, <1>9, <1>10, <1>11, <1>12, <1>13, <1>14, <1>15, <1>16, <1>17, <1>18, <1>19, <1>20 DEF Next, Receive, Acquire, Proceed

\* The inductive invariant holds: what each step of an apply relies on is true
\* when it is taken, whatever crashes, restarts and other requests did before.
THEOREM Invariance == Spec => []IInv
  BY InitInv, StepInv, PTL DEF Spec

\* Every variable stays in its domain.
THEOREM TypeCorrect == Spec => []TypeOK
<1>1. IInv => TypeOK
  BY DEF IInv
<1> QED
  BY <1>1, Invariance, PTL

\* The generated file only ever holds what verify accepted: mu protects the
\* temporary file that all applies share (GeneratedIsVerified).
THEOREM GeneratedVerified == Spec => []GeneratedIsVerified
<1>1. IInv => GeneratedIsVerified
  BY DEF IInv
<1> QED
  BY <1>1, Invariance, PTL

\* A version reported as applied is a verified one (ReportedOKIsVerified).
THEOREM ReportedVerified == Spec => []ReportedOKIsVerified
<1>1. IInv => ReportedOKIsVerified
  BY DEF IInv
<1> QED
  BY <1>1, Invariance, PTL

\* Unless stopping frpc fails, a successful apply has installed its own
\* configuration and no older one is served (AppliedIsInstalled).
THEOREM AppliedInstalled == ASSUME ~StopMayFail PROVE Spec => AppliedIsInstalled
<1> DEFINE P == \A r \in Requests :
                   (pc[r] # "ok" /\ pc'[r] = "ok") => /\ generated' = req[r]
                                                     /\ serving' \in {req[r], None}
<1>1. ASSUME IInv, Next PROVE P
  <2> SUFFICES ASSUME NEW r \in Requests, pc[r] # "ok", pc'[r] = "ok"
               PROVE  generated' = req[r] /\ serving' \in {req[r], None}
    OBVIOUS
  <2> USE DEF Goto, Keep, Return, handlers, IInv, TypeOK
  <2>1. Reload(r) \/ Start(r)
    <3>1. ASSUME NEW q \in Requests, Receive(q) \/ Acquire(q) \/ Proceed(q)
          PROVE  q = r /\ (Reload(q) \/ Start(q))
      BY <1>1, <3>1 DEF Receive, ReceiveApply, ReceiveRestart, Acquire, Lock, Record,
           Proceed, WriteTmp, Verify, Backup, Rename, Reload, Stop, Start,
           RestartStop, RestartStart
    <3>2. CASE FrpcServes \/ FrpcGivesUp \/ FrpcDies \/ Tick \/ Crash \/ Boot
      BY <1>1, <3>2 DEF FrpcServes, FrpcGivesUp, FrpcDies, Tick, Crash, Boot
    <3> QED
      BY <1>1, <3>1, <3>2 DEF Next
  <2>2. CASE Reload(r)
    BY <1>1, <2>2 DEF Reload, InstalledInv, files
  <2>3. CASE Start(r)
    BY <1>1, <2>3 DEF Start, InstalledInv, StoppedInv, files
  <2> QED
    BY <2>1, <2>2, <2>3
<1>2. IInv /\ [Next]_vars => [P]_vars
  BY <1>1
<1>3. Spec => [][P]_vars
  BY <1>2, Invariance, PTL DEF Spec
<1> QED
  BY <1>3 DEF AppliedIsInstalled

\* The agent implements ManagedConfig: only whole verified configurations are
\* installed, by one step, and frpc only ever serves the installed one.
THEOREM Refinement == Spec => ManagedSpec
<1>1. Init => Managed!Init
  BY DEF Init, Managed!Init
<1>2. IInv /\ [Next]_vars => [Managed!Next]_(Managed!abstract)
  <2> SUFFICES ASSUME IInv, [Next]_vars
               PROVE  Managed!Next \/ UNCHANGED <<generated, serving>>
    BY DEF Managed!abstract
  <2> USE DEF Managed!Next, Managed!Install, Managed!Activate, Managed!Lose, files, frpc
  <2>1. ASSUME NEW r \in Requests, Receive(r) \/ Acquire(r)
        PROVE  UNCHANGED <<generated, serving>>
    BY <2>1 DEF Receive, ReceiveApply, ReceiveRestart, Acquire, Lock, Record
  <2>2. ASSUME NEW r \in Requests, WriteTmp(r) \/ Verify(r) \/ Backup(r)
                                   \/ Start(r) \/ RestartStart(r)
        PROVE  UNCHANGED <<generated, serving>>
    BY <2>2 DEF WriteTmp, Verify, Backup, Start, RestartStart
  <2>3. ASSUME NEW r \in Requests, Rename(r)
        PROVE  (\E c \in ValidConfigs : Managed!Install(c)) \/ UNCHANGED <<generated, serving>>
    BY <2>3 DEF Rename, IInv, TmpInv
  <2>4. ASSUME NEW r \in Requests, Reload(r)
        PROVE  Managed!Activate \/ UNCHANGED <<generated, serving>>
    BY <2>4, ConfigsAssumption DEF Reload, IInv, InstalledInv
  <2>5. ASSUME NEW r \in Requests, Stop(r) \/ RestartStop(r)
        PROVE  Managed!Lose \/ UNCHANGED <<generated, serving>>
    BY <2>5 DEF Stop, RestartStop, StopFrpc
  <2>6. CASE FrpcServes
    BY <2>6 DEF FrpcServes
  <2>7. CASE FrpcDies
    BY <2>7 DEF FrpcDies
  <2>8. CASE FrpcGivesUp \/ Tick \/ Crash \/ Boot
    BY <2>8 DEF FrpcGivesUp, Tick, Crash, Boot
  <2>9. CASE UNCHANGED vars
    BY <2>9 DEF vars
  <2> QED
    BY <2>1, <2>2, <2>3, <2>4, <2>5, <2>6, <2>7, <2>8, <2>9 DEF Next, Proceed
<1> QED
  BY <1>1, <1>2, Invariance, PTL DEF Spec, ManagedSpec, Managed!Spec

-----------------------------------------------------------------------------
(* The backups *)

LEMMA BackupStep ==
    ASSUME ~CopyMayFail, IInv, BackupInv, [Next]_vars
    PROVE  BackupInv' /\ (generated # None /\ generated' # generated
                             => \E s \in 0..MaxClock : backups[s] = generated)
<1> DEFINE Goal == BackupInv' /\ (generated # None /\ generated' # generated
                             => \E s \in 0..MaxClock : backups[s] = generated)
<1>0. pc \in [Requests -> Steps] /\ backups \in [0..MaxClock -> Configs \cup {None, Torn}]
  BY DEF IInv, TypeOK
<1>1. ASSUME UNCHANGED <<generated, backups>>,
             \A q \in Requests : pc'[q] = "rename" => pc[q] = "rename"
      PROVE  Goal
  BY <1>1 DEF BackupInv
<1>2. ASSUME NEW r \in Requests, Backup(r) PROVE Goal
  <2>1. CASE UNCHANGED backups /\ generated = None
    BY <1>2, <2>1 DEF Backup, BackupInv
  <2>2. CASE backups' = [backups EXCEPT ![clock] = generated]
    <3>1. clock \in 0..MaxClock /\ backups'[clock] = generated
      BY <1>0, <2>2 DEF IInv, TypeOK
    <3>2. generated' = generated
      BY <1>2 DEF Backup
    <3> QED
      BY <3>1, <3>2 DEF BackupInv
  <2>3. CASE UNCHANGED backups /\ Return(r, "err")
    <3>1. generated' = generated /\ pc' = [pc EXCEPT ![r] = "err"]
      BY <1>2, <2>3 DEF Backup, Return, Goto
    <3> QED
      BY <1>0, <1>1, <2>3, <3>1
  <2> QED
    BY <1>2, <2>1, <2>2, <2>3 DEF Backup
<1>3. ASSUME NEW r \in Requests, Rename(r) PROVE Goal
  <2>1. \A q \in Requests : pc'[q] # "rename"
    <3>1. pc[r] = "rename" /\ \A q \in Requests : pc[q] = "rename" => q = r
      BY <1>3 DEF Rename, IInv, MutexInv, Critical
    <3>2. pc' = [pc EXCEPT ![r] = "reload"] \/ pc' = [pc EXCEPT ![r] = "err"]
      BY <1>3 DEF Rename, Keep, Return, Goto
    <3> QED
      BY <1>0, <3>1, <3>2
  <2> QED
    BY <1>3, <2>1 DEF Rename, BackupInv
<1>4. ASSUME NEW r \in Requests,
             \/ Receive(r) \/ Acquire(r) \/ WriteTmp(r) \/ Verify(r) \/ Reload(r) \/ Stop(r)
             \/ Start(r) \/ RestartStop(r) \/ RestartStart(r)
      PROVE  Goal
  <2>1. UNCHANGED <<generated, backups>>
    BY <1>4 DEF Receive, ReceiveApply, ReceiveRestart, Acquire, Lock, Record, WriteTmp, Verify,
                Reload, Stop, Start, RestartStop, RestartStart, files
  <2>2. \E step \in Steps \ {"rename"} : pc' = [pc EXCEPT ![r] = step]
    BY <1>4 DEF Receive, ReceiveApply, ReceiveRestart, Acquire, Lock, Record, WriteTmp, Verify,
                Reload, Stop, Start, RestartStop, RestartStart, Keep, Return, Goto, Steps,
                Critical
  <2> QED
    BY <1>0, <1>1, <2>1, <2>2
<1>5. CASE Crash
  BY <1>5 DEF Crash, BackupInv
<1>6. CASE FrpcServes \/ FrpcGivesUp \/ FrpcDies \/ Tick \/ Boot \/ UNCHANGED vars
  BY <1>1, <1>6 DEF FrpcServes, FrpcGivesUp, FrpcDies, Tick, Boot, vars, handlers, files
<1> QED
  BY <1>2, <1>3, <1>4, <1>5, <1>6 DEF Next, Proceed

\* Unless a copy fails, no generated file is replaced that is not in the backup
\* directory, although two applies of one second share the name of their backup
\* (ReplacedIsBackedUp).
THEOREM ReplacedAreBackedUp == ASSUME ~CopyMayFail PROVE Spec => ReplacedIsBackedUp
<1>1. Init => BackupInv
  BY DEF Init, BackupInv
<1>2. IInv /\ BackupInv /\ [Next]_vars => BackupInv'
  BY BackupStep
<1>3. IInv /\ BackupInv /\ [Next]_vars
         => [(generated # None /\ generated' # generated)
                => \E s \in 0..MaxClock : backups[s] = generated]_vars
  BY BackupStep
<1> QED
  BY <1>1, <1>2, <1>3, Invariance, PTL DEF Spec, ReplacedIsBackedUp
=============================================================================
