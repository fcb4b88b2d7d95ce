--------------------------- MODULE SSHReuseProofs ----------------------------
(* What the services of a port leave to the next one, when requests come one  *)
(* at a time.  The argument: what a service left behind is what the handler   *)
(* that took it off its port has yet to purge, and until then the port is     *)
(* free; what the administrator adds and removes meanwhile was left by no one. *)
EXTENDS SSHSerialProofs

USE PortsAssumption, ValuesAssumption, BoundsAssumption, NoneAssumption

\* FormerInv, said of the one handler that is at work.
LocalFormer(h) ==
    /\ former \subseteq Granted
    /\ \A p \in perms : <<"permission", p>> \in former => p \in Past(h, "old", {"purge permissions"})
    /\ \A p \in allow : <<"address", p>> \in former =>
                            p \in Past(h, "old", {"purge permissions", "purge addresses"})

LEMMA LocalIsFormer == \A h \in Handlers : Alone(h) => (FormerInv <=> LocalFormer(h))
<1> SUFFICES ASSUME NEW h \in Handlers, Alone(h) PROVE FormerInv <=> LocalFormer(h)
  OBVIOUS
<1>1. /\ Named("old", {"purge permissions"}) = Past(h, "old", {"purge permissions"})
      /\ Named("old", {"purge permissions", "purge addresses"})
            = Past(h, "old", {"purge permissions", "purge addresses"})
  BY NamedIsPast
<1> QED
  BY <1>1 DEF FormerInv, LocalFormer

LEMMA LocalStaysFormer == (\A h \in Handlers : Alone(h) => (FormerInv <=> LocalFormer(h)))'
  BY LocalIsFormer, PTL

\* What is former after a step was former before, or was there on a port that a
\* service has just left; and it is there still.
LEMMA Recorded ==
    ASSUME Remembers, former \subseteq Granted
    PROVE  /\ former' \subseteq Granted'
           /\ \A p : <<"permission", p>> \in former' =>
                 p \in perms /\ (<<"permission", p>> \in former \/ p \in UsedPorts \ UsedPorts')
           /\ \A p : <<"address", p>> \in former' =>
                 p \in allow /\ (<<"address", p>> \in former \/ p \in UsedPorts \ UsedPorts')
<1>1. former' \subseteq Granted' /\ former' \subseteq former \cup Granted
  <2>1. CASE Record
    BY <2>1 DEF Record
  <2>2. CASE UNCHANGED former /\ perms \subseteq perms' /\ allow \subseteq allow'
    BY <2>2 DEF Granted
  <2> QED
    BY <2>1, <2>2 DEF Remembers
<1>2. \A g \in former' : g \in former \/ g[2] \in UsedPorts \ UsedPorts'
  BY DEF Remembers, Record
<1>3. \A p : /\ <<"permission", p>> \in Granted => p \in perms
             /\ <<"address", p>> \in Granted => p \in allow
  BY DEF Granted
<1>4. \A x, p : <<x, p>>[2] = p
  OBVIOUS
<1> QED
  BY <1>1, <1>2, <1>3, <1>4

\* A step that frees only the port it is about to purge, and forgets no purge.
LEMMA FormerKept ==
    ASSUME Remembers, NEW h \in Handlers, LocalFormer(h),
           UsedPorts \ UsedPorts' \subseteq Past(h, "old", {"purge permissions"})',
           \A p \in perms' : p \in Past(h, "old", {"purge permissions"})
                                => p \in Past(h, "old", {"purge permissions"})',
           \A p \in allow' : p \in Past(h, "old", {"purge permissions", "purge addresses"})
                                => p \in Past(h, "old", {"purge permissions", "purge addresses"})'
    PROVE  LocalFormer(h)'
<1>1. former \subseteq Granted
  BY DEF LocalFormer
<1>2. former' \subseteq Granted'
  BY <1>1, Recorded
<1>3. ASSUME NEW p \in perms', <<"permission", p>> \in former'
      PROVE  p \in Past(h, "old", {"purge permissions"})'
  <2>1. p \in perms /\ (<<"permission", p>> \in former \/ p \in UsedPorts \ UsedPorts')
    BY <1>1, <1>3, Recorded
  <2> QED
    BY <2>1 DEF LocalFormer
<1>4. Past(h, "old", {"purge permissions"})'
         \subseteq Past(h, "old", {"purge permissions", "purge addresses"})'
  BY DEF Past
<1>5. ASSUME NEW p \in allow', <<"address", p>> \in former'
      PROVE  p \in Past(h, "old", {"purge permissions", "purge addresses"})'
  <2>1. p \in allow /\ (<<"address", p>> \in former \/ p \in UsedPorts \ UsedPorts')
    BY <1>1, <1>5, Recorded
  <2> QED
    BY <1>4, <2>1 DEF LocalFormer
<1> QED
  BY <1>2, <1>3, <1>5 DEF LocalFormer

\* A service leaves its port by an update or a deletion, and the purge is next.
LEMMA FreedIsPurged ==
    ASSUME ServiceInv, NEW h \in Handlers, LocalRows(h), Works(h)
    PROVE  UsedPorts \ UsedPorts' \subseteq Past(h, "old", {"purge permissions"})'
<1>1. CASE Insert(h)
  <2>1. CASE UNCHANGED table /\ Finish(h)
    BY <2>1, Unwritten DEF table
  <2>2. CASE ~(UNCHANGED table /\ Finish(h))
    BY <1>1, <2>2, Inserted
  <2> QED
    BY <2>1, <2>2
<1>2. CASE Update(h)
  <2>1. CASE UNCHANGED table /\ Finish(h)
    BY <2>1, Unwritten DEF table
  <2>2. CASE ~(UNCHANGED table /\ Finish(h))
    <3>1. /\ pc'[h] = IF op[h].port = op[h].old THEN "gate" ELSE "purge permissions"
          /\ op'[h] = op[h]
      BY <1>2, <2>2, Updated
    <3>2. UsedPorts' = (UsedPorts \ {op[h].old}) \cup {op[h].port}
      BY <1>2, <2>2, Updated
    <3>3. /\ UsedPorts \ UsedPorts' \subseteq {op[h].old}
          /\ op[h].port = op[h].old => UsedPorts \ UsedPorts' = {}
      BY <3>2
    <3> QED
      BY <3>1, <3>3 DEF Past
  <2> QED
    BY <2>1, <2>2
<1>3. CASE Erase(h)
  <2>1. /\ pc'[h] = "purge permissions" /\ op'[h] = op[h]
        /\ UsedPorts \ UsedPorts' \subseteq {op[h].old}
    BY <1>3, Erased
  <2> QED
    BY <2>1 DEF Past
<1>4. CASE MarkApplied(h) \/ MarkApplyFailed(h)
  BY <1>4, PortsMarked DEF MarkApplied, MarkApplyFailed
<1>5. CASE \/ NextSSHRemotePort(h) \/ Read(h) \/ Find(h) \/ PurgePermissions(h)
           \/ PurgeAddresses(h) \/ PurgeGate(h) \/ SetGate(h) \/ Reread(h) \/ List(h)
           \/ AgentApplies(h) \/ GiveUp(h)
  <2>1. UNCHANGED table
    BY <1>5 DEF NextSSHRemotePort, Read, Find, PurgePermissions, PurgeAddresses, PurgeGate,
                SetGate, Reread, List, AgentApplies, GiveUp
  <2> QED
    BY <2>1, Unwritten DEF table
<1>6. CASE Receive(h)
  BY <1>6, BeginsAt, Unwritten DEF table
<1> QED
  BY <1>1, <1>2, <1>3, <1>4, <1>5, <1>6 DEF Works, Statement

\* The handler at work leaves nothing on a port that it has purged.
LEMMA FormerStep ==
    ASSUME ServiceInv, Remembers, NEW h \in Handlers, LocalRows(h), LocalFormer(h), Works(h)
    PROVE  LocalFormer(h)'
<1>1. UsedPorts \ UsedPorts' \subseteq Past(h, "old", {"purge permissions"})'
  BY FreedIsPurged
<1>2. ASSUME pc[h] \notin {"purge permissions", "purge addresses"} \/ UNCHANGED handlers
      PROVE  LocalFormer(h)'
  <2>1. /\ Past(h, "old", {"purge permissions"}) \subseteq Past(h, "old", {"purge permissions"})'
        /\ Past(h, "old", {"purge permissions", "purge addresses"})
              \subseteq Past(h, "old", {"purge permissions", "purge addresses"})'
    BY <1>2 DEF Past, handlers
  <2> QED
    BY <1>1, <2>1, FormerKept
<1>3. CASE PurgePermissions(h)
  <2>1. /\ pc[h] = "purge permissions" /\ pc'[h] = "purge addresses" /\ op'[h] = op[h]
        /\ perms' = perms \ {op[h].old}
    BY <1>3, GoesTo DEF PurgePermissions
  <2>2. \A p \in perms' : p \notin Past(h, "old", {"purge permissions"})
    BY <2>1 DEF Past
  <2>3. Past(h, "old", {"purge permissions", "purge addresses"})
           \subseteq Past(h, "old", {"purge permissions", "purge addresses"})'
    BY <2>1 DEF Past
  <2> QED
    BY <1>1, <2>2, <2>3, FormerKept
<1>4. CASE PurgeAddresses(h)
  <2>1. pc[h] = "purge addresses" /\ allow' = allow \ {op[h].old}
    BY <1>4 DEF PurgeAddresses
  <2>2. /\ Past(h, "old", {"purge permissions"}) = {}
        /\ \A p \in allow' : p \notin Past(h, "old", {"purge permissions", "purge addresses"})
    BY <2>1 DEF Past
  <2> QED
    BY <1>1, <2>2, FormerKept
<1>5. CASE AgentApplies(h)
  BY <1>2, <1>5 DEF AgentApplies, Goto
<1>6. CASE Receive(h) \/ GiveUp(h)
  BY <1>2, <1>6, BeginsAt DEF GiveUp
<1>7. CASE \/ NextSSHRemotePort(h) \/ Insert(h) \/ Read(h) \/ Update(h) \/ Find(h) \/ Erase(h)
           \/ PurgeGate(h) \/ SetGate(h) \/ Reread(h) \/ List(h)
           \/ MarkApplied(h) \/ MarkApplyFailed(h)
  BY <1>2, <1>7 DEF NextSSHRemotePort, Insert, Read, Update, Find, Erase, PurgeGate, SetGate,
                    Reread, List, MarkApplied, MarkApplyFailed
<1> QED
  BY <1>3, <1>4, <1>5, <1>6, <1>7 DEF Works, Statement

\* Nobody's steps free a port or forget a purge.
LEMMA FormerRests ==
    ASSUME Remembers, FormerInv, UsedPorts \subseteq UsedPorts',
           \A steps : Named("old", steps)' = Named("old", steps)
    PROVE  FormerInv'
<1>1. former \subseteq Granted
  BY DEF FormerInv
<1>2. former' \subseteq Granted'
  BY <1>1, Recorded
<1>3. ASSUME NEW p \in perms', <<"permission", p>> \in former'
      PROVE  p \in Named("old", {"purge permissions"})'
  <2>1. p \in perms /\ <<"permission", p>> \in former
    BY <1>1, <1>3, Recorded
  <2> QED
    BY <2>1 DEF FormerInv
<1>4. ASSUME NEW p \in allow', <<"address", p>> \in former'
      PROVE  p \in Named("old", {"purge permissions", "purge addresses"})'
  <2>1. p \in allow /\ <<"address", p>> \in former
    BY <1>1, <1>4, Recorded
  <2> QED
    BY <2>1 DEF FormerInv
<1> QED
  BY <1>2, <1>3, <1>4 DEF FormerInv

\* A restart between requests leaves every service on its port.
LEMMA FormerRestarts ==
    ASSUME ServiceInv, RowsInv, FormerInv, Remembers, Quiet, Restart
    PROVE  FormerInv'
<1>1. /\ Quiet'
      /\ \A i \in Ids : \/ rows'[i] = rows[i]
                        \/ nextId <= i /\ rows'[i].port \in DefaultPorts /\ rows'[i] # None
  BY Restarted
<1>2. \A i \in Ids : nextId <= i => rows[i] = None
  BY Facts DEF RowsInv, Ids
<1>3. UsedPorts \subseteq UsedPorts'
  BY <1>1, <1>2 DEF UsedPorts, Present
<1>4. (\A h \in Handlers : pc[h] = "idle") /\ (\A h \in Handlers : pc'[h] = "idle")
  BY <1>1, AllIdle DEF Quiet, Busy
<1>5. /\ Named("old", {"purge permissions"}) = {}
      /\ Named("old", {"purge permissions", "purge addresses"}) = {}
  BY <1>4 DEF Named
<1>6. former = {}
  <2>1. ASSUME NEW g \in former PROVE FALSE
    <3>1. g \in Granted
      BY <2>1 DEF FormerInv
    <3>2. \/ \E p \in perms : g = <<"permission", p>>
          \/ \E p \in allow : g = <<"address", p>>
      BY <3>1 DEF Granted
    <3> QED
      BY <1>5, <2>1, <3>2 DEF FormerInv
  <2> QED
    BY <2>1
<1>7. former' = {}
  <2>1. \A g \in former' : g[2] \in UsedPorts \ UsedPorts'
    BY <1>6 DEF Remembers, Record
  <2> QED
    BY <1>3, <2>1
<1> QED
  BY <1>7 DEF FormerInv

LEMMA FormerPreserved ==
    ASSUME ~DbMayFail, ServiceInv, SerialInv, FormerInv, [SerialNext]_vars
    PROVE  FormerInv'
<1>0. Remembers
  BY StepRemembers DEF SerialNext
<1>1. ASSUME NEW h \in Handlers, Works(h), OneAtATime' PROVE FormerInv'
  <2>1. Alone(h) /\ Alone(h)'
    BY <1>1, Solo DEF SerialInv
  <2>2. LocalRows(h) /\ LocalFormer(h)
    BY <2>1, LocalIsAll, LocalIsFormer DEF SerialInv
  <2>3. LocalFormer(h)'
    BY <1>0, <1>1, <2>2, FormerStep
  <2> QED
    BY <2>1, <2>3, LocalStaysFormer
<1>2. CASE Restart /\ (restarts' # restarts => Quiet)
  <2>1. restarts' # restarts
    BY <1>2 DEF Restart, ServiceInv, TypeOK
  <2> QED
    BY <1>0, <1>2, <2>1, FormerRestarts DEF SerialInv
<1>3. CASE Admin
  <2>1. UsedPorts' = UsedPorts /\ UNCHANGED <<pc, op>>
    BY <1>3, UsersLeave
  <2>2. \A steps : Named("old", steps)' = Named("old", steps)
    BY <2>1 DEF Named
  <2> QED
    BY <1>0, <1>3, <2>1, <2>2, FormerRests
<1>4. CASE UNCHANGED vars
  <2>1. UNCHANGED <<perms, allow, pc, op, former>>
    BY <1>4 DEF vars, auth, handlers
  <2> QED
    BY <2>1 DEF FormerInv, Granted, Named
<1> QED
  BY <1>1, <1>2, <1>3, <1>4 DEF SerialNext, Next, Works, Abort

\* A port that is to be purged is free, so that nothing former is on one in use.
LEMMA FormerIsFree == ASSUME RowsInv, FormerInv PROVE NothingInherited
<1>1. \A steps : steps \subseteq Purging =>
          \A p \in Named("old", steps) : p \notin UsedPorts
  BY DEF RowsInv, Named
<1>2. {"purge permissions", "purge addresses"} \subseteq Purging
  BY DEF Purging
<1>3. \A p \in Named("old", {"purge permissions"})
               \cup Named("old", {"purge permissions", "purge addresses"}) : p \notin UsedPorts
  BY <1>1, <1>2
<1>4. ASSUME NEW g \in former PROVE g[2] \notin UsedPorts
  <2>1. g \in Granted
    BY <1>4 DEF FormerInv
  <2>2. ASSUME NEW p \in perms, g = <<"permission", p>> PROVE g[2] \notin UsedPorts
    <3>1. p \in Named("old", {"purge permissions"}) /\ g[2] = p
      BY <1>4, <2>2 DEF FormerInv
    <3> QED
      BY <1>3, <3>1
  <2>3. ASSUME NEW p \in allow, g = <<"address", p>> PROVE g[2] \notin UsedPorts
    <3>1. p \in Named("old", {"purge permissions", "purge addresses"}) /\ g[2] = p
      BY <1>4, <2>3 DEF FormerInv
    <3> QED
      BY <1>3, <3>1
  <2> QED
    BY <2>1, <2>2, <2>3 DEF Granted
<1> QED
  BY <1>4 DEF NothingInherited

\* With one request at a time and statements that do not fail, a port that is used
\* again inherits no permission and no allowed address of the service that was
\* there, whatever the administrator adds and removes on any port, with a service
\* or without, at any moment, for any numbers of ports, services and restarts.
THEOREM NothingIsInherited == ~DbMayFail => (SerialSpec => []NothingInherited)
<1> SUFFICES ASSUME ~DbMayFail PROVE SerialSpec => []NothingInherited
  OBVIOUS
<1>1. Init => FormerInv
  BY DEF Init, FormerInv
<1>2. ServiceInv /\ SerialInv /\ FormerInv /\ [SerialNext]_vars => FormerInv'
  BY FormerPreserved
<1>3. SerialInv /\ FormerInv => NothingInherited
  BY FormerIsFree DEF SerialInv
<1> QED
  BY <1>1, <1>2, <1>3, SerialInvariant, SerialIsService, PTL DEF SerialSpec
=============================================================================
