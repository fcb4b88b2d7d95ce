--------------------------- MODULE SSHSerialProofs ---------------------------
(* The SSH services when requests come one at a time and the backend is       *)
(* restarted between them only, for any numbers of handlers, ports, services  *)
(* and restarts, with an agent that may fail, lose or delay what it is sent.  *)
(* The argument: with the other handlers at rest, the steps of one handler    *)
(* undo at the end what they disturbed in between.                            *)
EXTENDS SSHServicesProofs

USE PortsAssumption, ValuesAssumption, BoundsAssumption, NoneAssumption

-----------------------------------------------------------------------------
(* One handler at work *)

Alone(h) == \A g \in Handlers \ {h} : ~Busy(g)

\* The inductive invariant, said of the one handler that is at work.
LocalRows(h) == LET o == op[h] IN
    /\ \A i \in Ids : i >= nextId => rows[i] = None
    /\ pc[h] \in {"update", "erase"} => rows[o.id] # None /\ rows[o.id].port = o.old
    /\ pc[h] \in {"find", "erase"} => o.port = 0
    /\ pc[h] \in Purging => o.old \notin UsedPorts
    /\ pc[h] \in Purging => o.port = 0 \/ rows[o.id] # None
    /\ pc[h] \in {"gate", "reread"} => rows[o.id] # None
Past(h, field, steps) == IF pc[h] \in steps THEN {op[h][field]} ELSE {}
LocalGate(h) == UsedPorts \subseteq Decided \cup Past(h, "port", Purging \cup {"gate"})
LocalApply(h) ==
    /\ AppliedDeployed
    /\ pc[h] = "applied" => deployed = Enabled(Services)
    /\ wire[h] # None => wire[h] = Services /\ pc[h] \in {"wait", "failed", "idle"}
LocalSettled(h) ==
    /\ pc[h] \notin Unapplied => DesiredDeployed
    /\ ~AgentMayFail /\ pc[h] \notin Unapplied => DeployedGated
    /\ pc[h] = "failed" => AgentMayFail

LEMMA Resting == \A h \in Handlers : Alone(h) =>
                     \A g \in Handlers \ {h} : pc[g] = "idle" /\ wire[g] = None
  BY DEF Alone, Busy

LEMMA NamedIsPast ==
    ASSUME NEW h \in Handlers, Alone(h), NEW field, NEW steps, "idle" \notin steps
    PROVE  Named(field, steps) = Past(h, field, steps)
<1>1. \A g \in Handlers : pc[g] \in steps => g = h
  BY Resting
<1> QED
  BY <1>1 DEF Named, Past

LEMMA LocalIsAll == \A h \in Handlers : Alone(h) =>
                        /\ RowsInv <=> LocalRows(h)
                        /\ GateInv <=> LocalGate(h)
                        /\ ApplyInv <=> LocalApply(h)
                        /\ SettledInv <=> LocalSettled(h)
<1> SUFFICES ASSUME NEW h \in Handlers, Alone(h)
             PROVE  /\ RowsInv <=> LocalRows(h)
                    /\ GateInv <=> LocalGate(h)
                    /\ ApplyInv <=> LocalApply(h)
                    /\ SettledInv <=> LocalSettled(h)
  OBVIOUS
<1>1. \A g \in Handlers \ {h} : pc[g] = "idle" /\ wire[g] = None
  BY Resting
<1>2. RowsInv <=> LocalRows(h)
  BY <1>1 DEF RowsInv, LocalRows, Purging
<1>4. GateInv <=> LocalGate(h)
  <2>1. "idle" \notin Purging \cup {"gate"}
    BY DEF Purging
  <2> QED
    BY <2>1, NamedIsPast DEF GateInv, LocalGate
<1>5. ApplyInv <=> LocalApply(h)
  BY <1>1 DEF ApplyInv, LocalApply
<1>6. SettledInv <=> LocalSettled(h)
  <2>1. Settled <=> pc[h] \notin Unapplied
    BY <1>1 DEF Settled, Unapplied, Purging
  <2> QED
    BY <1>1, <2>1 DEF SettledInv, LocalSettled
<1> QED
  BY <1>2, <1>4, <1>5, <1>6

-----------------------------------------------------------------------------
(* The table *)

Others(i) == {rows[j].port : j \in Present \ {i}}

LEMMA RowsType == ServiceInv => rows \in [Ids -> Row \cup {None}]
  BY DEF ServiceInv, TypeOK

LEMMA PortsWritten ==
    ASSUME ServiceInv, NEW i \in Ids, NEW r \in Row \cup {None}, rows' = [rows EXCEPT ![i] = r]
    PROVE  /\ UsedPorts' = Others(i) \cup (IF r = None THEN {} ELSE {r.port})
           /\ UsedPorts = Others(i) \cup (IF rows[i] = None THEN {} ELSE {rows[i].port})
           /\ rows[i] # None => rows[i].port \notin Others(i)
<1>1. \A j \in Ids : rows'[j] = IF j = i THEN r ELSE rows[j]
  BY RowsType
<1>2. UsedPorts' = Others(i) \cup (IF r = None THEN {} ELSE {r.port})
  BY <1>1 DEF UsedPorts, Present, Others
<1>3. UsedPorts = Others(i) \cup (IF rows[i] = None THEN {} ELSE {rows[i].port})
  BY DEF UsedPorts, Present, Others
<1>4. rows[i] # None => rows[i].port \notin Others(i)
  BY DEF ServiceInv, UniquePorts, Present, Others
<1> QED
  BY <1>2, <1>3, <1>4

\* The statuses change, and nothing that the agent or the other tables see.
LEMMA PortsMarked ==
    ASSUME ServiceInv, NEW status \in {"pending", "applied"}, MarkAll(status)
    PROVE  /\ \A i \in Ids : (rows'[i] = None) <=> (rows[i] = None)
           /\ \A i \in Ids : rows[i] # None =>
                 /\ rows'[i].port = rows[i].port /\ rows'[i].target = rows[i].target
                 /\ rows'[i].enabled = rows[i].enabled /\ rows'[i].status = status
           /\ Present' = Present /\ UsedPorts' = UsedPorts /\ Services' = Services
<1>1. \A i \in Ids : rows'[i] = IF rows[i] = None THEN None
                                ELSE [rows[i] EXCEPT !.status = status]
  BY DEF MarkAll
<1>2. \A i \in Ids : rows[i] # None =>
         /\ rows'[i] \in Row
         /\ rows'[i].port = rows[i].port /\ rows'[i].target = rows[i].target
         /\ rows'[i].enabled = rows[i].enabled /\ rows'[i].status = status
  <2> SUFFICES ASSUME NEW i \in Ids, rows[i] # None
               PROVE  /\ rows'[i] \in Row
                      /\ rows'[i].port = rows[i].port /\ rows'[i].target = rows[i].target
                      /\ rows'[i].enabled = rows[i].enabled /\ rows'[i].status = status
    OBVIOUS
  <2>1. rows[i] \in [port: Ports, target: Targets, enabled: BOOLEAN, status: {"pending", "applied"}]
    BY RowsType DEF Row
  <2>2. rows'[i] = [rows[i] EXCEPT !.status = status]
    BY <1>1
  <2>3. rows'[i] \in Row
    BY <2>1, <2>2 DEF Row
  <2>4. /\ rows'[i].port = rows[i].port /\ rows'[i].target = rows[i].target
        /\ rows'[i].enabled = rows[i].enabled
    BY <2>1, <2>2
  <2>5. rows'[i].status = status
    BY <2>1, <2>2
  <2> QED
    BY <2>3, <2>4, <2>5
<1>3. \A i \in Ids : (rows'[i] = None) <=> (rows[i] = None)
  BY <1>1, <1>2
<1>4. \A i \in Ids : rows[i] # None =>
         /\ rows'[i].port = rows[i].port /\ rows'[i].target = rows[i].target
         /\ rows'[i].enabled = rows[i].enabled /\ rows'[i].status = status
  BY <1>1, <1>2
<1>5. Present' = Present
  BY <1>3 DEF Present
<1>6. UsedPorts' = UsedPorts
  BY <1>4, <1>5 DEF UsedPorts, Present
<1>7. Services' = Services
  BY <1>4, <1>5 DEF Services, Present
<1> QED
  BY <1>3, <1>4, <1>5, <1>6, <1>7

\* What a handler has written is told by its steps.
LEMMA Unwritten ==
    ASSUME UNCHANGED rows
    PROVE  /\ UNCHANGED <<UsedPorts, Present, Services>>
           /\ UNCHANGED deployed => UNCHANGED <<AppliedDeployed, DesiredDeployed>>
<1>1. Present' = Present
  BY DEF Present
<1>2. UsedPorts' = UsedPorts /\ Services' = Services
  BY <1>1 DEF UsedPorts, Services
<1>3. ASSUME UNCHANGED deployed PROVE UNCHANGED <<AppliedDeployed, DesiredDeployed>>
  BY <1>1, <1>2, <1>3 DEF AppliedDeployed, DesiredDeployed, Enabled
<1> QED
  BY <1>1, <1>2, <1>3

-----------------------------------------------------------------------------
(* Where the steps lead *)

LEMMA GoesTo ==
    ASSUME ServiceInv, NEW h \in Handlers, NEW step, Goto(h, step)
    PROVE  pc'[h] = step /\ op'[h] = op[h]
  BY Facts DEF HandlersOK, Goto

LEMMA FinishesAt ==
    ASSUME ServiceInv, NEW h \in Handlers, Finish(h)
    PROVE  pc'[h] = "idle" /\ op'[h] = NoOp
  BY Facts DEF HandlersOK, Finish

LEMMA AppliesAt ==
    ASSUME ServiceInv, NEW h \in Handlers, Apply(h)
    PROVE  pc'[h] = "list" /\ op'[h] = NoOp
  BY Facts DEF HandlersOK, Apply

LEMMA BeginsAt ==
    ASSUME ServiceInv, NEW h \in Handlers, Receive(h)
    PROVE  /\ pc[h] = "idle" /\ wire[h] = None
           /\ pc'[h] \in {"next port", "insert", "read", "find", "list"}
           /\ pc'[h] = "find" => op'[h].port = 0
           /\ UNCHANGED <<table, auth, agent, restarts>>
<1> USE Facts DEF HandlersOK, Begin
<1>1. CASE ReceiveCreate(h)
  <2>1. PICK o : \E step \in {"next port", "insert"} : Begin(h, step, o)
    BY <1>1 DEF ReceiveCreate
  <2> QED
    BY <2>1
<1>2. CASE ReceiveUpdate(h)
  <2>1. PICK o : Begin(h, "read", o)
    BY <1>2 DEF ReceiveUpdate
  <2> QED
    BY <2>1
<1>3. CASE ReceiveDelete(h)
  <2>1. PICK i \in Ids : Begin(h, "find", Args(i, 0, 0, DefaultTarget, TRUE))
    BY <1>3 DEF ReceiveDelete
  <2>2. Args(i, 0, 0, DefaultTarget, TRUE).port = 0
    BY DEF Args
  <2> QED
    BY <2>1, <2>2
<1>4. CASE ReceiveApply(h)
  BY <1>4 DEF ReceiveApply
<1> QED
  BY <1>1, <1>2, <1>3, <1>4 DEF Receive

-----------------------------------------------------------------------------
(* What the statements that write a row do to the ports in use *)

LEMMA Inserted ==
    ASSUME ServiceInv, NEW h \in Handlers, LocalRows(h), Insert(h),
           ~(UNCHANGED table /\ Finish(h))
    PROVE  /\ pc'[h] = "gate" /\ op'[h].port = op[h].port
           /\ op'[h].id \in Ids /\ rows'[op'[h].id] # None
           /\ \A i \in Ids : i >= nextId' => rows'[i] = None
           /\ UsedPorts' = UsedPorts \cup {op[h].port}
           /\ op[h].port \notin UsedPorts
<1> DEFINE r == [port |-> op[h].port, target |-> op[h].target,
                 enabled |-> op[h].enabled, status |-> "pending"]
<1>0. /\ op[h] \in Op /\ Ready(pc[h], op[h]) /\ rows \in [Ids -> Row \cup {None}]
      /\ nextId \in Nat /\ (nextId <= MaxId => nextId \in Ids)
  BY Facts, RowsType DEF HandlersOK
<1>1. /\ nextId <= MaxId /\ nextId' = nextId + 1 /\ rows' = [rows EXCEPT ![nextId] = r]
      /\ pc' = [pc EXCEPT ![h] = "gate"] /\ op' = [op EXCEPT ![h].id = nextId]
      /\ op[h].port \notin UsedPorts
  BY DEF Insert
<1>2. r \in Row /\ r.port = op[h].port
  <2>1. op[h].port \in Ports /\ op[h].target \in Targets /\ op[h].enabled \in BOOLEAN
    BY <1>0 DEF Insert, Ready, Op
  <2> QED
    BY <2>1 DEF Row
<1>3. pc'[h] = "gate" /\ op'[h].id = nextId /\ op'[h].port = op[h].port
  BY <1>0, <1>1, Facts DEF HandlersOK, Op
<1> HIDE DEF r
<1>4. r # None /\ r \in Row \cup {None} /\ nextId \in Ids /\ rows[nextId] = None
  BY <1>0, <1>1, <1>2 DEF LocalRows
<1>5. rows'[nextId] # None
  BY <1>0, <1>1, <1>4
<1>6. \A i \in Ids : i >= nextId' => rows'[i] = None
  <2>1. \A i \in Ids : i # nextId => rows'[i] = rows[i]
    BY <1>0, <1>1
  <2>2. \A i \in Ids : i >= nextId + 1 => i # nextId /\ i >= nextId
    BY <1>0 DEF Ids
  <2> QED
    BY <1>1, <2>1, <2>2 DEF LocalRows
<1>7. UsedPorts' = UsedPorts \cup {op[h].port}
  <2>1. /\ UsedPorts' = Others(nextId) \cup (IF r = None THEN {} ELSE {r.port})
        /\ UsedPorts = Others(nextId) \cup
                         (IF rows[nextId] = None THEN {} ELSE {rows[nextId].port})
    BY <1>1, <1>4, PortsWritten
  <2> QED
    BY <1>2, <1>4, <2>1
<1> QED
  BY <1>1, <1>3, <1>4, <1>5, <1>6, <1>7

LEMMA Updated ==
    ASSUME ServiceInv, NEW h \in Handlers, LocalRows(h), Update(h),
           ~(UNCHANGED table /\ Finish(h))
    PROVE  /\ pc'[h] = IF op[h].port = op[h].old THEN "gate" ELSE "purge permissions"
           /\ op'[h] = op[h] /\ rows'[op[h].id] # None
           /\ \A i \in Ids : i >= nextId' => rows'[i] = None
           /\ UsedPorts' = (UsedPorts \ {op[h].old}) \cup {op[h].port}
<1> DEFINE r == [port |-> op[h].port, target |-> op[h].target,
                 enabled |-> op[h].enabled, status |-> "pending"]
           i == op[h].id
           after == IF op[h].port = op[h].old THEN "gate" ELSE "purge permissions"
<1>0. op[h] \in Op /\ Ready(pc[h], op[h]) /\ rows \in [Ids -> Row \cup {None}]
  BY Facts, RowsType DEF HandlersOK
<1>1. rows[i] # None /\ rows[i].port = op[h].old
  BY DEF Update, LocalRows
<1>2. /\ rows' = [rows EXCEPT ![i] = r] /\ nextId' = nextId /\ Goto(h, after)
  BY <1>1 DEF Update, table
<1>3. i \in Ids /\ r \in Row /\ r.port = op[h].port
  <2>1. op[h].port \in Ports /\ op[h].target \in Targets /\ op[h].enabled \in BOOLEAN
    BY <1>0 DEF Update, Ready, Op
  <2>2. i \in Ids
    BY <1>0 DEF Update, Ready, Op
  <2> QED
    BY <2>1, <2>2 DEF Row
<1>4. pc'[h] = after /\ op'[h] = op[h]
  BY <1>2, GoesTo
<1> HIDE DEF r
<1>5. r # None /\ r \in Row \cup {None}
  BY <1>3
<1>6. /\ UsedPorts' = Others(i) \cup {op[h].port}
      /\ UsedPorts = Others(i) \cup {op[h].old}
      /\ op[h].old \notin Others(i)
  <2>1. /\ UsedPorts' = Others(i) \cup (IF r = None THEN {} ELSE {r.port})
        /\ UsedPorts = Others(i) \cup (IF rows[i] = None THEN {} ELSE {rows[i].port})
        /\ rows[i] # None => rows[i].port \notin Others(i)
    BY <1>2, <1>3, <1>5, PortsWritten
  <2> QED
    BY <1>1, <1>3, <1>5, <2>1
<1>7. rows'[i] # None /\ \A j \in Ids : j >= nextId' => rows'[j] = None
  BY <1>0, <1>1, <1>2, <1>3, <1>5 DEF LocalRows
<1>8. UsedPorts' = (UsedPorts \ {op[h].old}) \cup {op[h].port}
  BY <1>6
<1> QED
  BY <1>4, <1>7, <1>8

LEMMA Erased ==
    ASSUME ServiceInv, NEW h \in Handlers, LocalRows(h), Erase(h)
    PROVE  /\ pc'[h] = "purge permissions" /\ op'[h] = op[h] /\ op[h].port = 0
           /\ \A i \in Ids : i >= nextId' => rows'[i] = None
           /\ UsedPorts = UsedPorts' \cup {op[h].old}
           /\ op[h].old \notin UsedPorts'
<1> DEFINE i == op[h].id
<1>0. op[h] \in Op /\ Ready(pc[h], op[h]) /\ rows \in [Ids -> Row \cup {None}]
  BY Facts, RowsType DEF HandlersOK
<1>1. rows[i] # None /\ rows[i].port = op[h].old /\ op[h].port = 0
  BY DEF Erase, LocalRows
<1>2. i \in Ids
  BY <1>0 DEF Erase, Ready, Op
<1>3. pc'[h] = "purge permissions" /\ op'[h] = op[h]
  BY GoesTo DEF Erase
<1>4. rows' = [rows EXCEPT ![i] = None] /\ nextId' = nextId
  BY DEF Erase
<1>5. UsedPorts' = Others(i) /\ UsedPorts = Others(i) \cup {op[h].old}
      /\ op[h].old \notin Others(i)
  <2>1. None \in Row \cup {None}
    OBVIOUS
  <2>2. /\ UsedPorts' = Others(i) \cup (IF None = None THEN {} ELSE {None.port})
        /\ UsedPorts = Others(i) \cup (IF rows[i] = None THEN {} ELSE {rows[i].port})
        /\ rows[i] # None => rows[i].port \notin Others(i)
    BY <1>2, <1>4, <2>1, PortsWritten
  <2> QED
    BY <1>1, <2>2
<1>6. \A j \in Ids : j >= nextId => rows'[j] = None
  BY <1>0, <1>4 DEF LocalRows
<1> QED
  BY <1>1, <1>3, <1>4, <1>5, <1>6

-----------------------------------------------------------------------------
(* The steps of the handler at work *)

Works(h) == Receive(h) \/ Statement(h) \/ AgentApplies(h) \/ GiveUp(h)

LEMMA RowsStep ==
    ASSUME ServiceInv, NEW h \in Handlers, LocalRows(h), Works(h)
    PROVE  LocalRows(h)'
<1> USE DEF Purging
<1>0. /\ op[h] \in Op /\ Ready(pc[h], op[h])
      /\ rows \in [Ids -> Row \cup {None}]
      /\ nextId \in Nat /\ (nextId <= MaxId => nextId \in Ids)
  BY Facts, RowsType DEF HandlersOK
<1>1. ASSUME UNCHANGED table,
             pc'[h] \in {"idle", "next port", "insert", "read", "list", "wait", "applied", "failed"}
      PROVE  LocalRows(h)'
  BY <1>1 DEF LocalRows, table
<1>2. ASSUME UNCHANGED table, NEW step \in Purging \cup {"gate", "reread"}, Goto(h, step),
             pc[h] \in Purging \cup {"gate"}, step \in Purging => pc[h] \in Purging,
             step \notin Purging => op[h].port # 0
      PROVE  LocalRows(h)'
  <2>1. pc'[h] = step /\ op'[h] = op[h]
    BY <1>2, GoesTo
  <2>2. rows' = rows /\ nextId' = nextId /\ UsedPorts' = UsedPorts
    BY <1>2, Unwritten DEF table
  <2> QED
    BY <1>2, <2>1, <2>2 DEF LocalRows
<1>3. ASSUME UNCHANGED table, Finish(h) \/ Apply(h) PROVE LocalRows(h)'
  BY <1>1, <1>3, FinishesAt, AppliesAt
<1>4. ASSUME UNCHANGED table, NEW step \in {"insert", "wait", "applied", "failed"}, Goto(h, step)
      PROVE  LocalRows(h)'
  BY <1>1, <1>4, GoesTo
<1>5. CASE Receive(h)
  <2>1. UNCHANGED table /\ pc'[h] \in {"next port", "insert", "read", "find", "list"}
    BY <1>5, BeginsAt
  <2>2. CASE pc'[h] = "find"
    <3>1. op'[h].port = 0
      BY <1>5, <2>2, BeginsAt
    <3> QED
      BY <2>1, <2>2, <3>1 DEF LocalRows, table
  <2> QED
    BY <1>1, <2>1, <2>2
<1>6. CASE NextSSHRemotePort(h)
  BY <1>1, <1>3, <1>4, <1>6 DEF NextSSHRemotePort
<1>7. CASE Insert(h)
  <2>1. CASE UNCHANGED table /\ Finish(h)
    BY <1>3, <2>1
  <2>2. CASE ~(UNCHANGED table /\ Finish(h))
    BY <1>7, <2>2, Inserted DEF LocalRows
  <2> QED
    BY <2>1, <2>2
<1>8. CASE Read(h)
  <2>1. CASE rows[op[h].id] # None
    <3>1. /\ pc'[h] = "update" /\ op'[h].id = op[h].id /\ op'[h].old = rows[op[h].id].port
      BY <1>8, <2>1, Facts DEF Read, HandlersOK, Args
    <3> QED
      BY <1>8, <2>1, <3>1 DEF Read, LocalRows, table
  <2> QED
    BY <1>3, <1>8, <2>1 DEF Read
<1>9. CASE Find(h)
  <2>1. CASE rows[op[h].id] # None
    <3>1. op' = [op EXCEPT ![h].old = rows[op[h].id].port] /\ pc' = [pc EXCEPT ![h] = "erase"]
      BY <1>9, <2>1 DEF Find
    <3>2. pc'[h] = "erase"
      BY <3>1, Facts DEF HandlersOK
    <3>3. /\ op'[h].id = op[h].id /\ op'[h].port = op[h].port
          /\ op'[h].old = rows[op[h].id].port
      BY <1>0, <3>1, Facts DEF HandlersOK, Op
    <3> QED
      BY <1>9, <2>1, <3>2, <3>3 DEF Find, LocalRows, table
  <2> QED
    BY <1>3, <1>9, <2>1 DEF Find
<1>10. CASE Update(h)
  <2>1. CASE UNCHANGED table /\ Finish(h)
    BY <1>3, <2>1
  <2>2. CASE ~(UNCHANGED table /\ Finish(h))
    <3>1. /\ pc'[h] = IF op[h].port = op[h].old THEN "gate" ELSE "purge permissions"
          /\ op'[h] = op[h] /\ rows'[op[h].id] # None
          /\ \A i \in Ids : i >= nextId' => rows'[i] = None
      BY <1>10, <2>2, Updated
    <3>2. UsedPorts' = (UsedPorts \ {op[h].old}) \cup {op[h].port}
      BY <1>10, <2>2, Updated
    <3>3. op[h].port # op[h].old => op[h].old \notin UsedPorts'
      BY <3>2
    <3> QED
      BY <3>1, <3>3 DEF LocalRows
  <2> QED
    BY <2>1, <2>2
<1>11. CASE Erase(h)
  BY <1>11, Erased DEF LocalRows
<1>12. CASE PurgePermissions(h) \/ PurgeAddresses(h) \/ PurgeGate(h) \/ SetGate(h)
  BY <1>0, <1>2, <1>3, <1>12 DEF PurgePermissions, PurgeAddresses, PurgeGate, SetGate, Ready
<1>13. CASE Reread(h) \/ List(h)
  BY <1>3, <1>4, <1>13 DEF Reread, List, table
<1>14. CASE AgentApplies(h)
  <2>1. CASE UNCHANGED handlers
    BY <1>14, <2>1 DEF AgentApplies, handlers, LocalRows, table, UsedPorts, Present
  <2> QED
    BY <1>4, <1>14, <2>1 DEF AgentApplies
<1>15. CASE GiveUp(h)
  BY <1>4, <1>15 DEF GiveUp
<1>16. CASE MarkApplied(h) \/ MarkApplyFailed(h)
  <2>1. pc'[h] = "idle" /\ nextId' = nextId
    BY <1>16, FinishesAt DEF MarkApplied, MarkApplyFailed
  <2>2. \A i \in Ids : rows[i] = None => rows'[i] = None
    BY <1>16, PortsMarked DEF MarkApplied, MarkApplyFailed
  <2> QED
    BY <2>1, <2>2 DEF LocalRows
<1> QED
  BY <1>5, <1>6, <1>7, <1>8, <1>9, <1>10, <1>11, <1>12, <1>13, <1>14, <1>15, <1>16
     DEF Works, Statement

LEMMA GateStep ==
    ASSUME ServiceInv, NEW h \in Handlers, LocalRows(h), LocalGate(h), Works(h)
    PROVE  LocalGate(h)'
<1> USE DEF Purging, Decided
<1>1. ASSUME UNCHANGED <<rows, Decided>>, pc[h] \notin Purging \cup {"gate"} \/ UNCHANGED handlers
      PROVE  LocalGate(h)'
  BY <1>1, Unwritten DEF LocalGate, Past, handlers
<1>2. CASE Receive(h)
  <2>1. pc[h] = "idle" /\ UNCHANGED <<table, auth>>
    BY <1>2, BeginsAt
  <2> QED
    BY <1>1, <2>1 DEF table, auth
<1>3. CASE NextSSHRemotePort(h) \/ Read(h) \/ Find(h) \/ Reread(h) \/ List(h)
  BY <1>1, <1>3 DEF NextSSHRemotePort, Read, Find, Reread, List, table, auth
<1>4. CASE AgentApplies(h) \/ GiveUp(h)
  BY <1>1, <1>4 DEF AgentApplies, GiveUp, table, auth
<1>5. CASE Insert(h)
  <2>1. Decided' = Decided /\ pc[h] = "insert"
    BY <1>5 DEF Insert, auth
  <2>2. CASE UNCHANGED table /\ Finish(h)
    BY <1>1, <2>1, <2>2 DEF table
  <2>3. CASE ~(UNCHANGED table /\ Finish(h))
    <3>1. /\ pc'[h] = "gate" /\ op'[h].port = op[h].port
          /\ UsedPorts' = UsedPorts \cup {op[h].port}
      BY <1>5, <2>3, Inserted
    <3> QED
      BY <2>1, <3>1 DEF LocalGate, Past
  <2> QED
    BY <2>2, <2>3
<1>6. CASE Update(h)
  <2>1. Decided' = Decided /\ pc[h] = "update"
    BY <1>6 DEF Update, auth
  <2>2. CASE UNCHANGED table /\ Finish(h)
    BY <1>1, <2>1, <2>2 DEF table
  <2>3. CASE ~(UNCHANGED table /\ Finish(h))
    <3>1. pc'[h] \in {"gate", "purge permissions"} /\ op'[h] = op[h]
      BY <1>6, <2>3, Updated
    <3>2. UsedPorts' = (UsedPorts \ {op[h].old}) \cup {op[h].port}
      BY <1>6, <2>3, Updated
    <3>3. UsedPorts' \subseteq UsedPorts \cup {op[h].port}
      BY <3>2, Zenon
    <3> QED
      BY <2>1, <3>1, <3>3 DEF LocalGate, Past
  <2> QED
    BY <2>2, <2>3
<1>7. CASE Erase(h)
  <2>1. UsedPorts' \subseteq UsedPorts
    BY <1>7, Erased
  <2>2. Decided' = Decided /\ pc[h] = "erase"
    BY <1>7 DEF Erase, auth
  <2> QED
    BY <2>1, <2>2 DEF LocalGate, Past
<1>8. CASE PurgePermissions(h) \/ PurgeAddresses(h)
  <2>1. /\ pc[h] \in Purging /\ pc'[h] \in Purging /\ op'[h] = op[h]
        /\ UsedPorts' = UsedPorts /\ Decided' = Decided
    BY <1>8, GoesTo, Unwritten DEF PurgePermissions, PurgeAddresses, table
  <2> QED
    BY <2>1 DEF LocalGate, Past
<1>9. CASE PurgeGate(h)
  <2>1. op[h].old \notin UsedPorts /\ Decided \ {op[h].old} \subseteq Decided' /\ UsedPorts' = UsedPorts
    BY <1>9, Unwritten DEF PurgeGate, LocalRows, table
  <2>2. CASE op[h].port = 0
    <3>1. 0 \notin UsedPorts
      BY Facts
    <3> QED
      BY <1>9, <2>1, <2>2, <3>1 DEF PurgeGate, LocalGate, Past
  <2>3. CASE op[h].port # 0
    <3>1. pc'[h] = "gate" /\ op'[h] = op[h]
      BY <1>9, <2>3, GoesTo DEF PurgeGate
    <3> QED
      BY <1>9, <2>1, <3>1 DEF PurgeGate, LocalGate, Past
  <2> QED
    BY <2>2, <2>3
<1>10. CASE SetGate(h)
  <2>1. UsedPorts' = UsedPorts
    BY <1>10, Unwritten DEF SetGate, table
  <2> QED
    BY <1>10, <2>1 DEF SetGate, LocalGate, Past
<1>11. CASE MarkApplied(h) \/ MarkApplyFailed(h)
  <2>1. UsedPorts' = UsedPorts
    BY <1>11, PortsMarked DEF MarkApplied, MarkApplyFailed
  <2>2. Decided' = Decided /\ pc[h] \in {"applied", "failed"}
    BY <1>11 DEF MarkApplied, MarkApplyFailed, auth
  <2> QED
    BY <2>1, <2>2 DEF LocalGate, Past
<1> QED
  BY <1>2, <1>3, <1>4, <1>5, <1>6, <1>7, <1>8, <1>9, <1>10, <1>11 DEF Works, Statement

\* What the agent has installed from the table as it is makes every status true.
LEMMA Installed == ServiceInv /\ deployed = Enabled(Services)
                      => /\ AppliedDeployed /\ DesiredDeployed
                         /\ UsedPorts \subseteq Decided => DeployedGated
<1> SUFFICES ASSUME ServiceInv, deployed = Enabled(Services)
             PROVE  /\ AppliedDeployed /\ DesiredDeployed
                    /\ UsedPorts \subseteq Decided => DeployedGated
  OBVIOUS
<1>1. /\ DOMAIN Services = Present
      /\ \A i \in Present : /\ Services[i].port = rows[i].port
                            /\ Services[i].target = rows[i].target
                            /\ Services[i].enabled = rows[i].enabled
  BY DEF Services
<1> HIDE DEF Services
<1>2. deployed = {[port |-> rows[i].port, target |-> rows[i].target] :
                     i \in {j \in Present : rows[j].enabled}}
  BY <1>1 DEF Enabled
<1>3. \A n \in deployed : \E i \in Present : rows[i].enabled /\ n.port = rows[i].port
  BY <1>2
<1>4. \A i, j \in Present : rows[i].port = rows[j].port => i = j
  BY DEF ServiceInv, UniquePorts
<1>5. AppliedDeployed
  BY <1>2, <1>3, <1>4 DEF AppliedDeployed
<1>6. UsedPorts \subseteq Decided => DeployedGated
  BY <1>3 DEF DeployedGated, UsedPorts
<1> QED
  BY <1>5, <1>6 DEF DesiredDeployed

\* The statuses say nothing of a row that is written or seeded.
LEMMA SaidOfOldRows ==
    ASSUME AppliedDeployed, UNCHANGED deployed,
           \A i \in Ids : \/ rows'[i] = rows[i]
                          \/ rows'[i] = None
                          \/ rows'[i].status = "pending"
    PROVE  AppliedDeployed'
  BY DEF AppliedDeployed, Present

LEMMA ApplyStep ==
    ASSUME ServiceInv, ServiceInv', NEW h \in Handlers, LocalApply(h), Works(h) \/ Abort(h)
    PROVE  LocalApply(h)'
<1> USE DEF Purging
<1>0. /\ pc[h] \notin {"wait", "failed", "idle"} => wire[h] = None
      /\ wire \in [Handlers -> Requests \cup {None}] /\ AppliedDeployed
      /\ pc \in [Handlers -> Steps]
  BY DEF LocalApply, ServiceInv, TypeOK
<1>1. ASSUME UNCHANGED <<rows, deployed>>, pc'[h] # "applied",
             wire'[h] = None \/ (UNCHANGED wire /\ pc'[h] \in {"wait", "failed", "idle"})
      PROVE  LocalApply(h)'
  <2>1. AppliedDeployed' /\ Services' = Services
    BY <1>0, <1>1, Unwritten
  <2> QED
    BY <1>1, <2>1 DEF LocalApply
<1>2. CASE Receive(h)
  <2>1. /\ wire[h] = None /\ pc'[h] # "applied" /\ UNCHANGED <<table, agent>>
    BY <1>2, BeginsAt
  <2> QED
    BY <1>1, <2>1 DEF table, agent
<1>3. CASE \/ NextSSHRemotePort(h) \/ Read(h) \/ Find(h) \/ PurgePermissions(h)
           \/ PurgeAddresses(h) \/ PurgeGate(h) \/ SetGate(h) \/ Reread(h)
  <2>1. UNCHANGED <<table, agent>> /\ wire'[h] = None
    BY <1>0, <1>3 DEF NextSSHRemotePort, Read, Find, PurgePermissions, PurgeAddresses,
                      PurgeGate, SetGate, Reread, agent
  <2>2. CASE NextSSHRemotePort(h) \/ Read(h) \/ Find(h)
    <3>1. pc'[h] \in {"next port", "insert", "idle", "update", "erase"}
      BY <1>0, <2>2, GoesTo, FinishesAt DEF NextSSHRemotePort, Read, Find
    <3> QED
      BY <1>1, <2>1, <3>1 DEF table, agent
  <2>3. CASE PurgePermissions(h) \/ PurgeAddresses(h) \/ PurgeGate(h) \/ SetGate(h) \/ Reread(h)
    <3>1. pc'[h] \in Purging \cup {"gate", "reread", "list", "idle"}
      BY <2>3, GoesTo, FinishesAt, AppliesAt
         DEF PurgePermissions, PurgeAddresses, PurgeGate, SetGate, Reread
    <3> QED
      BY <1>1, <2>1, <3>1 DEF table, agent
  <2> QED
    BY <1>3, <2>2, <2>3
<1>4. CASE Insert(h) \/ Update(h) \/ Erase(h)
  <2>1. UNCHANGED agent /\ wire'[h] = None
    BY <1>0, <1>4 DEF Insert, Update, Erase, agent
  <2>2. pc'[h] \in {"idle", "gate", "purge permissions"}
    <3>1. CASE Insert(h)
      BY <1>0, <3>1, FinishesAt DEF Insert
    <3>2. CASE Update(h)
      <4>1. Finish(h) \/ Goto(h, "gate") \/ Goto(h, "purge permissions")
        BY <3>2 DEF Update
      <4> QED
        BY <4>1, GoesTo, FinishesAt
    <3>3. CASE Erase(h)
      BY <3>3, GoesTo DEF Erase
    <3> QED
      BY <1>4, <3>1, <3>2, <3>3
  <2>3. \A i \in Ids : rows'[i] = rows[i] \/ rows'[i] = None \/ rows'[i].status = "pending"
    <3>1. \/ UNCHANGED rows \/ \E i \in Ids : rows' = [rows EXCEPT ![i] = None]
          \/ \E i \in Ids : \E p, t, e :
               rows' = [rows EXCEPT ![i] = [port |-> p, target |-> t, enabled |-> e,
                                            status |-> "pending"]]
      <4>1. CASE Insert(h)
        <5>1. \/ UNCHANGED rows
              \/ /\ nextId <= MaxId
                 /\ rows' = [rows EXCEPT ![nextId] = [port |-> op[h].port, target |-> op[h].target,
                                                      enabled |-> op[h].enabled,
                                                      status |-> "pending"]]
          BY <4>1 DEF Insert, table
        <5>2. nextId <= MaxId => nextId \in Ids
          BY Facts
        <5> QED
          BY <5>1, <5>2
      <4>2. CASE Update(h)
        <5>1. op[h].id \in Ids
          BY <4>2, Facts DEF Update, HandlersOK, Ready, Op
        <5> QED
          BY <4>2, <5>1 DEF Update
      <4>3. CASE Erase(h)
        <5>1. op[h].id \in Ids
          BY <4>3, Facts DEF Erase, HandlersOK, Ready, Op
        <5> QED
          BY <4>3, <5>1 DEF Erase
      <4> QED
        BY <1>4, <4>1, <4>2, <4>3
    <3> QED
      BY <3>1, RowsType
  <2>4. AppliedDeployed'
    BY <1>0, <2>1, <2>3, SaidOfOldRows DEF agent
  <2> QED
    BY <2>1, <2>2, <2>4 DEF LocalApply
<1>5. CASE List(h)
  <2>1. pc'[h] = "wait" /\ UNCHANGED <<rows, deployed>>
    BY <1>5, GoesTo DEF List, table
  <2>2. wire'[h] = Services
    BY <1>0, <1>5 DEF List
  <2>3. Services' = Services /\ AppliedDeployed'
    BY <1>0, <2>1, Unwritten
  <2> QED
    BY <2>1, <2>2, <2>3 DEF LocalApply
<1>6. CASE AgentApplies(h)
  <2>1. /\ wire'[h] = None /\ UNCHANGED rows /\ wire[h] = Services
        /\ pc[h] \in {"wait", "failed", "idle"}
    BY <1>0, <1>6 DEF AgentApplies, LocalApply, table
  <2>2. Services' = Services
    BY <2>1, Unwritten
  <2>3. CASE deployed' = Enabled(wire[h])
    <3>1. (deployed = Enabled(Services))'
      BY <2>1, <2>2, <2>3 DEF Enabled
    <3>2. AppliedDeployed'
      BY <3>1, Installed, PTL
    <3> QED
      BY <2>1, <3>1, <3>2 DEF LocalApply
  <2>4. CASE deployed' = deployed /\ (Goto(h, "failed") \/ UNCHANGED handlers)
    <3>1. pc'[h] # "applied"
      BY <2>1, <2>4, GoesTo DEF handlers
    <3> QED
      BY <1>1, <2>1, <2>4, <3>1
  <2> QED
    BY <1>6, <2>3, <2>4 DEF AgentApplies
<1>7. CASE GiveUp(h)
  <2>1. pc'[h] = "failed" /\ UNCHANGED <<rows, deployed>>
    BY <1>7, GoesTo DEF GiveUp, table
  <2>2. UNCHANGED wire \/ wire'[h] = None
    BY <1>0, <1>7 DEF GiveUp
  <2> QED
    BY <1>1, <2>1, <2>2
<1>8. CASE MarkApplied(h)
  <2>1. /\ pc[h] = "applied" /\ MarkAll("applied") /\ UNCHANGED <<deployed, wire>>
        /\ pc'[h] = "idle"
    BY <1>8, FinishesAt DEF MarkApplied, agent
  <2>2. (deployed = Enabled(Services))'
    BY <2>1, PortsMarked DEF LocalApply, Enabled
  <2>3. AppliedDeployed'
    BY <2>2, Installed, PTL
  <2> QED
    BY <1>0, <2>1, <2>3 DEF LocalApply
<1>9. CASE MarkApplyFailed(h)
  <2>1. MarkAll("pending") /\ UNCHANGED <<deployed, wire>> /\ pc'[h] = "idle"
    BY <1>9, FinishesAt DEF MarkApplyFailed, agent
  <2>2. /\ Services' = Services
        /\ \A i \in Ids : rows'[i] = None \/ rows'[i].status = "pending"
    BY <2>1, PortsMarked
  <2>3. AppliedDeployed'
    BY <1>0, <2>1, <2>2, SaidOfOldRows
  <2> QED
    BY <2>1, <2>2, <2>3 DEF LocalApply
<1>10. CASE Abort(h)
  <2>1. UNCHANGED <<table, agent>> /\ pc[h] \in Statements
    BY <1>10 DEF Abort
  <2>2. pc'[h] = "idle" \/ (pc[h] \in Purging /\ pc'[h] = "gate")
    BY <1>10, GoesTo, FinishesAt DEF Abort
  <2> QED
    BY <1>0, <1>1, <2>1, <2>2 DEF table, agent
<1> QED
  BY <1>2, <1>3, <1>4, <1>5, <1>6, <1>7, <1>8, <1>9, <1>10 DEF Works, Statement

LEMMA SettledStep ==
    ASSUME ServiceInv, ServiceInv', NEW h \in Handlers, LocalRows(h), LocalGate(h),
           LocalApply(h), LocalSettled(h), Works(h)
    PROVE  LocalSettled(h)'
<1> USE DEF Purging, Unapplied
<1>0. pc \in [Handlers -> Steps]
  BY DEF ServiceInv, TypeOK
\* Until a row is written nothing changes; from then on to the apply nothing is
\* said.
<1>1. ASSUME UNCHANGED <<rows, deployed, Decided>>, pc[h] \notin Unapplied,
             pc'[h] # "failed"
      PROVE  LocalSettled(h)'
  BY <1>1, Unwritten DEF LocalSettled, DeployedGated
<1>2. ASSUME pc'[h] \in Unapplied, pc'[h] # "failed" \/ AgentMayFail
      PROVE  LocalSettled(h)'
  BY <1>2 DEF LocalSettled
\* What the agent has just installed has a gate, port by port.
<1>3. ASSUME UNCHANGED <<rows, Decided>>, deployed' = Enabled(Services),
             pc[h] \in {"wait", "failed", "idle"}, pc'[h] # "failed"
      PROVE  LocalSettled(h)'
  <2>1. Services' = Services /\ UsedPorts' = UsedPorts
    BY <1>3, Unwritten
  <2>2. (deployed = Enabled(Services))'
    BY <1>3, <2>1 DEF Enabled
  <2>3. (UsedPorts \subseteq Decided)'
    BY <1>3, <2>1 DEF LocalGate, Past
  <2>4. (DesiredDeployed /\ DeployedGated)'
    BY <2>2, <2>3, Installed, PTL
  <2> QED
    BY <1>3, <2>4 DEF LocalSettled
<1>4. CASE Receive(h)
  <2>1. /\ pc[h] = "idle" /\ pc'[h] # "failed" /\ UNCHANGED <<table, auth, agent>>
    BY <1>4, BeginsAt
  <2> QED
    BY <1>1, <2>1 DEF table, auth, agent, Decided
<1>5. CASE NextSSHRemotePort(h) \/ Read(h) \/ Find(h)
  <2>1. /\ UNCHANGED <<table, auth, agent>> /\ pc[h] \in {"next port", "read", "find"}
    BY <1>5 DEF NextSSHRemotePort, Read, Find
  <2>2. pc'[h] \in {"next port", "insert", "idle", "update", "erase"}
    BY <1>0, <1>5, GoesTo, FinishesAt DEF NextSSHRemotePort, Read, Find
  <2> QED
    BY <1>1, <2>1, <2>2 DEF table, auth, agent, Decided
<1>6. CASE Insert(h) \/ Update(h)
  <2>1. UNCHANGED <<gate, opened, agent>> /\ pc[h] \in {"insert", "update"}
    BY <1>6 DEF Insert, Update, auth
  <2>2. CASE UNCHANGED table /\ Finish(h)
    BY <1>1, <2>1, <2>2, FinishesAt DEF table, agent, Decided
  <2>3. CASE ~(UNCHANGED table /\ Finish(h))
    <3>1. pc'[h] \in {"gate", "purge permissions"}
      BY <1>6, <2>3, Inserted, Updated
    <3> QED
      BY <1>2, <3>1
  <2> QED
    BY <2>2, <2>3
<1>7. CASE \/ Erase(h) \/ PurgePermissions(h) \/ PurgeAddresses(h) \/ PurgeGate(h)
           \/ SetGate(h) \/ Reread(h) \/ List(h)
  <2>1. pc'[h] \in Purging \cup {"gate", "reread", "list", "wait"}
    BY <1>7, GoesTo, AppliesAt
       DEF Erase, PurgePermissions, PurgeAddresses, PurgeGate, SetGate, Reread, List, LocalRows
  <2> QED
    BY <1>2, <2>1
<1>8. CASE AgentApplies(h)
  <2>1. /\ UNCHANGED <<rows, Decided>> /\ wire[h] # None /\ wire[h] = Services
        /\ pc[h] \in {"wait", "failed", "idle"}
    BY <1>8 DEF AgentApplies, LocalApply, table, auth, Decided
  <2>2. Accepts(wire[h])
    BY <2>1 DEF ServiceInv, WireAccepted
  <2>3. CASE deployed' = Enabled(wire[h]) /\ Goto(h, "applied")
    <3>1. pc'[h] = "applied"
      BY <2>3, GoesTo
    <3> QED
      BY <1>3, <2>1, <2>3, <3>1
  <2>4. CASE AgentMayFail /\ pc[h] = "wait" /\ Goto(h, "failed")
    BY <1>2, <2>4, GoesTo
  <2>5. CASE UNCHANGED handlers /\ pc[h] = "wait"
    BY <1>2, <2>5 DEF handlers
  <2>6. CASE UNCHANGED handlers /\ pc[h] = "failed"
    BY <1>2, <2>6 DEF handlers, LocalSettled
  <2>7. CASE UNCHANGED handlers /\ pc[h] = "idle"
    <3>1. deployed' = Enabled(wire[h]) \/ deployed' = deployed
      BY <1>8 DEF AgentApplies
    <3> QED
      BY <1>1, <1>3, <2>1, <2>7, <3>1 DEF handlers
  <2> QED
    BY <1>8, <2>1, <2>2, <2>3, <2>4, <2>5, <2>6, <2>7 DEF AgentApplies
<1>9. CASE GiveUp(h)
  BY <1>2, <1>9, GoesTo DEF GiveUp
<1>10. CASE MarkApplied(h)
  <2>1. /\ pc[h] = "applied" /\ MarkAll("applied") /\ UNCHANGED <<Decided, deployed>>
        /\ pc'[h] = "idle"
    BY <1>10, FinishesAt DEF MarkApplied, auth, agent, Decided
  <2>2. (deployed = Enabled(Services))'
    BY <2>1, PortsMarked DEF LocalApply, Enabled
  <2>3. DesiredDeployed'
    BY <2>2, Installed, PTL
  <2>4. ~AgentMayFail => DeployedGated'
    BY <2>1 DEF LocalSettled, DeployedGated
  <2> QED
    BY <2>1, <2>3, <2>4 DEF LocalSettled
<1>11. CASE MarkApplyFailed(h)
  <2>1. pc'[h] = "idle" /\ AgentMayFail /\ MarkAll("pending")
    BY <1>11, FinishesAt DEF MarkApplyFailed, LocalSettled
  <2>2. \A i \in Present' : rows'[i].status = "pending"
    BY <2>1, PortsMarked DEF Present
  <2>3. DesiredDeployed'
    BY <2>2 DEF DesiredDeployed
  <2> QED
    BY <2>1, <2>3 DEF LocalSettled
<1> QED
  BY <1>4, <1>5, <1>6, <1>7, <1>8, <1>9, <1>10, <1>11 DEF Works, Statement

-----------------------------------------------------------------------------
(* The steps of nobody in particular *)

\* Seeding adds rows with new ids that are pending, and changes no other.
LEMMA SeedsAreNew ==
    ASSUME NEW t \in [Ids -> Row \cup {None}], NEW n \in Nat
    PROVE  \A i \in Ids : \/ SeededRows(t, n)[i] = t[i]
                          \/ /\ n <= i /\ i < SeededNextId(t, n)
                             /\ SeededRows(t, n)[i].port \in DefaultPorts
                             /\ SeededRows(t, n)[i].status = "pending"
                             /\ SeededRows(t, n)[i] # None
<1> DEFINE missing == DefaultPorts \ UsedIn(t)
           before(p) == {q \in missing : q < p}
           id(p)   == n + Cardinality({q \in missing : q < p})
           seed(p) == [port |-> p, target |-> DefaultTarget, enabled |-> TRUE,
                       status |-> "pending"]
           new(i)  == CHOOSE p \in missing : id(p) = i
<1>1. \A i \in Ids : SeededRows(t, n)[i] = IF \E p \in missing : id(p) = i
                                             THEN seed(new(i)) ELSE t[i]
  BY DEF SeededRows
<1>2. ASSUME NEW p \in missing PROVE n <= id(p) /\ id(p) < SeededNextId(t, n)
  <2>1. IsFiniteSet(missing) /\ Cardinality(missing) \in Nat
    BY FS_Subset, FS_CardinalityType
  <2>2. before(p) \in SUBSET missing /\ before(p) # missing
    <3>1. p \in Nat
      BY DEF Ports
    <3> QED
      BY <3>1
  <2> HIDE DEF missing, before
  <2>3. Cardinality(before(p)) <= Cardinality(missing) /\ IsFiniteSet(before(p))
        /\ Cardinality(before(p)) # Cardinality(missing)
    BY <2>1, <2>2, FS_Subset
  <2>4. Cardinality(before(p)) \in Nat
    BY <2>3, FS_CardinalityType
  <2>5. n <= n + Cardinality(before(p)) /\ n + Cardinality(before(p)) < n + Cardinality(missing)
    BY <2>1, <2>3, <2>4
  <2> QED
    BY <2>5 DEF SeededNextId, missing, before
<1>3. \A i \in Ids : (\E p \in missing : id(p) = i) => new(i) \in missing /\ id(new(i)) = i
  OBVIOUS
<1>4. \A p \in missing : seed(p) \in Row /\ seed(p).port = p /\ seed(p).status = "pending"
  BY DEF Row
<1>5. missing \subseteq DefaultPorts
  OBVIOUS
<1> HIDE DEF missing, id, seed, new
<1> QED
  BY <1>1, <1>2, <1>3, <1>4, <1>5

LEMMA AllIdle == Quiet => \A h \in Handlers : pc[h] = "idle" /\ wire[h] = None
  BY DEF Quiet, Busy

\* With every handler at rest the invariant is what the properties say, and more.
LEMMA WhenQuiet ==
    Quiet => /\ GateInv <=> UsedPorts \subseteq Decided
             /\ ApplyInv <=> AppliedDeployed
             /\ SettledInv <=> DesiredDeployed /\ (~AgentMayFail => DeployedGated)
             /\ RowsInv <=> \A i \in Ids : i >= nextId => rows[i] = None
<1> SUFFICES ASSUME Quiet
             PROVE  /\ GateInv <=> UsedPorts \subseteq Decided
                    /\ ApplyInv <=> AppliedDeployed
                    /\ SettledInv <=> DesiredDeployed /\ (~AgentMayFail => DeployedGated)
                    /\ RowsInv <=> \A i \in Ids : i >= nextId => rows[i] = None
  OBVIOUS
<1>1. \A h \in Handlers : pc[h] = "idle" /\ wire[h] = None
  BY AllIdle
<1>2. ASSUME NEW field, NEW steps, "idle" \notin steps PROVE Named(field, steps) = {}
  BY <1>1, <1>2 DEF Named
<1>4. GateInv <=> UsedPorts \subseteq Decided
  BY <1>2 DEF GateInv, Purging
<1>5. Settled
  BY <1>1 DEF Settled, Unapplied, Purging
<1>6. /\ ApplyInv <=> AppliedDeployed
      /\ SettledInv <=> DesiredDeployed /\ (~AgentMayFail => DeployedGated)
  BY <1>1, <1>5 DEF ApplyInv, SettledInv
<1>7. RowsInv <=> \A i \in Ids : i >= nextId => rows[i] = None
  BY <1>1 DEF RowsInv, Purging
<1> QED
  BY <1>4, <1>6, <1>7

\* Restarted at rest, the backend is at rest, and its rows are those it had and
\* the seeded ones.
LEMMA Restarted ==
    ASSUME ServiceInv, Quiet, Restart
    PROVE  /\ Quiet'
           /\ \A i \in Ids : \/ rows'[i] = rows[i]
                             \/ /\ nextId <= i /\ i < nextId'
                                /\ rows'[i].port \in DefaultPorts
                                /\ rows'[i].status = "pending" /\ rows'[i] # None
<1>1. /\ rows' = SeededRows(rows, nextId) /\ nextId' = SeededNextId(rows, nextId)
      /\ pc' = [h \in Handlers |-> "idle"] /\ wire' = wire
  BY DEF Restart, agent
<1>2. Quiet'
  BY <1>1, AllIdle DEF Quiet, Busy
<1>3. rows \in [Ids -> Row \cup {None}] /\ nextId \in Nat
  BY Facts, RowsType
<1> QED
  BY <1>1, <1>2, <1>3, SeedsAreNew

LEMMA RestartKeepsApply ==
    ASSUME ServiceInv, ApplyInv, Quiet, Restart
    PROVE  ApplyInv'
<1>1. AppliedDeployed'
  <2>1. AppliedDeployed /\ UNCHANGED deployed
    BY WhenQuiet DEF Restart, agent
  <2> QED
    BY <2>1, Restarted, SaidOfOldRows
<1>2. Quiet'
  BY Restarted
<1> QED
  BY <1>1, <1>2, WhenQuiet, PTL

LEMMA RestartStep ==
    ASSUME ServiceInv, ServiceInv', SerialInv, Quiet, Restart
    PROVE  SerialInv'
<1>1. /\ nextId' = SeededNextId(rows, nextId) /\ Decided' = Decided \cup DefaultPorts
      /\ UNCHANGED deployed
  BY DEF Restart, agent, Decided
<1>2. Quiet'
  BY Restarted
<1>3. /\ UsedPorts \subseteq Decided
      /\ DesiredDeployed /\ (~AgentMayFail => DeployedGated)
      /\ \A i \in Ids : i >= nextId => rows[i] = None
  BY WhenQuiet DEF SerialInv
<1>4. rows \in [Ids -> Row \cup {None}] /\ rows' \in [Ids -> Row \cup {None}] /\ nextId \in Nat
  <2>1. (rows \in [Ids -> Row \cup {None}])'
    BY RowsType, PTL
  <2> QED
    BY <2>1, Facts, RowsType
<1>5. \A i \in Ids : \/ rows'[i] = rows[i]
                     \/ /\ nextId <= i /\ i < nextId'
                        /\ rows'[i].port \in DefaultPorts /\ rows'[i].status = "pending"
                        /\ rows'[i] # None /\ rows[i] = None
  BY <1>3, <1>4, Restarted DEF Ids
<1>6. nextId' \in Nat /\ nextId' >= nextId
  BY <1>1, <1>4, Seeded
<1>7. UsedPorts \subseteq UsedPorts' /\ UsedPorts' \subseteq UsedPorts \cup DefaultPorts
  BY <1>5 DEF UsedPorts, Present
<1>8. (\A i \in Ids : i >= nextId => rows[i] = None)'
  BY <1>3, <1>4, <1>5, <1>6 DEF Ids
<1>9. DesiredDeployed'
  <2>1. CASE UNCHANGED rows
    BY <1>1, <1>3, <2>1, Unwritten
  <2>2. CASE ~UNCHANGED rows
    <3>1. PICK i \in Ids : rows'[i] # rows[i]
      BY <1>4, <2>2
    <3>2. i \in Present' /\ rows'[i].status = "pending"
      BY <1>5, <3>1 DEF Present
    <3> QED
      BY <3>2 DEF DesiredDeployed
  <2> QED
    BY <2>1, <2>2
<1>10. (~AgentMayFail => DeployedGated)'
  BY <1>1, <1>3 DEF DeployedGated
<1>11. (UsedPorts \subseteq Decided)'
  BY <1>1, <1>3, <1>7
<1>12. (RowsInv /\ GateInv /\ SettledInv)'
  BY <1>2, <1>8, <1>9, <1>10, <1>11, WhenQuiet, PTL
<1> QED
  BY <1>2, <1>12, RestartKeepsApply DEF SerialInv, Quiet, OneAtATime

\* The administrator's other requests leave the services, the handlers and the
\* agent alone, and every decision on a port in force.
LEMMA UsersLeave ==
    ASSUME Admin \/ UNCHANGED vars
    PROVE  /\ UNCHANGED <<rows, nextId, pc, op, wire, deployed, UsedPorts, Present, Services>>
           /\ UNCHANGED <<AppliedDeployed, DesiredDeployed, OneAtATime>>
           /\ Decided \subseteq Decided' /\ (DeployedGated => DeployedGated')
<1>1. UNCHANGED <<rows, nextId, pc, op, wire, deployed>>
  BY AdminAlone DEF vars, table, agent, handlers
<1>2. UNCHANGED <<UsedPorts, Present, Services, AppliedDeployed, DesiredDeployed>>
  BY <1>1, Unwritten
<1>3. UNCHANGED OneAtATime
  BY <1>1 DEF OneAtATime, Busy
<1>4. Decided \subseteq Decided'
  BY DEF Admin, AddPortPermission, RemovePortPermission, AddPortIPAllow, RemovePortIPAllow,
         RestrictPort, OpenPort, vars, auth, Decided
<1>5. DeployedGated => DeployedGated'
  BY <1>1, <1>4 DEF DeployedGated
<1> QED
  BY <1>1, <1>2, <1>3, <1>4, <1>5

LEMMA UsersKeepApply ==
    ASSUME ApplyInv, Admin \/ UNCHANGED vars
    PROVE  ApplyInv'
  BY UsersLeave DEF ApplyInv, Enabled

\* Permissions, addresses and modes come and go on any port.
LEMMA UsersStep ==
    ASSUME SerialInv, Admin \/ UNCHANGED vars
    PROVE  SerialInv'
<1>1. RowsInv'
  BY UsersLeave DEF SerialInv, RowsInv
<1>3. GateInv'
  <2>1. Named("port", Purging \cup {"gate"})' = Named("port", Purging \cup {"gate"})
    BY UsersLeave DEF Named
  <2> QED
    BY <2>1, UsersLeave DEF SerialInv, GateInv
<1>4. SettledInv'
  <2>1. Settled' <=> Settled
    BY UsersLeave DEF Settled
  <2> QED
    BY <2>1, UsersLeave DEF SerialInv, SettledInv
<1> QED
  BY <1>1, <1>3, <1>4, UsersKeepApply, UsersLeave DEF SerialInv

-----------------------------------------------------------------------------
(* Every step *)

\* A handler's step leaves the others where they are, and if it is not the first
\* of a request the handler is at work already.
LEMMA OthersRest ==
    ASSUME ServiceInv, NEW h \in Handlers, Works(h) \/ Abort(h)
    PROVE  /\ \A g \in Handlers \ {h} : pc'[g] = pc[g] /\ wire'[g] = wire[g]
           /\ Busy(h) \/ Busy(h)'
<1>0. pc \in [Handlers -> Steps] /\ wire \in [Handlers -> Requests \cup {None}]
  BY DEF ServiceInv, TypeOK
<1>1. \/ pc' = pc \/ \E step : pc' = [pc EXCEPT ![h] = step]
  <2>1. CASE Receive(h)
    BY <2>1 DEF Receive, ReceiveCreate, ReceiveUpdate, ReceiveDelete, ReceiveApply, Begin
  <2>2. CASE AgentApplies(h) \/ GiveUp(h) \/ Abort(h)
    BY <2>2 DEF AgentApplies, GiveUp, Abort, Goto, Finish, handlers
  <2>3. CASE Statement(h)
    BY <2>3 DEF Statement, NextSSHRemotePort, Insert, Read, Update, Find, Erase,
                PurgePermissions, PurgeAddresses, PurgeGate, SetGate, Reread, List,
                MarkApplied, MarkApplyFailed, Goto, Finish, Apply
  <2> QED
    BY <2>1, <2>2, <2>3 DEF Works
<1>2. \/ wire' = wire \/ \E w : wire' = [wire EXCEPT ![h] = w]
  <2>1. CASE Receive(h)
    BY <2>1, BeginsAt DEF agent
  <2>2. CASE AgentApplies(h) \/ GiveUp(h) \/ Abort(h)
    BY <2>2 DEF AgentApplies, GiveUp, Abort, agent
  <2>3. CASE Statement(h)
    BY <2>3 DEF Statement, NextSSHRemotePort, Insert, Read, Update, Find, Erase,
                PurgePermissions, PurgeAddresses, PurgeGate, SetGate, Reread, List,
                MarkApplied, MarkApplyFailed, agent
  <2> QED
    BY <2>1, <2>2, <2>3 DEF Works
<1>3. Busy(h) \/ Busy(h)'
  <2>1. CASE Receive(h)
    <3>1. pc'[h] # "idle"
      BY <2>1, BeginsAt
    <3> QED
      BY <3>1 DEF Busy
  <2>2. CASE AgentApplies(h) \/ GiveUp(h) \/ Abort(h)
    BY <2>2 DEF AgentApplies, GiveUp, Abort, Busy, Statements, Purging
  <2>3. CASE Statement(h)
    BY <2>3 DEF Statement, NextSSHRemotePort, Insert, Read, Update, Find, Erase,
                PurgePermissions, PurgeAddresses, PurgeGate, SetGate, Reread, List,
                MarkApplied, MarkApplyFailed, Busy
  <2> QED
    BY <2>1, <2>2, <2>3 DEF Works
<1> QED
  BY <1>0, <1>1, <1>2, <1>3

LEMMA LocalStaysAll == (\A h \in Handlers : Alone(h) =>
                            /\ RowsInv <=> LocalRows(h)
                            /\ GateInv <=> LocalGate(h)
                            /\ ApplyInv <=> LocalApply(h)
                            /\ SettledInv <=> LocalSettled(h))'
  BY LocalIsAll, PTL

LEMMA Solo ==
    ASSUME ServiceInv, OneAtATime, OneAtATime', NEW h \in Handlers, Works(h) \/ Abort(h)
    PROVE  Alone(h) /\ Alone(h)'
<1>1. Alone(h)
  <2> SUFFICES ASSUME NEW g \in Handlers \ {h}, Busy(g) PROVE FALSE
    BY DEF Alone
  <2>1. Busy(g)'
    BY OthersRest DEF Busy
  <2> QED
    BY <2>1, OthersRest DEF OneAtATime
<1>2. Alone(h)'
  BY <1>1, OthersRest DEF Alone, Busy
<1> QED
  BY <1>1, <1>2

LEMMA ApplyPreserved ==
    ASSUME ServiceInv, ServiceInv', OneAtATime, ApplyInv, [SerialNext]_vars
    PROVE  OneAtATime' /\ ApplyInv'
<1>1. ASSUME NEW h \in Handlers, Works(h) \/ Abort(h), OneAtATime'
      PROVE  ApplyInv'
  <2>1. Alone(h) /\ Alone(h)'
    BY <1>1, Solo
  <2>2. LocalApply(h)'
    BY <1>1, <2>1, LocalIsAll, ApplyStep
  <2> QED
    BY <2>1, <2>2, LocalStaysAll
<1>2. ASSUME Restart, restarts' # restarts => Quiet PROVE ApplyInv'
  <2>1. restarts' # restarts
    BY <1>2 DEF Restart, ServiceInv, TypeOK
  <2> QED
    BY <1>2, <2>1, RestartKeepsApply
<1>3. ASSUME Admin \/ UNCHANGED vars PROVE ApplyInv'
  BY <1>3, UsersKeepApply
<1>4. OneAtATime'
  BY UsersLeave DEF SerialNext
<1> QED
  BY <1>1, <1>2, <1>3, <1>4 DEF SerialNext, Next, Works

LEMMA WorkStep ==
    ASSUME ServiceInv, ServiceInv', SerialInv, OneAtATime', NEW h \in Handlers, Works(h)
    PROVE  /\ SerialInv'
           /\ LocalRows(h)
<1>1. Alone(h) /\ Alone(h)'
  BY Solo DEF SerialInv
<1>2. LocalRows(h) /\ LocalGate(h) /\ LocalApply(h) /\ LocalSettled(h)
  BY <1>1, LocalIsAll DEF SerialInv
<1>3. (LocalRows(h) /\ LocalGate(h) /\ LocalApply(h) /\ LocalSettled(h))'
  BY <1>2, RowsStep, GateStep, ApplyStep, SettledStep
<1>4. (RowsInv /\ GateInv /\ ApplyInv /\ SettledInv)'
  BY <1>1, <1>3, LocalStaysAll
<1> QED
  BY <1>2, <1>4 DEF SerialInv

LEMMA SerialStep ==
    ASSUME ~DbMayFail, ServiceInv, ServiceInv', SerialInv, [SerialNext]_vars
    PROVE  SerialInv'
<1>1. ASSUME NEW h \in Handlers,
             Receive(h) \/ Statement(h) \/ Abort(h) \/ AgentApplies(h) \/ GiveUp(h),
             OneAtATime'
      PROVE  SerialInv'
  BY <1>1, WorkStep DEF Works, Abort
<1>2. CASE Restart /\ (restarts' # restarts => Quiet)
  <2>1. restarts' # restarts
    BY <1>2 DEF Restart, ServiceInv, TypeOK
  <2> QED
    BY <1>2, <2>1, RestartStep
<1>3. CASE Admin \/ UNCHANGED vars
  BY <1>3, UsersStep
<1> QED
  BY <1>1, <1>2, <1>3 DEF SerialNext, Next

LEMMA SerialInitially == Init => SerialInv
<1> SUFFICES ASSUME Init PROVE SerialInv
  OBVIOUS
<1> DEFINE empty == [i \in Ids |-> None]
<1>1. /\ rows = SeededRows(empty, 1) /\ nextId = SeededNextId(empty, 1)
      /\ gate = DefaultPorts /\ deployed = {}
      /\ pc = [h \in Handlers |-> "idle"] /\ wire = [h \in Handlers |-> None]
  BY DEF Init
<1>2. Quiet
  BY <1>1 DEF Quiet, Busy
<1>3. \A i \in Ids : \/ rows[i] = None
                     \/ /\ i < nextId /\ rows[i].port \in DefaultPorts
                        /\ rows[i].status = "pending"
  <2>1. empty \in [Ids -> Row \cup {None}] /\ \A i \in Ids : empty[i] = None
    OBVIOUS
  <2> HIDE DEF empty
  <2> QED
    BY <1>1, <2>1, SeedsAreNew
<1>4. nextId \in Nat
  BY Initially, Facts
<1>5. (\A i \in Ids : i >= nextId => rows[i] = None) /\ UsedPorts \subseteq Decided
  BY <1>1, <1>3, <1>4 DEF UsedPorts, Present, Ids, Decided
<1>6. AppliedDeployed /\ DesiredDeployed /\ DeployedGated
  BY <1>1, <1>3 DEF AppliedDeployed, DesiredDeployed, DeployedGated, Present
<1>7. RowsInv /\ GateInv /\ ApplyInv /\ SettledInv
  BY <1>1, <1>2, <1>5, <1>6, WhenQuiet
<1> QED
  BY <1>2, <1>7 DEF SerialInv, OneAtATime, Quiet

-----------------------------------------------------------------------------
(* The theorems *)

\* One request at a time is one of the ways in which the backend can be used.
LEMMA SerialIsService == SerialSpec => []ServiceInv
<1>1. [SerialNext]_vars => [Next]_vars
  BY DEF SerialNext
<1> QED
  BY <1>1, ServicesInvariant, PTL DEF SerialSpec, Spec

\* Between requests a service marked `applied` is what the agent exposes, however
\* many statements and calls to the agent failed, were lost or came after the
\* backend gave up.
THEOREM AppliedMeansDeployed == SerialSpec => []AppliedIsDeployed
<1>1. Init => OneAtATime /\ ApplyInv
  BY SerialInitially DEF SerialInv
<1>2. ServiceInv /\ ServiceInv' /\ OneAtATime /\ ApplyInv /\ [SerialNext]_vars
         => OneAtATime' /\ ApplyInv'
  BY ApplyPreserved
<1>3. ApplyInv => AppliedIsDeployed
  BY DEF ApplyInv, AppliedIsDeployed
<1> QED
  BY <1>1, <1>2, <1>3, SerialIsService, PTL DEF SerialSpec

\* With one request at a time and statements that do not fail, what a request
\* disturbs between its statements is never more than what it still has to do.
THEOREM SerialInvariant == ~DbMayFail => (SerialSpec => []SerialInv)
<1> SUFFICES ASSUME ~DbMayFail PROVE SerialSpec => []SerialInv
  OBVIOUS
<1>1. ServiceInv /\ ServiceInv' /\ SerialInv /\ [SerialNext]_vars => SerialInv'
  BY SerialStep
<1> QED
  BY <1>1, SerialInitially, SerialIsService, PTL DEF SerialSpec

\* Between requests every service's port has a gate.
THEOREM GatesAreSet == ~DbMayFail => (SerialSpec => []GateConfigured)
<1>1. SerialInv => GateConfigured
  BY WhenQuiet DEF SerialInv, GateConfigured
<1> QED
  BY <1>1, SerialInvariant, PTL

\* Between requests, when all services are `applied`, the agent exposes the
\* enabled ones and no others.
THEOREM DeployedMeansDesired == ~DbMayFail => (SerialSpec => []DeployedIsDesired)
<1>1. SerialInv => DeployedIsDesired
  BY WhenQuiet DEF SerialInv, DeployedIsDesired
<1> QED
  BY <1>1, SerialInvariant, PTL

\* With an agent that answers every call, what it exposes has a gate: the one that
\* fails is the reason why a port can be open to everybody.
THEOREM ExposedPortsAreGated ==
    ~DbMayFail /\ ~AgentMayFail => (SerialSpec => []ExposedIsGated)
<1> SUFFICES ASSUME ~DbMayFail, ~AgentMayFail PROVE SerialSpec => []ExposedIsGated
  OBVIOUS
<1>1. SerialInv => ExposedIsGated
  BY WhenQuiet DEF SerialInv, ExposedIsGated
<1> QED
  BY <1>1, SerialInvariant, PTL
=============================================================================
