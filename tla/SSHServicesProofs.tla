------------------------- MODULE SSHServicesProofs --------------------------
(* The SSH services for any number of handlers, ports, services and restarts, *)
(* with statements and calls that may fail.  The argument: a handler carries  *)
(* nothing from one statement to the next but a port and an id that exist, so *)
(* the table alone decides, statement by statement, what gets in.             *)
EXTENDS SSHServices, FiniteSetTheorems, TLAPS

USE PortsAssumption, ValuesAssumption, BoundsAssumption

-----------------------------------------------------------------------------
(* Seeding *)

LEMMA DefaultsAreFew == \A S : Cardinality(DefaultPorts \ S) \in 0..MaxId
<1> TAKE S
<1>1. IsFiniteSet(DefaultPorts) /\ DefaultPorts \ S \subseteq DefaultPorts
  OBVIOUS
<1>2. /\ Cardinality(DefaultPorts \ S) <= Cardinality(DefaultPorts)
      /\ IsFiniteSet(DefaultPorts \ S)
  BY <1>1, FS_Subset
<1>3. Cardinality(DefaultPorts \ S) \in Nat /\ Cardinality(DefaultPorts) \in Nat
  BY <1>1, <1>2, FS_CardinalityType
<1> QED
  BY <1>2, <1>3

Distinct(t) == \A i, j \in Ids : (t[i] # None /\ t[j] # None /\ t[i].port = t[j].port) => i = j

\* The rows that are seeded: new ones on default ports that had none, with ids
\* not used before, and the old ones as they were.
LEMMA Seeded ==
    ASSUME NEW t \in [Ids -> Row \cup {None}], NEW n \in Nat
    PROVE  /\ SeededRows(t, n) \in [Ids -> Row \cup {None}]
           /\ SeededNextId(t, n) \in Nat /\ SeededNextId(t, n) >= n
           /\ \A i \in Ids : i < n => SeededRows(t, n)[i] = t[i]
           /\ Distinct(t) => Distinct(SeededRows(t, n))
<1> DEFINE missing == DefaultPorts \ UsedIn(t)
           id(p)   == n + Cardinality({q \in missing : q < p})
           seed(p) == [port |-> p, target |-> DefaultTarget, enabled |-> TRUE,
                       status |-> "pending"]
           new(i)  == CHOOSE p \in missing : id(p) = i
           s       == SeededRows(t, n)
<1>1. s = [i \in Ids |-> IF \E p \in missing : id(p) = i THEN seed(new(i)) ELSE t[i]]
  BY DEF SeededRows
<1>2. \A p \in missing : id(p) \in Nat /\ id(p) >= n
  <2> TAKE p \in missing
  <2> DEFINE T == UsedIn(t) \cup {q \in DefaultPorts : ~(q < p)}
  <2>1. {q \in missing : q < p} = DefaultPorts \ T
    OBVIOUS
  <2>2. Cardinality(DefaultPorts \ T) \in 0..MaxId
    BY DefaultsAreFew
  <2>3. Cardinality({q \in missing : q < p}) \in 0..MaxId
    BY <2>1, <2>2, Zenon
  <2> HIDE DEF missing
  <2> QED
    BY <2>3
<1>3. \A i \in Ids : (\E p \in missing : id(p) = i) => new(i) \in missing /\ id(new(i)) = i
  OBVIOUS
<1>4. \A p \in missing : seed(p) \in Row /\ seed(p).port = p
  BY DEF Row
<1>5. SeededNextId(t, n) \in Nat /\ SeededNextId(t, n) >= n
  BY DefaultsAreFew DEF SeededNextId
<1> HIDE DEF missing, id, seed, new, s
<1>6. s \in [Ids -> Row \cup {None}]
  BY <1>1, <1>3, <1>4
<1>7. \A i \in Ids : i < n => s[i] = t[i]
  BY <1>1, <1>2 DEF Ids
<1>8. ASSUME Distinct(t) PROVE Distinct(s)
  <2> SUFFICES ASSUME NEW i \in Ids, NEW j \in Ids, s[i] # None, s[j] # None,
                      s[i].port = s[j].port
               PROVE  i = j
    BY DEF Distinct
  <2>1. \A k \in Ids : \/ /\ \E p \in missing : id(p) = k
                          /\ s[k].port = new(k)
                       \/ s[k] = t[k] /\ ~\E p \in missing : id(p) = k
    BY <1>1, <1>3, <1>4
  <2>2. \A k \in Ids : t[k] # None => t[k].port \notin missing
    BY DEF missing, UsedIn
  <2> QED
    BY <1>3, <1>8, <2>1, <2>2 DEF Distinct
<1> QED
  BY <1>5, <1>6, <1>7, <1>8 DEF s

-----------------------------------------------------------------------------
(* The handlers' own state *)

\* What a handler needs to take a step.
Ready(step, o) == /\ step \in {"next port", "insert", "update", "gate"} => o.port # 0
                  /\ step \in {"read", "find", "update", "erase"} => o.id # 0
HandlersOK == /\ pc \in [Handlers -> Steps] /\ op \in [Handlers -> Op]
              /\ \A h \in Handlers : Ready(pc[h], op[h])

LEMMA HandlersAreOK == ServiceInv => HandlersOK
  BY DEF ServiceInv, TypeOK, Prepared, HandlersOK, Ready

LEMMA NoOpType == NoOp \in Op
  BY DEF NoOp, Args, Op

LEMMA ArgsType ==
    ASSUME NEW id \in Ids \cup {0}, NEW port \in Ports \cup {0}, NEW old \in Ports \cup {0},
           NEW target \in Targets, NEW enabled \in BOOLEAN
    PROVE  /\ Args(id, port, old, target, enabled) \in Op
           /\ Args(id, port, old, target, enabled).id = id
           /\ Args(id, port, old, target, enabled).port = port
  BY DEF Args, Op

LEMMA Moves ==
    ASSUME HandlersOK, NEW h \in Handlers, NEW step \in Steps, NEW o \in Op, Ready(step, o),
           pc' = [pc EXCEPT ![h] = step], op' = [op EXCEPT ![h] = o]
    PROVE  HandlersOK'
<1>1. pc' \in [Handlers -> Steps] /\ op' \in [Handlers -> Op]
  BY DEF HandlersOK
<1>2. ASSUME NEW g \in Handlers PROVE Ready(pc'[g], op'[g])
  <2>1. CASE g = h
    BY <2>1 DEF HandlersOK
  <2>2. CASE g # h
    <3>1. pc'[g] = pc[g] /\ op'[g] = op[g]
      BY <2>2 DEF HandlersOK
    <3> QED
      BY <3>1 DEF HandlersOK
  <2> QED
    BY <2>1, <2>2
<1> QED
  BY <1>1, <1>2 DEF HandlersOK, Ready

LEMMA Goes ==
    ASSUME HandlersOK, NEW h \in Handlers, NEW step \in Steps, Ready(step, op[h]), Goto(h, step)
    PROVE  HandlersOK'
<1>1. op[h] \in Op /\ op' = [op EXCEPT ![h] = op[h]]
  BY DEF HandlersOK, Goto
<1> QED
  BY <1>1, Moves DEF Goto

LEMMA Ends ==
    ASSUME HandlersOK, NEW h \in Handlers, Finish(h) \/ Apply(h)
    PROVE  HandlersOK'
<1>1. Ready("idle", NoOp) /\ Ready("list", NoOp) /\ {"idle", "list"} \subseteq Steps
  BY DEF Ready, Steps, Statements
<1> QED
  BY <1>1, NoOpType, Moves DEF Finish, Apply

LEMMA Begins ==
    ASSUME HandlersOK, NEW h \in Handlers, Receive(h)
    PROVE  HandlersOK'
<1>1. RequestedPorts \subseteq Ports \cup {0} /\ FirstPort \in Ports /\ FirstPort # 0
  BY DEF RequestedPorts, AcceptedPort, Ports
<1>2. ASSUME NEW step \in Steps, NEW o \in Op, Ready(step, o), Begin(h, step, o)
      PROVE  HandlersOK'
  BY <1>2, Moves DEF Begin
<1>3. CASE ReceiveCreate(h)
  <2>1. PICK t \in Targets, e \in BOOLEAN :
              \/ Begin(h, "next port", Args(0, FirstPort, 0, t, e))
              \/ \E p \in RequestedPorts \ {0} : Begin(h, "insert", Args(0, p, 0, t, e))
    BY <1>3 DEF ReceiveCreate
  <2>2. ASSUME NEW p \in Ports, p # 0, NEW step \in {"next port", "insert"},
               Begin(h, step, Args(0, p, 0, t, e))
        PROVE  HandlersOK'
    <3>1. Args(0, p, 0, t, e) \in Op
      BY ArgsType
    <3>2. Args(0, p, 0, t, e).port = p
      BY DEF Args
    <3>3. Ready(step, Args(0, p, 0, t, e)) /\ step \in Steps
      BY <2>2, <3>2 DEF Ready, Steps, Statements
    <3> QED
      BY <1>2, <2>2, <3>1, <3>3
  <2> QED
    BY <1>1, <2>1, <2>2
<1>4. CASE ReceiveUpdate(h)
  <2>1. PICK i \in Ids, p \in RequestedPorts, t \in Targets, e \in BOOLEAN :
              Begin(h, "read", Args(i, p, 0, t, e))
    BY <1>4 DEF ReceiveUpdate
  <2>2. Args(i, p, 0, t, e) \in Op /\ Ready("read", Args(i, p, 0, t, e))
    BY <1>1, ArgsType DEF Ready, Ids
  <2> QED
    BY <1>2, <2>1, <2>2 DEF Steps, Statements
<1>5. CASE ReceiveDelete(h)
  <2>1. PICK i \in Ids : Begin(h, "find", Args(i, 0, 0, DefaultTarget, TRUE))
    BY <1>5 DEF ReceiveDelete
  <2>2. Args(i, 0, 0, DefaultTarget, TRUE) \in Op
    BY ArgsType
  <2>3. Args(i, 0, 0, DefaultTarget, TRUE).id = i
    BY DEF Args
  <2>4. i # 0
    BY DEF Ids
  <2>5. Ready("find", Args(i, 0, 0, DefaultTarget, TRUE)) /\ "find" \in Steps
    BY <2>3, <2>4 DEF Ready, Steps, Statements
  <2> QED
    BY <1>2, <2>1, <2>2, <2>5
<1>6. CASE ReceiveApply(h)
  <2>1. Ready("list", NoOp) /\ "list" \in Steps
    BY DEF Ready, Steps, Statements
  <2> QED
    BY <1>2, <1>6, <2>1, NoOpType DEF ReceiveApply
<1> QED
  BY <1>3, <1>4, <1>5, <1>6 DEF Receive

LEMMA Facts ==
    ASSUME ServiceInv
    PROVE  /\ HandlersOK
           /\ \A h \in Handlers : op[h] \in Op /\ pc[h] \in Steps
           /\ \A i \in Ids : rows[i] # None => rows[i] \in Row /\ rows[i].port \in Ports
           /\ UsedPorts \subseteq Ports /\ Ports \subseteq Nat \ {0}
           /\ nextId \in Nat /\ (nextId <= MaxId => nextId \in Ids)
<1>1. rows \in [Ids -> Row \cup {None}] /\ nextId \in 1..(MaxId + 1)
  BY DEF ServiceInv, TypeOK
<1>2. \A i \in Ids : rows[i] # None => rows[i] \in Row /\ rows[i].port \in Ports
  BY <1>1 DEF Row
<1>3. HandlersOK
  BY HandlersAreOK
<1>4. \A h \in Handlers : op[h] \in Op /\ pc[h] \in Steps
  BY <1>3 DEF HandlersOK
<1>5. UsedPorts \subseteq Ports /\ Ports \subseteq Nat \ {0}
  BY <1>2 DEF UsedPorts, Present, Ports
<1> QED
  BY <1>1, <1>2, <1>3, <1>4, <1>5 DEF Ids

\* The administrator's other requests touch the authorization tables only.
LEMMA AdminAlone == Admin => UNCHANGED <<table, handlers, agent, restarts>>
  BY DEF Admin, AddPortPermission, RemovePortPermission, AddPortIPAllow, RemovePortIPAllow,
         RestrictPort, OpenPort

LEMMA HandlersStep ==
    ASSUME ServiceInv, Next
    PROVE  HandlersOK'
<1>0. /\ HandlersOK
      /\ \A h \in Handlers : op[h] \in Op /\ pc[h] \in Steps /\ Ready(pc[h], op[h])
      /\ \A i \in Ids : rows[i] # None => rows[i].port \in Ports
      /\ Ports \subseteq Nat \ {0}
      /\ nextId \in Nat /\ (nextId <= MaxId => nextId \in Ids)
  BY Facts DEF HandlersOK
<1>1. ASSUME UNCHANGED handlers PROVE HandlersOK'
  BY <1>0, <1>1 DEF handlers, HandlersOK, Ready
<1>2. Steps = {"purge permissions", "purge addresses", "purge gate", "next port", "insert",
               "read", "update", "find", "erase", "gate", "reread", "list", "applied",
               "failed", "idle", "wait"}
  BY DEF Steps, Statements, Purging
<1>3. ASSUME NEW h \in Handlers,
             NEW step \in Steps \ {"next port", "insert", "read", "update", "find", "erase",
                                   "gate"}, Goto(h, step)
      PROVE  HandlersOK'
  BY <1>0, <1>3, Goes DEF Ready
<1>4. ASSUME NEW h \in Handlers, Finish(h) \/ Apply(h) PROVE HandlersOK'
  BY <1>0, <1>4, Ends
<1>5. ASSUME NEW h \in Handlers, op[h].port # 0, Goto(h, "gate") \/ Goto(h, "insert")
      PROVE  HandlersOK'
  BY <1>0, <1>2, <1>5, Goes DEF Ready
<1>6. ASSUME NEW h \in Handlers, Receive(h) PROVE HandlersOK'
  BY <1>0, <1>6, Begins
<1>7. ASSUME NEW h \in Handlers, Abort(h) PROVE HandlersOK'
  BY <1>4, <1>5, <1>7 DEF Abort
<1>8. ASSUME NEW h \in Handlers, AgentApplies(h) \/ GiveUp(h) PROVE HandlersOK'
  BY <1>1, <1>2, <1>3, <1>8 DEF AgentApplies, GiveUp
<1>9. ASSUME NEW h \in Handlers, NextSSHRemotePort(h) PROVE HandlersOK'
  <2>1. op[h].port # 0 /\ op[h].port \in Ports
    BY <1>0, <1>9 DEF NextSSHRemotePort, Ready, Op
  <2>2. CASE op[h].port < LastPort /\ op' = [op EXCEPT ![h].port = @ + 1] /\ UNCHANGED pc
    <3> DEFINE o == [op[h] EXCEPT !.port = @ + 1]
    <3>1. op[h].port + 1 \in Ports /\ op[h].port + 1 # 0
      BY <2>1, <2>2 DEF Ports
    <3>2. o \in Op /\ o.port # 0
      BY <1>0, <3>1 DEF Op
    <3>3. op' = [op EXCEPT ![h] = o] /\ pc' = [pc EXCEPT ![h] = "next port"]
      BY <1>9, <2>2, <1>0 DEF NextSSHRemotePort, HandlersOK
    <3>4. Ready("next port", o) /\ "next port" \in Steps
      BY <1>2, <3>2 DEF Ready
    <3> HIDE DEF o
    <3> QED
      BY <1>0, <3>2, <3>3, <3>4, Moves
  <2>3. CASE Goto(h, "insert") \/ Finish(h)
    BY <1>4, <1>5, <2>1, <2>3
  <2> QED
    BY <1>9, <2>2, <2>3 DEF NextSSHRemotePort
<1>10. ASSUME NEW h \in Handlers, Insert(h) PROVE HandlersOK'
  <2>1. op[h].port # 0
    BY <1>0, <1>10 DEF Insert, Ready
  <2>2. CASE /\ nextId <= MaxId
             /\ op' = [op EXCEPT ![h].id = nextId]
             /\ pc' = [pc EXCEPT ![h] = "gate"]
    <3> DEFINE o == [op[h] EXCEPT !.id = nextId]
    <3>1. o \in Op /\ o.port = op[h].port
      BY <1>0, <2>2 DEF Op
    <3>2. op' = [op EXCEPT ![h] = o]
      BY <2>2
    <3>3. Ready("gate", o) /\ "gate" \in Steps
      BY <1>2, <2>1, <3>1 DEF Ready
    <3> HIDE DEF o
    <3> QED
      BY <1>0, <2>2, <3>1, <3>2, <3>3, Moves
  <2> QED
    BY <1>4, <1>10, <2>2 DEF Insert
<1>11. ASSUME NEW h \in Handlers, Read(h) PROVE HandlersOK'
  <2>1. op[h].id # 0 /\ op[h].id \in Ids
    BY <1>0, <1>11 DEF Read, Ready, Op
  <2>2. CASE rows[op[h].id] # None
    <3> DEFINE old == rows[op[h].id].port
               port == IF op[h].port = 0 THEN old ELSE op[h].port
               o == Args(op[h].id, port, old, op[h].target, op[h].enabled)
    <3>1. old \in Ports
      BY <1>0, <2>1, <2>2
    <3>2. /\ op[h].id \in Ids \cup {0} /\ op[h].target \in Targets /\ op[h].enabled \in BOOLEAN
          /\ op[h].port \in Ports \cup {0}
      BY <1>0 DEF Op
    <3>3. port \in Ports /\ port # 0
      BY <1>0, <3>1, <3>2
    <3>4. op' = [op EXCEPT ![h] = o] /\ pc' = [pc EXCEPT ![h] = "update"]
      BY <1>11, <2>2 DEF Read
    <3> HIDE DEF old, port
    <3>5. o \in Op
      BY <3>1, <3>2, <3>3, ArgsType
    <3>6. o.id = op[h].id /\ o.port = port
      BY DEF Args
    <3>7. Ready("update", o) /\ "update" \in Steps
      BY <1>2, <2>1, <3>3, <3>6 DEF Ready
    <3> HIDE DEF o
    <3> QED
      BY <1>0, <3>4, <3>5, <3>7, Moves
  <2> QED
    BY <1>4, <1>11, <2>2 DEF Read
<1>12. ASSUME NEW h \in Handlers, Update(h) PROVE HandlersOK'
  <2>1. op[h].port # 0
    BY <1>0, <1>12 DEF Update, Ready
  <2>2. Finish(h) \/ Goto(h, "gate") \/ Goto(h, "purge permissions")
    BY <1>12 DEF Update
  <2> QED
    BY <1>2, <1>3, <1>4, <1>5, <2>1, <2>2
<1>13. ASSUME NEW h \in Handlers, Find(h) PROVE HandlersOK'
  <2>1. op[h].id # 0 /\ op[h].id \in Ids
    BY <1>0, <1>13 DEF Find, Ready, Op
  <2>2. CASE rows[op[h].id] # None
    <3> DEFINE o == [op[h] EXCEPT !.old = rows[op[h].id].port]
    <3>1. o \in Op /\ o.id = op[h].id
      BY <1>0, <2>1, <2>2 DEF Op
    <3>2. op' = [op EXCEPT ![h] = o] /\ pc' = [pc EXCEPT ![h] = "erase"]
      BY <1>13, <2>2 DEF Find
    <3>3. Ready("erase", o) /\ "erase" \in Steps
      BY <1>2, <2>1, <3>1 DEF Ready
    <3> HIDE DEF o
    <3> QED
      BY <1>0, <3>1, <3>2, <3>3, Moves
  <2> QED
    BY <1>4, <1>13, <2>2 DEF Find
<1>14. ASSUME NEW h \in Handlers,
              \/ Erase(h) \/ PurgePermissions(h) \/ PurgeAddresses(h) \/ SetGate(h)
              \/ Reread(h) \/ List(h) \/ MarkApplied(h) \/ MarkApplyFailed(h)
       PROVE  HandlersOK'
  BY <1>2, <1>3, <1>4, <1>14
     DEF Erase, PurgePermissions, PurgeAddresses, SetGate, Reread, List, MarkApplied,
         MarkApplyFailed
<1>15. ASSUME NEW h \in Handlers, PurgeGate(h) PROVE HandlersOK'
  BY <1>4, <1>5, <1>15 DEF PurgeGate
<1>16. ASSUME Restart PROVE HandlersOK'
  <2>1. Ready("idle", NoOp) /\ "idle" \in Steps
    BY <1>2 DEF Ready
  <2>2. pc' = [h \in Handlers |-> "idle"] /\ op' = [h \in Handlers |-> NoOp]
    BY <1>16 DEF Restart
  <2> QED
    BY <2>1, <2>2, NoOpType DEF HandlersOK, Ready
<1>17. ASSUME Admin PROVE HandlersOK'
  BY <1>1, <1>17, AdminAlone
<1> QED
  BY <1>6, <1>7, <1>8, <1>9, <1>10, <1>11, <1>12, <1>13, <1>14, <1>15, <1>16, <1>17
     DEF Next, Statement

-----------------------------------------------------------------------------
(* The table of services *)

TableOK(t, n) == t \in [Ids -> Row \cup {None}] /\ n \in 1..(MaxId + 1) /\ Distinct(t)
GoneIn(t) == \A i \in Ids : (i < nextId /\ rows[i] = None) => t[i] = None

LEMMA TableIsOK == ServiceInv <=> TypeOK /\ Prepared /\ TableOK(rows, nextId) /\ WireAccepted
<1>1. UniquePorts <=> Distinct(rows)
  BY DEF UniquePorts, Distinct, Present
<1>2. TypeOK => rows \in [Ids -> Row \cup {None}] /\ nextId \in 1..(MaxId + 1)
  BY DEF TypeOK
<1> QED
  BY <1>1, <1>2 DEF ServiceInv, TableOK

\* One row is written over, with a port that no other has.
LEMMA RowWritten ==
    ASSUME TableOK(rows, nextId), NEW i \in Ids, NEW r \in Row \cup {None},
           r # None => \A j \in Ids \ {i} : rows[j] # None => rows[j].port # r.port
    PROVE  /\ [rows EXCEPT ![i] = r] \in [Ids -> Row \cup {None}]
           /\ Distinct([rows EXCEPT ![i] = r])
  BY DEF TableOK, Distinct

LEMMA StatusWritten ==
    ASSUME TableOK(rows, nextId), NEW status \in {"pending", "applied"}, MarkAll(status)
    PROVE  TableOK(rows', nextId) /\ GoneIn(rows')
<1>1. \A i \in Ids : rows[i] # None =>
         /\ [rows[i] EXCEPT !.status = status] \in Row
         /\ [rows[i] EXCEPT !.status = status].port = rows[i].port
  BY DEF TableOK, Row
<1>2. rows' = [i \in Ids |-> IF rows[i] = None THEN None
                             ELSE [rows[i] EXCEPT !.status = status]]
  BY DEF MarkAll
<1>3. /\ rows' \in [Ids -> Row \cup {None}]
      /\ \A i \in Ids : rows'[i] # None => rows[i] # None /\ rows'[i].port = rows[i].port
      /\ GoneIn(rows')
  BY <1>1, <1>2 DEF GoneIn
<1>4. Distinct(rows')
  BY <1>3 DEF TableOK, Distinct
<1> QED
  BY <1>3, <1>4 DEF TableOK

LEMMA TableStep ==
    ASSUME ServiceInv, Next
    PROVE  TableOK(rows', nextId') /\ GoneIn(rows')
<1>0. /\ TableOK(rows, nextId) /\ HandlersOK
      /\ \A h \in Handlers : op[h] \in Op /\ Ready(pc[h], op[h])
      /\ nextId \in Nat /\ (nextId <= MaxId => nextId \in Ids)
  BY Facts, TableIsOK DEF HandlersOK
<1>1. ASSUME UNCHANGED table PROVE TableOK(rows', nextId') /\ GoneIn(rows')
  BY <1>0, <1>1 DEF table, GoneIn
<1>2. ASSUME NEW i \in Ids, NEW r \in Row \cup {None}, rows' = [rows EXCEPT ![i] = r],
             nextId' \in 1..(MaxId + 1), i < nextId => rows[i] # None \/ r = None,
             r # None => \A j \in Ids \ {i} : rows[j] # None => rows[j].port # r.port
      PROVE  TableOK(rows', nextId') /\ GoneIn(rows')
  <2>1. rows' \in [Ids -> Row \cup {None}] /\ Distinct(rows')
    BY <1>0, <1>2, RowWritten
  <2>2. GoneIn(rows')
    BY <1>0, <1>2 DEF GoneIn, TableOK
  <2> QED
    BY <1>2, <2>1, <2>2 DEF TableOK
<1>3. ASSUME NEW h \in Handlers, Insert(h) PROVE TableOK(rows', nextId') /\ GoneIn(rows')
  <2>1. CASE op[h].port \notin UsedPorts /\ nextId <= MaxId /\ ~UNCHANGED table
    <3> DEFINE r == [port |-> op[h].port, target |-> op[h].target,
                     enabled |-> op[h].enabled, status |-> "pending"]
    <3>1. rows' = [rows EXCEPT ![nextId] = r] /\ nextId' = nextId + 1
      BY <1>3, <2>1 DEF Insert
    <3>2. op[h].port \in Ports
      BY <1>0, <1>3 DEF Insert, Ready, Op
    <3>3. op[h].target \in Targets /\ op[h].enabled \in BOOLEAN
      BY <1>0 DEF Op
    <3>4. r \in Row /\ r.port = op[h].port
      BY <3>2, <3>3 DEF Row
    <3>5. \A j \in Ids : rows[j] # None => rows[j].port # op[h].port
      BY <2>1 DEF UsedPorts, Present
    <3>6. nextId \in Ids /\ nextId + 1 \in 1..(MaxId + 1) /\ ~(nextId < nextId)
      BY <1>0, <2>1
    <3> HIDE DEF r
    <3> QED
      BY <1>2, <3>1, <3>4, <3>5, <3>6
  <2> QED
    BY <1>1, <1>3, <2>1 DEF Insert
<1>4. ASSUME NEW h \in Handlers, Update(h) PROVE TableOK(rows', nextId') /\ GoneIn(rows')
  <2> DEFINE r == [port |-> op[h].port, target |-> op[h].target,
                   enabled |-> op[h].enabled, status |-> "pending"]
             i == op[h].id
  <2>1. CASE /\ rows[i] # None
             /\ op[h].port \notin {rows[j].port : j \in Present \ {i}}
             /\ rows' = [rows EXCEPT ![i] = r]
    <3>1. op[h].port \in Ports /\ i \in Ids
      BY <1>0, <1>4 DEF Update, Ready, Op
    <3>2. op[h].target \in Targets /\ op[h].enabled \in BOOLEAN
      BY <1>0 DEF Op
    <3>3. r \in Row /\ r.port = op[h].port
      BY <3>1, <3>2 DEF Row
    <3>4. \A j \in Ids \ {i} : rows[j] # None => rows[j].port # op[h].port
      BY <2>1 DEF Present
    <3>5. nextId' \in 1..(MaxId + 1)
      BY <1>0, <1>4 DEF Update, TableOK
    <3> HIDE DEF r, i
    <3> QED
      BY <1>2, <2>1, <3>1, <3>3, <3>4, <3>5
  <2>2. CASE UNCHANGED rows
    BY <1>1, <1>4, <2>2 DEF Update, table
  <2> QED
    BY <1>4, <2>1, <2>2 DEF Update
<1>5. ASSUME NEW h \in Handlers, Erase(h) PROVE TableOK(rows', nextId') /\ GoneIn(rows')
  <2>1. op[h].id \in Ids
    BY <1>0, <1>5 DEF Erase, Ready, Op
  <2>2. rows' = [rows EXCEPT ![op[h].id] = None] /\ nextId' \in 1..(MaxId + 1)
    BY <1>0, <1>5 DEF Erase, TableOK
  <2> QED
    BY <1>2, <2>1, <2>2
<1>6. ASSUME NEW h \in Handlers, MarkApplied(h) \/ MarkApplyFailed(h)
      PROVE  TableOK(rows', nextId') /\ GoneIn(rows')
  BY <1>0, <1>6, StatusWritten DEF MarkApplied, MarkApplyFailed
<1>7. ASSUME Restart PROVE TableOK(rows', nextId') /\ GoneIn(rows')
  <2>1. /\ rows' = SeededRows(rows, nextId) /\ nextId' = SeededNextId(rows, nextId)
        /\ SeededNextId(rows, nextId) <= MaxId + 1
    BY <1>7 DEF Restart
  <2>2. rows \in [Ids -> Row \cup {None}] /\ Distinct(rows) /\ nextId \in 1..(MaxId + 1)
    BY <1>0 DEF TableOK
  <2>3. /\ SeededRows(rows, nextId) \in [Ids -> Row \cup {None}]
        /\ SeededNextId(rows, nextId) \in Nat /\ SeededNextId(rows, nextId) >= nextId
        /\ \A i \in Ids : i < nextId => SeededRows(rows, nextId)[i] = rows[i]
        /\ Distinct(SeededRows(rows, nextId))
    BY <1>0, <2>2, Seeded
  <2>4. nextId' \in 1..(MaxId + 1)
    BY <2>1, <2>2, <2>3
  <2> QED
    BY <2>1, <2>3, <2>4 DEF TableOK, GoneIn
<1>8. ASSUME NEW h \in Handlers,
             \/ Receive(h) \/ Abort(h) \/ AgentApplies(h) \/ GiveUp(h)
             \/ NextSSHRemotePort(h) \/ Read(h) \/ Find(h)
             \/ PurgePermissions(h) \/ PurgeAddresses(h) \/ PurgeGate(h)
             \/ SetGate(h) \/ Reread(h) \/ List(h)
      PROVE  UNCHANGED table
  BY <1>8 DEF Receive, ReceiveCreate, ReceiveUpdate, ReceiveDelete, ReceiveApply, Begin, Abort,
              AgentApplies, GiveUp, NextSSHRemotePort, Read, Find, PurgePermissions,
              PurgeAddresses, PurgeGate, SetGate, Reread, List
<1>9. ASSUME Admin PROVE UNCHANGED table
  BY <1>9, AdminAlone
<1> QED
  BY <1>1, <1>3, <1>4, <1>5, <1>6, <1>7, <1>8, <1>9 DEF Next, Statement

-----------------------------------------------------------------------------
(* The authorization tables and the restarts *)

AccessOK == /\ gate \subseteq Ports \cup AuthPorts /\ opened \subseteq AuthPorts
            /\ perms \subseteq AuthPorts /\ allow \subseteq AuthPorts
            /\ restarts \in 0..MaxRestarts
FormerOK == former \subseteq {"permission", "address"} \X AuthPorts
AuthOK == AccessOK /\ FormerOK

\* What a service left behind is looked at again by every step that takes a
\* service off its port or takes anything out of the authorization tables.
Remembers == Record \/ (UNCHANGED former /\ perms \subseteq perms' /\ allow \subseteq allow')

LEMMA StepRemembers ==
    ASSUME Next \/ UNCHANGED vars
    PROVE  Remembers
<1>1. ASSUME UNCHANGED <<perms, allow, former>> PROVE Remembers
  BY <1>1 DEF Remembers
<1>2. ASSUME NEW h \in Handlers,
             Update(h) \/ Erase(h) \/ PurgePermissions(h) \/ PurgeAddresses(h)
      PROVE  Remembers
  BY <1>2 DEF Update, Erase, PurgePermissions, PurgeAddresses, Remembers
<1>3. ASSUME NEW h \in Handlers,
             \/ Receive(h) \/ Abort(h) \/ AgentApplies(h) \/ GiveUp(h)
             \/ NextSSHRemotePort(h) \/ Insert(h) \/ Read(h) \/ Find(h)
             \/ Reread(h) \/ List(h) \/ MarkApplied(h) \/ MarkApplyFailed(h)
      PROVE  UNCHANGED <<perms, allow, former>>
  <2>1. UNCHANGED auth
    BY <1>3 DEF Receive, ReceiveCreate, ReceiveUpdate, ReceiveDelete, ReceiveApply, Begin, Abort,
                AgentApplies, GiveUp, NextSSHRemotePort, Insert, Read, Find,
                Reread, List, MarkApplied, MarkApplyFailed
  <2> QED
    BY <2>1 DEF auth
<1>4. ASSUME NEW h \in Handlers, PurgeGate(h) \/ SetGate(h)
      PROVE  UNCHANGED <<perms, allow, former>>
  BY <1>4 DEF PurgeGate, SetGate
<1>5. ASSUME Admin PROVE Remembers
  BY <1>5 DEF Admin, AddPortPermission, RemovePortPermission, AddPortIPAllow,
              RemovePortIPAllow, RestrictPort, OpenPort, Remembers
<1>6. ASSUME Restart PROVE UNCHANGED <<perms, allow, former>>
  BY <1>6 DEF Restart
<1>7. ASSUME UNCHANGED vars PROVE UNCHANGED <<perms, allow, former>>
  BY <1>7 DEF vars, auth
<1> QED
  BY <1>1, <1>2, <1>3, <1>4, <1>5, <1>6, <1>7 DEF Next, Statement

LEMMA AccessStep ==
    ASSUME ServiceInv, Next
    PROVE  AccessOK'
<1>0. /\ AccessOK
      /\ \A h \in Handlers : op[h] \in Op /\ Ready(pc[h], op[h])
  BY Facts DEF ServiceInv, TypeOK, AccessOK, HandlersOK
<1>1. ASSUME UNCHANGED <<gate, perms, allow, opened, restarts>> PROVE AccessOK'
  BY <1>0, <1>1 DEF AccessOK
<1>2. ASSUME NEW h \in Handlers, PurgePermissions(h) \/ PurgeAddresses(h) \/ PurgeGate(h)
      PROVE  AccessOK'
  BY <1>0, <1>2 DEF PurgePermissions, PurgeAddresses, PurgeGate, AccessOK
<1>3. ASSUME NEW h \in Handlers, SetGate(h) PROVE AccessOK'
  <2>1. op[h].port \in Ports
    BY <1>0, <1>3 DEF SetGate, Ready, Op
  <2> QED
    BY <1>0, <1>3, <2>1 DEF SetGate, AccessOK
<1>4. ASSUME Admin PROVE AccessOK'
  BY <1>0, <1>4 DEF Admin, AddPortPermission, RemovePortPermission, AddPortIPAllow,
                    RemovePortIPAllow, RestrictPort, OpenPort, AccessOK
<1>5. ASSUME Restart PROVE AccessOK'
  BY <1>0, <1>5 DEF Restart, AccessOK
<1>6. ASSUME NEW h \in Handlers,
             \/ Receive(h) \/ Abort(h) \/ AgentApplies(h) \/ GiveUp(h)
             \/ NextSSHRemotePort(h) \/ Insert(h) \/ Read(h) \/ Find(h)
             \/ Reread(h) \/ List(h) \/ MarkApplied(h) \/ MarkApplyFailed(h)
      PROVE  UNCHANGED <<gate, perms, allow, opened, restarts>>
  <2>1. UNCHANGED <<auth, restarts>>
    BY <1>6 DEF Receive, ReceiveCreate, ReceiveUpdate, ReceiveDelete, ReceiveApply, Begin, Abort,
                AgentApplies, GiveUp, NextSSHRemotePort, Insert, Read, Find,
                Reread, List, MarkApplied, MarkApplyFailed
  <2> QED
    BY <2>1 DEF auth
<1>7. ASSUME NEW h \in Handlers, Update(h) \/ Erase(h)
      PROVE  UNCHANGED <<gate, perms, allow, opened, restarts>>
  BY <1>7 DEF Update, Erase
<1> QED
  BY <1>1, <1>2, <1>3, <1>4, <1>5, <1>6, <1>7 DEF Next, Statement

LEMMA AuthStep ==
    ASSUME ServiceInv, Next
    PROVE  AuthOK'
<1>1. AccessOK'
  BY AccessStep
<1>2. FormerOK
  BY DEF ServiceInv, TypeOK, FormerOK
<1>3. Granted' \subseteq {"permission", "address"} \X AuthPorts
  BY <1>1 DEF AccessOK, Granted
<1>4. former' \subseteq Granted' \/ UNCHANGED former
  BY StepRemembers DEF Remembers, Record
<1>5. FormerOK'
  BY <1>2, <1>3, <1>4 DEF FormerOK
<1> QED
  BY <1>1, <1>5 DEF AuthOK

-----------------------------------------------------------------------------
(* The agent *)

AgentOK == /\ wire \in [Handlers -> Requests \cup {None}] /\ WireAccepted
           /\ deployed \subseteq Mapping

\* The list the backend sends has no two services on a port and none on a port
\* the agent refuses, because its table has none.
LEMMA ListAccepted == ServiceInv => Services \in Requests /\ Accepts(Services)
<1> SUFFICES ASSUME ServiceInv PROVE Services \in Requests /\ Accepts(Services)
  OBVIOUS
<1>1. \A i \in Present : i \in Ids /\ rows[i] \in Row
  BY Facts DEF Present
<1>2. Services \in [Present -> Service]
  BY <1>1 DEF Services, Service, Row
<1>3. DOMAIN Services = Present /\ \A i \in Present : Services[i].port = rows[i].port
  BY DEF Services
<1>4. \A i \in Present : Services[i].port \in Ports \ {ManagementPort}
  BY <1>1, <1>3 DEF Row
<1>5. Present \in SUBSET Ids
  BY DEF Present
<1> HIDE DEF Services
<1>6. Accepts(Services)
  BY <1>3, <1>4 DEF Accepts, ServiceInv, UniquePorts
<1> QED
  BY <1>2, <1>5, <1>6 DEF Requests

LEMMA AgentStep ==
    ASSUME ServiceInv, Next
    PROVE  AgentOK'
<1>0. AgentOK
  BY DEF ServiceInv, TypeOK, AgentOK
<1>1. ASSUME UNCHANGED agent PROVE AgentOK'
  BY <1>0, <1>1 DEF agent, AgentOK, WireAccepted
<1>2. ASSUME NEW h \in Handlers, List(h) PROVE AgentOK'
  <2>1. Services \in Requests /\ Accepts(Services)
    BY ListAccepted
  <2>2. wire' = [wire EXCEPT ![h] = Services] /\ deployed' = deployed
    BY <1>2 DEF List
  <2> HIDE DEF Services
  <2>3. wire' \in [Handlers -> Requests \cup {None}] /\ deployed' \subseteq Mapping
    BY <1>0, <2>1, <2>2 DEF AgentOK
  <2>4. ASSUME NEW g \in Handlers, wire'[g] # None PROVE Accepts(wire'[g])
    BY <1>0, <2>1, <2>2, <2>4 DEF AgentOK, WireAccepted
  <2> QED
    BY <2>3, <2>4 DEF AgentOK, WireAccepted, Accepts
<1>3. ASSUME NEW h \in Handlers, wire[h] # None PROVE Enabled(wire[h]) \subseteq Mapping
  <2>1. PICK I \in SUBSET Ids : wire[h] \in [I -> Service]
    BY <1>0, <1>3 DEF AgentOK, Requests
  <2> QED
    BY <2>1 DEF Enabled, Service, Mapping
<1>4. ASSUME NEW h \in Handlers, wire' \in {wire, [wire EXCEPT ![h] = None]},
             deployed' \subseteq Mapping
      PROVE  AgentOK'
  <2>1. wire' \in [Handlers -> Requests \cup {None}]
    BY <1>0, <1>4 DEF AgentOK
  <2>2. ASSUME NEW g \in Handlers, wire'[g] # None PROVE Accepts(wire'[g])
    <3>1. wire'[g] = wire[g]
      BY <1>0, <1>4, <2>2 DEF AgentOK
    <3> QED
      BY <1>0, <2>2, <3>1 DEF AgentOK, WireAccepted
  <2> QED
    BY <1>4, <2>1, <2>2 DEF AgentOK, WireAccepted, Accepts
<1>5. ASSUME NEW h \in Handlers, AgentApplies(h) PROVE AgentOK'
  <2>1. deployed' = deployed \/ deployed' = Enabled(wire[h])
    BY <1>5 DEF AgentApplies
  <2>2. wire[h] # None /\ wire' = [wire EXCEPT ![h] = None]
    BY <1>5 DEF AgentApplies
  <2> QED
    BY <1>0, <1>3, <1>4, <2>1, <2>2 DEF AgentOK
<1>6. ASSUME NEW h \in Handlers, GiveUp(h) PROVE AgentOK'
  BY <1>0, <1>4, <1>6 DEF GiveUp, AgentOK
<1>7. ASSUME NEW h \in Handlers,
             \/ Receive(h) \/ Abort(h)
             \/ NextSSHRemotePort(h) \/ Insert(h) \/ Read(h) \/ Update(h) \/ Find(h)
             \/ Erase(h) \/ PurgePermissions(h) \/ PurgeAddresses(h) \/ PurgeGate(h)
             \/ SetGate(h) \/ Reread(h) \/ MarkApplied(h) \/ MarkApplyFailed(h)
      PROVE  UNCHANGED agent
  BY <1>7 DEF Receive, ReceiveCreate, ReceiveUpdate, ReceiveDelete, ReceiveApply, Begin, Abort,
              NextSSHRemotePort, Insert, Read, Update, Find, Erase, PurgePermissions,
              PurgeAddresses, PurgeGate, SetGate, Reread, MarkApplied, MarkApplyFailed
<1>8. ASSUME Admin \/ Restart PROVE UNCHANGED agent
  BY <1>8, AdminAlone DEF Restart
<1> QED
  BY <1>1, <1>2, <1>5, <1>6, <1>7, <1>8 DEF Next, Statement

-----------------------------------------------------------------------------
(* The theorems *)

LEMMA Parts == ServiceInv <=> HandlersOK /\ TableOK(rows, nextId) /\ AuthOK /\ AgentOK
<1>1. ServiceInv => HandlersOK /\ TableOK(rows, nextId) /\ AuthOK /\ AgentOK
  BY Facts, TableIsOK DEF ServiceInv, TypeOK, AuthOK, AccessOK, FormerOK, AgentOK
<1>2. HandlersOK /\ TableOK(rows, nextId) /\ AuthOK /\ AgentOK => TypeOK /\ Prepared
  BY DEF TypeOK, Prepared, HandlersOK, Ready, TableOK, AuthOK, AccessOK, FormerOK, AgentOK
<1> QED
  BY <1>1, <1>2, TableIsOK DEF AgentOK

LEMMA Initially == Init => ServiceInv
<1> SUFFICES ASSUME Init PROVE ServiceInv
  OBVIOUS
<1> DEFINE empty == [i \in Ids |-> None]
<1>1. empty \in [Ids -> Row \cup {None}] /\ Distinct(empty)
  BY DEF Distinct
<1>2. UsedIn(empty) = {}
  BY DEF UsedIn
<1>3. SeededNextId(empty, 1) = 1 + Cardinality(DefaultPorts \ {})
  BY <1>2 DEF SeededNextId
<1>4. Cardinality(DefaultPorts \ {}) \in 0..MaxId
  BY DefaultsAreFew
<1>5. SeededRows(empty, 1) \in [Ids -> Row \cup {None}] /\ Distinct(SeededRows(empty, 1))
  BY <1>1, Seeded
<1>6. rows = SeededRows(empty, 1) /\ nextId = SeededNextId(empty, 1)
  BY DEF Init
<1>7. TableOK(rows, nextId)
  BY <1>3, <1>4, <1>5, <1>6 DEF TableOK
<1>8. Ready("idle", NoOp) /\ "idle" \in Steps
  BY DEF Ready, Steps
<1>9. HandlersOK
  BY <1>8, NoOpType DEF Init, HandlersOK, Ready
<1>10. AuthOK
  BY DEF Init, AuthOK, AccessOK, FormerOK
<1>11. AgentOK
  BY DEF Init, AgentOK, WireAccepted
<1> QED
  BY <1>7, <1>9, <1>10, <1>11, Parts

LEMMA Stuttering == ServiceInv /\ UNCHANGED vars => ServiceInv'
<1> SUFFICES ASSUME ServiceInv, UNCHANGED vars PROVE ServiceInv'
  OBVIOUS
<1>1. HandlersOK /\ TableOK(rows, nextId) /\ AuthOK /\ AgentOK
  BY Parts
<1>2. UNCHANGED <<rows, nextId, gate, perms, allow, opened, former, pc, op, wire, deployed, restarts>>
  BY DEF vars, table, auth, handlers, agent
<1>3. HandlersOK' /\ TableOK(rows, nextId)' /\ AuthOK' /\ AgentOK'
  BY <1>1, <1>2 DEF HandlersOK, Ready, TableOK, AuthOK, AccessOK, FormerOK, AgentOK,
                      WireAccepted
<1> QED
  BY <1>3, Parts, PTL

LEMMA Preserved == ServiceInv /\ Next => ServiceInv'
<1> SUFFICES ASSUME ServiceInv, Next PROVE ServiceInv'
  OBVIOUS
<1>1. HandlersOK' /\ TableOK(rows, nextId)' /\ AuthOK' /\ AgentOK'
  BY HandlersStep, TableStep, AuthStep, AgentStep
<1> QED
  BY <1>1, Parts, PTL

\* Whatever statements, calls and restarts come in between, the invariant holds:
\* the tables stay in their domains, and a handler has what its step needs.
THEOREM ServicesInvariant == Spec => []ServiceInv
  BY Initially, Stuttering, Preserved, PTL DEF Spec

\* Every variable stays in its domain (the ports that a handler carries from one
\* statement to the next, those of the tables, and what the agent is sent).
THEOREM TypeCorrect == Spec => []TypeOK
<1>1. ServiceInv => TypeOK
  BY DEF ServiceInv
<1> QED
  BY <1>1, ServicesInvariant, PTL

\* No two services ever share a public port, however many requests are served at
\* once between NextSSHRemotePort and its INSERT, or an update's read and write.
THEOREM PortsAreUnique == Spec => []UniquePorts
<1>1. ServiceInv => UniquePorts
  BY DEF ServiceInv
<1> QED
  BY <1>1, ServicesInvariant, PTL

\* The agent never refuses a list for what it contains: validateApplyRequest asks
\* for nothing that normalizeSSHServiceRequest and the table do not ensure.
THEOREM AgentAccepts == Spec => []WireAccepted
<1>1. ServiceInv => WireAccepted
  BY DEF ServiceInv
<1> QED
  BY <1>1, ServicesInvariant, PTL

\* No statement and no restart brings a deleted service's row back.
THEOREM DeletedStayDeleted == Spec => DeletedStaysDeleted
<1>1. ServiceInv /\ [Next]_vars
         => [\A i \in Ids : (i < nextId /\ rows[i] = None) => rows'[i] = None]_vars
  BY TableStep DEF GoneIn
<1> QED
  BY <1>1, ServicesInvariant, PTL DEF Spec, DeletedStaysDeleted
=============================================================================
