--------------------------- MODULE PortAuthProofs ---------------------------
(* The life of an activation, for any tokens, ports, requests and window.     *)
(* The argument: grace is the window from the last moment a token was good on *)
(* a port; the expiry of an activation is fixed at such a moment, before it   *)
(* reaches the table, and from then on both come nearer at the same pace.     *)
EXTENDS PortAuth, TLAPS

USE WindowAssumption, BoundsAssumption, NoneAssumption

\* The passage of time keeps instants in their ranges and in their order.
LEMMA LaterBounds ==
    ASSUME NEW n \in Nat, NEW x \in -1..n
    PROVE  Later(x) \in -1..n
  BY DEF Later

LEMMA LaterMonotone ==
    ASSUME NEW n \in Nat, NEW x \in -1..n, NEW y \in -1..n, x <= y
    PROVE  Later(x) <= Later(y) /\ Later(x) <= n
  BY DEF Later

LEMMA InitInv == Init => IInv
<1> SUFFICES ASSUME Init PROVE IInv
  OBVIOUS
<1>1. TypeOK
  BY DEF Init, TypeOK
<1>2. EndsWithinWindow /\ PendingWithinWindow
  BY DEF Init, EndsWithinWindow, PendingWithinWindow
<1> QED
  BY <1>1, <1>2 DEF IInv

LEMMA AllotType == TypeOK /\ Allot => grace' \in [Tokens \X Ports -> -1..Window]
  BY DEF TypeOK, Allot

\* What the variables of the program are, without the history.
ProgramType == /\ tokens \in [Tokens -> Token \cup {None, Gone}]
               /\ perms \in [Tokens \X Ports -> 0..MaxPerms]
               /\ config \in [Ports -> PortConfig \cup {None}]
               /\ allow \subseteq Ports \X IPs
               /\ activations \subseteq Activation
               /\ editing \in [request: {"token"}, id: Tokens, expires: -1..MaxExpiry]
                                \cup [request: {"config"}, port: Ports] \cup {None}
               /\ user \in [Users -> UserRequest \cup {None}]
               /\ check \in [Checks -> CheckRequest \cup {None}]

\* What a check has seen stays a set of modes, with or without "allowed".
LEMMA ObserveType == TypeOK /\ ProgramType' /\ Observe =>
                       seen' \in [Checks -> SUBSET {"open", "token", "ip", "allowed"}]
<1> SUFFICES ASSUME TypeOK, ProgramType', Observe
             PROVE  seen' \in [Checks -> SUBSET {"open", "token", "ip", "allowed"}]
  OBVIOUS
<1>1. ASSUME NEW c \in Checks, check'[c] # None
      PROVE  Mode(check[c].port)' \in {"open", "token", "ip"}
  <2>1. check'[c] \in CheckRequest
    BY <1>1 DEF ProgramType
  <2>2. check'[c].port \in Ports
    BY <2>1 DEF CheckRequest
  <2> QED
    BY <2>2 DEF ProgramType, Mode, PortConfig
<1>2. \A c \in Checks : seen[c] \subseteq {"open", "token", "ip", "allowed"}
  BY DEF TypeOK
<1> QED
  BY <1>1, <1>2 DEF Observe

LEMMA UserType == ASSUME TypeOK, NEW u \in Users, Activate(u) \/ UserStep(u)
                  PROVE  ProgramType'
<1> USE DEF TypeOK, ProgramType, admin
<1>1. CASE Activate(u)
  BY <1>1 DEF Activate, UserRequest
<1>2. CASE CheckPermission(u)
  <2>0. user[u] \in UserRequest
    BY <1>2 DEF CheckPermission
  <2> DEFINE inserting == [user[u] EXCEPT !.step = "insert", !.expires = Window]
  <2>1. [user[u] EXCEPT !.step = "insert", !.expires = Window] \in UserRequest
    <3>1. [user[u] EXCEPT !.step = "insert"] \in UserRequest
      BY <2>0 DEF UserRequest
    <3>2. ASSUME NEW r \in UserRequest PROVE [r EXCEPT !.expires = Window] \in UserRequest
      <4> HIDE DEF TypeOK, ProgramType
      <4> QED
        BY DEF UserRequest
    <3> QED
      BY <3>1, <3>2
  <2>2. user' = [user EXCEPT ![u] = inserting] \/ user' = [user EXCEPT ![u] = None]
    BY <1>2, <2>0 DEF CheckPermission
  <2>3. user' \in [Users -> UserRequest \cup {None}]
    BY <2>1, <2>2
  <2> QED
    BY <1>2, <2>3 DEF CheckPermission
<1>3. CASE AddActivation(u)
  BY <1>3 DEF AddActivation, UserRequest, Activation
<1> QED
  BY <1>1, <1>2, <1>3 DEF UserStep

LEMMA CheckType == ASSUME TypeOK, NEW c \in Checks, Ask(c) \/ CheckStep(c)
                   PROVE  ProgramType'
<1> USE DEF TypeOK, ProgramType, admin, At, Answer, Refuse, Continue, CheckRequest
<1>1. CASE Ask(c)
  BY <1>1 DEF Ask
<1>2. CASE ReadListMode(c)
  <2> DEFINE row == config[check[c].port]
  <2>1. check[c] \in CheckRequest /\ check[c].port \in Ports
    BY <1>2 DEF ReadListMode
  <2>2. CASE check' = [check EXCEPT ![c] = None]
    <3>2. check' \in [Checks -> CheckRequest \cup {None}]
      BY <2>1, <2>2
    <3> QED
      BY <1>2, <3>2 DEF ReadListMode
  <2>3. CASE row # None /\ check' # [check EXCEPT ![c] = None]
    <3>1. row.list \in {"whitelist", "blacklist"}
      BY <2>1, <2>3 DEF PortConfig
    <3>2. check' = [check EXCEPT ![c].step = "list", ![c].list = row.list]
      BY <1>2, <2>3 DEF ReadListMode
    <3>3. check' \in [Checks -> CheckRequest \cup {None}]
      BY <2>1, <3>1, <3>2
    <3> QED
      BY <1>2, <3>3 DEF ReadListMode
  <2> QED
    BY <1>2, <2>2, <2>3 DEF ReadListMode
<1>3. CASE ReadList(c)
  BY <1>3 DEF ReadList
<1>4. CASE CleanBeforeCount(c)
  BY <1>4 DEF CleanBeforeCount
<1>5. CASE Count(c)
  BY <1>5 DEF Count
<1>6. CASE Reply(c)
  BY <1>6 DEF Reply
<1> QED
  BY <1>1, <1>2, <1>3, <1>4, <1>5, <1>6 DEF CheckStep

LEMMA AdminType == TypeOK /\ (Admin \/ CleanExpiredWhitelist) => ProgramType'
<1> SUFFICES ASSUME TypeOK, Admin \/ CleanExpiredWhitelist PROVE ProgramType'
  OBVIOUS
<1> USE DEF TypeOK, ProgramType, Others
<1>1. CASE CreateToken
  BY <1>1 DEF CreateToken, Token, Expiries
<1>2. CASE UpdateActive
  BY <1>2 DEF UpdateActive, Token, Exists, Expiries
<1>3. CASE UpdateExpiry
  <2>1. /\ editing.id \in Tokens /\ editing.expires \in -1..MaxExpiry
    BY <1>3 DEF UpdateExpiry
  <2>2. CASE Exists(editing.id)
    <3>1. [tokens[editing.id] EXCEPT !.expires = editing.expires] \in Token
      BY <2>1, <2>2 DEF Exists, Token
    <3>2. tokens' = [tokens EXCEPT ![editing.id] =
                       [tokens[editing.id] EXCEPT !.expires = editing.expires]]
      BY <1>3, <2>2 DEF UpdateExpiry
    <3> QED
      BY <1>3, <3>1, <3>2 DEF UpdateExpiry
  <2>3. CASE ~Exists(editing.id)
    BY <1>3, <2>3 DEF UpdateExpiry
  <2> QED
    BY <2>2, <2>3
<1>4. CASE DeleteToken
  BY <1>4 DEF DeleteToken
<1>5. CASE AddPortPermission \/ RemovePortPermission \/ RemovePortPermissionByTokenPort
  <2>1. PICK tp \in Tokens \X Ports :
              \/ perms[tp] < MaxPerms /\ perms' = [perms EXCEPT ![tp] = @ + 1]
              \/ perms[tp] > 0 /\ perms' = [perms EXCEPT ![tp] = @ - 1]
              \/ perms' = [perms EXCEPT ![tp] = 0]
    BY <1>5 DEF AddPortPermission, RemovePortPermission, RemovePortPermissionByTokenPort
  <2>2. perms[tp] \in 0..MaxPerms
    OBVIOUS
  <2>3. perms' \in [Tokens \X Ports -> 0..MaxPerms]
    BY <2>1, <2>2
  <2> QED
    BY <1>5, <2>3
       DEF AddPortPermission, RemovePortPermission, RemovePortPermissionByTokenPort
<1>6. CASE SetPortConfig \/ SetPortIPListMode
  <2>1. CASE SetPortConfig
    BY <2>1 DEF SetPortConfig, PortConfig
  <2>2. CASE SetPortIPListMode
    BY <2>2 DEF SetPortIPListMode, PortConfig
  <2> QED
    BY <1>6, <2>1, <2>2
<1>7. CASE FindPortConfig \/ DeletePortConfig
  BY <1>7 DEF FindPortConfig, DeletePortConfig
<1>8. CASE AddPortIPAllow \/ RemovePortIPAllow
  BY <1>8 DEF AddPortIPAllow, RemovePortIPAllow
<1>9. CASE CleanExpiredWhitelist
  BY <1>9 DEF CleanExpiredWhitelist, admin
<1> QED
  BY <1>1, <1>2, <1>3, <1>4, <1>5, <1>6, <1>7, <1>8, <1>9 DEF Admin

LEMMA TickType == TypeOK /\ Tick => ProgramType' /\ grace' \in [Tokens \X Ports -> -1..Window]
<1> SUFFICES ASSUME TypeOK, Tick
             PROVE  ProgramType' /\ grace' \in [Tokens \X Ports -> -1..Window]
  OBVIOUS
<1> USE DEF TypeOK, Tick
<1>1. tokens' \in [Tokens -> Token \cup {None, Gone}]
  <2> SUFFICES ASSUME NEW t \in Tokens, Exists(t) PROVE Sooner(tokens[t]) \in Token
    BY DEF Exists
  <2>1. tokens[t] \in Token
    BY DEF Exists
  <2>2. Later(tokens[t].expires) \in (-1..MaxExpiry) \cup {None}
    <3>1. tokens[t].expires \in (-1..MaxExpiry) \cup {None}
      BY <2>1 DEF Token
    <3> HIDE DEF TypeOK, Tick
    <3> QED
      BY <3>1 DEF Later
  <2>3. Sooner(tokens[t]) = [tokens[t] EXCEPT !.expires = Later(tokens[t].expires)]
    BY DEF Sooner
  <2> HIDE DEF TypeOK, Tick
  <2> QED
    BY <2>1, <2>2, <2>3 DEF Token
<1>2. activations' \subseteq Activation
  <2> SUFFICES ASSUME NEW a \in activations PROVE Sooner(a) \in Activation
    OBVIOUS
  <2>1. a \in Activation
    OBVIOUS
  <2>2. Later(a.expires) \in -1..Window
    BY <2>1, LaterBounds DEF Activation
  <2> HIDE DEF TypeOK, Tick
  <2> QED
    BY <2>1, <2>2 DEF Sooner, Activation
<1>3. user' \in [Users -> UserRequest \cup {None}]
  <2> SUFFICES ASSUME NEW u \in Users, user[u] # None PROVE Sooner(user[u]) \in UserRequest
    OBVIOUS
  <2>1. user[u] \in UserRequest
    OBVIOUS
  <2>2. Later(user[u].expires) \in -1..Window
    BY <2>1, LaterBounds DEF UserRequest
  <2> HIDE DEF TypeOK, Tick
  <2> QED
    BY <2>1, <2>2 DEF Sooner, UserRequest
<1>4. editing' \in [request: {"token"}, id: Tokens, expires: -1..MaxExpiry]
                     \cup [request: {"config"}, port: Ports] \cup {None}
  <2>1. CASE editing # None /\ editing.request = "token"
    <3>1. editing \in [request: {"token"}, id: Tokens, expires: -1..MaxExpiry]
      BY <2>1
    <3>2. Later(editing.expires) \in -1..MaxExpiry
      BY <3>1, LaterBounds
    <3>3. editing' = [editing EXCEPT !.expires = Later(@)]
      BY <2>1 DEF Sooner
    <3> HIDE DEF TypeOK, Tick
    <3> QED
      BY <3>1, <3>2, <3>3
  <2>2. CASE ~(editing # None /\ editing.request = "token")
    BY <2>2
  <2> QED
    BY <2>1, <2>2
<1>5. grace' \in [Tokens \X Ports -> -1..Window]
  BY LaterBounds
<1> QED
  BY <1>1, <1>2, <1>3, <1>4, <1>5 DEF ProgramType

LEMMA StepType == TypeOK /\ [Next]_vars => TypeOK'
<1> SUFFICES ASSUME TypeOK, [Next]_vars PROVE TypeOK'
  OBVIOUS
<1>1. CASE Step /\ Allot /\ Observe
  <2>1. ProgramType'
    BY <1>1, UserType, CheckType, AdminType DEF Step
  <2> QED
    BY <1>1, <2>1, ObserveType, AllotType DEF ProgramType, TypeOK
<1>2. CASE Tick /\ Observe
  <2>1. ProgramType' /\ grace' \in [Tokens \X Ports -> -1..Window]
    BY <1>2, TickType
  <2> QED
    BY <1>2, <2>1, ObserveType DEF ProgramType, TypeOK
<1>3. CASE UNCHANGED vars
  BY <1>3 DEF vars, admin, history, TypeOK
<1> QED
  BY <1>1, <1>2, <1>3 DEF Next

\* A check at work has seen the present moment, and forgets nothing.
LEMMA Observed == ASSUME TypeOK, Observe, NEW c \in Checks, check'[c] # None
                  PROVE  /\ Mode(check[c].port)' \in seen'[c]
                         /\ Policy(check[c].ip, check[c].port)' => "allowed" \in seen'[c]
                         /\ seen[c] \subseteq seen'[c]
  BY DEF TypeOK, Observe

\* The steps of one check leave the others, and every table but activations.
LEMMA CheckAlone ==
    ASSUME TypeOK, NEW c \in Checks, Ask(c) \/ CheckStep(c)
    PROVE  /\ UNCHANGED <<config, allow>>
           /\ \A d \in Checks \ {c} : check'[d] = check[d]
<1> USE DEF TypeOK, Continue, Answer, Refuse, admin
<1>1. CASE Ask(c)
  BY <1>1 DEF Ask
<1>2. CASE ReadListMode(c)
  BY <1>2 DEF ReadListMode
<1>3. CASE ReadList(c) \/ CleanBeforeCount(c) \/ Count(c) \/ Reply(c)
  BY <1>3 DEF ReadList, CleanBeforeCount, Count, Reply
<1> QED
  BY <1>1, <1>2, <1>3 DEF CheckStep

\* Where a check stands after a step of its own, and why.
LEMMA CheckMoves ==
    ASSUME TypeOK, NEW c \in Checks, Ask(c) \/ CheckStep(c)
    PROVE  LET p == check[c].port
               same == check'[c].port = p /\ check'[c].ip = check[c].ip
           IN  \/ check'[c] = None
               \/ At(c, "unread")'
               \/ At(c, "mode")' /\ Mode(check'[c].port) = "ip"
               \/ At(c, "clean")' /\ Mode(check'[c].port) = "token"
               \/ At(c, "allowed")' /\ Mode(check'[c].port) = "open"
               \/ same /\ At(c, "mode") /\ At(c, "list")' /\ config[p] # None
                       /\ check'[c].list = config[p].list
               \/ same /\ At(c, "list") /\ At(c, "allowed")'
                       /\ Passes(check[c].list, check[c].ip, p)
               \/ same /\ At(c, "clean") /\ At(c, "count")'
               \/ same /\ At(c, "count") /\ At(c, "allowed")' /\ Live(check[c].ip, p)
<1> USE DEF TypeOK, At, Continue, Answer, Refuse, CheckRequest
<1>1. CASE Ask(c)
  BY <1>1 DEF Ask
<1>2. CASE ReadListMode(c)
  BY <1>2 DEF ReadListMode
<1>3. CASE ReadList(c)
  BY <1>3 DEF ReadList
<1>4. CASE CleanBeforeCount(c)
  BY <1>4 DEF CleanBeforeCount
<1>5. CASE Count(c)
  BY <1>5 DEF Count
<1>6. CASE Reply(c)
  BY <1>6 DEF Reply
<1> QED
  BY <1>1, <1>2, <1>3, <1>4, <1>5, <1>6 DEF CheckStep

\* A step allots at least what it had: the window where the token is good now.
LEMMA AllotGrows == TypeOK /\ Allot =>
                      \A tp \in Tokens \X Ports : grace'[tp] \in {grace[tp], Window}
  BY DEF TypeOK, Allot

\* An instruction of the program leaves every activation within its window.
LEMMA StepWithin == IInv /\ Step /\ Allot => EndsWithinWindow' /\ PendingWithinWindow'
<1> SUFFICES ASSUME IInv, Step, Allot PROVE EndsWithinWindow' /\ PendingWithinWindow'
  OBVIOUS
<1> USE DEF IInv
<1>1. \A t \in Tokens, p \in Ports :
        \A x \in -1..Window : x <= grace[<<t, p>>] => x <= grace'[<<t, p>>]
  BY AllotGrows DEF TypeOK
<1>2. ASSUME UNCHANGED user, activations' \subseteq activations
      PROVE  EndsWithinWindow' /\ PendingWithinWindow'
  BY <1>1, <1>2 DEF TypeOK, EndsWithinWindow, PendingWithinWindow, Activation, UserRequest
<1>3. ASSUME NEW u \in Users, Activate(u)
      PROVE  EndsWithinWindow' /\ PendingWithinWindow'
  <2>1. UNCHANGED activations /\ \A v \in Users \ {u} : user'[v] = user[v]
    BY <1>3 DEF Activate, TypeOK
  <2>2. user'[u] = None \/ user'[u].step # "insert"
    BY <1>3 DEF Activate, TypeOK, UserRequest
  <2> QED
    BY <1>1, <2>1, <2>2 DEF TypeOK, EndsWithinWindow, PendingWithinWindow, Activation, UserRequest
<1>4. ASSUME NEW u \in Users, CheckPermission(u)
      PROVE  EndsWithinWindow' /\ PendingWithinWindow'
  <2>1. UNCHANGED activations /\ \A v \in Users \ {u} : user'[v] = user[v]
    BY <1>4 DEF CheckPermission, TypeOK
  <2>2. user'[u] # None => /\ user'[u].token = user[u].token /\ user'[u].port = user[u].port
                           /\ user'[u].expires = Window
                           /\ Permitted(user[u].token, user[u].port)
    BY <1>4 DEF CheckPermission, TypeOK, UserRequest
  <2>3. user[u].token \in Tokens /\ user[u].port \in Ports
    BY <1>4 DEF CheckPermission, TypeOK, UserRequest
  <2>4. \A t \in Tokens, p \in Ports : Permitted(t, p) => Permitted(t, p)'
    BY <1>4 DEF CheckPermission, Permitted, Exists, admin
  <2>5. user'[u] # None => grace'[<<user'[u].token, user'[u].port>>] = Window
    BY <2>2, <2>3, <2>4 DEF Allot
  <2>6. EndsWithinWindow'
    BY <1>1, <2>1 DEF TypeOK, EndsWithinWindow, Activation
  <2>7. ASSUME NEW v \in Users, user'[v] # None, user'[v].step = "insert"
        PROVE  user'[v].expires <= grace'[<<user'[v].token, user'[v].port>>]
    <3>1. CASE v = u
      BY <3>1, <2>2, <2>5, <2>7
    <3>2. CASE v # u
      <4>1. user'[v] = user[v] /\ user[v] \in UserRequest
        BY <2>1, <2>7, <3>2 DEF TypeOK
      <4> QED
        BY <1>1, <2>7, <4>1 DEF PendingWithinWindow, UserRequest
    <3> QED
      BY <3>1, <3>2
  <2> QED
    BY <2>6, <2>7 DEF PendingWithinWindow
<1>5. ASSUME NEW u \in Users, AddActivation(u)
      PROVE  EndsWithinWindow' /\ PendingWithinWindow'
  BY <1>1, <1>5
     DEF AddActivation, TypeOK, EndsWithinWindow, PendingWithinWindow, Activation, UserRequest
<1>6. ASSUME NEW c \in Checks, Ask(c) \/ CheckStep(c)
      PROVE  EndsWithinWindow' /\ PendingWithinWindow'
  <2>1. UNCHANGED user /\ activations' \subseteq activations
    BY <1>6 DEF Ask, CheckStep, ReadListMode, ReadList, CleanBeforeCount, Count, Reply
  <2> QED
    BY <1>2, <2>1
<1>7. CASE Admin \/ CleanExpiredWhitelist
  <2>1. UNCHANGED user /\ activations' \subseteq activations
    BY <1>7 DEF Admin, Others, CreateToken, UpdateActive, UpdateExpiry, DeleteToken,
                AddPortPermission, RemovePortPermission, RemovePortPermissionByTokenPort,
                SetPortConfig, SetPortIPListMode, FindPortConfig, DeletePortConfig,
                AddPortIPAllow, RemovePortIPAllow, CleanExpiredWhitelist
  <2> QED
    BY <1>2, <2>1
<1> QED
  BY <1>3, <1>4, <1>5, <1>6, <1>7 DEF Step, UserStep

\* So does the passage of time.
LEMMA TickWithin == IInv /\ Tick => EndsWithinWindow' /\ PendingWithinWindow'
<1> SUFFICES ASSUME IInv, Tick PROVE EndsWithinWindow' /\ PendingWithinWindow'
  OBVIOUS
<1>1. ASSUME NEW t \in Tokens, NEW p \in Ports, NEW x \in -1..Window, x <= grace[<<t, p>>]
      PROVE  Later(x) <= grace'[<<t, p>>]
  <2>1. grace[<<t, p>>] \in -1..Window
    BY DEF IInv, TypeOK
  <2>2. grace'[<<t, p>>] \in {Window, Later(grace[<<t, p>>])}
    BY DEF Tick
  <2> QED
    BY <1>1, <2>1, <2>2, LaterMonotone
<1>2. EndsWithinWindow'
  <2> SUFFICES ASSUME NEW a \in activations
               PROVE  Sooner(a).expires <= grace'[<<Sooner(a).token, Sooner(a).port>>]
    BY DEF Tick, EndsWithinWindow
  <2>1. /\ a.token \in Tokens /\ a.port \in Ports /\ a.expires \in -1..Window
        /\ a.expires <= grace[<<a.token, a.port>>]
    BY DEF IInv, TypeOK, Activation, EndsWithinWindow
  <2>2. /\ Sooner(a).expires = Later(a.expires)
        /\ Sooner(a).token = a.token /\ Sooner(a).port = a.port
    BY DEF IInv, TypeOK, Activation, Sooner
  <2> QED
    BY <1>1, <2>1, <2>2
<1>3. PendingWithinWindow'
  <2> SUFFICES ASSUME NEW u \in Users, user'[u] # None, user'[u].step = "insert"
               PROVE  user'[u].expires <= grace'[<<user'[u].token, user'[u].port>>]
    BY DEF PendingWithinWindow
  <2>1. user[u] # None /\ user'[u] = Sooner(user[u])
    BY DEF Tick
  <2>2. /\ user[u].token \in Tokens /\ user[u].port \in Ports /\ user[u].expires \in -1..Window
        /\ user'[u].expires = Later(user[u].expires) /\ user'[u].step = user[u].step
        /\ user'[u].token = user[u].token /\ user'[u].port = user[u].port
    BY <2>1 DEF IInv, TypeOK, UserRequest, Sooner
  <2> QED
    BY <1>1, <2>1, <2>2 DEF IInv, PendingWithinWindow
<1> QED
  BY <1>2, <1>3

LEMMA NextInv == IInv /\ [Next]_vars => IInv'
<1> SUFFICES ASSUME IInv, [Next]_vars PROVE IInv'
  OBVIOUS
<1>1. TypeOK'
  BY StepType DEF IInv
<1>2. CASE Next
  BY <1>1, <1>2, StepWithin, TickWithin DEF Next, IInv
<1>3. CASE UNCHANGED vars
  BY <1>1, <1>3 DEF vars, admin, history, IInv, EndsWithinWindow, PendingWithinWindow
<1> QED
  BY <1>2, <1>3

\* The inductive invariant holds: whatever an activation request has read still
\* justifies the activation it will make.
THEOREM Inductive == Spec => []IInv
  BY InitInv, NextInv, PTL DEF Spec

\* Every variable of the port authorization stays in its domain.
THEOREM TypeCorrect == Spec => []TypeOK
<1>1. IInv => TypeOK
  BY DEF IInv
<1> QED
  BY Inductive, <1>1, PTL

\* No activation outlives, by more than the window, the last moment at which its
\* token was enabled, unexpired and permitted on its port.
THEOREM ActivationsEnd == Spec => []EndsWithinWindow
<1>1. IInv => EndsWithinWindow
  BY DEF IInv
<1> QED
  BY Inductive, <1>1, PTL

-----------------------------------------------------------------------------
(* The verdicts of AuthCheck.  Either the policy has allowed the address by   *)
(* now, or what the check has read is still what the tables say.              *)

\* A configuration with a mode has a row.
LEMMA ModeRow ==
    ASSUME TypeOK, NEW p \in Ports
    PROVE  /\ Mode(p) \in {"open", "token", "ip"}
           /\ config[p] # None => /\ config[p] \in PortConfig
                                 /\ Mode(p) = config[p].mode
  BY DEF TypeOK, Mode, PortConfig

LEMMA PresentStep == TypeOK /\ Observe => PresentSeen'
  BY Observed DEF PresentSeen

\* A check at "list" that no step of its own moves: if the list mode it has read
\* is no longer in force, the policy has allowed its address in between.
LEMMA PassedBy ==
    ASSUME CheckInv, TypeOK', Observe, NEW c \in Checks, At(c, "list"),
           check'[c] = check[c], UNCHANGED config \/ UNCHANGED allow,
           "allowed" \notin seen'[c], ~Mixed(c)'
    PROVE  Mode(check[c].port)' = "ip" /\ config'[check[c].port].list = check[c].list
<1> DEFINE p == check[c].port
           ip == check[c].ip
<1>1. /\ check[c] # None /\ check'[c] # None /\ check[c] \in CheckRequest
      /\ p \in Ports /\ ip \in IPs
  BY DEF At, CheckInv, TypeOK, CheckRequest
<1>2. seen[c] \subseteq seen'[c] /\ Mode(check[c].port)' \in seen'[c]
      /\ ~Policy(check[c].ip, check[c].port)'
  BY <1>1, Observed DEF CheckInv
<1>3. "ip" \in seen[c] /\ Mode(p) = "ip" /\ config[p].list = check[c].list /\ ~Policy(ip, p)
  BY <1>1, <1>2 DEF CheckInv, PathSeen, PresentSeen, Mixed
<1>4. Mode(check[c].port)' = "ip"
  <2>1. Mode(check[c].port)' \in {"open", "token", "ip"}
    BY <1>1 DEF TypeOK, Mode, PortConfig
  <2> QED
    BY <1>2, <1>3, <2>1 DEF Mixed, Policy
<1>5. config[p].list \in {"whitelist", "blacklist"} /\ config'[p].list \in {"whitelist", "blacklist"}
  BY <1>1, <1>3, <1>4 DEF CheckInv, TypeOK, Mode, PortConfig
<1>6. ~Passes(config[p].list, ip, p) /\ ~Passes(config[p].list, ip, p)'
  BY <1>2, <1>3, <1>4 DEF Policy
<1>7. CASE UNCHANGED allow
  BY <1>3, <1>4, <1>5, <1>6, <1>7 DEF Passes
<1>8. CASE UNCHANGED config
  BY <1>3, <1>4, <1>8
<1> QED
  BY <1>7, <1>8

\* The part of the invariant that is about one check.
Justified(c) == /\ At(c, "mode") \/ At(c, "list") => "ip" \in seen[c]
                /\ At(c, "clean") \/ At(c, "count") => "token" \in seen[c]
                /\ At(c, "list") => \/ "allowed" \in seen[c] \/ Mixed(c)
                                    \/ /\ Mode(check[c].port) = "ip"
                                       /\ config[check[c].port].list = check[c].list
                /\ At(c, "allowed") => "allowed" \in seen[c] \/ Mixed(c)

\* A step of another actor.
LEMMA OthersJustified ==
    ASSUME CheckInv, TypeOK', Observe, NEW c \in Checks, check'[c] = check[c],
           UNCHANGED config \/ UNCHANGED allow
    PROVE  Justified(c)'
<1>1. CASE check[c] = None
  BY <1>1 DEF Justified, At
<1>2. CASE check[c] # None
  <2>1. seen[c] \subseteq seen'[c] /\ Justified(c)
    BY <1>2, Observed DEF CheckInv, Justified, PathSeen, VerdictJustified
  <2>2. \A s : At(c, s)' <=> At(c, s)
    BY DEF At
  <2>3. Mixed(c) => Mixed(c)'
    BY <2>1 DEF Mixed
  <2>4. At(c, "list") => \/ "allowed" \in seen'[c] \/ Mixed(c)'
                         \/ /\ Mode(check[c].port)' = "ip"
                            /\ config'[check[c].port].list = check[c].list
    BY PassedBy
  <2>5. check'[c].port = check[c].port
    OBVIOUS
  <2> QED
    BY <2>1, <2>2, <2>3, <2>4, <2>5 DEF Justified
<1> QED
  BY <1>1, <1>2

\* A step of the check itself.
LEMMA OwnJustified ==
    ASSUME CheckInv, TypeOK', Observe, NEW c \in Checks, Ask(c) \/ CheckStep(c)
    PROVE  Justified(c)'
<1> DEFINE p == check[c].port
           ip == check[c].ip
           same == check'[c].port = p /\ check'[c].ip = ip
<1>0. TypeOK /\ UNCHANGED <<config, allow>> /\ Justified(c)
  BY CheckAlone DEF CheckInv, Justified, PathSeen, VerdictJustified
<1>1. CASE check'[c] = None
  BY <1>1 DEF Justified, At
<1>2. ASSUME check'[c] # None, check[c] # None, same
      PROVE  /\ seen[c] \subseteq seen'[c] /\ Mode(p) \in seen'[c]
             /\ Policy(ip, p) => "allowed" \in seen[c]
             /\ p \in Ports
  <2>1. seen[c] \subseteq seen'[c] /\ Mode(check[c].port)' \in seen'[c]
    BY <1>0, <1>2, Observed
  <2>2. Mode(check[c].port)' = Mode(p)
    BY <1>0, <1>2 DEF Mode
  <2>3. p \in Ports
    BY <1>0, <1>2 DEF TypeOK, CheckRequest
  <2> QED
    BY <1>2, <2>1, <2>2, <2>3 DEF CheckInv, PresentSeen
<1>3. ASSUME check'[c] # None
      PROVE  /\ Mode(check'[c].port) \in seen'[c]
             /\ Mode(check'[c].port) = "open" => "allowed" \in seen'[c]
  <2>1. /\ Mode(check[c].port)' \in seen'[c]
        /\ Policy(check[c].ip, check[c].port)' => "allowed" \in seen'[c]
    BY <1>0, <1>3, Observed
  <2>2. Mode(check[c].port)' = Mode(check'[c].port)
    BY <1>0 DEF Mode
  <2> QED
    BY <2>1, <2>2 DEF Policy
<1>9. CASE At(c, "unread")'
  BY <1>9 DEF Justified, At
<1>4. CASE \/ At(c, "mode")' /\ Mode(check'[c].port) = "ip"
           \/ At(c, "clean")' /\ Mode(check'[c].port) = "token"
           \/ At(c, "allowed")' /\ Mode(check'[c].port) = "open"
  BY <1>3, <1>4 DEF Justified, At
<1>5. CASE same /\ At(c, "mode") /\ At(c, "list")' /\ config[p] # None
           /\ check'[c].list = config[p].list
  <2>1. "ip" \in seen[c] /\ "ip" \in seen'[c] /\ p \in Ports
    BY <1>0, <1>2, <1>5 DEF Justified, At
  <2>2. Mode(check[c].port)' = Mode(p) /\ config'[check'[c].port].list = check'[c].list
    BY <1>0, <1>5 DEF Mode
  <2>3. Mode(p) \in {"open", "token", "ip"}
    BY <1>0, <2>1, ModeRow
  <2>4. CASE Mode(p) = "open"
    BY <1>2, <1>5, <2>1, <2>4 DEF Justified, At, Policy
  <2>5. CASE Mode(p) = "token"
    BY <1>2, <1>5, <2>1, <2>5 DEF Justified, At, Mixed
  <2>6. CASE Mode(p) = "ip"
    BY <1>5, <2>1, <2>2, <2>6 DEF Justified, At
  <2> QED
    BY <2>3, <2>4, <2>5, <2>6
<1>6. CASE same /\ At(c, "list") /\ At(c, "allowed")' /\ Passes(check[c].list, ip, p)
  <2>1. \/ "allowed" \in seen[c] \/ Mixed(c)
        \/ Mode(p) = "ip" /\ config[p].list = check[c].list
    BY <1>0, <1>6 DEF Justified
  <2>2. "allowed" \in seen[c] \/ Mixed(c)
    BY <1>2, <1>6, <2>1 DEF At, Policy
  <2> QED
    BY <1>2, <1>6, <2>2 DEF Justified, At, Mixed
<1>7. CASE same /\ At(c, "clean") /\ At(c, "count")'
  BY <1>0, <1>2, <1>7 DEF Justified, At
<1>8. CASE same /\ At(c, "count") /\ At(c, "allowed")' /\ Live(ip, p)
  <2>1. "token" \in seen[c] /\ Mode(p) \in seen'[c] /\ p \in Ports
    BY <1>0, <1>2, <1>8 DEF Justified, At
  <2>2. Mode(p) \in {"open", "token", "ip"}
    BY <1>0, <2>1, ModeRow
  <2> QED
    BY <1>2, <1>8, <2>1, <2>2 DEF Justified, At, Policy, Mixed
<1> QED
  BY <1>0, <1>1, <1>4, <1>5, <1>6, <1>7, <1>8, <1>9, CheckMoves

LEMMA CheckInvStep == CheckInv /\ [Next]_vars => CheckInv'
<1> SUFFICES ASSUME CheckInv, [Next]_vars PROVE CheckInv'
  OBVIOUS
<1>1. TypeOK'
  BY StepType DEF CheckInv
<1>2. CASE UNCHANGED vars
  BY <1>1, <1>2 DEF vars, admin, history, CheckInv, PresentSeen, PathSeen, VerdictJustified,
                    Mixed, At, Mode, Policy, Passes, Live
<1>3. CASE Next
  <2>1. Observe /\ PresentSeen'
    BY <1>3, PresentStep DEF Next, CheckInv
  <2>2. ASSUME NEW c \in Checks PROVE Justified(c)'
    <3>1. CASE UNCHANGED check /\ (UNCHANGED config \/ UNCHANGED allow)
      BY <1>1, <2>1, <3>1, OthersJustified
    <3>2. ASSUME NEW d \in Checks, Ask(d) \/ CheckStep(d) PROVE Justified(c)'
      <4>1. CASE c = d
        BY <1>1, <2>1, <3>2, <4>1, OwnJustified
      <4>2. CASE c # d
        BY <1>1, <2>1, <3>2, <4>2, CheckAlone, OthersJustified DEF CheckInv
      <4> QED
        BY <4>1, <4>2
    <3>3. CASE \E u \in Users : Activate(u) \/ UserStep(u)
      <4>1. UNCHANGED <<check, config>>
        BY <3>3 DEF admin, Activate, UserStep, CheckPermission, AddActivation
      <4> QED
        BY <3>1, <4>1
    <3>4. CASE Admin \/ CleanExpiredWhitelist \/ Tick
      <4>1. UNCHANGED check /\ (UNCHANGED config \/ UNCHANGED allow)
        BY <3>4 DEF Admin, Others, CreateToken, UpdateActive, UpdateExpiry, DeleteToken,
                    AddPortPermission, RemovePortPermission, RemovePortPermissionByTokenPort,
                    SetPortConfig, SetPortIPListMode, FindPortConfig, DeletePortConfig,
                    AddPortIPAllow, RemovePortIPAllow, CleanExpiredWhitelist, admin, Tick
      <4> QED
        BY <3>1, <4>1
    <3> QED
      BY <1>3, <3>2, <3>3, <3>4 DEF Next, Step
  <2>3. (PathSeen /\ VerdictJustified)'
    BY <2>2 DEF PathSeen, VerdictJustified, Justified
  <2> QED
    BY <1>1, <2>1, <2>3 DEF CheckInv
<1> QED
  BY <1>2, <1>3

LEMMA CheckInvInit == Init => CheckInv
<1> SUFFICES ASSUME Init PROVE CheckInv
  OBVIOUS
<1>1. TypeOK
  BY InitInv DEF IInv
<1>2. PresentSeen /\ PathSeen /\ VerdictJustified
  BY DEF Init, PresentSeen, PathSeen, VerdictJustified, At
<1> QED
  BY <1>1, <1>2 DEF CheckInv

\* Whoever AuthCheck lets through was allowed by the policy of the port at some
\* moment of the check, or met a port that was moved between tokens and
\* addresses meanwhile, with any number of checks, addresses and edits beside it.
THEOREM ChecksAreJustified == Spec => []VerdictJustified
<1>1. CheckInv => VerdictJustified
  BY DEF CheckInv
<1> QED
  BY CheckInvInit, CheckInvStep, <1>1, PTL DEF Spec

=============================================================================
