----------------------------- MODULE PortAuth ------------------------------
(* Who may connect to a public port: handlers/user.go and the token, port and *)
(* whitelist tables of database/db.go, with the administrator's requests of   *)
(* handlers/admin.go and the cleaner of main.go running in between.           *)
(*                                                                            *)
(* A step is one SQL statement.  Times are kept relative to now: an instant   *)
(* is how many ticks ahead it lies, negative once it has passed, and Tick     *)
(* brings every instant nearer.  A token's value is its id.  time.Now() is    *)
(* taken with the statement beside it.  A statement of the administrator or   *)
(* of the cleaner that fails is one that is not sent.                         *)
EXTENDS Integers

CONSTANTS
    Tokens,     \* token ids
    Ports,      \* public ports
    IPs,        \* client addresses
    Users,      \* concurrent UserActivate requests
    Checks,     \* concurrent AuthCheck requests
    None,       \* no row, no expiry, no request
    Gone,       \* the row of a deleted token: ids are not used again
    Window,     \* ticks an activation lasts (5 minutes)
    MaxExpiry,  \* bound: ticks ahead a token can be set to expire
    MaxPerms,   \* bound: port_permissions rows of one token and port
    ZoneSkew,   \* ticks by which local time runs ahead of UTC
    DbMayFail,  \* may a statement of UserActivate or AuthCheck fail
    AuthModes   \* the modes the administrator sets

ASSUME WindowAssumption == Window \in Nat \ {0}
ASSUME BoundsAssumption == /\ MaxExpiry \in Nat /\ MaxPerms \in Nat \ {0}
                           /\ ZoneSkew \in Nat /\ DbMayFail \in BOOLEAN
                           /\ AuthModes \subseteq {"open", "token", "ip"}
ASSUME NoneAssumption == None \notin Int /\ Gone # None

VARIABLES
    tokens,       \* tokens: the row of each id, None before and Gone after it
    perms,        \* port_permissions: the number of rows of a token and port
    config,       \* port_config: the row of each port, or None
    allow,        \* port_ip_allowlist
    activations,  \* ip_whitelist
    editing,      \* what is left to do of an administrator's request, or None
    user,         \* UserActivate: each request at work, or None
    check,        \* AuthCheck: each request at work, or None
    seen,         \* history: the port's modes, and "allowed", during each check
    grace         \* history: when the activations of a token and port are over

admin   == <<tokens, perms, config, allow, editing>>
history == <<seen, grace>>
vars    == <<admin, activations, user, check, history>>

Token == [active: BOOLEAN, expires: (-1..MaxExpiry) \cup {None}]
PortConfig == [mode: {"open", "token", "ip"}, list: {"whitelist", "blacklist"}]
Activation == [token: Tokens, ip: IPs, port: Ports, expires: -1..Window]
UserRequest == [step: {"permission", "insert"}, token: Tokens, ip: IPs,
                port: Ports, expires: -1..Window]
CheckRequest == [step: {"mode", "list", "clean", "count", "allowed", "unread"},
                 ip: IPs, port: Ports, list: {"whitelist", "blacklist"}]

-----------------------------------------------------------------------------
(* What the tables say at one moment *)

Exists(t) == tokens[t] \notin {None, Gone}

\* `expires_at > now` in SQL compares texts: a token's expiry is written in
\* UTC and now in local time, so the expiry comes ZoneSkew early.
Permitted(t, p) == /\ Exists(t) /\ tokens[t].active /\ perms[<<t, p>>] > 0
                   /\ tokens[t].expires # None => tokens[t].expires - ZoneSkew > 0

Live(ip, p) == \E a \in activations : a.ip = ip /\ a.port = p /\ a.expires > 0

Passes(list, ip, p) == IF list = "blacklist" THEN <<p, ip>> \notin allow
                                             ELSE <<p, ip>> \in allow

\* A port without a row is open to everybody.
Mode(p) == IF config[p] = None THEN "open" ELSE config[p].mode

\* The policy of a port: what AuthCheck would answer if nothing ran beside it.
Policy(ip, p) == \/ Mode(p) = "open"
                 \/ Mode(p) = "ip" /\ Passes(config[p].list, ip, p)
                 \/ Mode(p) = "token" /\ Live(ip, p)

\* An instant that is x ticks ahead, one tick later.
Later(x) == IF x = None \/ x = -1 THEN x ELSE x - 1

Init == /\ tokens = [t \in Tokens |-> None]
        /\ perms = [tp \in Tokens \X Ports |-> 0]
        /\ config = [p \in Ports |-> None]
        /\ allow = {} /\ activations = {}
        /\ editing = None
        /\ user = [u \in Users |-> None]
        /\ check = [c \in Checks |-> None]
        /\ seen = [c \in Checks |-> {}]
        /\ grace = [tp \in Tokens \X Ports |-> -1]

-----------------------------------------------------------------------------
(* UserActivate *)

\* GetTokenByValue, and the tests of the row it read; a refusal changes nothing.
Activate(u) ==
    /\ user[u] = None
    /\ \E t \in Tokens, ip \in IPs, p \in Ports :
          /\ Exists(t) /\ tokens[t].active
          /\ tokens[t].expires # None => tokens[t].expires >= 0
          /\ user' = [user EXCEPT ![u] = [step |-> "permission", token |-> t, ip |-> ip,
                                          port |-> p, expires |-> -1]]
    /\ UNCHANGED <<admin, activations, check>>

\* Deviation: the permission is looked up without the token it belongs to.
PermissionOnly(u) ==
    /\ user[u] # None /\ user[u].step = "permission"
    /\ user' = [user EXCEPT ![u] =
                  IF perms[<<@.token, @.port>>] > 0
                    THEN [@ EXCEPT !.step = "insert", !.expires = Window] ELSE None]
    /\ UNCHANGED <<admin, activations, check>>

\* TokenHasPortPermission, and the expiry of the activation it permits; when
\* the lookup fails, the request is refused as if nothing had been found.
CheckPermission(u) ==
    /\ user[u] # None /\ user[u].step = "permission"
    /\ LET permitted == Permitted(user[u].token, user[u].port) IN
       \/ /\ permitted
          /\ user' = [user EXCEPT ![u].step = "insert", ![u].expires = Window]
       \/ /\ ~permitted \/ DbMayFail
          /\ user' = [user EXCEPT ![u] = None]
    /\ UNCHANGED <<admin, activations, check>>

\* Deviation: the five minutes are counted from the insertion.
AddActivationAfresh(u) ==
    /\ user[u] # None /\ user[u].step = "insert"
    /\ activations' = activations \cup
          {[token |-> user[u].token, ip |-> user[u].ip, port |-> user[u].port,
            expires |-> Window]}
    /\ user' = [user EXCEPT ![u] = None]
    /\ UNCHANGED <<admin, check>>

\* AddIPWhitelist
AddActivation(u) ==
    /\ user[u] # None /\ user[u].step = "insert"
    /\ \/ activations' = activations \cup
             {[token |-> user[u].token, ip |-> user[u].ip, port |-> user[u].port,
               expires |-> user[u].expires]}
       \/ DbMayFail /\ UNCHANGED activations
    /\ user' = [user EXCEPT ![u] = None]
    /\ UNCHANGED <<admin, check>>

-----------------------------------------------------------------------------
(* AuthCheck *)

At(c, step) == check[c] # None /\ check[c].step = step
Continue(c, step) == check' = [check EXCEPT ![c].step = step]
Refuse(c) == check' = [check EXCEPT ![c] = None]

\* A lookup that fails is answered "internal error": the address is not let in.
Answer(c, allowed) == \/ allowed /\ Continue(c, "allowed")
                      \/ (~allowed \/ DbMayFail) /\ Refuse(c)

\* GetPortConfig, and the switch on the mode.  Any error of the lookup is taken
\* for a port without a row.
Ask(c) ==
    /\ check[c] = None
    /\ \E ip \in IPs, p \in Ports, step \in {"allowed", "mode", "clean", "unread"} :
          /\ \/ Mode(p) = "open"  /\ step = "allowed"
             \/ Mode(p) = "ip"    /\ step = "mode"
             \/ Mode(p) = "token" /\ step = "clean"
             \/ DbMayFail         /\ step = "unread"
          /\ check' = [check EXCEPT ![c] = [step |-> step, ip |-> ip, port |-> p,
                                            list |-> "whitelist"]]
    /\ UNCHANGED <<admin, activations, user>>

\* CheckPortIPAccess reads the row again, for its list mode; a row that is
\* gone by now is an error.
ReadListMode(c) ==
    /\ At(c, "mode")
    /\ LET row == config[check[c].port] IN
       \/ (row = None \/ DbMayFail) /\ Refuse(c)
       \/ /\ row # None
          /\ check' = [check EXCEPT ![c].step = "list", ![c].list = row.list]
    /\ UNCHANGED <<admin, activations, user>>

\* Deviation: an address list that is empty restricts nobody.
EmptyListAllows(c) ==
    /\ At(c, "list")
    /\ Answer(c, \/ Passes(check[c].list, check[c].ip, check[c].port)
                 \/ \A ip \in IPs : <<check[c].port, ip>> \notin allow)
    /\ UNCHANGED <<admin, activations, user>>

ReadList(c) ==
    /\ At(c, "list")
    /\ Answer(c, Passes(check[c].list, check[c].ip, check[c].port))
    /\ UNCHANGED <<admin, activations, user>>

\* Deviation: every check of an authorized address extends its activation.
RenewActivation(c) ==
    /\ At(c, "clean")
    /\ activations' = {IF a.ip = check[c].ip /\ a.port = check[c].port
                         THEN [a EXCEPT !.expires = Window] ELSE a :
                           a \in {b \in activations : b.expires >= 0}}
    /\ Continue(c, "count")
    /\ UNCHANGED <<admin, user>>

\* CheckIPAuthorized: DELETE ... WHERE expires_at < now, whose error nobody
\* looks at, then COUNT.
CleanBeforeCount(c) ==
    /\ At(c, "clean")
    /\ \/ activations' = {a \in activations : a.expires >= 0}
       \/ DbMayFail /\ UNCHANGED activations
    /\ Continue(c, "count")
    /\ UNCHANGED <<admin, user>>

Count(c) ==
    /\ At(c, "count")
    /\ Answer(c, Live(check[c].ip, check[c].port))
    /\ UNCHANGED <<admin, activations, user>>

\* The address is let through.
Reply(c) == /\ At(c, "allowed") \/ At(c, "unread")
            /\ check' = [check EXCEPT ![c] = None]
            /\ UNCHANGED <<admin, activations, user>>

-----------------------------------------------------------------------------
(* The administrator *)

Expiries == (1..MaxExpiry) \cup {None}
Others == <<activations, user, check>>

CreateToken == /\ \E t \in Tokens, e \in Expiries :
                     /\ tokens[t] = None
                     /\ tokens' = [tokens EXCEPT ![t] = [active |-> TRUE, expires |-> e]]
               /\ UNCHANGED <<perms, config, allow, editing, Others>>

\* UpdateToken writes one field per statement, is_active before expires_at; an
\* expiry that is not given stays as it was.
UpdateActive == /\ editing = None
                /\ \E t \in Tokens, b \in BOOLEAN, e \in Expiries :
                      /\ Exists(t)
                      /\ tokens' = [tokens EXCEPT ![t].active = b]
                      /\ editing' = IF e = None THEN None
                                    ELSE [request |-> "token", id |-> t, expires |-> e]
                /\ UNCHANGED <<perms, config, allow, Others>>

UpdateExpiry == /\ editing # None /\ editing.request = "token"
                /\ tokens' = IF Exists(editing.id)
                               THEN [tokens EXCEPT ![editing.id].expires = editing.expires]
                               ELSE tokens
                /\ editing' = None
                /\ UNCHANGED <<perms, config, allow, Others>>

\* Only the row of tokens goes: ON DELETE CASCADE is not in force.
DeleteToken == /\ \E t \in Tokens : Exists(t) /\ tokens' = [tokens EXCEPT ![t] = Gone]
               /\ UNCHANGED <<perms, config, allow, editing, Others>>

\* No constraint makes (token_id, port) unique: OR IGNORE ignores nothing.
AddPortPermission == /\ \E t \in Tokens, p \in Ports :
                           /\ Exists(t) /\ perms[<<t, p>>] < MaxPerms
                           /\ perms' = [perms EXCEPT ![<<t, p>>] = @ + 1]
                     /\ UNCHANGED <<tokens, config, allow, editing, Others>>

RemovePortPermission == /\ \E tp \in Tokens \X Ports :
                              /\ perms[tp] > 0
                              /\ perms' = [perms EXCEPT ![tp] = @ - 1]
                        /\ UNCHANGED <<tokens, config, allow, editing, Others>>

RemovePortPermissionByTokenPort ==
    /\ \E tp \in Tokens \X Ports : perms' = [perms EXCEPT ![tp] = 0]
    /\ UNCHANGED <<tokens, config, allow, editing, Others>>

\* Deviation: a list mode that is not given is stored as it is.
SetPortConfigAsGiven ==
    /\ \E p \in Ports, m \in AuthModes, l \in {"", "whitelist", "blacklist"} :
          config' = [config EXCEPT ![p] = [mode |-> m, list |-> l]]
    /\ UNCHANGED <<tokens, perms, allow, editing, Others>>

\* An upsert; a list mode that is not given becomes "whitelist".
SetPortConfig == /\ \E p \in Ports, m \in AuthModes, l \in {"whitelist", "blacklist"} :
                       config' = [config EXCEPT ![p] = [mode |-> m, list |-> l]]
                 /\ UNCHANGED <<tokens, perms, allow, editing, Others>>

SetPortIPListMode == /\ \E p \in Ports, l \in {"whitelist", "blacklist"} :
                           /\ config[p] # None
                           /\ config' = [config EXCEPT ![p].list = l]
                     /\ UNCHANGED <<tokens, perms, allow, editing, Others>>

\* DeletePortConfig looks the id up in a list of all rows, then deletes by port.
FindPortConfig == /\ editing = None
                  /\ \E p \in Ports : /\ config[p] # None
                                      /\ editing' = [request |-> "config", port |-> p]
                  /\ UNCHANGED <<tokens, perms, config, allow, Others>>

DeletePortConfig == /\ editing # None /\ editing.request = "config"
                    /\ config' = [config EXCEPT ![editing.port] = None]
                    /\ editing' = None
                    /\ UNCHANGED <<tokens, perms, allow, Others>>

\* AddPortIPAllow, and each statement of AddPortIPBatch.
AddPortIPAllow == /\ \E p \in Ports, ip \in IPs : allow' = allow \cup {<<p, ip>>}
                  /\ UNCHANGED <<tokens, perms, config, editing, Others>>

RemovePortIPAllow == /\ \E e \in allow : allow' = allow \ {e}
                     /\ UNCHANGED <<tokens, perms, config, editing, Others>>

-----------------------------------------------------------------------------
(* The cleaner and the passage of time *)

CleanExpiredWhitelist == /\ activations' = {a \in activations : a.expires >= 0}
                         /\ UNCHANGED <<admin, user, check>>

Sooner(r) == [r EXCEPT !.expires = Later(@)]

Tick == /\ tokens' = [t \in Tokens |-> IF Exists(t) THEN Sooner(tokens[t]) ELSE tokens[t]]
        /\ activations' = {Sooner(a) : a \in activations}
        /\ user' = [u \in Users |-> IF user[u] = None THEN None ELSE Sooner(user[u])]
        /\ editing' = IF editing # None /\ editing.request = "token"
                        THEN Sooner(editing) ELSE editing
        /\ UNCHANGED <<perms, config, allow, check>>
        /\ grace' = [tp \in Tokens \X Ports |->
                       IF Permitted(tp[1], tp[2])' THEN Window ELSE Later(grace[tp])]

-----------------------------------------------------------------------------
UserStep(u) == CheckPermission(u) \/ AddActivation(u)

CheckStep(c) == \/ ReadListMode(c) \/ ReadList(c)
                \/ CleanBeforeCount(c) \/ Count(c) \/ Reply(c)

Admin == \/ CreateToken \/ UpdateActive \/ UpdateExpiry \/ DeleteToken
         \/ AddPortPermission \/ RemovePortPermission \/ RemovePortPermissionByTokenPort
         \/ SetPortConfig \/ SetPortIPListMode \/ FindPortConfig \/ DeletePortConfig
         \/ AddPortIPAllow \/ RemovePortIPAllow

Step == \/ \E u \in Users : Activate(u) \/ UserStep(u)
        \/ \E c \in Checks : Ask(c) \/ CheckStep(c)
        \/ Admin \/ CleanExpiredWhitelist

\* The modes of the port during each check, and whether its policy allowed the
\* address at some moment of it.
Observe == seen' = [c \in Checks |->
                      IF check'[c] = None THEN {}
                      ELSE seen[c] \cup {Mode(check[c].port)'}
                             \cup {v \in {"allowed"} : Policy(check[c].ip, check[c].port)'}]

\* An activation permitted now is over in Window ticks.
Allot == grace' = [tp \in Tokens \X Ports |->
                     IF Permitted(tp[1], tp[2])' THEN Window ELSE grace[tp]]

Next == ((Step /\ Allot) \/ Tick) /\ Observe

Spec == Init /\ [][Next]_vars

\* Requests at work go on, the cleaner, which runs every minute, does not fail
\* for ever, and time passes.
Fairness == /\ \A u \in Users : WF_user(UserStep(u))
            /\ WF_activations(CleanExpiredWhitelist)
            /\ WF_vars(Tick /\ Observe)

FairSpec == Spec /\ Fairness

-----------------------------------------------------------------------------
(* Properties *)

\* Every variable stays in its domain.
TypeOK == /\ tokens \in [Tokens -> Token \cup {None, Gone}]
          /\ perms \in [Tokens \X Ports -> 0..MaxPerms]
          /\ config \in [Ports -> PortConfig \cup {None}]
          /\ allow \subseteq Ports \X IPs
          /\ activations \subseteq Activation
          /\ editing \in [request: {"token"}, id: Tokens, expires: -1..MaxExpiry]
                           \cup [request: {"config"}, port: Ports] \cup {None}
          /\ user \in [Users -> UserRequest \cup {None}]
          /\ check \in [Checks -> CheckRequest \cup {None}]
          /\ seen \in [Checks -> SUBSET {"open", "token", "ip", "allowed"}]
          /\ grace \in [Tokens \X Ports -> -1..Window]

\* An activation ends within five minutes of the last moment at which its token
\* was enabled, unexpired and permitted on its port, even when the token is
\* disabled, deleted or stripped of the port in the middle of UserActivate.
EndsWithinWindow == \A a \in activations : a.expires <= grace[<<a.token, a.port>>]

\* The inductive invariant behind it: an activation on its way to the table is
\* bound by the same moment.
PendingWithinWindow ==
    \A u \in Users : (user[u] # None /\ user[u].step = "insert") =>
                        user[u].expires <= grace[<<user[u].token, user[u].port>>]
IInv == TypeOK /\ EndsWithinWindow /\ PendingWithinWindow

\* An address that is let through was allowed by the port's policy at some
\* moment of the check, although AuthCheck reads the tables several times and
\* the administrator, the cleaner and other checks write them in between, and
\* any statement may fail.  There are two exceptions: a port moved between tokens
\* and addresses during the check, which is answered by a mixture of the two
\* configurations, and a check whose lookup of the port failed ("unread"), which
\* is let through whatever the configuration says.
Mixed(c) == {"token", "ip"} \subseteq seen[c]
VerdictJustified ==
    \A c \in Checks : At(c, "allowed") => "allowed" \in seen[c] \/ Mixed(c)

\* What makes it inductive: the present moment is among those seen, a check is
\* on the path of a mode it has seen, and the list mode it has read is the
\* present one as long as the policy has allowed nothing.
PresentSeen ==
    \A c \in Checks : check[c] # None =>
        /\ Mode(check[c].port) \in seen[c]
        /\ Policy(check[c].ip, check[c].port) => "allowed" \in seen[c]
PathSeen ==
    \A c \in Checks :
        /\ At(c, "mode") \/ At(c, "list") => "ip" \in seen[c]
        /\ At(c, "clean") \/ At(c, "count") => "token" \in seen[c]
        /\ At(c, "list") => \/ "allowed" \in seen[c] \/ Mixed(c)
                            \/ /\ Mode(check[c].port) = "ip"
                               /\ config[check[c].port].list = check[c].list
CheckInv == TypeOK /\ PresentSeen /\ PathSeen /\ VerdictJustified

\* USER_GUIDE.md:391, "token does not have permission for this port" means that
\* the token does not have the port: where no statement fails, it is said of no
\* token that is enabled, unexpired and permitted on the port.
RefusedForCause ==
    [][\A u \in Users :
          (user[u] # None /\ user[u].step = "permission" /\ user'[u] = None) =>
              LET t == user[u].token
              IN  \/ ~Exists(t) \/ ~tokens[t].active \/ perms[<<t, user[u].port>>] = 0
                  \/ tokens[t].expires # None /\ tokens[t].expires <= 0]_vars

\* Once a token stays unpermitted on a port, its activations there run out and
\* are deleted, although nothing deletes them with the token or its permission.
RevocationTakesEffect ==
    \A t \in Tokens, p \in Ports :
        <>[](~Permitted(t, p)) =>
            <>[](\A a \in activations : ~(a.token = t /\ a.port = p))
=============================================================================
