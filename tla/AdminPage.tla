----------------------------- MODULE AdminPage ------------------------------
(* The administrator's page, the script of indexHTML in main.go, with the     *)
(* server of Sessions: how a login is kept, refreshed and ended.              *)
(*                                                                            *)
(* A handler of the page runs to its end as one step.  loadAll()'s requests   *)
(* are one "data" request, sent from the slot of the answer that causes it.   *)
(* localStorage holds what sessionToken holds: every handler writes both.     *)
EXTENDS Sessions, FiniteSets

CONSTANTS
    MaxFaults,  \* bound: requests or answers lost, and restarts
    MaxLoads    \* bound: times the page is loaded again

ASSUME SlotsAssumption == Requests \subseteq Nat
ASSUME PageBoundsAssumption == MaxFaults \in Nat /\ MaxLoads \in Nat

VARIABLES
    page,     \* what is shown: "login" or "app"
    token,    \* sessionToken, None when empty
    timer,    \* refreshTimer is set
    orphans,  \* requests of an earlier load, whose answers reach no one
    faults, loads,  \* how often they happened
    left      \* history: the sessions left by a click on logout

browser == <<page, token, timer>>
vars == <<server, browser, orphans, faults, loads, left>>

Init == /\ ServerInit
        /\ page = "login" /\ token = None /\ timer = FALSE
        /\ orphans = {} /\ faults = 0 /\ loads = 0 /\ left = {}

-----------------------------------------------------------------------------
(* What handlers do *)

\* The lowest free slot.
Slot(r) == request[r] = None /\ \A q \in Requests : request[q] = None => r <= q

ShowApp(r, s) == /\ Send(r, "data", s)
                 /\ page' = "app" /\ token' = s /\ timer' = TRUE

\* Deviation: the token is forgotten before its logout is sent.
ForgetThenLogout(r) == /\ Send(r, "logout", None)
                       /\ page' = "login" /\ token' = None /\ timer' = FALSE

DoLogout(r) == /\ Send(r, "logout", token)
               /\ page' = "login" /\ token' = None /\ timer' = FALSE

-----------------------------------------------------------------------------
(* The user *)

\* The user waits for the answer of a login before trying again.
Login == /\ page = "login" /\ ~\E r \in Requests \ orphans : Of(r, {"login"})
         /\ \E r \in Requests : Slot(r) /\ Send(r, "login", None)
         /\ UNCHANGED <<adminSessions, browser, orphans, faults, loads, left>>

ClickLogout == /\ page = "app"
               /\ \E r \in Requests : Slot(r) /\ DoLogout(r)
               /\ left' = left \cup ({token} \ {None})
               /\ UNCHANGED <<adminSessions, orphans, faults, loads>>

\* The page is loaded again, and calls initSession() twice.  The requests that
\* can still change the map go on; the others end with the page.
Load == /\ loads < MaxLoads /\ loads' = loads + 1
        /\ page' = "login" /\ timer' = FALSE
        /\ orphans' = {r \in Requests : Of(r, {"login", "logout"}) /\ ~Answered(r)}
        /\ \E checks \in SUBSET (Requests \ orphans') :
              /\ Cardinality(checks) = IF token = None THEN 0 ELSE 2
              /\ \A r \in checks, q \in Requests \ (orphans' \cup checks) : r < q
              /\ request' = [r \in Requests |-> IF r \in orphans' THEN request[r]
                                                ELSE IF r \in checks THEN Entry("check", token, -1, "sent")
                                                ELSE None]
        /\ UNCHANGED <<adminSessions, token, faults, left>>

-----------------------------------------------------------------------------
(* The timer and the answers *)

Refresh == /\ timer
           /\ \E r \in Requests : Slot(r) /\ Send(r, "data", token)
           /\ UNCHANGED <<adminSessions, browser, orphans, faults, loads, left>>

Expected(r, kinds) == Answered(r) /\ r \notin orphans /\ Of(r, kinds)

\* Deviation: a session that was kept is not refreshed.
ShowWithoutTimer(r) == /\ Expected(r, {"check"})
                       /\ Send(r, "data", token)
                       /\ page' = "app"
                       /\ UNCHANGED <<token, timer>>

\* initSession: the text "false" of an invalid session is as true as true.
CheckAnswer(r) == Expected(r, {"check"}) /\ ShowApp(r, token)

LoginAnswer(r) == /\ Expected(r, {"login"})
                  /\ IF At(r, "done") THEN ShowApp(r, request[r].token)
                                      ELSE Free(r) /\ UNCHANGED browser

\* api(): a 401 logs out, be it the answer of a logout.
ApiAnswer(r) == /\ Expected(r, {"data", "logout"})
                /\ IF At(r, "refused") THEN DoLogout(r) ELSE Free(r) /\ UNCHANGED browser

Answer(r) == /\ CheckAnswer(r) \/ LoginAnswer(r) \/ ApiAnswer(r)
             /\ UNCHANGED <<adminSessions, orphans, faults, loads, left>>

OrphanAnswer(r) == /\ r \in orphans /\ Answered(r)
                   /\ Free(r) /\ orphans' = orphans \ {r}
                   /\ UNCHANGED <<adminSessions, browser, faults, loads, left>>

-----------------------------------------------------------------------------
(* Faults *)

\* A logout that is lost was never heard of by the server.
Lose == /\ faults < MaxFaults /\ faults' = faults + 1
        /\ \E r \in Requests :
              /\ request[r] # None
              /\ Free(r) /\ orphans' = orphans \ {r}
              /\ left' = IF Of(r, {"logout"}) THEN left \ {request[r].token} ELSE left
        /\ UNCHANGED <<adminSessions, browser, loads>>

BackendRestarts == /\ faults < MaxFaults /\ faults' = faults + 1
                   /\ Restart /\ orphans' = {}
                   /\ UNCHANGED <<browser, loads, left>>

-----------------------------------------------------------------------------
ServerStep(A) == A /\ UNCHANGED <<browser, orphans, faults, loads, left>>

Step == \/ Login \/ ClickLogout \/ Load \/ Refresh
        \/ \E r \in Requests : Answer(r) \/ OrphanAnswer(r)
        \/ Lose \/ BackendRestarts
        \/ ServerStep(\E r \in Requests : Handle(r)) \/ ServerStep(Sweep \/ Tick)

Next == Step /\ Observe

Spec == Init /\ [][Next]_vars

\* Requests are handled and answers arrive, the timer fires, the sweeper runs
\* and time passes.
Fairness == /\ \A r \in Requests : /\ WF_request(Handle(r))
                                   /\ WF_vars(Answer(r) /\ Observe)
                                   /\ WF_vars(OrphanAnswer(r) /\ Observe)
            /\ WF_vars(Refresh /\ Observe)
            /\ WF_adminSessions(Sweep) /\ WF_adminSessions(Tick)

FairSpec == Spec /\ Fairness

-----------------------------------------------------------------------------
(* Properties *)

\* Every variable stays in its domain.
TypeOK == /\ ServerTypeOK
          /\ page \in {"login", "app"} /\ token \in Sessions \cup {None}
          /\ timer \in BOOLEAN /\ orphans \subseteq Requests
          /\ faults \in 0..MaxFaults /\ loads \in 0..MaxLoads
          /\ left \subseteq Sessions

\* Once the logout of a session is answered, nobody can use the session, though
\* the page forgets the token in the same breath and may be loaded again, or
\* log in again, before the server hears of it.
LogoutTakesEffect ==
    \A s \in left : Live(s) =>
        \E r \in Requests : Of(r, {"logout"}) /\ request[r].token = s /\ ~Answered(r)

\* What makes it inductive: the page, and the answers to logins on their way to
\* it, hold tokens that were issued, so no login brings an old one back.
HeldIsIssued ==
    /\ \A s \in left \cup {token} : s # None => adminSessions[s] # None
    /\ \A r \in Requests : Of(r, {"login"}) /\ At(r, "done") =>
          request[r].token # None /\ adminSessions[request[r].token] # None
PageInv == TypeOK /\ SessionInv /\ HeldIsIssued /\ LogoutTakesEffect

\* Every session ends, however often it is used.
SessionsEnd ==
    \A s \in Sessions : adminSessions[s] \notin {None, Gone} ~> adminSessions[s] = Gone

\* A page whose session has ended does not stay open, even if requests are lost,
\* the page is loaded again or the backend restarts.
ExpiredPageLeaves ==
    (page = "app" /\ ~Live(token)) ~> (page = "login" \/ Live(token))

\* A live session is given up by a click on logout and by nothing else: no
\* answer that is about an older session ends the one that has replaced it.
NewLoginIsKept ==
    [][(token # None /\ Live(token) /\ token' = None) => token \in left']_vars
=============================================================================
