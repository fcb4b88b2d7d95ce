------------------------------ MODULE Sessions ------------------------------
(* The sessions of the administrators: middleware/auth.go, and the handlers   *)
(* of login, check-session and logout in handlers/admin.go.                   *)
(*                                                                            *)
(* A section under sessionMu is one step.  Expiries are kept relative to now: *)
(* ticks ahead, negative once they have passed.  The map lives in memory, so  *)
(* a restart of the backend ends every session.  "data" is a request to any   *)
(* of the other routes behind AdminAuth.                                      *)
EXTENDS Integers

CONSTANTS
    Sessions,   \* session tokens: never issued twice, the lowest is issued next
    Requests,   \* slots for the requests at work
    None,       \* a token not issued, no Authorization header, a free slot
    Gone,       \* a token that has left the map
    Life        \* ticks a session lasts (24 hours)

ASSUME SessionsAssumption == Sessions \subseteq Nat /\ Life \in Nat \ {0}
ASSUME MarksAssumption == None \notin Int /\ Gone \notin Int /\ Gone # None

VARIABLES
    adminSessions,  \* the map: the expiry of each token, None before, Gone after
    request,        \* the request in each slot
    witness         \* history: whether the token of a request was live meanwhile

server == <<adminSessions, request, witness>>

Kinds == {"check", "login", "logout", "data"}
Request == [kind: Kinds, token: Sessions \cup {None}, expires: -1..Life,
            step: {"sent", "found", "destroy", "done", "refused"}]
ASSUME SlotAssumption == None \notin Request

Live(s) == s # None /\ adminSessions[s] \notin {None, Gone} /\ adminSessions[s] >= 0

At(r, step) == request[r] # None /\ request[r].step = step
Answered(r) == At(r, "done") \/ At(r, "refused")
Of(r, kinds) == request[r] # None /\ request[r].kind \in kinds

Entry(kind, s, e, step) == [kind |-> kind, token |-> s, expires |-> e, step |-> step]
Move(r, step) == request' = [request EXCEPT ![r] = Entry(@.kind, @.token, -1, step)]
Free(r) == request' = [request EXCEPT ![r] = None]
Send(r, kind, s) == request' = [request EXCEPT ![r] = Entry(kind, s, -1, "sent")]

ServerInit == /\ adminSessions = [s \in Sessions |-> None]
              /\ request = [r \in Requests |-> None]
              /\ witness = [r \in Requests |-> {}]

-----------------------------------------------------------------------------
(* Login *)

RefuseLogin(r) == /\ At(r, "sent") /\ Of(r, {"login"})
                  /\ Move(r, "refused")
                  /\ UNCHANGED adminSessions

\* Deviation: a session is made to last longer.
CreateLongSession(r) ==
    /\ At(r, "sent") /\ Of(r, {"login"})
    /\ \E s \in Sessions :
          /\ adminSessions[s] = None
          /\ \A t \in Sessions : adminSessions[t] = None => s <= t
          /\ adminSessions' = [adminSessions EXCEPT ![s] = Life + 1]
          /\ request' = [request EXCEPT ![r] = Entry("login", s, -1, "done")]

CreateSession(r) ==
    /\ At(r, "sent") /\ Of(r, {"login"})
    /\ \E s \in Sessions :
          /\ adminSessions[s] = None
          /\ \A t \in Sessions : adminSessions[t] = None => s <= t
          /\ adminSessions' = [adminSessions EXCEPT ![s] = Life]
          /\ request' = [request EXCEPT ![r] = Entry("login", s, -1, "done")]

-----------------------------------------------------------------------------
(* GetSession, for CheckSession and AdminAuth *)

\* The read under the read lock; a request without a header is refused as well.
Lookup(r) ==
    /\ At(r, "sent") /\ Of(r, {"check", "logout", "data"})
    /\ LET s == request[r].token IN
       IF s = None \/ adminSessions[s] \in {None, Gone}
         THEN Move(r, "refused")
         ELSE request' = [request EXCEPT ![r] =
                            Entry(@.kind, s, adminSessions[s], "found")]
    /\ UNCHANGED adminSessions

Passed(r) == Move(r, IF request[r].kind = "logout" THEN "destroy" ELSE "done")

\* Deviation: the expiry is left to the sweeper.
TestPresence(r) ==
    /\ At(r, "found")
    /\ Passed(r)
    /\ UNCHANGED adminSessions

\* Deviation: a session that is used lives on.
TestAndRenew(r) ==
    /\ At(r, "found")
    /\ IF request[r].expires < 0
         THEN Move(r, "refused") /\ UNCHANGED adminSessions
         ELSE /\ Passed(r)
              /\ adminSessions' = [adminSessions EXCEPT ![request[r].token] =
                                     IF @ = Gone THEN Gone ELSE Life]

\* The copy's expiry is compared with now outside the lock.
TestExpiry(r) ==
    /\ At(r, "found")
    /\ IF request[r].expires < 0 THEN Move(r, "refused") ELSE Passed(r)
    /\ UNCHANGED adminSessions

DestroySession(r) ==
    /\ At(r, "destroy")
    /\ adminSessions' = [adminSessions EXCEPT ![request[r].token] = Gone]
    /\ Move(r, "done")

Handle(r) == \/ RefuseLogin(r) \/ CreateSession(r)
             \/ Lookup(r) \/ TestExpiry(r) \/ DestroySession(r)

-----------------------------------------------------------------------------
(* The sweeper, the passage of time and the life of the backend *)

Ended(s) == adminSessions[s] \notin {None, Gone} /\ adminSessions[s] < 0

Sweep == /\ adminSessions' = [s \in Sessions |-> IF Ended(s) THEN Gone ELSE adminSessions[s]]
         /\ UNCHANGED request

Later(x) == IF x \in {None, Gone, -1} THEN x ELSE x - 1

Tick == /\ adminSessions' = [s \in Sessions |-> Later(adminSessions[s])]
        /\ request' = [r \in Requests |->
                         IF request[r] = None THEN None
                         ELSE Entry(request[r].kind, request[r].token,
                                    Later(request[r].expires), request[r].step)]

Restart == /\ adminSessions' = [s \in Sessions |->
                                  IF adminSessions[s] = None THEN None ELSE Gone]
           /\ request' = [r \in Requests |-> None]

-----------------------------------------------------------------------------
(* The server with any clients *)

\* Clients send requests, take answers and give requests up; a request or its
\* answer may also be lost.
Clients == /\ \A r \in Requests : \/ request'[r] \in {request[r], None}
                                  \/ request'[r] \in Request /\ request'[r].step = "sent"
           /\ request' = [r \in Requests |-> request'[r]]
           /\ UNCHANGED adminSessions

\* Whether the token was live at the moments of a request, from its arrival to
\* its answer.
Observe == witness' = [r \in Requests |->
                         IF request'[r] = None THEN {}
                         ELSE IF request'[r] = request[r] /\ Answered(r) THEN witness[r]
                         ELSE {Live(request[r].token)'}
                                \cup (IF request'[r].step = "sent" THEN {} ELSE witness[r])]

ServerNext == /\ \/ Clients \/ \E r \in Requests : Handle(r)
                 \/ Sweep \/ Tick \/ Restart
              /\ Observe

ServerSpec == ServerInit /\ [][ServerNext]_server

-----------------------------------------------------------------------------
(* Properties *)

ServerTypeOK == /\ adminSessions \in [Sessions -> (-1..Life) \cup {None, Gone}]
                /\ request \in [Requests -> Request \cup {None}]
                /\ witness \in [Requests -> SUBSET BOOLEAN]

\* A request is admitted only if its session was live at some moment between its
\* arrival and the answer, and refused only if it was not, although the session
\* is copied under the lock and its expiry tested after it, with logouts, the
\* sweeper and restarts in between.
AnswerJustified ==
    \A r \in Requests : Of(r, {"check", "logout", "data"}) =>
        /\ At(r, "done") => TRUE \in witness[r]
        /\ At(r, "refused") => FALSE \in witness[r]

\* The strengthening: the copy is younger than the session, never older, and
\* whoever goes on to destroy a session was admitted.
CopyInv ==
    \A r \in Requests :
        /\ At(r, "sent") \/ At(r, "found") =>
              Live(request[r].token) \in witness[r]
        /\ At(r, "found") =>
              /\ request[r].token # None
              /\ request[r].expires >= 0 => TRUE \in witness[r]
              /\ adminSessions[request[r].token] \in {request[r].expires, Gone}
        /\ At(r, "destroy") => /\ request[r].kind = "logout" /\ request[r].token # None
                               /\ TRUE \in witness[r]
SessionInv == ServerTypeOK /\ CopyInv /\ AnswerJustified
=============================================================================
