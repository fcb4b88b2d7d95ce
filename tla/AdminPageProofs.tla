--------------------------- MODULE AdminPageProofs --------------------------
(* The page and its server.  First, that the page is one of the clients of    *)
(* Sessions, so that what is proved there holds here; then that a logout      *)
(* takes effect, for any number of tokens and requests.                       *)
EXTENDS AdminPage, SessionsProofs

USE SessionsAssumption, MarksAssumption, SlotAssumption, PageBoundsAssumption

\* What clients may make of the slots.
LEMMA ClientsAre ==
    ASSUME UNCHANGED adminSessions, request' \in [Requests -> Request \cup {None}],
           \A r \in Requests : \/ request'[r] \in {request[r], None}
                               \/ request'[r] \in Request /\ request'[r].step = "sent"
    PROVE  Clients
<1>1. request' = [r \in Requests |-> request'[r]]
  OBVIOUS
<1> QED
  BY <1>1 DEF Clients

\* A request is sent from a slot, or a slot is freed.
LEMMA ClientStep ==
    ASSUME ServerTypeOK, UNCHANGED adminSessions, NEW r \in Requests,
           Free(r) \/ \E kind \in Kinds, s \in Sessions \cup {None} : Send(r, kind, s)
    PROVE  Clients
<1>1. CASE Free(r)
  <2>1. /\ request' \in [Requests -> Request \cup {None}]
        /\ \A q \in Requests : request'[q] \in {request[q], None}
    BY <1>1 DEF Free, ServerTypeOK
  <2> QED
    BY <2>1, ClientsAre
<1>2. ASSUME NEW kind \in Kinds, NEW s \in Sessions \cup {None}, Send(r, kind, s)
      PROVE  Clients
  <2> DEFINE q0 == Entry(kind, s, -1, "sent")
  <2>1. q0 \in Request /\ q0.step = "sent"
    BY NoExpiry, EntryType DEF Entry
  <2>2. request' = [request EXCEPT ![r] = q0]
    BY <1>2 DEF Send
  <2> HIDE DEF q0
  <2>3. /\ request' \in [Requests -> Request \cup {None}]
        /\ \A q \in Requests : request'[q] = request[q] \/ request'[q] = q0
    BY <2>1, <2>2 DEF ServerTypeOK
  <2> QED
    BY <2>1, <2>3, ClientsAre
<1> QED
  BY <1>1, <1>2

\* What an answer, a timer or a user makes the page do with a slot.
LEMMA PageSends ==
    ASSUME TypeOK, NEW r \in Requests, DoLogout(r) \/ ShowApp(r, token)
    PROVE  /\ \E kind \in Kinds, s \in Sessions \cup {None} : Send(r, kind, s)
           /\ page' \in {"login", "app"} /\ token' \in Sessions \cup {None} /\ timer' \in BOOLEAN
  BY DEF TypeOK, DoLogout, ShowApp, Kinds

LEMMA AnswerStep ==
    ASSUME TypeOK, NEW r \in Requests, Answer(r)
    PROVE  /\ Clients
           /\ page' \in {"login", "app"} /\ token' \in Sessions \cup {None} /\ timer' \in BOOLEAN
<1>1. UNCHANGED adminSessions /\ Answered(r)
  BY DEF Answer, CheckAnswer, LoginAnswer, ApiAnswer, Expected
<1>2. CASE CheckAnswer(r)
  <2>1. ShowApp(r, token)
    BY <1>2 DEF CheckAnswer
  <2> QED
    BY <1>1, <2>1, PageSends, ClientStep DEF TypeOK
<1>3. CASE LoginAnswer(r)
  <2>1. CASE At(r, "done")
    <3>1. Of(r, {"login"}) /\ ShowApp(r, request[r].token)
      BY <1>3, <2>1 DEF LoginAnswer, Expected
    <3>2. request[r].token \in Sessions \cup {None}
      BY <2>1 DEF TypeOK, ServerTypeOK, At, Request
    <3>3. Send(r, "data", request[r].token) /\ "data" \in Kinds
      BY <3>1 DEF ShowApp, Kinds
    <3>4. Clients
      BY <1>1, <3>2, <3>3, ClientStep DEF TypeOK
    <3> QED
      BY <3>1, <3>2, <3>4 DEF ShowApp
  <2>2. CASE ~At(r, "done")
    BY <1>1, <1>3, <2>2, ClientStep DEF LoginAnswer, browser, TypeOK
  <2> QED
    BY <2>1, <2>2
<1>4. CASE ApiAnswer(r)
  <2>1. CASE At(r, "refused")
    <3>1. DoLogout(r)
      BY <1>4, <2>1 DEF ApiAnswer
    <3> QED
      BY <1>1, <3>1, PageSends, ClientStep DEF TypeOK
  <2>2. CASE ~At(r, "refused")
    BY <1>1, <1>4, <2>2, ClientStep DEF ApiAnswer, browser, TypeOK
  <2> QED
    BY <2>1, <2>2
<1> QED
  BY <1>2, <1>3, <1>4 DEF Answer

\* A step of the page is a step of the clients of the server, and keeps what the
\* page holds in its domain.
LEMMA PageStep ==
    ASSUME TypeOK,
           \/ Login \/ ClickLogout \/ Load \/ Refresh \/ Lose
           \/ \E r \in Requests : Answer(r) \/ OrphanAnswer(r)
    PROVE  /\ Clients
           /\ page' \in {"login", "app"} /\ token' \in Sessions \cup {None} /\ timer' \in BOOLEAN
           /\ orphans' \subseteq Requests /\ left' \subseteq Sessions
           /\ faults' \in 0..MaxFaults /\ loads' \in 0..MaxLoads
<1>0. ServerTypeOK
  BY DEF TypeOK
<1>1. CASE Login
  <2>1. PICK r \in Requests : Slot(r) /\ Send(r, "login", None)
    BY <1>1 DEF Login
  <2>2. Clients
    BY <1>0, <1>1, <2>1, ClientStep DEF Login, Slot, Kinds
  <2> QED
    BY <1>1, <2>2 DEF Login, browser, TypeOK
<1>2. CASE ClickLogout
  <2>1. PICK r \in Requests : Slot(r) /\ DoLogout(r)
    BY <1>2 DEF ClickLogout
  <2>2. Clients
    BY <1>0, <1>2, <2>1, PageSends, ClientStep DEF ClickLogout, Slot
  <2> QED
    BY <1>2, <2>1, <2>2, PageSends DEF ClickLogout, TypeOK
<1>3. CASE Load
  <2>1. orphans' \subseteq Requests /\ \A r \in orphans' : request[r] # None
    BY <1>3 DEF Load, Of
  <2>2. PICK checks \in SUBSET (Requests \ orphans') :
              request' = [r \in Requests |->
                            IF r \in orphans' THEN request[r]
                            ELSE IF r \in checks THEN Entry("check", token, -1, "sent") ELSE None]
    BY <1>3 DEF Load
  <2>3. Entry("check", token, -1, "sent") \in Request /\ Entry("check", token, -1, "sent").step = "sent"
    BY NoExpiry, EntryType DEF TypeOK, Kinds, Entry
  <2>4. Clients
    <3>1. UNCHANGED adminSessions
      BY <1>3 DEF Load
    <3> DEFINE q0 == Entry("check", token, -1, "sent")
    <3>2. q0 \in Request /\ q0.step = "sent"
      BY <2>3
    <3> HIDE DEF q0
    <3>3. request' = [r \in Requests |-> IF r \in orphans' THEN request[r]
                                         ELSE IF r \in checks THEN q0 ELSE None]
      BY <2>2 DEF q0
    <3>4. request' \in [Requests -> Request \cup {None}]
      BY <1>0, <3>2, <3>3 DEF ServerTypeOK
    <3>5. \A r \in Requests : request'[r] \in {request[r], None, q0}
      BY <3>3
    <3> QED
      BY <3>1, <3>2, <3>4, <3>5, ClientsAre
  <2>5. loads' \in 0..MaxLoads
    BY <1>3 DEF Load, TypeOK
  <2> QED
    BY <1>3, <2>1, <2>4, <2>5 DEF Load, TypeOK
<1>4. CASE Refresh
  <2>1. PICK r \in Requests : Slot(r) /\ Send(r, "data", token)
    BY <1>4 DEF Refresh
  <2>2. Clients
    BY <1>0, <1>4, <2>1, ClientStep DEF Refresh, Slot, Kinds, TypeOK
  <2> QED
    BY <1>4, <2>2 DEF Refresh, browser, TypeOK
<1>5. CASE Lose
  <2>1. PICK r \in Requests : /\ Free(r) /\ orphans' = orphans \ {r}
                              /\ left' \subseteq left
    BY <1>5 DEF Lose
  <2>2. Clients
    BY <1>0, <1>5, <2>1, ClientStep DEF Lose
  <2>3. faults' \in 0..MaxFaults
    BY <1>5 DEF Lose, TypeOK
  <2> QED
    BY <1>5, <2>1, <2>2, <2>3 DEF Lose, browser, TypeOK
<1>6. ASSUME NEW r \in Requests, Answer(r)
      PROVE  /\ Clients
             /\ page' \in {"login", "app"} /\ token' \in Sessions \cup {None} /\ timer' \in BOOLEAN
             /\ orphans' \subseteq Requests /\ left' \subseteq Sessions
             /\ faults' \in 0..MaxFaults /\ loads' \in 0..MaxLoads
  <2>1. UNCHANGED <<orphans, faults, loads, left>>
    BY <1>6 DEF Answer
  <2> QED
    BY <1>6, <2>1, AnswerStep DEF TypeOK
<1>7. ASSUME NEW r \in Requests, OrphanAnswer(r)
      PROVE  /\ Clients
             /\ page' \in {"login", "app"} /\ token' \in Sessions \cup {None} /\ timer' \in BOOLEAN
             /\ orphans' \subseteq Requests /\ left' \subseteq Sessions
             /\ faults' \in 0..MaxFaults /\ loads' \in 0..MaxLoads
  <2>1. Clients
    BY <1>0, <1>7, ClientStep DEF OrphanAnswer
  <2> QED
    BY <1>7, <2>1 DEF OrphanAnswer, browser, TypeOK
<1> QED
  BY <1>1, <1>2, <1>3, <1>4, <1>5, <1>6, <1>7

\* Every step of the page and its server is a step of the server with clients.
LEMMA NextIsServerNext ==
    ASSUME TypeOK, [Next]_vars
    PROVE  [ServerNext]_server /\ TypeOK'
<1>1. CASE UNCHANGED vars
  BY <1>1 DEF vars, browser, server, TypeOK, ServerTypeOK
<1>2. CASE Next
  <2>1. /\ Clients \/ (\E r \in Requests : Handle(r)) \/ Sweep \/ Tick \/ Restart
        /\ page' \in {"login", "app"} /\ token' \in Sessions \cup {None} /\ timer' \in BOOLEAN
        /\ orphans' \subseteq Requests /\ left' \subseteq Sessions
        /\ faults' \in 0..MaxFaults /\ loads' \in 0..MaxLoads
    <3>1. CASE \/ Login \/ ClickLogout \/ Load \/ Refresh \/ Lose
               \/ \E r \in Requests : Answer(r) \/ OrphanAnswer(r)
      BY <3>1, PageStep
    <3>2. CASE BackendRestarts
      BY <3>2 DEF BackendRestarts, browser, TypeOK
    <3>3. CASE ServerStep(\E r \in Requests : Handle(r)) \/ ServerStep(Sweep \/ Tick)
      BY <3>3 DEF ServerStep, browser, TypeOK
    <3> QED
      BY <1>2, <3>1, <3>2, <3>3 DEF Next, Step
  <2>2. ServerNext
    BY <1>2, <2>1 DEF Next, ServerNext
  <2>3. ServerTypeOK'
    BY <2>2, ServerStepType DEF TypeOK
  <2> QED
    BY <2>1, <2>2, <2>3 DEF TypeOK
<1> QED
  BY <1>1, <1>2

LEMMA PageInitType == Init => TypeOK
<1>1. Init => ServerTypeOK
  BY ServerInitInv DEF Init, SessionInv
<1>2. timer = FALSE => timer \in BOOLEAN
  OBVIOUS
<1> QED
  BY <1>1, <1>2 DEF Init, TypeOK

\* Every variable of the page and of the server under it stays in its domain:
\* no session is given longer than a login grants, whatever the page, its timer
\* and the restarts of the backend do.
THEOREM PageTypes == Spec => []TypeOK
<1>1. Init => TypeOK
  BY PageInitType
<1>2. TypeOK /\ [Next]_vars => TypeOK'
  BY NextIsServerNext
<1> QED
  BY <1>1, <1>2, PTL DEF Spec

\* The page and its server implement the server with any clients: the answers
\* that the page relies on are those of Sessions.
THEOREM PageImplementsServer == Spec => ServerSpec
<1>1. Init => ServerInit
  BY DEF Init
<1>2. TypeOK /\ [Next]_vars => [ServerNext]_server
  BY NextIsServerNext
<1> QED
  BY <1>1, <1>2, PageTypes, PTL DEF Spec, ServerSpec

\* The answers the page acts upon are justified.
THEOREM PageAnswersAreJustified == Spec => []AnswerJustified
  BY PageImplementsServer, AnswersAreJustified, PTL

-----------------------------------------------------------------------------
(* Logouts *)

PageActs == \/ Login \/ ClickLogout \/ Load \/ Refresh \/ Lose
            \/ \E r \in Requests : Answer(r) \/ OrphanAnswer(r)
ServerActs == (\E r \in Requests : Handle(r)) \/ Sweep \/ Tick \/ Restart

LEMMA WhoActs ==
    Next => /\ PageActs \/ ServerActs
            /\ PageActs => UNCHANGED adminSessions
            /\ ~PageActs => UNCHANGED <<token, left>>
  BY DEF Next, Step, PageActs, ServerActs, BackendRestarts, ServerStep, browser, Login,
         ClickLogout, Load, Refresh, Lose, Answer, OrphanAnswer

\* A token that was issued is never issued again, nor does its session revive.
LEMMA MapAges ==
    ASSUME ServerTypeOK, UNCHANGED adminSessions \/ ServerActs,
           NEW s \in Sessions, adminSessions[s] # None
    PROVE  adminSessions'[s] # None /\ (Live(s)' => Live(s))
<1>0. adminSessions[s] \in (-1..Life) \cup {None, Gone}
  BY DEF ServerTypeOK
<1>1. CASE UNCHANGED adminSessions
  BY <1>1 DEF Live
<1>2. ASSUME NEW r \in Requests, Handle(r)
      PROVE  adminSessions'[s] # None /\ (Live(s)' => Live(s))
  <2>1. adminSessions'[s] \in {adminSessions[s], Gone}
    BY <1>2, HandleOthers
  <2> QED
    BY <2>1 DEF Live
<1>3. CASE Sweep
  BY <1>3 DEF Sweep, Live
<1>4. CASE Tick
  <2>1. adminSessions'[s] = Later(adminSessions[s])
    BY <1>4 DEF Tick
  <2> QED
    BY <1>0, <2>1, LaterType DEF Live, Later
<1>5. CASE Restart
  BY <1>5 DEF Restart, Live
<1> QED
  BY <1>1, <1>2, <1>3, <1>4, <1>5 DEF ServerActs

Pending(r, s) == Of(r, {"logout"}) /\ request[r].token = s /\ ~Answered(r)

\* A logout on its way is not disturbed by the page, unless it is lost.
LEMMA PageKeepsLogouts ==
    ASSUME TypeOK, PageActs, NEW r \in Requests, NEW s \in left', Pending(r, s)
    PROVE  Pending(r, s)'
<1>0. request[r] # None /\ ~Answered(r) /\ request \in [Requests -> Request \cup {None}]
  BY DEF Pending, Of, TypeOK, ServerTypeOK
<1>1. SUFFICES request'[r] = request[r]
  BY <1>1 DEF Pending, Of, Answered, At
<1>2. ASSUME NEW q \in Requests, request[q] = None \/ Answered(q),
             Free(q) \/ \E kind \in Kinds, t \in Sessions \cup {None} : Send(q, kind, t)
      PROVE  request'[r] = request[r]
  BY <1>0, <1>2 DEF Free, Send
<1>3. CASE Login
  BY <1>2, <1>3 DEF Login, Slot, Kinds
<1>4. CASE ClickLogout
  BY <1>2, <1>4, PageSends DEF ClickLogout, Slot
<1>5. CASE Load
  <2>1. r \in orphans'
    BY <1>5 DEF Load, Pending, Of
  <2> QED
    BY <1>5, <2>1 DEF Load
<1>6. CASE Refresh
  BY <1>2, <1>6 DEF Refresh, Slot, Kinds, TypeOK
<1>7. CASE Lose
  <2>1. PICK q \in Requests :
              /\ Free(q)
              /\ left' = IF Of(q, {"logout"}) THEN left \ {request[q].token} ELSE left
    BY <1>7 DEF Lose
  <2>2. r # q
    BY <2>1 DEF Pending
  <2> QED
    BY <1>0, <2>1, <2>2 DEF Free
<1>8. ASSUME NEW q \in Requests, Answer(q)
      PROVE  request'[r] = request[r]
  <2>1. Answered(q)
    BY <1>8 DEF Answer, CheckAnswer, LoginAnswer, ApiAnswer, Expected
  <2>2. r # q
    BY <1>0, <2>1
  <2>3. CASE Free(q)
    BY <1>0, <2>2, <2>3 DEF Free
  <2>4. CASE ~Free(q)
    BY <1>0, <1>8, <2>2, <2>4
       DEF Answer, CheckAnswer, LoginAnswer, ApiAnswer, ShowApp, DoLogout, Send
  <2> QED
    BY <2>3, <2>4
<1>9. ASSUME NEW q \in Requests, OrphanAnswer(q)
      PROVE  request'[r] = request[r]
  BY <1>2, <1>9 DEF OrphanAnswer
<1> QED
  BY <1>3, <1>4, <1>5, <1>6, <1>7, <1>8, <1>9 DEF PageActs

\* The server goes on with the logout of a live session until it is done.
LEMMA ServerKeepsLogouts ==
    ASSUME SessionInv, ServerActs, NEW r \in Requests, NEW s \in Sessions, Pending(r, s),
           Live(s), Live(s)'
    PROVE  Pending(r, s)'
<1>0. /\ request[r] \in Request /\ request[r].kind = "logout" /\ request[r].token = s
      /\ request[r].step \in {"sent", "found", "destroy"} /\ ServerTypeOK /\ Good(r)
  BY GoodParts, RequestParts DEF Pending, Of, Answered, At, SessionInv, ServerTypeOK
<1>1. SUFFICES /\ request'[r] # None /\ request'[r].kind = "logout" /\ request'[r].token = s
               /\ request'[r].step \in {"sent", "found", "destroy"}
  BY <1>1 DEF Pending, Of, Answered, At
<1>2. ASSUME NEW q \in Requests, Handle(q), q # r
      PROVE  request'[r] = request[r]
  BY <1>0, <1>2, HandleOthers
<1>3. CASE Lookup(r)
  <2>1. adminSessions[s] \in -1..Life
    BY <1>0 DEF Live, ServerTypeOK
  <2>2. request'[r] = Entry(request[r].kind, s, adminSessions[s], "found")
    BY <1>0, <1>3 DEF Lookup, Live, ServerTypeOK
  <2>3. Entry(request[r].kind, s, adminSessions[s], "found") \in Request
    BY <1>0, <2>1, RequestParts, EntryType
  <2> QED
    BY <1>0, <2>2, <2>3 DEF Entry
<1>4. CASE TestExpiry(r)
  <2>1. request[r].expires >= 0
    BY <1>0, <1>4 DEF TestExpiry, Good, Live
  <2>2. Move(r, "destroy")
    BY <1>0, <1>4, <2>1, RequestParts DEF TestExpiry, Passed
  <2> QED
    BY <1>0, <2>2, Moved
<1>5. CASE DestroySession(r)
  BY <1>0, <1>5 DEF DestroySession, Live, ServerTypeOK
<1>6. CASE Handle(r)
  BY <1>0, <1>3, <1>4, <1>5, <1>6 DEF Handle, RefuseLogin, CreateSession, Of
<1>7. CASE Sweep
  BY <1>0, <1>7 DEF Sweep
<1>8. CASE Tick
  <2>1. request'[r] = Entry(request[r].kind, request[r].token, Later(request[r].expires),
                            request[r].step)
    BY <1>0, <1>8 DEF Tick
  <2>2. Entry(request[r].kind, request[r].token, Later(request[r].expires), request[r].step)
           \in Request
    BY <1>0, LaterType, RequestParts, EntryType
  <2> QED
    BY <1>0, <2>1, <2>2 DEF Entry
<1>9. CASE Restart
  BY <1>9 DEF Restart, Live
<1> QED
  BY <1>0, <1>2, <1>6, <1>7, <1>8, <1>9 DEF ServerActs

\* The tokens held come from the page's own or from an answered login, and
\* logins are answered with tokens just issued.
LEMMA HeldStaysIssued == PageInv /\ TypeOK' /\ Next => HeldIsIssued'
<1> SUFFICES ASSUME PageInv, TypeOK', Next PROVE HeldIsIssued'
  OBVIOUS
<1>0. TypeOK /\ ServerTypeOK /\ HeldIsIssued
  BY DEF PageInv, TypeOK
<1>1. ASSUME NEW s \in Sessions, adminSessions[s] # None PROVE adminSessions'[s] # None
  BY <1>0, <1>1, WhoActs, MapAges
<1>2. \A r \in Requests : Good(r)
  BY GoodParts DEF PageInv, SessionInv
<1>3. ASSUME NEW s \in left' \cup {token'}, s # None PROVE adminSessions'[s] # None
  <2>1. s \in Sessions
    BY <1>3 DEF TypeOK
  <2>2. CASE s \in left \cup {token}
    BY <1>0, <1>1, <1>3, <2>1, <2>2 DEF HeldIsIssued
  <2>3. CASE s \notin left \cup {token}
    <3>1. \E r \in Requests : Of(r, {"login"}) /\ At(r, "done") /\ s = request[r].token
      BY <1>3, <2>3, WhoActs
         DEF PageActs, Login, ClickLogout, Load, Refresh, Lose, Answer, OrphanAnswer, browser,
             CheckAnswer, LoginAnswer, ApiAnswer, ShowApp, DoLogout, Expected
    <3> QED
      BY <1>0, <1>1, <2>1, <3>1 DEF HeldIsIssued
  <2> QED
    BY <2>2, <2>3
<1>4. ASSUME NEW r \in Requests, Of(r, {"login"})', At(r, "done")'
      PROVE  request'[r].token # None /\ adminSessions'[request'[r].token] # None
  <2>1. ASSUME Of(r, {"login"}), At(r, "done"), request'[r].token = request[r].token
        PROVE  request'[r].token # None /\ adminSessions'[request'[r].token] # None
    <3>1. request[r].token \in Sessions
      BY <1>0, <2>1 DEF HeldIsIssued, ServerTypeOK, At, Request
    <3> QED
      BY <1>0, <1>1, <2>1, <3>1 DEF HeldIsIssued
  <2>2. CASE request'[r] = request[r]
    BY <1>4, <2>1, <2>2 DEF Of, At
  <2>3. CASE request'[r] # request[r] /\ (\E q \in Requests : Handle(q))
    <3>1. Handle(r)
      BY <1>0, <2>3, HandleOthers
    <3>2. request[r] \in Request
      BY <1>0, <3>1 DEF Handle, RefuseLogin, CreateSession, Lookup, TestExpiry,
                        DestroySession, At, ServerTypeOK
    <3>3. CASE CreateSession(r)
      <4>1. PICK s \in Sessions :
                  /\ adminSessions' = [adminSessions EXCEPT ![s] = Life]
                  /\ request' = [request EXCEPT ![r] = Entry("login", s, -1, "done")]
        BY <3>3 DEF CreateSession
      <4>2. request'[r].token = s
        BY <1>0, <4>1 DEF ServerTypeOK, Entry
      <4>3. adminSessions'[s] = Life /\ Life # None /\ s # None
        BY <1>0, <4>1 DEF ServerTypeOK
      <4> QED
        BY <4>2, <4>3
    <3>4. CASE RefuseLogin(r)
      <4>1. request'[r].step = "refused"
        BY <1>0, <3>2, <3>4, Moved DEF RefuseLogin
      <4> QED
        BY <1>4, <4>1 DEF At
    <3>5. CASE Lookup(r)
      <4>1. CASE Move(r, "refused")
        <5>1. request'[r].step = "refused"
          BY <1>0, <3>2, <4>1, Moved
        <5> QED
          BY <1>4, <5>1 DEF At
      <4>2. CASE ~Move(r, "refused")
        <5>1. request'[r] = Entry(request[r].kind, request[r].token,
                                  adminSessions[request[r].token], "found")
          BY <1>0, <3>5, <4>2 DEF Lookup, ServerTypeOK
        <5>2. request'[r].step = "found"
          BY <5>1 DEF Entry
        <5> QED
          BY <1>4, <5>2 DEF At
      <4> QED
        BY <4>1, <4>2
    <3>6. CASE TestExpiry(r)
      <4>1. PICK step \in {"refused", "destroy", "done"} : Move(r, step)
        BY <3>6 DEF TestExpiry, Passed
      <4>2. request'[r].token = request[r].token
        BY <1>0, <3>2, <4>1, Moved
      <4>3. /\ request[r].token \in Sessions /\ request[r].expires \in -1..Life
            /\ adminSessions[request[r].token] \in {request[r].expires, Gone}
        BY <1>2, <3>2, <3>6, RequestParts DEF TestExpiry, Good
      <4>4. request[r].token # None /\ request[r].expires # None
        <5>1. request[r].token \in Nat
          BY <4>3
        <5>2. request[r].expires \in Int
          BY <4>3
        <5> QED
          BY <5>1, <5>2
      <4>5. adminSessions[request[r].token] # None
        BY <4>3, <4>4
      <4> QED
        BY <1>1, <4>2, <4>3, <4>4, <4>5
    <3>7. CASE DestroySession(r)
      <4>1. request'[r].kind = "logout"
        BY <1>0, <1>2, <3>2, <3>7, Moved DEF DestroySession, Good
      <4> QED
        BY <1>4, <4>1 DEF Of
    <3> QED
      BY <3>1, <3>3, <3>4, <3>5, <3>6, <3>7 DEF Handle
  <2>4. CASE request'[r] # request[r] /\ Tick
    <3>1. request[r] \in Request /\ request[r] # None
      BY <1>0, <2>4 DEF Tick, ServerTypeOK
    <3>2. request'[r] = Entry(request[r].kind, request[r].token, Later(request[r].expires),
                              request[r].step)
      BY <2>4, <3>1 DEF Tick
    <3>3. /\ request'[r].kind = request[r].kind /\ request'[r].token = request[r].token
          /\ request'[r].step = request[r].step
      BY <3>2 DEF Entry
    <3> QED
      BY <1>4, <2>1, <3>1, <3>3 DEF Of, At
  <2>5. CASE request'[r] # request[r] /\ PageActs
    BY <1>0, <1>4, <2>5, PageStep DEF PageActs, Clients, At
  <2> QED
    BY <1>4, <2>2, <2>3, <2>4, <2>5, WhoActs DEF ServerActs, Sweep, Restart, At
<1> QED
  BY <1>3, <1>4 DEF HeldIsIssued

LEMMA LogoutsGoOn == PageInv /\ TypeOK' /\ Next => LogoutTakesEffect'
<1> SUFFICES ASSUME PageInv, TypeOK', Next, NEW s \in left', Live(s)'
             PROVE  \E r \in Requests : Pending(r, s)'
  BY DEF PageInv, LogoutTakesEffect, Pending
<1>0. TypeOK /\ ServerTypeOK /\ SessionInv /\ s \in Sessions
  BY DEF PageInv, TypeOK
<1>1. CASE s \in left
  <2>1. Live(s)
    BY <1>0, <1>1, WhoActs, MapAges DEF PageInv, HeldIsIssued, Live
  <2>2. PICK r \in Requests : Pending(r, s)
    BY <1>1, <2>1 DEF PageInv, LogoutTakesEffect, Pending
  <2> QED
    BY <1>0, <2>1, <2>2, WhoActs, PageKeepsLogouts, ServerKeepsLogouts
<1>2. CASE s \notin left
  <2>1. ClickLogout /\ s = token
    BY <1>2, WhoActs
       DEF PageActs, Login, ClickLogout, Load, Refresh, Lose, Answer, OrphanAnswer
  <2>2. PICK r \in Requests : DoLogout(r)
    BY <2>1 DEF ClickLogout
  <2>3. request'[r] = Entry("logout", s, -1, "sent")
    BY <1>0, <2>1, <2>2 DEF DoLogout, Send, ServerTypeOK
  <2>4. Entry("logout", s, -1, "sent") \in Request
    BY <1>0, NoExpiry, EntryType DEF Kinds
  <2>5. request'[r].kind = "logout" /\ request'[r].token = s /\ request'[r].step = "sent"
    BY <2>3 DEF Entry
  <2> QED
    BY <2>3, <2>4, <2>5 DEF Pending, Of, Answered, At
<1> QED
  BY <1>1, <1>2

\* After a click on logout the session is of no use to anybody, as soon as its
\* logout is answered, whatever the page has done in the meantime.
THEOREM LogoutsTakeEffect == Spec => []LogoutTakesEffect
<1>1. Init => PageInv
  <2>1. Init => TypeOK /\ SessionInv
    BY ServerInitInv, PageInitType DEF Init
  <2>2. Init => HeldIsIssued /\ LogoutTakesEffect
    BY DEF Init, ServerInit, HeldIsIssued, LogoutTakesEffect, Of
  <2> QED
    BY <2>1, <2>2 DEF PageInv
<1>2. PageInv /\ [Next]_vars => PageInv'
  <2> SUFFICES ASSUME PageInv, [Next]_vars PROVE PageInv'
    OBVIOUS
  <2>1. TypeOK' /\ SessionInv'
    BY NextIsServerNext, ServerNextInv DEF PageInv
  <2>2. CASE UNCHANGED vars
    BY <2>1, <2>2 DEF vars, server, browser, PageInv, HeldIsIssued, LogoutTakesEffect, Of, At,
                      Answered, Live
  <2>3. CASE Next
    BY <2>1, <2>3, HeldStaysIssued, LogoutsGoOn DEF PageInv
  <2> QED
    BY <2>2, <2>3
<1>3. PageInv => LogoutTakesEffect
  BY DEF PageInv
<1> QED
  BY <1>1, <1>2, <1>3, PTL DEF Spec
=============================================================================
