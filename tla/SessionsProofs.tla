--------------------------- MODULE SessionsProofs ---------------------------
(* The answers of the sessions, for any number of tokens, requests and        *)
(* clients.  The argument: the copy that Lookup makes and the entry of the    *)
(* map come nearer to now at the same pace, so whatever the copy says when it *)
(* is tested was true of the entry when it was made, or is true of it now.    *)
EXTENDS Sessions, TLAPS

USE SessionsAssumption, MarksAssumption, SlotAssumption

LEMMA EntryType ==
    ASSUME NEW kind \in Kinds, NEW s \in Sessions \cup {None}, NEW e \in -1..Life,
           NEW step \in {"sent", "found", "destroy", "done", "refused"}
    PROVE  Entry(kind, s, e, step) \in Request
  BY DEF Entry, Request

LEMMA NoExpiry == -1 \in -1..Life
  OBVIOUS

\* The parts of a request.
LEMMA RequestParts == ASSUME NEW q \in Request
                      PROVE  /\ q.kind \in Kinds /\ q.token \in Sessions \cup {None}
                             /\ q.expires \in -1..Life /\ q # None
                             /\ q.step \in {"sent", "found", "destroy", "done", "refused"}
  BY DEF Request

LEMMA LaterType == ASSUME NEW x \in (-1..Life) \cup {None, Gone}
                   PROVE  /\ Later(x) \in (-1..Life) \cup {None, Gone}
                          /\ x \in -1..Life => Later(x) \in -1..Life /\ Later(x) <= x
                          /\ x \in {None, Gone} => Later(x) = x
  BY DEF Later

LEMMA ServerInitInv == ServerInit => SessionInv
<1> SUFFICES ASSUME ServerInit PROVE SessionInv
  OBVIOUS
<1> QED
  BY DEF ServerInit, SessionInv, ServerTypeOK, CopyInv, AnswerJustified, At, Of

\* A truth value is added to what a request has witnessed.
LEMMA WitnessType == ServerTypeOK /\ Observe => witness' \in [Requests -> SUBSET BOOLEAN]
<1> SUFFICES ASSUME ServerTypeOK, Observe PROVE witness' \in [Requests -> SUBSET BOOLEAN]
  OBVIOUS
<1>1. \A r \in Requests : Live(request[r].token)' \in BOOLEAN
  BY DEF Live
<1>2. \A r \in Requests : witness[r] \subseteq BOOLEAN
  BY DEF ServerTypeOK
<1> QED
  BY <1>1, <1>2 DEF Observe

\* A request that moves has witnessed the present moment, and forgets nothing
\* unless it is a new one.
LEMMA Witnessed ==
    ASSUME ServerTypeOK, Observe, NEW r \in Requests, request'[r] # None
    PROVE  /\ request'[r] # request[r] \/ ~Answered(r) => Live(request[r].token)' \in witness'[r]
           /\ request'[r].step # "sent" => witness[r] \subseteq witness'[r]
  BY DEF Observe, ServerTypeOK

LEMMA HandleType ==
    ASSUME ServerTypeOK, NEW r \in Requests, Handle(r)
    PROVE  /\ adminSessions' \in [Sessions -> (-1..Life) \cup {None, Gone}]
           /\ request' \in [Requests -> Request \cup {None}]
<1> USE DEF ServerTypeOK
<1>1. request[r] \in Request
  BY DEF Handle, RefuseLogin, CreateSession, Lookup, TestExpiry, DestroySession, At
<1>2. ASSUME NEW step \in {"sent", "found", "destroy", "done", "refused"}, Move(r, step)
      PROVE  request' \in [Requests -> Request \cup {None}]
  <2>1. Entry(request[r].kind, request[r].token, -1, step) \in Request
    <3>1. request[r].kind \in Kinds /\ request[r].token \in Sessions \cup {None}
      BY <1>1, RequestParts
    <3> QED
      BY <3>1, NoExpiry, EntryType
  <2> QED
    BY <1>2, <2>1 DEF Move
<1>3. CASE RefuseLogin(r)
  BY <1>2, <1>3 DEF RefuseLogin
<1>4. CASE CreateSession(r)
  <2>1. PICK s \in Sessions :
              /\ adminSessions' = [adminSessions EXCEPT ![s] = Life]
              /\ request' = [request EXCEPT ![r] = Entry("login", s, -1, "done")]
    BY <1>4 DEF CreateSession
  <2>2. Entry("login", s, -1, "done") \in Request
    BY EntryType DEF Kinds
  <2> QED
    BY <2>1, <2>2
<1>5. CASE Lookup(r)
  <2> DEFINE s == request[r].token
  <2>1. UNCHANGED adminSessions
    BY <1>5 DEF Lookup
  <2>2. CASE s = None \/ adminSessions[s] \in {None, Gone}
    BY <1>2, <1>5, <2>1, <2>2 DEF Lookup
  <2>3. CASE ~(s = None \/ adminSessions[s] \in {None, Gone})
    <3>1. /\ s \in Sessions /\ adminSessions[s] \in -1..Life
          /\ request' = [request EXCEPT ![r] =
                           Entry(request[r].kind, s, adminSessions[s], "found")]
      BY <1>1, <1>5, <2>3 DEF Lookup, Request
    <3>2. Entry(request[r].kind, s, adminSessions[s], "found") \in Request
      BY <1>1, <3>1, RequestParts, EntryType
    <3> QED
      BY <2>1, <3>1, <3>2
  <2> QED
    BY <2>2, <2>3
<1>6. CASE TestExpiry(r)
  BY <1>2, <1>6 DEF TestExpiry, Passed
<1>7. CASE DestroySession(r)
  BY <1>2, <1>7 DEF DestroySession
<1> QED
  BY <1>3, <1>4, <1>5, <1>6, <1>7 DEF Handle

LEMMA TickType ==
    ASSUME ServerTypeOK, Tick
    PROVE  /\ adminSessions' \in [Sessions -> (-1..Life) \cup {None, Gone}]
           /\ request' \in [Requests -> Request \cup {None}]
<1>1. adminSessions' \in [Sessions -> (-1..Life) \cup {None, Gone}]
  BY LaterType, ZenonT(60) DEF ServerTypeOK, Tick
<1>2. ASSUME NEW r \in Requests, request[r] # None
      PROVE  Entry(request[r].kind, request[r].token, Later(request[r].expires),
                   request[r].step) \in Request
  <2>1. request[r] \in Request
    BY <1>2 DEF ServerTypeOK
  <2>2. Later(request[r].expires) \in -1..Life
    BY <2>1, LaterType DEF Request
  <2> QED
    BY <2>1, <2>2, RequestParts, EntryType
<1> QED
  BY <1>1, <1>2 DEF Tick, ServerTypeOK

LEMMA ServerStepType == ServerTypeOK /\ [ServerNext]_server => ServerTypeOK'
<1> SUFFICES ASSUME ServerTypeOK, [ServerNext]_server PROVE ServerTypeOK'
  OBVIOUS
<1>1. CASE UNCHANGED server
  BY <1>1 DEF server, ServerTypeOK
<1>2. CASE ServerNext
  <2>1. witness' \in [Requests -> SUBSET BOOLEAN]
    BY <1>2, WitnessType DEF ServerNext
  <2>2. /\ adminSessions' \in [Sessions -> (-1..Life) \cup {None, Gone}]
        /\ request' \in [Requests -> Request \cup {None}]
    <3>1. CASE Clients
      BY <3>1 DEF Clients, ServerTypeOK
    <3>2. CASE \E r \in Requests : Handle(r)
      BY <3>2, HandleType
    <3>3. CASE Sweep
      BY <3>3 DEF Sweep, ServerTypeOK
    <3>4. CASE Tick
      BY <3>4, TickType
    <3>5. CASE Restart
      BY <3>5 DEF Restart, ServerTypeOK
    <3> QED
      BY <1>2, <3>1, <3>2, <3>3, <3>4, <3>5 DEF ServerNext
  <2> QED
    BY <2>1, <2>2 DEF ServerTypeOK
<1> QED
  BY <1>1, <1>2

\* The invariant of one request.
Good(r) ==
    /\ At(r, "sent") \/ At(r, "found") => Live(request[r].token) \in witness[r]
    /\ At(r, "found") => /\ request[r].token # None
                         /\ request[r].expires >= 0 => TRUE \in witness[r]
                         /\ adminSessions[request[r].token] \in {request[r].expires, Gone}
    /\ At(r, "destroy") => /\ request[r].kind = "logout" /\ request[r].token # None
                           /\ TRUE \in witness[r]
    /\ Of(r, {"check", "logout", "data"}) => /\ At(r, "done") => TRUE \in witness[r]
                                             /\ At(r, "refused") => FALSE \in witness[r]

LEMMA GoodParts == CopyInv /\ AnswerJustified <=> \A r \in Requests : Good(r)
  BY DEF CopyInv, AnswerJustified, Good

\* A step of another request, or of the sweeper: entries only leave the map.
LEMMA PassedBy ==
    ASSUME SessionInv, ServerTypeOK', Observe, NEW r \in Requests, request'[r] = request[r],
           \A s \in Sessions : \/ adminSessions'[s] \in {adminSessions[s], Gone}
                               \/ adminSessions[s] = None
    PROVE  Good(r)'
<1>1. Good(r)
  BY GoodParts DEF SessionInv
<1>2. CASE request[r] = None
  BY <1>2 DEF Good, At, Of
<1>3. CASE request[r] # None
  <2>1. request[r] \in Request /\ request'[r] # None
    BY <1>3 DEF SessionInv, ServerTypeOK
  <2>2. CASE Answered(r)
    <3>1. request[r].step \in {"done", "refused"} /\ witness[r] \subseteq witness'[r]
      BY <2>1, <2>2, Witnessed DEF SessionInv, Answered, At
    <3> QED
      BY <1>1, <2>1, <3>1 DEF Good, At, Of
  <2>3. CASE At(r, "sent")
    <3>1. Live(request[r].token)' \in witness'[r]
      BY <2>1, <2>3, Witnessed DEF SessionInv, Answered, At
    <3> QED
      BY <2>3, <3>1 DEF Good, At
  <2>4. CASE At(r, "found")
    <3>1. Live(request[r].token)' \in witness'[r] /\ witness[r] \subseteq witness'[r]
      BY <2>1, <2>4, Witnessed DEF SessionInv, Answered, At
    <3>2. /\ request[r].token \in Sessions /\ request[r].expires \in -1..Life
          /\ adminSessions[request[r].token] \in {request[r].expires, Gone}
      BY <1>1, <2>1, <2>4 DEF Good, Request
    <3>3. adminSessions'[request[r].token] \in {request[r].expires, Gone}
      <4>1. request[r].expires # None
        BY <3>2
      <4>2. adminSessions[request[r].token] # None
        BY <3>2, <4>1
      <4> QED
        BY <3>2, <4>2
    <3> QED
      BY <1>1, <2>4, <3>1, <3>3 DEF Good, At
  <2>5. CASE At(r, "destroy")
    <3>1. witness[r] \subseteq witness'[r]
      BY <2>1, <2>5, Witnessed DEF SessionInv, At
    <3> QED
      BY <1>1, <2>5, <3>1 DEF Good, At
  <2> QED
    BY <2>1, <2>2, <2>3, <2>4, <2>5 DEF Request, Answered, At
<1> QED
  BY <1>2, <1>3

LEMMA Moved ==
    ASSUME ServerTypeOK, NEW r \in Requests, request[r] \in Request,
           NEW step \in {"sent", "found", "destroy", "done", "refused"}, Move(r, step)
    PROVE  /\ request'[r] # None /\ request'[r].step = step
           /\ request'[r].kind = request[r].kind /\ request'[r].token = request[r].token
<1>1. request'[r] = Entry(request[r].kind, request[r].token, -1, step)
  BY DEF Move, ServerTypeOK
<1>2. request[r].kind \in Kinds /\ request[r].token \in Sessions \cup {None}
  BY RequestParts
<1>3. Entry(request[r].kind, request[r].token, -1, step) \in Request
  BY <1>2, NoExpiry, EntryType
<1> QED
  BY <1>1, <1>3 DEF Entry

\* A step of the server for the request itself.
LEMMA OwnStep ==
    ASSUME SessionInv, ServerTypeOK', Observe, NEW r \in Requests, Handle(r)
    PROVE  Good(r)'
<1> DEFINE s == request[r].token
<1>0. ServerTypeOK /\ Good(r) /\ request[r] \in Request /\ ~Answered(r)
  BY GoodParts DEF SessionInv, ServerTypeOK, Handle, RefuseLogin, CreateSession, Lookup,
                   TestExpiry, DestroySession, At, Answered
<1>1. CASE RefuseLogin(r) \/ CreateSession(r)
  <2>1. request[r].kind = "login"
    BY <1>1 DEF RefuseLogin, CreateSession, Of
  <2>2. request'[r].kind = "login" /\ request'[r].step \in {"done", "refused"}
    <3>1. CASE RefuseLogin(r)
      BY <1>0, <2>1, <3>1, Moved DEF RefuseLogin
    <3>2. CASE CreateSession(r)
      <4>1. PICK s1 \in Sessions : request' = [request EXCEPT ![r] = Entry("login", s1, -1, "done")]
        BY <3>2 DEF CreateSession
      <4>2. request'[r] = Entry("login", s1, -1, "done")
        BY <1>0, <4>1 DEF ServerTypeOK
      <4> QED
        BY <4>2 DEF Entry
    <3> QED
      BY <1>1, <3>1, <3>2
  <2> QED
    BY <2>2 DEF Good, At, Of
<1>2. ASSUME request'[r] # None, request'[r].step # "sent"
      PROVE  Live(request[r].token)' \in witness'[r] /\ witness[r] \subseteq witness'[r]
  BY <1>0, <1>2, Witnessed
<1>3. CASE Lookup(r)
  <2>1. UNCHANGED adminSessions /\ request[r].kind # "login"
    BY <1>3 DEF Lookup, Of
  <2>2. CASE s = None \/ adminSessions[s] \in {None, Gone}
    <3>1. Move(r, "refused")
      BY <1>3, <2>2 DEF Lookup
    <3>2. /\ request'[r] # None /\ request'[r].step = "refused"
          /\ request'[r].token = s /\ request'[r].kind = request[r].kind
      BY <1>0, <3>1, Moved
    <3>3. ~Live(request[r].token)'
      BY <2>1, <2>2, <3>2 DEF Live
    <3> QED
      BY <1>2, <3>2, <3>3 DEF Good, At, Live
  <2>3. CASE ~(s = None \/ adminSessions[s] \in {None, Gone})
    <3>1. /\ request'[r] = Entry(request[r].kind, s, adminSessions[s], "found")
          /\ s \in Sessions /\ adminSessions[s] \in -1..Life
      BY <1>0, <1>3, <2>3 DEF Lookup, ServerTypeOK, Request
    <3>2. /\ request'[r] # None /\ request'[r].step = "found"
          /\ request'[r].token = s /\ request'[r].expires = adminSessions[s]
      <4>1. request[r].kind \in Kinds
        BY <1>0, RequestParts
      <4>2. Entry(request[r].kind, s, adminSessions[s], "found") \in Request
        BY <3>1, <4>1, EntryType
      <4> QED
        BY <3>1, <4>2 DEF Entry
    <3>3. adminSessions[s] >= 0 => Live(request[r].token)'
      BY <2>1, <2>3, <3>2 DEF Live
    <3>4. adminSessions[s] >= 0 => TRUE \in witness'[r]
      BY <1>2, <3>2, <3>3 DEF Live
    <3> QED
      BY <1>2, <2>1, <2>3, <3>2, <3>4 DEF Good, At
  <2> QED
    BY <2>2, <2>3
<1>4. CASE TestExpiry(r)
  <2>1. /\ UNCHANGED adminSessions /\ At(r, "found") /\ s # None
        /\ request[r].expires >= 0 => TRUE \in witness[r]
        /\ adminSessions[s] \in {request[r].expires, Gone}
        /\ request[r].expires \in -1..Life
    BY <1>0, <1>4 DEF TestExpiry, Good, Request
  <2>2. CASE request[r].expires < 0
    <3>1. /\ request'[r] # None /\ request'[r].step = "refused" /\ request'[r].token = s
      BY <1>0, <1>4, <2>2, Moved DEF TestExpiry
    <3>2. ~Live(request[r].token)'
      BY <2>1, <2>2, <3>1 DEF Live
    <3> QED
      BY <1>2, <3>1, <3>2 DEF Good, At, Live
  <2>3. CASE request[r].expires >= 0
    <3>1. /\ request'[r] # None /\ request'[r].token = s
          /\ request'[r].step = IF request[r].kind = "logout" THEN "destroy" ELSE "done"
          /\ request'[r].kind = request[r].kind
      BY <1>0, <1>4, <2>1, <2>3, Moved DEF TestExpiry, Passed
    <3> QED
      BY <1>2, <2>1, <2>3, <3>1 DEF Good, At
  <2> QED
    BY <2>1, <2>2, <2>3
<1>5. CASE DestroySession(r)
  <2>1. TRUE \in witness[r]
    BY <1>0, <1>5 DEF DestroySession, Good
  <2>2. request'[r] # None /\ request'[r].step = "done"
    BY <1>0, <1>5, Moved DEF DestroySession
  <2> QED
    BY <1>2, <2>1, <2>2 DEF Good, At
<1> QED
  BY <1>1, <1>3, <1>4, <1>5 DEF Handle

\* Handling one request leaves the others; an entry of the map is made where
\* there was none, or leaves it.
LEMMA HandleOthers ==
    ASSUME ServerTypeOK, NEW q \in Requests, Handle(q)
    PROVE  /\ \A r \in Requests \ {q} : request'[r] = request[r]
           /\ \A s \in Sessions : \/ adminSessions'[s] \in {adminSessions[s], Gone}
                                  \/ adminSessions[s] = None
<1> USE DEF ServerTypeOK, Move
<1>1. CASE RefuseLogin(q)
  BY <1>1 DEF RefuseLogin
<1>2. CASE CreateSession(q)
  BY <1>2 DEF CreateSession
<1>3. CASE Lookup(q)
  BY <1>3 DEF Lookup
<1>4. CASE TestExpiry(q)
  BY <1>4 DEF TestExpiry, Passed
<1>5. CASE DestroySession(q)
  BY <1>5 DEF DestroySession
<1> QED
  BY <1>1, <1>2, <1>3, <1>4, <1>5 DEF Handle

\* The copy of an expiry and the entry age together.
LEMMA TickGood == ASSUME SessionInv, ServerTypeOK', Observe, Tick, NEW r \in Requests
                  PROVE  Good(r)'
<1>1. Good(r)
  BY GoodParts DEF SessionInv
<1>2. CASE request[r] = None
  BY <1>2 DEF Tick, Good, At, Of
<1>3. CASE request[r] # None
  <2>1. request[r] \in Request /\ request[r].expires \in -1..Life
    BY <1>3 DEF SessionInv, ServerTypeOK, Request
  <2>2. /\ request'[r] = Entry(request[r].kind, request[r].token, Later(request[r].expires),
                               request[r].step)
        /\ Later(request[r].expires) \in -1..Life
    BY <1>3, <2>1, LaterType DEF Tick
  <2>3. /\ request'[r] # None /\ request'[r].kind = request[r].kind
        /\ request'[r].token = request[r].token /\ request'[r].step = request[r].step
        /\ request'[r].expires = Later(request[r].expires)
    <3>1. /\ request[r].kind \in Kinds /\ request[r].token \in Sessions \cup {None}
          /\ request[r].step \in {"sent", "found", "destroy", "done", "refused"}
      BY <2>1, RequestParts
    <3>2. Entry(request[r].kind, request[r].token, Later(request[r].expires),
                request[r].step) \in Request
      BY <2>2, <3>1, EntryType
    <3> QED
      BY <2>2, <3>2 DEF Entry
  <2>4. /\ ~Answered(r) => Live(request[r].token)' \in witness'[r]
        /\ request[r].step # "sent" => witness[r] \subseteq witness'[r]
    BY <2>3, Witnessed DEF SessionInv
  <2>5. CASE At(r, "found")
    <3>1. /\ request[r].token \in Sessions
          /\ adminSessions[request[r].token] \in {request[r].expires, Gone}
      BY <1>1, <2>1, <2>5 DEF Good, Request
    <3>2. adminSessions'[request[r].token] = Later(adminSessions[request[r].token])
      BY <3>1 DEF Tick
    <3>3. adminSessions'[request[r].token] \in {Later(request[r].expires), Gone}
      BY <3>1, <3>2 DEF Later
    <3>4. Later(request[r].expires) >= 0 => request[r].expires >= 0
      BY <2>1, LaterType
    <3> QED
      BY <1>1, <2>3, <2>4, <2>5, <3>3, <3>4 DEF Good, At, Answered
  <2>6. CASE ~At(r, "found")
    <3>1. /\ \A step : At(r, step)' <=> At(r, step)
          /\ \A kinds : Of(r, kinds)' <=> Of(r, kinds)
      BY <1>3, <2>3 DEF At, Of
    <3> QED
      BY <1>1, <2>3, <2>4, <2>6, <3>1 DEF Good, At, Answered
  <2> QED
    BY <2>5, <2>6
<1> QED
  BY <1>2, <1>3

LEMMA ServerNextInv == SessionInv /\ [ServerNext]_server => SessionInv'
<1> SUFFICES ASSUME SessionInv, [ServerNext]_server PROVE SessionInv'
  OBVIOUS
<1>1. ServerTypeOK /\ ServerTypeOK'
  BY ServerStepType DEF SessionInv
<1>2. CASE UNCHANGED server
  BY <1>1, <1>2 DEF server, SessionInv, CopyInv, AnswerJustified, At, Of, Live
<1>3. CASE ServerNext
  <2>1. Observe
    BY <1>3 DEF ServerNext
  <2>2. ASSUME NEW r \in Requests PROVE Good(r)'
    <3>1. CASE Clients
      <4>1. CASE request'[r] = request[r]
        BY <1>1, <2>1, <3>1, <4>1, PassedBy DEF Clients
      <4>2. CASE request'[r] = None
        BY <4>2 DEF Good, At, Of
      <4>3. CASE request'[r] # request[r] /\ request'[r] # None
        <5>1. request'[r].step = "sent" /\ Live(request[r].token)' \in witness'[r]
          BY <1>1, <2>1, <3>1, <4>3, Witnessed DEF Clients
        <5> QED
          BY <5>1 DEF Good, At
      <4> QED
        BY <4>1, <4>2, <4>3
    <3>2. ASSUME NEW q \in Requests, Handle(q) PROVE Good(r)'
      <4>1. CASE r = q
        BY <1>1, <2>1, <3>2, <4>1, OwnStep
      <4>2. CASE r # q
        BY <1>1, <2>1, <3>2, <4>2, HandleOthers, PassedBy
      <4> QED
        BY <4>1, <4>2
    <3>3. CASE Sweep
      BY <1>1, <2>1, <3>3, PassedBy DEF Sweep
    <3>4. CASE Tick
      BY <1>1, <2>1, <3>4, TickGood
    <3>5. CASE Restart
      BY <3>5 DEF Restart, Good, At, Of
    <3> QED
      BY <1>3, <3>1, <3>2, <3>3, <3>4, <3>5 DEF ServerNext
  <2> QED
    BY <1>1, <2>2 DEF SessionInv, CopyInv, AnswerJustified, Good
<1> QED
  BY <1>2, <1>3

LEMMA ServerInductive == ServerSpec => []SessionInv
  BY ServerInitInv, ServerNextInv, PTL DEF ServerSpec

\* The server admits a request only if its session was live at some moment of
\* it, and refuses it only if it was not, whatever logs in, logs out, sweeps,
\* restarts and expires between GetSession's read and its test.
THEOREM AnswersAreJustified == ServerSpec => []AnswerJustified
<1>1. SessionInv => AnswerJustified
  BY DEF SessionInv
<1> QED
  BY ServerInductive, <1>1, PTL
=============================================================================
