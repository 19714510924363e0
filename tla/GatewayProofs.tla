---------------------------- MODULE GatewayProofs ----------------------------
(***************************************************************************)
(* Proofs about Gateway, for every set of requests, bearers, addresses and *)
(* vaults, every limit and window, and every table of routes in which no   *)
(* route passes a limiter twice (ChainAssumption).  Only KeysJustified     *)
(* needs the table to be guarded (CustomerRoutesGuarded), which TLC        *)
(* evaluates for the table of the program.                                 *)
(***************************************************************************)
EXTENDS Gateway, FiniteSetTheorems, SequenceTheorems, WellFoundedInduction, TLAPS

\* A set of naturals has a least element.
LEMMA LeastElement ==
    ASSUME NEW S \in SUBSET Nat, S # {}
    PROVE  \E i \in S : \A j \in S : i <= j
<1> DEFINE less == OpToRel(<, Nat)
<1>1. IsWellFoundedOn(less, Nat)
  BY NatLessThanWellFounded, Zenon
<1>2. \A i, j \in Nat : i < j => <<i, j>> \in less
  BY Zenon DEF OpToRel
<1> HIDE DEF less
<1>3. PICK i \in S : \A j \in S : <<j, i>> \notin less
  BY <1>1, WFMin, Zenon
<1>4. \A j \in S : ~(j < i)
  BY <1>2, <1>3, Zenon
<1> QED BY <1>4

\* A request is dispatched to a route or to none.
LEMMA DispatchType == \A method, path : Dispatch(method, path) \in Routes
<1> SUFFICES ASSUME NEW method, NEW path
             PROVE  Dispatch(method, path) \in Routes
  OBVIOUS
<1> DEFINE hits == {i \in DOMAIN Table :
                      /\ Table[i].method = method
                      /\ \E pattern \in Table[i].paths : Matches(path, pattern)}
<1>1. DOMAIN Table \subseteq Nat
  BY TableAssumption
<1>2. CASE hits = {}
  BY <1>2 DEF Dispatch, Routes
<1>3. CASE hits # {}
  <2>1. \E i \in hits : \A j \in hits : i <= j
    BY <1>1, <1>3, LeastElement
  <2>2. (CHOOSE i \in hits : \A j \in hits : i <= j) \in hits
    BY <2>1
  <2>3. Dispatch(method, path) = CHOOSE i \in hits : \A j \in hits : i <= j
    BY <1>3 DEF Dispatch
  <2> QED BY <2>2, <2>3 DEF Routes
<1> QED BY <1>2, <1>3

\* Who a request counts for is a client.
LEMMA ClientType ==
    ASSUME TypeOK, NEW q \in Requests, NEW l \in Limiters
    PROVE  Client(q, l) \in Clients
BY VaultAssumption DEF Client, Clients, TypeOK, Request

\* A request that a limiter let through is a request.
LEMMA MovedOn ==
    ASSUME NEW r \in Request, NEW l \in Limiters, NEW time \in Nat, NEW pos \in Nat
    PROVE  LET next == [r EXCEPT !.hits[l] = time, !.pos = pos] IN
           /\ next \in Request
           /\ next.bearer = r.bearer /\ next.route = r.route /\ next.live = r.live
           /\ next.answer = r.answer /\ next.phase = r.phase /\ next.pos = pos
BY DEF Request

\* Counting keeps the windows and the request in their types: the request goes
\* on, if what it is at is a limiter, or is done.
LEMMA Counting ==
    ASSUME TypeOK, NEW q \in Requests, Count(q)
    PROVE  /\ Element(q) \in Limiters
           /\ window' \in [Limiters -> [Clients -> [hits: Nat, reset: Nat]]]
           /\ req' \in [Requests -> Request]
           /\ UNCHANGED <<now, module, valid>>
           /\ \A p \in Requests :
                 /\ req'[p].bearer = req[p].bearer
                 /\ req'[p].route = req[p].route
                 /\ req'[p].live = req[p].live
                 /\ req'[p].answer \in {req[p].answer, "limited"}
                 /\ \/ req'[p].phase = req[p].phase /\ req'[p].pos = req[p].pos
                    \/ req'[p].phase = "done" /\ req'[p].pos = req[p].pos
                    \/ p = q /\ req'[p].phase = "passing" /\ req'[p].pos = req[p].pos + 1
<1> DEFINE l == Element(q)
           c == Client(q, l)
           r == req[q]
           old == window[l][c]
           fresh == old.reset <= now
           hits == IF fresh THEN 1 ELSE old.hits + 1
           over == hits > Limit[l]
           refused == [r EXCEPT !.hits[l] = now, !.phase = "done", !.answer = "limited"]
           passed == [r EXCEPT !.hits[l] = now, !.pos = r.pos + 1]
<1>1. /\ l \in Limiters
      /\ r.phase = "passing"
      /\ window' = [window EXCEPT ![l][c] =
            [hits |-> hits, reset |-> IF fresh THEN now + Window[l] ELSE old.reset]]
      /\ req' = [req EXCEPT ![q] = IF over THEN refused ELSE passed]
      /\ UNCHANGED <<now, module, valid>>
  BY DEF Count, At, Element
<1>2. c \in Clients
  BY <1>1, ClientType
<1>3. now \in Nat
  BY TimeAssumption DEF TypeOK
<1>4. old.hits \in Nat /\ old.reset \in Nat
  BY <1>1, <1>2 DEF TypeOK
<1>5. hits \in Nat /\ now + Window[l] \in Nat
  BY <1>1, <1>3, <1>4, WindowAssumption
<1>6. r \in Request
  BY DEF TypeOK
<1>7. [r.hits EXCEPT ![l] = now] \in [Limiters -> Nat]
  BY <1>1, <1>3, <1>6 DEF Request
<1>8. /\ refused \in Request
      /\ refused.bearer = r.bearer /\ refused.route = r.route /\ refused.live = r.live
      /\ refused.answer = "limited" /\ refused.phase = "done" /\ refused.pos = r.pos
  BY <1>6, <1>7 DEF Request, Phases, Answers
<1>9. /\ passed \in Request
      /\ passed.bearer = r.bearer /\ passed.route = r.route /\ passed.live = r.live
      /\ passed.answer = r.answer /\ passed.phase = r.phase /\ passed.pos = r.pos + 1
  <2> DEFINE pos == r.pos + 1
  <2>1. pos \in Nat
    BY <1>6 DEF Request
  <2> HIDE DEF l, r, pos
  <2>2. LET next == [r EXCEPT !.hits[l] = now, !.pos = pos] IN
        /\ next \in Request
        /\ next.bearer = r.bearer /\ next.route = r.route /\ next.live = r.live
        /\ next.answer = r.answer /\ next.phase = r.phase /\ next.pos = pos
    BY <1>1, <1>3, <1>6, <2>1, MovedOn, Zenon
  <2> QED BY <2>2, Zenon DEF pos
<1> HIDE DEF l, c, old, fresh, hits, over, refused, passed
<1>10. window' \in [Limiters -> [Clients -> [hits: Nat, reset: Nat]]]
  BY <1>1, <1>2, <1>4, <1>5 DEF TypeOK
<1>11. CASE req' = [req EXCEPT ![q] = refused]
  BY <1>1, <1>8, <1>10, <1>11 DEF TypeOK, l
<1>12. CASE req' = [req EXCEPT ![q] = passed]
  BY <1>1, <1>9, <1>10, <1>12 DEF TypeOK, l
<1> QED BY <1>1, <1>11, <1>12

\* Done ends a request and leaves the rest of it, and the others, alone.
LEMMA Finishing ==
    ASSUME TypeOK, NEW q \in Requests, NEW answer \in Answers, Done(q, answer)
    PROVE  /\ req' \in [Requests -> Request]
           /\ \A p \in Requests :
                 /\ req'[p].bearer = req[p].bearer
                 /\ req'[p].route = req[p].route
                 /\ req'[p].live = req[p].live
                 /\ req'[p].pos = req[p].pos
                 /\ req'[p].answer = IF p = q THEN answer ELSE req[p].answer
                 /\ req'[p].phase = IF p = q THEN "done" ELSE req[p].phase
<1> DEFINE ended == [req[q] EXCEPT !.phase = "done", !.answer = answer]
<1>1. req \in [Requests -> Request] /\ req[q] \in Request
  BY DEF TypeOK
<1>2. req' = [req EXCEPT ![q] = ended]
  BY <1>1 DEF Done
<1>3. /\ ended \in Request
      /\ ended.bearer = req[q].bearer /\ ended.route = req[q].route
      /\ ended.live = req[q].live /\ ended.pos = req[q].pos
      /\ ended.answer = answer /\ ended.phase = "done"
  BY <1>1 DEF Request, Phases
<1> HIDE DEF ended
<1> QED BY <1>1, <1>2, <1>3

\* A request that changes its phase, and that moves on, stays what it is.
LEMMA ChangingPhase ==
    ASSUME TypeOK, NEW q \in Requests, NEW phase \in Phases,
           req' = [req EXCEPT ![q].phase = phase]
    PROVE  /\ req' \in [Requests -> Request]
           /\ \A p \in Requests :
                 /\ req'[p].bearer = req[p].bearer
                 /\ req'[p].route = req[p].route
                 /\ req'[p].live = req[p].live
                 /\ req'[p].answer = req[p].answer
                 /\ req'[p].pos = req[p].pos
                 /\ req'[p].phase = IF p = q THEN phase ELSE req[p].phase
BY DEF TypeOK, Request, Phases

LEMMA MovingOn ==
    ASSUME TypeOK, NEW q \in Requests,
           \/ req' = [req EXCEPT ![q].phase = "passing", ![q].pos = @ + 1]
           \/ req' = [req EXCEPT ![q].pos = @ + 1] /\ req[q].phase = "passing"
    PROVE  /\ req' \in [Requests -> Request]
           /\ \A p \in Requests :
                 /\ req'[p].bearer = req[p].bearer
                 /\ req'[p].route = req[p].route
                 /\ req'[p].live = req[p].live
                 /\ req'[p].answer = req[p].answer
                 /\ req'[p].pos = IF p = q THEN req[p].pos + 1 ELSE req[p].pos
                 /\ req'[p].phase = IF p = q THEN "passing" ELSE req[p].phase
<1>1. req[q] \in Request /\ req[q].pos + 1 \in Nat
  BY DEF TypeOK, Request
<1>2. CASE req' = [req EXCEPT ![q].phase = "passing", ![q].pos = @ + 1]
  BY <1>1, <1>2 DEF TypeOK, Request, Phases
<1>3. CASE req' = [req EXCEPT ![q].pos = @ + 1] /\ req[q].phase = "passing"
  BY <1>1, <1>3 DEF TypeOK, Request, Phases
<1> QED BY <1>2, <1>3

\* A request comes in with the route it is dispatched to.
LEMMA Arriving ==
    ASSUME TypeOK, NEW q \in Requests, NEW offer \in Offered, Arrive(q, offer)
    PROVE  /\ req' \in [Requests -> Request]
           /\ UNCHANGED <<now, module, valid, window>>
           /\ req[q].phase = "new"
           /\ req'[q].phase = "passing" /\ req'[q].pos = 1
           /\ req'[q].answer = req[q].answer
           /\ req'[q].bearer \in valid => req'[q].live
           /\ \A p \in Requests \ {q} : req'[p] = req[p]
<1> DEFINE Arrived(route, bearer, vault, live) ==
              [req[q] EXCEPT !.phase = "passing", !.route = route, !.bearer = bearer,
                             !.vault = vault, !.pos = 1, !.live = live]
<1>1. /\ req' = [req EXCEPT ![q] = Arrived(Dispatch(offer.method, offer.path),
                                           offer.bearer, offer.vault,
                                           offer.bearer \in valid)]
      /\ req[q].phase = "new"
      /\ UNCHANGED <<now, module, valid, window>>
  BY DEF Arrive
<1>2. PICK route \in Routes, bearer \in Bearers \cup {NoBearer}, vault \in Vaults,
           live \in BOOLEAN :
              /\ req' = [req EXCEPT ![q] = Arrived(route, bearer, vault, live)]
              /\ live = (bearer \in valid)
  <2>1. /\ Dispatch(offer.method, offer.path) \in Routes
        /\ offer.bearer \in Bearers \cup {NoBearer}
        /\ offer.vault \in Vaults
        /\ (offer.bearer \in valid) \in BOOLEAN
    BY DispatchType, OfferedAssumption
  <2> HIDE DEF Arrived
  <2> QED BY <1>1, <2>1, Zenon
<1> DEFINE r == Arrived(route, bearer, vault, live)
<1>3. req[q] \in Request
  BY DEF TypeOK
<1>4. /\ r \in Request
      /\ r.phase = "passing" /\ r.pos = 1 /\ r.answer = req[q].answer
      /\ r.bearer = bearer /\ r.live = live
  BY <1>3 DEF Request, Phases
<1> HIDE DEF r
<1>5. req' = [req EXCEPT ![q] = r]
  BY <1>2 DEF r
<1> HIDE DEF Request
<1>6. req \in [Requests -> Request]
  BY DEF TypeOK
<1>7. req' \in [Requests -> Request]
  BY <1>4, <1>5, <1>6
<1>8. \A p \in Requests : req'[p] = IF p = q THEN r ELSE req[p]
  BY <1>5, <1>6
<1> QED BY <1>1, <1>2, <1>4, <1>7, <1>8

-----------------------------------------------------------------------------

\* The bearer of a request is valid only if it was when the request came in.
LiveKnown ==
    \A q \in Requests :
        req[q].phase # "new" /\ req[q].bearer \in valid => req[q].live

\* Where a route of the customer API has its key checked.
AuthAt(i) == IF i <= Len(ServerRoutes) THEN 2 ELSE 3

PastAuth(q) ==
    \/ req[q].pos > AuthAt(req[q].route)
    \/ req[q].phase = "handling"
    \/ req[q].answer = "answered"

\* Past that place, a request of the customer API has a key that was valid and
\* has the scope.
KeyChecked ==
    \A q \in Requests :
        /\ req[q].route # NotFound
        /\ IsApi(req[q].route)
        /\ PastAuth(q)
        => /\ req[q].live
           /\ Table[req[q].route].scope \in Scopes[req[q].bearer]

NewUnanswered == \A q \in Requests : req[q].phase = "new" => req[q].answer = "none"

IInv == TypeOK /\ LiveKnown /\ KeyChecked /\ NewUnanswered

\* A chain of three behind one more.
LEMMA BehindOne ==
    ASSUME NEW S, NEW first \in S, NEW chain \in Seq(S), Len(chain) = 3
    PROVE  /\ DOMAIN (<<first>> \o chain) = 1..4
           /\ Len(<<first>> \o chain) = 4
           /\ (<<first>> \o chain)[3] = chain[2]
<1> DEFINE one == <<first>>
<1>1. one \in Seq(S)
  <2>1. Append(<<>>, first) \in Seq(S)
    BY EmptySeq, AppendProperties
  <2> QED BY <2>1
<1>2. Len(one) = 1
  OBVIOUS
<1> HIDE DEF one
<1>3. /\ Len(one \o chain) = Len(one) + Len(chain)
      /\ \A i \in 1..Len(one) + Len(chain) :
            (one \o chain)[i] = IF i <= Len(one) THEN one[i] ELSE chain[i - Len(one)]
  BY <1>1, ConcatProperties, Zenon
<1>4. one \o chain \in Seq(S)
  BY <1>1
<1>5. (one \o chain)[3] = chain[2]
  BY <1>2, <1>3
<1>6. Len(one \o chain) = 4 /\ DOMAIN (one \o chain) = 1..4
  BY <1>2, <1>3, <1>4
<1> QED BY <1>5, <1>6 DEF one

\* On a guarded table the key's check is no limiter and no signature, and it is
\* not the end of the chain.
LEMMA ApiChain ==
    ASSUME CustomerRoutesGuarded, NEW i \in Routes, i # NotFound, IsApi(i)
    PROVE  /\ AuthAt(i) \in DOMAIN Chain(i)
           /\ Chain(i)[AuthAt(i)] = "apiKeyAuth"
           /\ AuthAt(i) \in Nat /\ AuthAt(i) > 1 /\ AuthAt(i) <= Len(Chain(i))
<1>1. i \in DOMAIN Table
  BY DEF Routes
<1>2. Table[i].chain \in Seq(STRING)
  <2>1. Table[i] \in [method: STRING, paths: SUBSET Seq(STRING), chain: Seq(STRING),
                      scope: STRING]
    <3> DEFINE entries == [method: STRING, paths: SUBSET Seq(STRING),
                           chain: Seq(STRING), scope: STRING]
    <3>1. Table \in Seq(entries)
      BY TableAssumption
    <3> HIDE DEF entries
    <3>2. Table[i] \in entries
      BY <1>1, <3>1
    <3> QED BY <3>2 DEF entries
  <2> QED BY <2>1
<1>3. Len(Table[i].chain) = 3 /\ Table[i].chain[2] = "apiKeyAuth"
  BY <1>1 DEF CustomerRoutesGuarded
<1>4. CASE i <= Len(ServerRoutes)
  <2>1. Chain(i) = Table[i].chain /\ AuthAt(i) = 2
    BY <1>4 DEF Chain, AuthAt
  <2> QED BY <1>2, <1>3, <2>1
<1>5. CASE ~(i <= Len(ServerRoutes))
  <2>1. Chain(i) = <<"limiter">> \o Table[i].chain /\ AuthAt(i) = 3
    BY <1>5 DEF Chain, AuthAt
  <2>2. /\ DOMAIN (<<"limiter">> \o Table[i].chain) = 1..4
        /\ Len(<<"limiter">> \o Table[i].chain) = 4
        /\ (<<"limiter">> \o Table[i].chain)[3] = Table[i].chain[2]
    BY <1>2, <1>3, BehindOne
  <2> QED BY <1>3, <2>1, <2>2
<1> QED BY <1>4, <1>5

LEMMA AuthIsNoLimiter ==
    "apiKeyAuth" \notin Limiters /\ "apiKeyAuth" \notin {"requireAuth", "optionalAuth"}
BY DEF Limiters, IpLimiters, KeyLimiters, SessionLimiters

-----------------------------------------------------------------------------

\* Every step keeps the types.
LEMMA TypeInvariance == TypeOK /\ [Next]_vars => TypeOK'
<1> SUFFICES ASSUME TypeOK, [Next]_vars PROVE TypeOK'
  OBVIOUS
<1> DEFINE Others == UNCHANGED <<now, module, valid, window>>
           Waits == \A q \in Requests :
               /\ req[q].phase = "checking" => module = "loaded" /\ req[q].bearer # NoBearer
               /\ req[q].phase = "handling" /\ NeedsModule(req[q].route)
                      => module = "loaded"
<1>1. ASSUME Others, req' \in [Requests -> Request], Waits' PROVE TypeOK'
  BY <1>1 DEF TypeOK
<1>2. Waits
  BY DEF TypeOK
<1>3. ASSUME NEW q \in Requests, NEW answer \in Answers, Done(q, answer), Others
      PROVE  TypeOK'
  <2>1. Waits'
    BY <1>2, <1>3, Finishing
  <2> QED BY <1>1, <1>3, <2>1, Finishing
<1>4. ASSUME NEW q \in Requests, NEW offer \in Offered, Arrive(q, offer)
      PROVE  TypeOK'
  <2>1. Waits'
    BY <1>2, <1>4, Arriving
  <2> QED BY <1>1, <1>4, <2>1, Arriving
<1>5. ASSUME NEW q \in Requests, Count(q) PROVE TypeOK'
  <2>1. Waits'
    BY <1>2, <1>5, Counting
  <2> QED BY <1>5, <2>1, Counting DEF TypeOK
<1>6. ASSUME NEW q \in Requests, Verify(q) PROVE TypeOK'
  <2>1. CASE Done(q, "unauthorized")
    BY <1>3, <1>6, <2>1 DEF Verify, Answers
  <2>2. CASE req' = [req EXCEPT ![q].pos = @ + 1]
    <3>1. req[q].phase = "passing" /\ Others
      BY <1>6 DEF Verify, At
    <3>2. Waits'
      BY <1>2, <2>2, <3>1, MovingOn
    <3> QED BY <1>1, <2>2, <3>1, <3>2, MovingOn
  <2> QED BY <1>6, <2>1, <2>2 DEF Verify
<1>7. ASSUME NEW q \in Requests, Present(q) PROVE TypeOK'
  <2>1. Others
    BY <1>7 DEF Present
  <2>2. CASE Done(q, "unavailable") \/ Done(q, "unauthorized")
    BY <1>3, <2>1, <2>2 DEF Answers
  <2>3. CASE /\ module # "absent" /\ req[q].bearer # NoBearer
             /\ req' = [req EXCEPT ![q].phase = "checking"]
    <3>1. module = "loaded"
      BY <2>3 DEF TypeOK
    <3>3. /\ req' \in [Requests -> Request]
          /\ \A p \in Requests :
                req'[p].phase = IF p = q THEN "checking" ELSE req[p].phase
      BY <2>3, ChangingPhase DEF Phases
    <3>2. /\ \A p \in Requests : req'[p].bearer = req[p].bearer
          /\ \A p \in Requests : req'[p].route = req[p].route
      BY <2>3, ChangingPhase DEF Phases
    <3>4. Waits'
      BY <1>2, <2>1, <2>3, <3>1, <3>2, <3>3
    <3> QED BY <1>1, <2>1, <3>3, <3>4
  <2> QED BY <1>7, <2>2, <2>3 DEF Present
<1>8. ASSUME NEW q \in Requests, LookUp(q) PROVE TypeOK'
  <2>1. Others
    BY <1>8 DEF LookUp, Resume
  <2>2. CASE Done(q, "unauthorized") \/ Done(q, "forbidden")
    BY <1>3, <2>1, <2>2 DEF Answers
  <2>3. CASE req' = [req EXCEPT ![q].phase = "passing", ![q].pos = @ + 1]
    <3>1. \A p \in Requests :
             /\ req'[p].bearer = req[p].bearer
             /\ req'[p].route = req[p].route
             /\ req'[p].phase = IF p = q THEN "passing" ELSE req[p].phase
      BY <2>3, MovingOn
    <3>2. Waits'
      BY <1>2, <2>1, <3>1
    <3> QED BY <1>1, <2>1, <2>3, <3>2, MovingOn
  <2> QED BY <1>8, <2>2, <2>3 DEF LookUp, Resume
<1>9. ASSUME NEW q \in Requests, CheckFails(q) \/ Answer(q) PROVE TypeOK'
  BY <1>3, <1>9 DEF CheckFails, Answer, Answers
<1>10. ASSUME NEW q \in Requests, Handle(q) PROVE TypeOK'
  <2>1. Others
    BY <1>10 DEF Handle
  <2>2. CASE Done(q, "notfound") \/ Done(q, "unavailable")
    BY <1>3, <2>1, <2>2 DEF Answers
  <2>3. CASE /\ ~(NeedsModule(req[q].route) /\ module = "absent")
             /\ req' = [req EXCEPT ![q].phase = "handling"]
    <3>1. NeedsModule(req[q].route) => module = "loaded"
      BY <2>3 DEF TypeOK
    <3>2. /\ req' \in [Requests -> Request]
          /\ \A p \in Requests :
                /\ req'[p].bearer = req[p].bearer
                /\ req'[p].route = req[p].route
                /\ req'[p].phase = IF p = q THEN "handling" ELSE req[p].phase
      BY <2>3, ChangingPhase DEF Phases
    <3>3. Waits'
      BY <1>2, <2>1, <3>1, <3>2
    <3> QED BY <1>1, <2>1, <3>2, <3>3
  <2> QED BY <1>10, <2>2, <2>3 DEF Handle
<1>11. ASSUME NEW k \in Bearers, Revoke(k) PROVE TypeOK'
  BY <1>11 DEF Revoke, TypeOK
<1>12. CASE Tick
  BY <1>12, TimeAssumption DEF Tick, TypeOK
<1>13. CASE UNCHANGED vars
  BY <1>13 DEF vars, TypeOK
<1> QED
  BY <1>4, <1>5, <1>6, <1>7, <1>8, <1>9, <1>10, <1>11, <1>12, <1>13
     DEF Next, RequestStep, CustomerStep

\* Every step keeps what is known of new requests and of live bearers: keys are
\* only ever revoked.
LEMMA ArrivalInvariance ==
    TypeOK /\ LiveKnown /\ NewUnanswered /\ [Next]_vars
        => LiveKnown' /\ NewUnanswered'
<1> SUFFICES ASSUME TypeOK, LiveKnown, NewUnanswered, [Next]_vars
             PROVE  LiveKnown' /\ NewUnanswered'
  OBVIOUS
<1>1. ASSUME valid' \subseteq valid,
             \A q \in Requests : /\ req'[q].bearer = req[q].bearer
                                 /\ req'[q].live = req[q].live
                                 /\ req[q].phase = "new" <=> req'[q].phase = "new"
                                 /\ req'[q].phase = "new" => req'[q].answer = req[q].answer
      PROVE  LiveKnown' /\ NewUnanswered'
  BY <1>1 DEF LiveKnown, NewUnanswered
<1>2. ASSUME NEW q \in Requests, NEW answer \in Answers, Done(q, answer),
             req[q].phase # "new", valid' = valid
      PROVE  LiveKnown' /\ NewUnanswered'
  BY <1>1, <1>2, Finishing
<1>3. ASSUME NEW q \in Requests, NEW offer \in Offered, Arrive(q, offer)
      PROVE  LiveKnown' /\ NewUnanswered'
  BY <1>3, Arriving DEF LiveKnown, NewUnanswered
<1>4. ASSUME NEW q \in Requests, Count(q) PROVE LiveKnown' /\ NewUnanswered'
  <2>1. req[q].phase = "passing"
    BY <1>4 DEF Count, At
  <2>2. ASSUME NEW p \in Requests
        PROVE  req[p].phase = "new" <=> req'[p].phase = "new"
    <3>1. CASE p = q /\ req'[p].phase = "passing"
      BY <2>1, <3>1
    <3>2. CASE req'[p].phase = req[p].phase
      BY <3>2
    <3>3. CASE p # q /\ req'[p].phase = "done"
      BY <1>4, <3>3 DEF Count, TypeOK
    <3>4. CASE p = q /\ req'[p].phase = "done"
      BY <2>1, <3>4
    <3> QED BY <1>4, <3>1, <3>2, <3>3, <3>4, Counting
  <2>3. /\ valid' = valid
        /\ \A p \in Requests : /\ req'[p].bearer = req[p].bearer
                               /\ req'[p].live = req[p].live
    BY <1>4, Counting
  <2>4. ASSUME NEW p \in Requests, req'[p].phase = "new"
        PROVE  req'[p].answer = req[p].answer
    <3>1. p # q
      BY <2>1, <2>2, <2>4
    <3> QED BY <1>4, <3>1 DEF Count, TypeOK
  <2> QED BY <1>1, <2>2, <2>3, <2>4
<1>5. ASSUME NEW q \in Requests, Verify(q) PROVE LiveKnown' /\ NewUnanswered'
  <2>1. req[q].phase = "passing" /\ valid' = valid
    BY <1>5 DEF Verify, At
  <2>2. CASE Done(q, "unauthorized")
    BY <1>2, <2>1, <2>2 DEF Answers
  <2>3. CASE req' = [req EXCEPT ![q].pos = @ + 1]
    BY <1>1, <2>1, <2>3, MovingOn
  <2> QED BY <1>5, <2>2, <2>3 DEF Verify
<1>6. ASSUME NEW q \in Requests, Present(q) PROVE LiveKnown' /\ NewUnanswered'
  <2>1. req[q].phase = "passing" /\ valid' = valid
    BY <1>6 DEF Present, At
  <2>2. CASE Done(q, "unavailable") \/ Done(q, "unauthorized")
    BY <1>2, <2>1, <2>2 DEF Answers
  <2>3. CASE req' = [req EXCEPT ![q].phase = "checking"]
    BY <1>1, <2>1, <2>3, ChangingPhase DEF Phases
  <2> QED BY <1>6, <2>2, <2>3 DEF Present
<1>7. ASSUME NEW q \in Requests, LookUp(q) PROVE LiveKnown' /\ NewUnanswered'
  <2>1. req[q].phase = "checking" /\ valid' = valid
    BY <1>7 DEF LookUp, Resume
  <2>2. CASE Done(q, "unauthorized") \/ Done(q, "forbidden")
    BY <1>2, <2>1, <2>2 DEF Answers
  <2>3. CASE req' = [req EXCEPT ![q].phase = "passing", ![q].pos = @ + 1]
    <3>1. \A p \in Requests :
             /\ req'[p].bearer = req[p].bearer
             /\ req'[p].live = req[p].live
             /\ req'[p].answer = req[p].answer
             /\ req'[p].phase = IF p = q THEN "passing" ELSE req[p].phase
      BY <2>3, MovingOn
    <3>2. \A p \in Requests : req[p].phase = "new" <=> req'[p].phase = "new"
      BY <2>1, <3>1
    <3> QED BY <1>1, <2>1, <3>1, <3>2
  <2> QED BY <1>7, <2>2, <2>3 DEF LookUp, Resume
<1>8. ASSUME NEW q \in Requests, CheckFails(q) \/ Answer(q)
      PROVE  LiveKnown' /\ NewUnanswered'
  BY <1>2, <1>8 DEF CheckFails, Answer, Answers
<1>9. ASSUME NEW q \in Requests, Handle(q) PROVE LiveKnown' /\ NewUnanswered'
  <2>1. req[q].phase = "passing" /\ valid' = valid
    BY <1>9 DEF Handle
  <2>2. CASE Done(q, "notfound") \/ Done(q, "unavailable")
    BY <1>2, <2>1, <2>2 DEF Answers
  <2>3. CASE req' = [req EXCEPT ![q].phase = "handling"]
    BY <1>1, <2>1, <2>3, ChangingPhase DEF Phases
  <2> QED BY <1>9, <2>2, <2>3 DEF Handle
<1>10. ASSUME NEW k \in Bearers, Revoke(k) PROVE LiveKnown' /\ NewUnanswered'
  BY <1>1, <1>10 DEF Revoke
<1>11. CASE Tick \/ UNCHANGED vars
  BY <1>1, <1>11 DEF Tick, vars
<1> QED
  BY <1>3, <1>4, <1>5, <1>6, <1>7, <1>8, <1>9, <1>10, <1>11
     DEF Next, RequestStep, CustomerStep

\* Where a request stands at something else than the key's check, one that has
\* not been checked yet is still before it when it moves on.
LEMMA NotPastYet ==
    ASSUME CustomerRoutesGuarded, TypeOK, NEW q \in Requests, NEW elements,
           At(q, elements), "apiKeyAuth" \notin elements,
           req[q].route # NotFound, IsApi(req[q].route),
           req[q].pos + 1 > AuthAt(req[q].route)
    PROVE  req[q].pos > AuthAt(req[q].route)
<1>1. req[q].route \in Routes /\ req[q].pos \in Nat
  BY DEF TypeOK, Request
<1>2. /\ AuthAt(req[q].route) \in Nat
      /\ Chain(req[q].route)[AuthAt(req[q].route)] = "apiKeyAuth"
  BY <1>1, ApiChain
<1>3. req[q].pos # AuthAt(req[q].route)
  BY <1>2 DEF At
<1> QED BY <1>1, <1>2, <1>3

\* Every step keeps KeyChecked: the only way past the key's check is LookUp.
LEMMA KeyCheckedInvariance ==
    CustomerRoutesGuarded /\ IInv /\ [Next]_vars => KeyChecked'
<1> SUFFICES ASSUME CustomerRoutesGuarded, IInv, [Next]_vars PROVE KeyChecked'
  OBVIOUS
<1>1. TypeOK /\ LiveKnown /\ KeyChecked /\ NewUnanswered
  BY DEF IInv
<1> DEFINE ForApi(q) == req[q].route # NotFound /\ IsApi(req[q].route)
           Cleared(q) == /\ req[q].live
                         /\ Table[req[q].route].scope \in Scopes[req[q].bearer]
           Same(q) == /\ req'[q].bearer = req[q].bearer
                      /\ req'[q].route = req[q].route
                      /\ req'[q].live = req[q].live
<1>2. ASSUME \A q \in Requests : /\ Same(q)
                                 /\ ForApi(q) /\ PastAuth(q)' => PastAuth(q) \/ Cleared(q)
      PROVE  KeyChecked'
  BY <1>1, <1>2 DEF KeyChecked
<1>3. ASSUME NEW q \in Requests, NEW answer \in Answers \ {"answered"}, Done(q, answer)
      PROVE  KeyChecked'
  BY <1>1, <1>2, <1>3, Finishing DEF PastAuth
<1>4. ASSUME NEW q \in Requests, NEW offer \in Offered, Arrive(q, offer)
      PROVE  KeyChecked'
  <2>1. /\ req'[q].phase = "passing" /\ req'[q].pos = 1
        /\ req'[q].answer = "none"
    BY <1>1, <1>4, Arriving DEF NewUnanswered
  <2>2. ~PastAuth(q)'
    BY <2>1 DEF PastAuth, AuthAt
  <2> QED BY <1>1, <1>4, <2>2, Arriving DEF KeyChecked, PastAuth
<1>5. ASSUME NEW q \in Requests, Count(q) PROVE KeyChecked'
  <2>1. At(q, Limiters)
    BY <1>5 DEF Count
  <2>2. ASSUME NEW p \in Requests, ForApi(p), PastAuth(p)' PROVE PastAuth(p)
    <3>1. req'[p].route = req[p].route
      BY <1>1, <1>5, Counting
    <3>2. req'[p].answer = "answered" => req[p].answer = "answered"
      BY <1>1, <1>5, Counting
    <3>3. req'[p].phase = "handling" => req[p].phase = "handling"
      BY <1>1, <1>5, Counting
    <3>4. req'[p].pos > AuthAt(req[p].route) => req[p].pos > AuthAt(req[p].route)
      BY <1>1, <1>5, <2>1, <2>2, Counting, NotPastYet, AuthIsNoLimiter
    <3> QED BY <2>2, <3>1, <3>2, <3>3, <3>4 DEF PastAuth
  <2>3. \A p \in Requests : Same(p)
    BY <1>1, <1>5, Counting
  <2> QED BY <1>2, <2>2, <2>3
<1>6. ASSUME NEW q \in Requests, Verify(q) PROVE KeyChecked'
  <2>1. CASE Done(q, "unauthorized")
    BY <1>3, <2>1 DEF Answers
  <2>2. CASE req' = [req EXCEPT ![q].pos = @ + 1]
    <3>1. At(q, {"requireAuth", "optionalAuth"}) /\ req[q].phase = "passing"
      BY <1>6 DEF Verify, At
    <3>2. ASSUME NEW p \in Requests, ForApi(p), PastAuth(p)' PROVE PastAuth(p)
      BY <1>1, <2>2, <3>1, <3>2, MovingOn, NotPastYet, AuthIsNoLimiter DEF PastAuth
    <3>3. \A p \in Requests : Same(p)
      BY <1>1, <2>2, <3>1, MovingOn
    <3> QED BY <1>2, <3>2, <3>3
  <2> QED BY <1>6, <2>1, <2>2 DEF Verify
<1>7. ASSUME NEW q \in Requests, Present(q) PROVE KeyChecked'
  <2>1. CASE Done(q, "unavailable") \/ Done(q, "unauthorized")
    BY <1>3, <2>1 DEF Answers
  <2>2. CASE req' = [req EXCEPT ![q].phase = "checking"]
    BY <1>1, <1>2, <2>2, ChangingPhase DEF Phases, PastAuth
  <2> QED BY <1>7, <2>1, <2>2 DEF Present
<1>8. ASSUME NEW q \in Requests, LookUp(q) PROVE KeyChecked'
  <2>1. CASE Done(q, "unauthorized") \/ Done(q, "forbidden")
    BY <1>3, <2>1 DEF Answers
  <2>2. CASE /\ req[q].phase = "checking" /\ req[q].bearer \in valid
             /\ Table[req[q].route].scope \in Scopes[req[q].bearer]
             /\ req' = [req EXCEPT ![q].phase = "passing", ![q].pos = @ + 1]
    <3>1. Cleared(q)
      BY <1>1, <2>2 DEF LiveKnown
    <3>2. \A p \in Requests : /\ Same(p)
                              /\ p # q => (PastAuth(p)' <=> PastAuth(p))
      BY <1>1, <2>2, MovingOn DEF PastAuth
    <3> QED BY <1>2, <3>1, <3>2
  <2> QED BY <1>8, <2>1, <2>2 DEF LookUp, Resume
<1>9. ASSUME NEW q \in Requests, CheckFails(q) PROVE KeyChecked'
  BY <1>3, <1>9 DEF CheckFails, Answers
<1>10. ASSUME NEW q \in Requests, Answer(q) PROVE KeyChecked'
  <2>1. req[q].phase = "handling" /\ Done(q, "answered") /\ "answered" \in Answers
    BY <1>10 DEF Answer, Answers
  <2> QED BY <1>1, <1>2, <2>1, Finishing DEF PastAuth
<1>11. ASSUME NEW q \in Requests, Handle(q) PROVE KeyChecked'
  <2>1. CASE Done(q, "notfound") \/ Done(q, "unavailable")
    BY <1>3, <2>1 DEF Answers
  <2>2. CASE req' = [req EXCEPT ![q].phase = "handling"]
    <3>1. req[q].pos > Len(Chain(req[q].route)) /\ req[q].route \in Routes
      BY <1>1, <1>11 DEF Handle, TypeOK, Request
    <3>2. ForApi(q) => req[q].pos > AuthAt(req[q].route)
      <4> SUFFICES ASSUME ForApi(q) PROVE req[q].pos > AuthAt(req[q].route)
        OBVIOUS
      <4>1. AuthAt(req[q].route) \in Nat /\ AuthAt(req[q].route) <= Len(Chain(req[q].route))
        BY <3>1, ApiChain
      <4>2. AuthAt(req[q].route) \in DOMAIN Chain(req[q].route)
        BY <3>1, ApiChain
      <4>3. req[q].pos \in Nat
        BY <1>1 DEF TypeOK, Request
      <4> QED BY <3>1, <4>1, <4>2, <4>3
    <3>3. \A p \in Requests : /\ Same(p)
                              /\ p # q => (PastAuth(p)' <=> PastAuth(p))
      BY <1>1, <2>2, ChangingPhase DEF Phases, PastAuth
    <3> QED BY <1>2, <3>2, <3>3 DEF PastAuth
  <2> QED BY <1>11, <2>1, <2>2 DEF Handle
<1>12. CASE UNCHANGED req
  BY <1>1, <1>12 DEF KeyChecked, PastAuth
<1> QED
  BY <1>4, <1>5, <1>6, <1>7, <1>8, <1>9, <1>10, <1>11, <1>12
     DEF Next, RequestStep, CustomerStep, Revoke, Tick, vars

-----------------------------------------------------------------------------

\* The types need no guarded table.
THEOREM TypeCorrectness == Spec => []TypeOK
<1>1. Init => TypeOK
  <2> SUFFICES ASSUME Init PROVE TypeOK
    OBVIOUS
  <2>1. req \in [Requests -> Request]
    <3> DEFINE Fresh(a) ==
            [phase |-> "new", route |-> NotFound, bearer |-> NoBearer, address |-> a,
             vault |-> NoVault, pos |-> 0, live |-> FALSE,
             hits |-> [l \in Limiters |-> 0], answer |-> "none"]
    <3>1. [l \in Limiters |-> 0] \in [Limiters -> Nat]
      OBVIOUS
    <3>2. ASSUME NEW a \in Addresses PROVE Fresh(a) \in Request
      BY <3>1, VaultAssumption DEF Request, Phases, Answers, Routes
    <3>3. req \in [Requests -> {Fresh(a) : a \in Addresses}]
      BY DEF Init
    <3> HIDE DEF Fresh
    <3> QED BY <3>2, <3>3
  <2>2. window \in [Limiters -> [Clients -> [hits: Nat, reset: Nat]]]
    BY DEF Init
  <2>3. now \in 1..MaxTime + 1
    BY TimeAssumption DEF Init
  <2>4. \A q \in Requests : req[q].phase = "new"
    BY DEF Init
  <2> QED BY <2>1, <2>2, <2>3, <2>4 DEF Init, TypeOK
<1>2. TypeOK /\ [Next]_vars => TypeOK'
  BY TypeInvariance
<1> QED BY <1>1, <1>2, PTL DEF Spec

\* The inductive invariant of the way through the middlewares.
THEOREM Invariance ==
    ASSUME CustomerRoutesGuarded
    PROVE  Spec => []IInv
<1>1. Init => LiveKnown /\ KeyChecked /\ NewUnanswered
  BY DEF Init, LiveKnown, KeyChecked, NewUnanswered
<1>2. IInv /\ [Next]_vars => IInv'
  BY TypeInvariance, ArrivalInvariance, KeyCheckedInvariance DEF IInv
<1>3. Init /\ TypeOK => IInv
  BY <1>1 DEF IInv
<1> QED BY <1>2, <1>3, TypeCorrectness, PTL DEF Spec

\* apiKeyAuth: on the table of routes.ts, no handler of the customer API runs or
\* has run but for a key that was valid when its request came in and that has
\* the scope of the route, whatever was revoked or accepted meanwhile.
THEOREM KeysJustified ==
    ASSUME CustomerRoutesGuarded
    PROVE  Spec => []KeyJustified
<1>1. IInv => KeyJustified
  BY DEF IInv, KeyChecked, PastAuth, KeyJustified
<1> QED BY <1>1, Invariance, PTL

-----------------------------------------------------------------------------
(* The budgets *)

Refused(p, l) == req[p].answer = "limited" /\ Element(p) = l

\* The requests of client c that limiter l let through at a time in times.
LetThrough(l, c, times) ==
    {p \in Requests : /\ req[p].hits[l] # 0
                      /\ req[p].hits[l] \in times
                      /\ ~Refused(p, l)
                      /\ Client(p, l) = c}

CountedBy(l) == {p \in Requests : req[p].hits[l] # 0}

Since(s) == {u \in Int : u >= s}

\* The window of a client that has had none yet, and one that began at time s: it
\* has let through what it counted, up to the limit, began with a request that it
\* let through, and less than a budget went through in the last Window[l] before.
NoWindow(l, c) ==
    /\ window[l][c].hits = 0
    /\ window[l][c].reset = 0
    /\ LetThrough(l, c, Int) = {}

WindowSince(l, c, s) ==
    /\ window[l][c].hits > 0
    /\ window[l][c].reset = s + Window[l]
    /\ s > 0 /\ s <= now
    /\ Cardinality(LetThrough(l, c, Since(s)))
          = IF window[l][c].hits <= Limit[l] THEN window[l][c].hits ELSE Limit[l]
    /\ LetThrough(l, c, {s}) # {}
    /\ LetThrough(l, c, Since(s + Window[l])) = {}
    /\ Cardinality(LetThrough(l, c, (s - Window[l] + 1)..(s - 1))) < Limit[l]

WindowsExact ==
    \A l \in Limiters, c \in Clients :
        NoWindow(l, c) \/ \E s \in Nat : WindowSince(l, c, s)

SpansBounded ==
    \A l \in Limiters, c \in Clients : \A t \in Int :
        Cardinality(LetThrough(l, c, t..(t + Window[l] - 1))) < 2 * Limit[l]

RefusedFairly(q) ==
    LET l == Element(q)
        t == req[q].hits[l]
    IN /\ l \in Limiters
       /\ req[q].phase = "done"
       /\ t # 0
       /\ Cardinality(LetThrough(l, Client(q, l), (t - Window[l] + 1)..t)) >= Limit[l]

RefusalsFair == \A q \in Requests : req[q].answer = "limited" => RefusedFairly(q)

\* A limiter that counted a request is behind it, or refused it.
CountedBehind ==
    \A q \in Requests : \A l \in Limiters : req[q].hits[l] # 0 =>
        \E i \in Nat : /\ i \in DOMAIN Chain(req[q].route)
                       /\ Chain(req[q].route)[i] = l
                       /\ i < req[q].pos \/ (i = req[q].pos /\ req[q].answer = "limited")

CountsKnown ==
    /\ \A l \in Limiters : IsFiniteSet(CountedBy(l))
    /\ \A q \in Requests : \A l \in Limiters : req[q].hits[l] <= now
    /\ \A q \in Requests : req[q].phase = "new" =>
          /\ req[q].answer = "none"
          /\ \A l \in Limiters : req[q].hits[l] = 0

BudgetInv ==
    /\ TypeOK
    /\ CountsKnown
    /\ CountedBehind
    /\ RefusalsFair
    /\ WindowsExact
    /\ SpansBounded

\* What a step other than Count leaves of a request.
Kept(p) ==
    /\ req'[p].hits = req[p].hits
    /\ req'[p].address = req[p].address
    /\ \/ /\ req[p].phase = "new"
          /\ req'[p].answer = req[p].answer
       \/ /\ req'[p].phase # "new"
          /\ req'[p].route = req[p].route
          /\ req'[p].bearer = req[p].bearer
          /\ req'[p].vault = req[p].vault
          /\ req'[p].pos \in {req[p].pos, req[p].pos + 1}
          /\ req'[p].answer = "limited" <=> req[p].answer = "limited"
          /\ req[p].answer = "limited" => req'[p].pos = req[p].pos /\ req'[p].phase = "done"

\* Requests of one client are those that share a budget.
LEMMA SameClient ==
    ASSUME TypeOK, NEW q \in Requests, NEW l \in Limiters, NEW times \in SUBSET Int
    PROVE  PassedWith(q, l, times) = LetThrough(l, Client(q, l), times)
<1>1. ASSUME NEW p \in Requests
      PROVE  Client(p, l) = Client(q, l)
               <=> /\ l \notin IpLimiters => req[p].bearer = req[q].bearer
                   /\ l \in IpLimiters \/ req[q].bearer = NoBearer
                          => req[p].address = req[q].address
                   /\ l \in SessionLimiters => req[p].vault = req[q].vault
  <2>1. /\ req[p].address \in Addresses /\ req[q].address \in Addresses
        /\ req[p].bearer \in Bearers \cup {NoBearer}
        /\ req[q].bearer \in Bearers \cup {NoBearer}
    BY DEF TypeOK, Request
  <2>2. /\ req[p].address # req[q].bearer
        /\ req[q].address # req[p].bearer
    BY <2>1, AddressAssumption
  <2> QED BY <2>2 DEF Client
<1>2. \A p \in Requests : req[p].hits[l] \in times \ {0}
                              <=> req[p].hits[l] # 0 /\ req[p].hits[l] \in times
  OBVIOUS
<1> QED BY <1>1, <1>2 DEF PassedWith, LetThrough, Refused

\* What a limiter let through is finite, and more of it in more time.
LEMMA Throughs ==
    ASSUME TypeOK, CountsKnown, NEW l \in Limiters, NEW c, NEW times
    PROVE  /\ IsFiniteSet(LetThrough(l, c, times))
           /\ Cardinality(LetThrough(l, c, times)) \in Nat
<1>1. LetThrough(l, c, times) \subseteq CountedBy(l)
  BY DEF LetThrough, CountedBy
<1>2. IsFiniteSet(CountedBy(l))
  BY DEF CountsKnown
<1> QED BY <1>1, <1>2, FS_Subset, FS_CardinalityType

\* A span that reaches into the window that began at s has in it what went through
\* in the window, and less than a budget before.
SpansOfTwo ==
    \A l \in Limiters, c \in Clients : \A s \in Nat, t \in Int :
        WindowSince(l, c, s) /\ t + Window[l] > s
            => Cardinality(LetThrough(l, c, t..(t + Window[l] - 1))) < 2 * Limit[l]

LEMMA SpanOfTwo == TypeOK /\ CountsKnown => SpansOfTwo
<1> SUFFICES ASSUME TypeOK, CountsKnown, NEW l \in Limiters, NEW c \in Clients,
                    NEW s \in Nat, WindowSince(l, c, s), NEW t \in Int,
                    t + Window[l] > s
             PROVE  Cardinality(LetThrough(l, c, t..(t + Window[l] - 1))) < 2 * Limit[l]
  BY DEF SpansOfTwo
<1> DEFINE before == LetThrough(l, c, (s - Window[l] + 1)..(s - 1))
           within == LetThrough(l, c, Since(s))
           span == LetThrough(l, c, t..(t + Window[l] - 1))
<1>1. Limit[l] \in Nat /\ Window[l] \in Nat
  BY LimitAssumption, WindowAssumption
<1>2. \A p \in Requests : req[p].hits[l] \in Nat
  BY DEF TypeOK, Request
<1>3. span \subseteq before \cup within
  BY <1>1, <1>2 DEF LetThrough, Since
<1>4. /\ IsFiniteSet(before) /\ Cardinality(before) \in Nat
      /\ IsFiniteSet(within) /\ Cardinality(within) \in Nat
      /\ Cardinality(span) \in Nat
  BY Throughs
<1>5. /\ Cardinality(within) <= Limit[l] /\ Cardinality(before) < Limit[l]
  <2>1. window[l][c].hits \in Nat
    BY DEF TypeOK
  <2> QED BY <1>1, <2>1 DEF WindowSince
<1> HIDE DEF before, within, span
<1>6. /\ IsFiniteSet(before \cup within)
      /\ Cardinality(before \cup within)
           = Cardinality(before) + Cardinality(within) - Cardinality(before \cap within)
  BY <1>4, FS_Union
<1>7. Cardinality(before \cap within) \in Nat
  BY <1>4, FS_Intersection, FS_CardinalityType
<1>8. Cardinality(span) <= Cardinality(before \cup within)
  BY <1>3, <1>6, FS_Subset
<1>9. Cardinality(span) < 2 * Limit[l]
  BY <1>1, <1>4, <1>5, <1>6, <1>7, <1>8
<1> QED BY <1>9 DEF span

LEMMA SpanOfTwoNext == TypeOK' /\ CountsKnown' => SpansOfTwo'
BY SpanOfTwo, PTL

\* Every step but Count leaves the windows and what was counted alone.
LEMMA OtherSteps ==
    ASSUME BudgetInv, [Next]_vars, \A q \in Requests : ~Count(q)
    PROVE  /\ window' = window /\ now' \in {now, now + 1}
           /\ \A p \in Requests : Kept(p)
<1> DEFINE AllKept == \A p \in Requests : Kept(p)
<1>1. /\ req \in [Requests -> Request]
      /\ \A p \in Requests : req[p].answer = "limited" => req[p].phase = "done"
  BY DEF BudgetInv, TypeOK, RefusalsFair, RefusedFairly
<1>2. ASSUME NEW p \in Requests, req'[p] = req[p] PROVE Kept(p)
  BY <1>1, <1>2 DEF Kept
<1>3. ASSUME NEW q \in Requests, req[q].phase \notin {"new", "done"},
             NEW r, req' = [req EXCEPT ![q] = r],
             r.hits = req[q].hits, r.address = req[q].address,
             r.phase # "new", r.route = req[q].route, r.bearer = req[q].bearer,
             r.vault = req[q].vault, r.pos \in {req[q].pos, req[q].pos + 1},
             r.answer # "limited"
      PROVE  AllKept
  BY <1>1, <1>2, <1>3 DEF Kept
<1>4. ASSUME NEW q \in Requests, req[q].phase \notin {"new", "done"},
             NEW answer \in {"unauthorized", "forbidden", "unavailable", "notfound",
                             "error", "answered"},
             Done(q, answer)
      PROVE  AllKept
  <2> DEFINE r == [req[q] EXCEPT !.phase = "done", !.answer = answer]
  <2>1. req' = [req EXCEPT ![q] = r]
    BY <1>1, <1>4 DEF Done
  <2>2. req[q] \in Request
    BY <1>1
  <2>3. /\ r.hits = req[q].hits /\ r.address = req[q].address
        /\ r.phase # "new" /\ r.route = req[q].route /\ r.bearer = req[q].bearer
        /\ r.vault = req[q].vault /\ r.pos = req[q].pos
        /\ r.answer # "limited"
    BY <2>2 DEF Request
  <2> HIDE DEF r
  <2> QED BY <1>3, <1>4, <2>1, <2>3
<1>5. ASSUME NEW q \in Requests, req[q].phase \notin {"new", "done"},
             NEW phase \in {"passing", "checking", "handling"},
             NEW pos \in {req[q].pos, req[q].pos + 1},
             req' = [req EXCEPT ![q] = [req[q] EXCEPT !.phase = phase, !.pos = pos]]
      PROVE  AllKept
  <2> DEFINE r == [req[q] EXCEPT !.phase = phase, !.pos = pos]
  <2>1. req[q] \in Request
    BY <1>1
  <2>2. /\ r.hits = req[q].hits /\ r.address = req[q].address
        /\ r.phase # "new" /\ r.route = req[q].route /\ r.bearer = req[q].bearer
        /\ r.vault = req[q].vault /\ r.pos = pos
        /\ r.answer = req[q].answer
    BY <2>1 DEF Request
  <2>3. req[q].answer # "limited"
    BY <1>1, <1>5
  <2>4. req' = [req EXCEPT ![q] = r]
    BY <1>5
  <2> HIDE DEF r
  <2> QED BY <1>3, <1>5, <2>2, <2>3, <2>4
<1>6. ASSUME NEW q \in Requests, req[q].phase \notin {"new", "done"},
             NEW phase \in {"checking", "handling"},
             req' = [req EXCEPT ![q].phase = phase]
      PROVE  AllKept
  <2>1. [req[q] EXCEPT !.phase = phase] = [req[q] EXCEPT !.phase = phase, !.pos = req[q].pos]
    BY <1>1 DEF Request
  <2>2. req' = [req EXCEPT ![q] = [req[q] EXCEPT !.phase = phase]]
    BY <1>6
  <2>3. req' = [req EXCEPT ![q] = [req[q] EXCEPT !.phase = phase, !.pos = req[q].pos]]
    BY <2>1, <2>2
  <2> QED BY <1>5, <1>6, <2>3
<1>7. ASSUME NEW q \in Requests, req[q].phase \in {"passing", "checking"},
             \/ req' = [req EXCEPT ![q].phase = "passing", ![q].pos = @ + 1]
             \/ req' = [req EXCEPT ![q].pos = @ + 1] /\ req[q].phase = "passing"
      PROVE  AllKept
  <2>1. CASE req' = [req EXCEPT ![q].phase = "passing", ![q].pos = @ + 1]
    <3>1. req' = [req EXCEPT ![q] = [req[q] EXCEPT !.phase = "passing",
                                                   !.pos = req[q].pos + 1]]
      BY <1>1, <2>1 DEF Request
    <3> QED BY <1>5, <1>7, <3>1
  <2>2. CASE req' = [req EXCEPT ![q].pos = @ + 1] /\ req[q].phase = "passing"
    <3>1. [req[q] EXCEPT !.pos = req[q].pos + 1]
            = [req[q] EXCEPT !.phase = "passing", !.pos = req[q].pos + 1]
      BY <1>1, <2>2 DEF Request
    <3>2. req' = [req EXCEPT ![q] = [req[q] EXCEPT !.pos = req[q].pos + 1]]
      BY <2>2
    <3>3. req' = [req EXCEPT ![q] = [req[q] EXCEPT !.phase = "passing",
                                                   !.pos = req[q].pos + 1]]
      BY <3>1, <3>2
    <3> QED BY <1>5, <1>7, <3>3
  <2> QED BY <1>7, <2>1, <2>2
<1>8. ASSUME NEW q \in Requests, NEW offer \in Offered, Arrive(q, offer)
      PROVE  AllKept
  <2> DEFINE r == [req[q] EXCEPT !.phase = "passing",
                                 !.route = Dispatch(offer.method, offer.path),
                                 !.bearer = offer.bearer,
                                 !.vault = offer.vault,
                                 !.pos = 1,
                                 !.live = offer.bearer \in valid]
  <2>1. req[q].phase = "new" /\ req' = [req EXCEPT ![q] = r]
    BY <1>8 DEF Arrive
  <2>2. req[q] \in Request
    BY <1>1
  <2>3. r.hits = req[q].hits /\ r.address = req[q].address /\ r.answer = req[q].answer
    BY <2>2 DEF Request
  <2> HIDE DEF r
  <2>4. req'[q] = r
    BY <1>1, <2>1
  <2>5. Kept(q)
    BY <2>1, <2>3, <2>4 DEF Kept
  <2> QED BY <1>1, <1>2, <2>1, <2>5
<1>9. ASSUME NEW q \in Requests, Verify(q) PROVE AllKept
  BY <1>4, <1>7, <1>9 DEF Verify, At
<1>10. ASSUME NEW q \in Requests, Present(q) PROVE AllKept
  BY <1>4, <1>6, <1>10 DEF Present, At
<1>11. ASSUME NEW q \in Requests, LookUp(q) PROVE AllKept
  BY <1>4, <1>7, <1>11 DEF LookUp, Resume
<1>12. ASSUME NEW q \in Requests, CheckFails(q) \/ Handle(q) \/ Answer(q) PROVE AllKept
  BY <1>4, <1>6, <1>12 DEF CheckFails, Handle, Answer
<1>13. ASSUME UNCHANGED req PROVE AllKept
  BY <1>2, <1>13
<1> DEFINE Step(q) == \/ \E offer \in Offered : Arrive(q, offer)
                      \/ Verify(q) \/ Present(q) \/ LookUp(q)
                      \/ CheckFails(q) \/ Handle(q) \/ Answer(q)
           Quietly == window' = window /\ now' \in {now, now + 1}
<1>14. \/ \E q \in Requests : Step(q)
       \/ \E k \in Bearers : Revoke(k)
       \/ Tick
       \/ UNCHANGED vars
  BY DEF Next, RequestStep, CustomerStep
<1>15. ASSUME NEW q \in Requests, Step(q) PROVE AllKept /\ Quietly
  <2>1. AllKept
    BY <1>8, <1>9, <1>10, <1>11, <1>12, <1>15
  <2>2. Quietly
    BY <1>15 DEF Arrive, Verify, Present, LookUp, Resume, CheckFails, Handle, Answer
  <2> QED BY <2>1, <2>2
<1>16. ASSUME NEW k \in Bearers, Revoke(k) PROVE AllKept /\ Quietly
  BY <1>13, <1>16 DEF Revoke
<1>17. ASSUME Tick PROVE AllKept /\ Quietly
  BY <1>13, <1>17 DEF Tick
<1>18. ASSUME UNCHANGED vars PROVE AllKept /\ Quietly
  BY <1>13, <1>18 DEF vars
<1> HIDE DEF AllKept, Step
<1>19. AllKept /\ Quietly
  BY <1>14, <1>15, <1>16, <1>17, <1>18
<1> QED BY <1>19 DEF AllKept

\* What such a step leaves alone keeps the budgets.
LEMMA BudgetsKept ==
    ASSUME BudgetInv, TypeOK', window' = window, now' \in {now, now + 1},
           \A p \in Requests : Kept(p)
    PROVE  BudgetInv'
<1>1. /\ TypeOK /\ CountsKnown /\ CountedBehind /\ RefusalsFair /\ WindowsExact
      /\ SpansBounded
  BY DEF BudgetInv
<1>2. now \in Nat /\ now' \in Nat /\ now <= now'
  BY <1>1, TimeAssumption DEF TypeOK
<1>3. \A p \in Requests : /\ req[p].hits \in [Limiters -> Nat]
                          /\ req[p].pos \in Nat
  BY <1>1 DEF TypeOK, Request
<1>4. ASSUME NEW p \in Requests, NEW l \in Limiters, req[p].hits[l] # 0
      PROVE  /\ Client(p, l)' = Client(p, l)
             /\ Refused(p, l)' <=> Refused(p, l)
  <2>1. req[p].phase # "new"
    BY <1>1, <1>4 DEF CountsKnown
  <2>2. /\ req'[p].route = req[p].route /\ req'[p].bearer = req[p].bearer
        /\ req'[p].vault = req[p].vault /\ req'[p].address = req[p].address
        /\ req'[p].answer = "limited" <=> req[p].answer = "limited"
        /\ req[p].answer = "limited" => req'[p].pos = req[p].pos
    BY <2>1 DEF Kept
  <2>3. Client(p, l)' = Client(p, l)
    BY <2>2 DEF Client
  <2>4. Refused(p, l)' <=> Refused(p, l)
    BY <2>2 DEF Refused, Element
  <2> QED BY <2>3, <2>4
<1>5. \A p \in Requests : req'[p].hits = req[p].hits
  BY DEF Kept
<1>6. ASSUME NEW l \in Limiters, NEW c, NEW times
      PROVE  LetThrough(l, c, times)' = LetThrough(l, c, times)
  BY <1>4, <1>5 DEF LetThrough
<1>7. CountsKnown'
  <2>1. \A l \in Limiters : CountedBy(l)' = CountedBy(l)
    BY <1>5 DEF CountedBy
  <2>2. ASSUME NEW q \in Requests, req'[q].phase = "new"
        PROVE  /\ req'[q].answer = "none"
               /\ \A l \in Limiters : req'[q].hits[l] = 0
    BY <1>1, <2>2 DEF Kept, CountsKnown
  <2>3. \A q \in Requests : \A l \in Limiters : req'[q].hits[l] <= now'
    BY <1>1, <1>2, <1>3, <1>5 DEF CountsKnown
  <2> QED BY <1>1, <2>1, <2>2, <2>3 DEF CountsKnown
<1>8. CountedBehind'
  <2> SUFFICES ASSUME NEW q \in Requests, NEW l \in Limiters, req'[q].hits[l] # 0
               PROVE  \E i \in Nat :
                         /\ i \in DOMAIN Chain(req'[q].route)
                         /\ Chain(req'[q].route)[i] = l
                         /\ i < req'[q].pos
                            \/ (i = req'[q].pos /\ req'[q].answer = "limited")
    BY DEF CountedBehind, Chain
  <2>1. req[q].hits[l] # 0 /\ req[q].phase # "new"
    BY <1>1, <1>5 DEF CountsKnown
  <2>2. PICK i \in Nat : /\ i \in DOMAIN Chain(req[q].route)
                         /\ Chain(req[q].route)[i] = l
                         /\ i < req[q].pos \/ (i = req[q].pos /\ req[q].answer = "limited")
    BY <1>1, <2>1 DEF CountedBehind
  <2>3. /\ req'[q].route = req[q].route
        /\ req'[q].pos \in {req[q].pos, req[q].pos + 1}
        /\ req'[q].answer = "limited" <=> req[q].answer = "limited"
        /\ req[q].answer = "limited" => req'[q].pos = req[q].pos
    BY <2>1 DEF Kept
  <2>4. i < req'[q].pos \/ (i = req'[q].pos /\ req'[q].answer = "limited")
    BY <1>3, <2>2, <2>3
  <2> QED BY <2>2, <2>3, <2>4
<1>9. RefusalsFair'
  <2> SUFFICES ASSUME NEW q \in Requests, req'[q].answer = "limited"
               PROVE  RefusedFairly(q)'
    BY DEF RefusalsFair
  <2>1. /\ req[q].answer = "limited" /\ req'[q].phase = "done"
        /\ req'[q].pos = req[q].pos /\ req'[q].route = req[q].route
    BY <1>1 DEF Kept, CountsKnown
  <2>2. RefusedFairly(q) /\ Element(q)' = Element(q)
    BY <1>1, <2>1 DEF RefusalsFair, Element
  <2> DEFINE l == Element(q)
             t == req[q].hits[l]
             c == Client(q, l)
  <2>3. l \in Limiters /\ t # 0
    BY <2>2 DEF RefusedFairly
  <2>4. Cardinality(LetThrough(l, c, (t - Window[l] + 1)..t)) >= Limit[l]
    BY <2>2 DEF RefusedFairly
  <2>5. ASSUME NEW m \in Limiters, m = l, NEW d, d = c, NEW u, u = t
        PROVE  RefusedFairly(q)'
    <3>1. LetThrough(m, d, (u - Window[m] + 1)..u)' = LetThrough(m, d, (u - Window[m] + 1)..u)
      BY <1>6
    <3>2. Element(q)' = m /\ Client(q, m)' = d /\ req'[q].hits[m] = u
      BY <1>4, <1>5, <2>2, <2>3, <2>5
    <3>3. Cardinality(LetThrough(m, d, (u - Window[m] + 1)..u)) >= Limit[m]
      BY <2>4, <2>5
    <3>4. u # 0
      BY <2>3, <2>5
    <3> QED BY <2>1, <3>1, <3>2, <3>3, <3>4 DEF RefusedFairly
  <2> QED BY <2>3, <2>5
<1>10. WindowsExact'
  <2> SUFFICES ASSUME NEW l \in Limiters, NEW c \in Clients
               PROVE  NoWindow(l, c)' \/ \E s \in Nat : WindowSince(l, c, s)'
    BY DEF WindowsExact
  <2>1. CASE NoWindow(l, c)
    BY <1>6, <2>1 DEF NoWindow
  <2>2. ASSUME NEW s \in Nat, WindowSince(l, c, s) PROVE WindowSince(l, c, s)'
    <3>1. \A times : LetThrough(l, c, times)' = LetThrough(l, c, times)
      BY <1>6
    <3>2. s <= now'
      BY <1>2, <2>2 DEF WindowSince
    <3>3. Since(s)' = Since(s) /\ Since(s + Window[l])' = Since(s + Window[l])
      BY DEF Since
    <3> QED BY <2>2, <3>1, <3>2, <3>3 DEF WindowSince
  <2> QED BY <1>1, <2>1, <2>2 DEF WindowsExact
<1>11. SpansBounded'
  BY <1>1, <1>6 DEF SpansBounded
<1> QED BY <1>7, <1>8, <1>9, <1>10, <1>11 DEF BudgetInv

\* Count leaves the window of client c at limiter l with these hits, to be reset
\* then, and refuses the request if the hits are too many.
CountsTo(q, l, c, hits, reset) ==
    /\ window' = [window EXCEPT ![l][c] = [hits |-> hits, reset |-> reset]]
    /\ \/ /\ window[l][c].reset <= now
          /\ hits = 1 /\ reset = now + Window[l]
       \/ /\ window[l][c].reset > now
          /\ hits = window[l][c].hits + 1 /\ reset = window[l][c].reset
    /\ \/ /\ hits > Limit[l]
          /\ req'[q].phase = "done" /\ req'[q].answer = "limited"
          /\ req'[q].pos = req[q].pos
       \/ /\ hits <= Limit[l]
          /\ req'[q].answer = req[q].answer
          /\ req'[q].pos = req[q].pos + 1

\* What Count does to the request it counts, which its limiter sees for the first
\* time, and to the window of the request's client.
LEMMA Counts ==
    ASSUME BudgetInv, NEW q \in Requests, Count(q),
           NEW l, l = Element(q), NEW c, c = Client(q, l)
    PROVE  /\ l \in Limiters /\ c \in Clients
           /\ req[q].hits[l] = 0 /\ req[q].answer # "limited" /\ req[q].phase = "passing"
           /\ req[q].pos \in DOMAIN Chain(req[q].route)
           /\ now' = now
           /\ \A p \in Requests \ {q} : req'[p] = req[p]
           /\ req'[q].route = req[q].route /\ req'[q].bearer = req[q].bearer
           /\ req'[q].address = req[q].address /\ req'[q].vault = req[q].vault
           /\ req'[q].phase \in {"passing", "done"}
           /\ req'[q].hits = [req[q].hits EXCEPT ![l] = now]
           /\ \E hits \in Nat, reset \in Nat : CountsTo(q, l, c, hits, reset)
<1> DEFINE r == req[q]
           old == window[l][c]
           fresh == old.reset <= now
           hits == IF fresh THEN 1 ELSE old.hits + 1
           reset == IF fresh THEN now + Window[l] ELSE old.reset
           over == hits > Limit[l]
           refused == [r EXCEPT !.hits[l] = now, !.phase = "done", !.answer = "limited"]
           passed == [r EXCEPT !.hits[l] = now, !.pos = r.pos + 1]
<1>1. /\ TypeOK /\ CountsKnown /\ CountedBehind /\ RefusalsFair
  BY DEF BudgetInv
<1>2. /\ l \in Limiters
      /\ r.phase = "passing"
      /\ r.pos \in DOMAIN Chain(r.route)
      /\ Chain(r.route)[r.pos] = l
      /\ window' = [window EXCEPT ![l][c] = [hits |-> hits, reset |-> reset]]
      /\ req' = [req EXCEPT ![q] = IF over THEN refused ELSE passed]
      /\ UNCHANGED <<now, module, valid>>
  BY DEF Count, At, Element
<1>3. c \in Clients
  BY <1>1, <1>2, ClientType
<1>4. r \in Request /\ now \in Nat
  BY <1>1, TimeAssumption DEF TypeOK
<1>5. r.answer # "limited"
  BY <1>1, <1>2 DEF RefusalsFair, RefusedFairly
<1>6. r.hits[l] = 0
  <2> SUFFICES ASSUME r.hits[l] # 0 PROVE FALSE
    OBVIOUS
  <2>1. PICK i \in Nat : /\ i \in DOMAIN Chain(r.route)
                         /\ Chain(r.route)[i] = l
                         /\ i < r.pos \/ (i = r.pos /\ r.answer = "limited")
    BY <1>1, <1>2 DEF CountedBehind
  <2>2. r.route \in Routes /\ r.pos \in Nat
    BY <1>4 DEF Request
  <2>3. i = r.pos
    BY <1>2, <2>1, <2>2, ChainAssumption
  <2> QED BY <1>5, <2>1, <2>2, <2>3
<1>7. old.hits \in Nat /\ old.reset \in Nat /\ Window[l] \in Nat /\ Limit[l] \in Nat
  BY <1>1, <1>2, <1>3, WindowAssumption, LimitAssumption DEF TypeOK
<1>8. /\ hits \in Nat /\ reset \in Nat
      /\ \/ old.reset <= now /\ hits = 1 /\ reset = now + Window[l]
         \/ old.reset > now /\ hits = old.hits + 1 /\ reset = old.reset
  BY <1>4, <1>7
<1>9. /\ refused.route = r.route /\ refused.bearer = r.bearer
      /\ refused.address = r.address /\ refused.vault = r.vault
      /\ refused.hits = [r.hits EXCEPT ![l] = now]
      /\ refused.phase = "done" /\ refused.answer = "limited" /\ refused.pos = r.pos
  BY <1>4 DEF Request
<1>10. /\ passed.route = r.route /\ passed.bearer = r.bearer
       /\ passed.address = r.address /\ passed.vault = r.vault
       /\ passed.hits = [r.hits EXCEPT ![l] = now]
       /\ passed.phase = r.phase /\ passed.answer = r.answer /\ passed.pos = r.pos + 1
  BY <1>4 DEF Request
<1>11. req'[q] = IF over THEN refused ELSE passed
  BY <1>1, <1>2 DEF TypeOK
<1>12. \A p \in Requests \ {q} : req'[p] = req[p]
  BY <1>1, <1>2 DEF TypeOK
<1>13. over \/ hits <= Limit[l]
  BY <1>7, <1>8
<1> HIDE DEF refused, passed, hits, reset
<1>14. /\ req'[q].route = r.route /\ req'[q].bearer = r.bearer
       /\ req'[q].address = r.address /\ req'[q].vault = r.vault
       /\ req'[q].phase \in {"passing", "done"}
       /\ req'[q].hits = [r.hits EXCEPT ![l] = now]
       /\ \/ /\ hits > Limit[l]
             /\ req'[q].phase = "done" /\ req'[q].answer = "limited"
             /\ req'[q].pos = r.pos
          \/ /\ hits <= Limit[l]
             /\ req'[q].answer = r.answer
             /\ req'[q].pos = r.pos + 1
  BY <1>2, <1>9, <1>10, <1>11, <1>13
<1>15. \E h \in Nat, t \in Nat : CountsTo(q, l, c, h, t)
  BY <1>2, <1>8, <1>14 DEF CountsTo
<1> QED BY <1>2, <1>3, <1>5, <1>6, <1>12, <1>14, <1>15

\* What Count adds to what a limiter let through: the request, unless it refused it.
LEMMA CountsThrough ==
    ASSUME BudgetInv, NEW q \in Requests, Count(q),
           NEW l, l = Element(q), NEW c, c = Client(q, l)
    PROVE  /\ \A m \in Limiters : \A d, times :
                 m # l \/ d # c => LetThrough(m, d, times)' = LetThrough(m, d, times)
           /\ req'[q].answer = "limited" => \A times :
                 LetThrough(l, c, times)' = LetThrough(l, c, times)
           /\ req'[q].answer # "limited" => \A times :
                 LetThrough(l, c, times)'
                     = LetThrough(l, c, times) \cup (IF now \in times THEN {q} ELSE {})
           /\ \A times : q \notin LetThrough(l, c, times)
           /\ \A m \in Limiters : CountedBy(m)' \subseteq CountedBy(m) \cup {q}
<1>1. /\ l \in Limiters
      /\ req[q].hits[l] = 0 /\ req[q].answer # "limited"
      /\ \A p \in Requests \ {q} : req'[p] = req[p]
      /\ req'[q].route = req[q].route /\ req'[q].bearer = req[q].bearer
      /\ req'[q].address = req[q].address /\ req'[q].vault = req[q].vault
      /\ req'[q].hits = [req[q].hits EXCEPT ![l] = now]
      /\ req'[q].answer = "limited" => req'[q].pos = req[q].pos
  BY Counts DEF CountsTo
<1>2. req[q].hits \in [Limiters -> Nat] /\ now \in Nat /\ now # 0
  BY TimeAssumption DEF BudgetInv, TypeOK, Request
<1>3. \A m \in Limiters : req'[q].hits[m] = IF m = l THEN now ELSE req[q].hits[m]
  BY <1>1, <1>2
<1>4. \A m : Client(q, m)' = Client(q, m)
  BY <1>1 DEF Client
<1>5. ASSUME NEW p \in Requests \ {q}
      PROVE  /\ \A m : Client(p, m)' = Client(p, m)
             /\ \A m : Refused(p, m)' <=> Refused(p, m)
             /\ \A m : req'[p].hits[m] = req[p].hits[m]
  BY <1>1 DEF Client, Refused, Element
<1>6. \A m : Refused(q, m)' <=> req'[q].answer = "limited" /\ m = l
  <2>1. req'[q].answer = "limited" => Element(q)' = l
    BY <1>1 DEF Element
  <2> QED BY <2>1 DEF Refused
<1>7. \A m : ~Refused(q, m)
  BY <1>1 DEF Refused
<1>8. ASSUME NEW m \in Limiters, NEW d, NEW times, m # l \/ d # c
      PROVE  LetThrough(m, d, times)' = LetThrough(m, d, times)
  <2>1. q \in LetThrough(m, d, times)' <=> q \in LetThrough(m, d, times)
    BY <1>3, <1>4, <1>6, <1>7, <1>8 DEF LetThrough
  <2> QED BY <1>5, <2>1 DEF LetThrough
<1>9. ASSUME NEW times
      PROVE  /\ q \notin LetThrough(l, c, times)
             /\ q \in LetThrough(l, c, times)'
                    <=> now \in times /\ req'[q].answer # "limited"
             /\ \A p \in Requests \ {q} :
                    p \in LetThrough(l, c, times)' <=> p \in LetThrough(l, c, times)
  <2>1. q \notin LetThrough(l, c, times)
    BY <1>1 DEF LetThrough
  <2>2. req'[q].hits[l] = now
    BY <1>1, <1>3
  <2>3. q \in LetThrough(l, c, times)' <=> now \in times /\ req'[q].answer # "limited"
    BY <1>2, <1>4, <1>6, <2>2 DEF LetThrough
  <2>4. \A p \in Requests \ {q} :
           p \in LetThrough(l, c, times)' <=> p \in LetThrough(l, c, times)
    BY <1>5 DEF LetThrough
  <2> QED BY <2>1, <2>3, <2>4
<1>10. \A times : /\ LetThrough(l, c, times) \subseteq Requests
                  /\ LetThrough(l, c, times)' \subseteq Requests
  BY DEF LetThrough
<1>11. \A m \in Limiters : CountedBy(m)' \subseteq CountedBy(m) \cup {q}
  BY <1>5 DEF CountedBy
<1> QED BY <1>8, <1>9, <1>10, <1>11

\* A request that is counted keeps its client's window exact: it is the first of a
\* new window, within the limit of the old one, or refused.
LEMMA WindowCounted ==
    ASSUME BudgetInv, CountsKnown', TypeOK', NEW q \in Requests, Count(q),
           NEW l, l = Element(q), NEW c, c = Client(q, l)
    PROVE  /\ \E s \in Nat : WindowSince(l, c, s)'
           /\ req'[q].answer = "limited" => RefusedFairly(q)'
<1>1. /\ TypeOK /\ CountsKnown /\ WindowsExact
  BY DEF BudgetInv
<1>2. /\ l \in Limiters /\ c \in Clients
      /\ now' = now
      /\ req'[q].route = req[q].route /\ req'[q].bearer = req[q].bearer
      /\ req'[q].address = req[q].address /\ req'[q].vault = req[q].vault
      /\ req'[q].hits = [req[q].hits EXCEPT ![l] = now]
  BY Counts
<1>3. PICK hits \in Nat, reset \in Nat : CountsTo(q, l, c, hits, reset)
  BY Counts
<1>4. /\ Limit[l] \in Nat /\ Limit[l] > 0 /\ Window[l] \in Nat /\ Window[l] > 0
      /\ now \in Nat /\ now > 0
  BY <1>1, <1>2, LimitAssumption, WindowAssumption, TimeAssumption DEF TypeOK
<1>5. window'[l][c].hits = hits /\ window'[l][c].reset = reset
  BY <1>1, <1>2, <1>3 DEF TypeOK, CountsTo
<1>6. \A p \in Requests : req[p].hits[l] \in Nat /\ req[p].hits[l] <= now
  BY <1>1, <1>2 DEF TypeOK, Request, CountsKnown
<1>7. \A times : /\ IsFiniteSet(LetThrough(l, c, times))
                 /\ Cardinality(LetThrough(l, c, times)) \in Nat
                 /\ q \notin LetThrough(l, c, times)
  BY <1>1, <1>2, Throughs, CountsThrough
<1>8. req[q].answer # "limited"
  BY Counts
<1>9. hits <= Limit[l] => \A times :
         LetThrough(l, c, times)'
             = LetThrough(l, c, times) \cup (IF now \in times THEN {q} ELSE {})
  BY <1>3, <1>4, <1>8, CountsThrough DEF CountsTo
<1>10. hits > Limit[l] => \A times : LetThrough(l, c, times)' = LetThrough(l, c, times)
  BY <1>3, <1>4, CountsThrough DEF CountsTo
<1>11. \A s : Since(s)' = Since(s)
  BY DEF Since
<1>12. PICK n \in Nat : n = now
  BY <1>4
<1>13. ASSUME NEW times, n \notin times
      PROVE  LetThrough(l, c, times)' = LetThrough(l, c, times)
  <2>1. CASE hits <= Limit[l]
    <3>1. LetThrough(l, c, times)' = LetThrough(l, c, times) \cup {}
      BY <1>9, <1>12, <1>13, <2>1
    <3> QED BY <3>1
  <2>2. CASE hits > Limit[l]
    BY <1>10, <2>2
  <2> QED BY <1>3, <2>1, <2>2 DEF CountsTo
<1>14. CASE window[l][c].reset <= now
  <2>1. hits = 1 /\ reset = n + Window[l] /\ hits <= Limit[l]
    BY <1>3, <1>4, <1>14, <1>12 DEF CountsTo
  <2>2. LetThrough(l, c, Since(n)) = {}
    <3>1. CASE NoWindow(l, c)
      BY <3>1 DEF NoWindow, LetThrough, Since
    <3>2. ASSUME NEW s \in Nat, WindowSince(l, c, s)
          PROVE  LetThrough(l, c, Since(n)) = {}
      <4>1. s + Window[l] <= n
        BY <1>14, <1>12, <3>2 DEF WindowSince
      <4>2. LetThrough(l, c, Since(n)) \subseteq LetThrough(l, c, Since(s + Window[l]))
        BY <1>4, <4>1 DEF LetThrough, Since
      <4> QED BY <3>2, <4>2 DEF WindowSince
    <3> QED BY <1>1, <1>2, <3>1, <3>2 DEF WindowsExact
  <2> DEFINE before == (n - Window[l] + 1)..(n - 1)
  <2>3. Cardinality(LetThrough(l, c, before)) < Limit[l]
    <3>1. CASE NoWindow(l, c)
      <4>1. LetThrough(l, c, before) = {}
        BY <3>1 DEF NoWindow, LetThrough
      <4> QED BY <1>4, <4>1, FS_EmptySet
    <3>2. ASSUME NEW s \in Nat, WindowSince(l, c, s)
          PROVE  Cardinality(LetThrough(l, c, before)) < Limit[l]
      <4>1. s + Window[l] <= n
        BY <1>14, <1>12, <3>2 DEF WindowSince
      <4>2. PICK first \in Requests : first \in LetThrough(l, c, {s})
        BY <3>2 DEF WindowSince, LetThrough
      <4>3. first \in LetThrough(l, c, Since(s)) /\ first \notin LetThrough(l, c, before)
        BY <1>4, <4>1, <4>2 DEF LetThrough, Since
      <4>4. LetThrough(l, c, before) \subseteq LetThrough(l, c, Since(s)) \ {first}
        BY <1>4, <4>1, <4>3 DEF LetThrough, Since
      <4>5. Cardinality(LetThrough(l, c, Since(s))) <= Limit[l]
        <5>1. window[l][c].hits \in Nat
          BY <1>1, <1>2 DEF TypeOK
        <5> QED BY <1>4, <3>2, <5>1 DEF WindowSince
      <4>6. /\ IsFiniteSet(LetThrough(l, c, Since(s)) \ {first})
            /\ Cardinality(LetThrough(l, c, Since(s)) \ {first})
                 = Cardinality(LetThrough(l, c, Since(s))) - 1
        BY <1>7, <4>3, FS_RemoveElement
      <4> HIDE DEF before
      <4>7. Cardinality(LetThrough(l, c, before)) <= Cardinality(LetThrough(l, c, Since(s))) - 1
        BY <4>4, <4>6, FS_Subset
      <4>8. Cardinality(LetThrough(l, c, before)) \in Nat
        BY <1>7
      <4> QED BY <1>4, <1>7, <4>5, <4>7, <4>8
    <3> QED BY <1>1, <1>2, <3>1, <3>2 DEF WindowsExact
  <2>4. n \in Since(n) /\ n \notin before /\ n \notin Since(n + Window[l])
    BY <1>4 DEF Since
  <2> HIDE DEF before
  <2>5. /\ LetThrough(l, c, Since(n))' = {q}
        /\ q \in LetThrough(l, c, {n})'
    <3>1. \A times : n \in times =>
             LetThrough(l, c, times)' = LetThrough(l, c, times) \cup {q}
      BY <1>9, <1>12, <2>1
    <3>2. n \in {n}
      OBVIOUS
    <3> QED BY <2>2, <2>4, <3>1, <3>2
  <2>6. LetThrough(l, c, Since(n + Window[l]))' = {}
    <3>1. LetThrough(l, c, Since(n + Window[l])) = {}
      BY <1>4, <1>6, <1>12 DEF LetThrough, Since
    <3> QED BY <1>13, <2>4, <3>1
  <2>7. LetThrough(l, c, before)' = LetThrough(l, c, before)
    BY <1>13, <2>4
  <2>8. Cardinality(LetThrough(l, c, Since(n))') = 1
    BY <2>5, FS_Singleton
  <2>9. Cardinality(LetThrough(l, c, (n - Window[l] + 1)..(n - 1))') < Limit[l]
    BY <2>3, <2>7 DEF before
  <2>10. /\ window'[l][c].hits = 1 /\ window'[l][c].reset = n + Window[l]
         /\ n > 0 /\ n <= now'
    BY <1>2, <1>4, <1>5, <1>12, <2>1
  <2>11. WindowSince(l, c, n)'
    BY <1>4, <1>11, <2>5, <2>6, <2>8, <2>9, <2>10 DEF WindowSince
  <2>12. req'[q].answer # "limited"
    BY <1>3, <1>4, <1>8, <2>1 DEF CountsTo
  <2> QED BY <2>11, <2>12
<1>15. CASE window[l][c].reset > now
  <2>1. hits = window[l][c].hits + 1 /\ reset = window[l][c].reset
    BY <1>1, <1>2, <1>3, <1>4, <1>15 DEF TypeOK, CountsTo
  <2>2. PICK s \in Nat : WindowSince(l, c, s)
    BY <1>1, <1>2, <1>4, <1>15 DEF WindowsExact, NoWindow
  <2>3. /\ reset = s + Window[l] /\ s > 0 /\ s <= now /\ now < s + Window[l]
        /\ Cardinality(LetThrough(l, c, Since(s)))
              = IF hits - 1 <= Limit[l] THEN hits - 1 ELSE Limit[l]
        /\ hits - 1 > 0
    <3>1. window[l][c].hits \in Nat
      BY <1>1, <1>2 DEF TypeOK
    <3>2. hits - 1 = window[l][c].hits
      BY <2>1, <3>1
    <3> QED BY <1>4, <1>15, <2>1, <2>2, <3>2 DEF WindowSince
  <2>4. now \in Since(s) /\ now \notin Since(s + Window[l])
        /\ now \notin (s - Window[l] + 1)..(s - 1)
    BY <1>4, <2>3 DEF Since
  <2>5. /\ LetThrough(l, c, Since(s + Window[l]))' = {}
        /\ LetThrough(l, c, (s - Window[l] + 1)..(s - 1))'
             = LetThrough(l, c, (s - Window[l] + 1)..(s - 1))
        /\ LetThrough(l, c, {s})' # {}
    <3>1. \A times : n \notin times => LetThrough(l, c, times)' = LetThrough(l, c, times)
      BY <1>13
    <3>2. \A times : LetThrough(l, c, times) \subseteq LetThrough(l, c, times)'
      BY <1>3, <1>9, <1>10 DEF CountsTo
    <3>3. LetThrough(l, c, {s}) # {} /\ LetThrough(l, c, Since(s + Window[l])) = {}
      BY <2>2 DEF WindowSince
    <3> QED BY <1>12, <2>4, <3>1, <3>2, <3>3
  <2>6. Cardinality(LetThrough(l, c, Since(s))')
          = IF hits <= Limit[l] THEN hits ELSE Limit[l]
    <3>1. CASE hits > Limit[l]
      BY <1>4, <1>10, <2>3, <3>1
    <3>2. CASE hits <= Limit[l]
      <4>1. LetThrough(l, c, Since(s))' = LetThrough(l, c, Since(s)) \cup {q}
        BY <1>9, <2>4, <3>2
      <4>2. Cardinality(LetThrough(l, c, Since(s)) \cup {q})
              = Cardinality(LetThrough(l, c, Since(s))) + 1
        BY <1>7, FS_AddElement
      <4>3. Cardinality(LetThrough(l, c, Since(s))) = hits - 1
        BY <1>4, <2>3, <3>2
      <4> QED BY <3>2, <4>1, <4>2, <4>3
    <3> QED BY <1>4, <3>1, <3>2
  <2>7. WindowSince(l, c, s)'
    <3>1. Cardinality(LetThrough(l, c, (s - Window[l] + 1)..(s - 1))') < Limit[l]
      BY <2>2, <2>5 DEF WindowSince
    <3>2. /\ window'[l][c].hits > 0 /\ window'[l][c].reset = s + Window[l]
          /\ s > 0 /\ s <= now'
      BY <1>2, <1>5, <2>3
    <3> QED BY <1>5, <1>11, <2>5, <2>6, <3>1, <3>2 DEF WindowSince
  <2>8. ASSUME req'[q].answer = "limited" PROVE RefusedFairly(q)'
    <3>1. hits > Limit[l] /\ req'[q].phase = "done" /\ req'[q].pos = req[q].pos
      BY <1>3, <1>8, <2>8 DEF CountsTo
    <3>2. Element(q)' = l /\ Client(q, l)' = c
      BY <1>2, <3>1 DEF Element, Client
    <3>3. req'[q].hits[l] = now
      BY <1>1, <1>2 DEF TypeOK, Request
    <3> DEFINE within == LetThrough(l, c, Since(s))
               last == LetThrough(l, c, (n - Window[l] + 1)..n)
    <3>4. within \subseteq last
      BY <1>4, <1>6, <1>12, <2>3 DEF LetThrough, Since
    <3>5. Cardinality(within) = Limit[l]
      BY <1>4, <2>3, <3>1
    <3>6. Cardinality(within) <= Cardinality(last)
      BY <1>7, <3>4, FS_Subset
    <3>7. Cardinality(last) >= Limit[l]
      BY <1>4, <1>7, <3>5, <3>6
    <3> HIDE DEF within
    <3>8. Cardinality(LetThrough(l, c, (n - Window[l] + 1)..n)') >= Limit[l]
      BY <1>10, <3>1, <3>7
    <3> HIDE DEF last
    <3> QED BY <1>2, <1>4, <1>12, <3>1, <3>2, <3>3, <3>8 DEF RefusedFairly
  <2> QED BY <2>7, <2>8
<1> QED
  <2>1. window[l][c].reset \in Nat
    BY <1>1, <1>2 DEF TypeOK
  <2> QED BY <1>4, <1>14, <1>15, <2>1

\* A counted request keeps the budgets.
LEMMA BudgetsCounted ==
    ASSUME BudgetInv, TypeOK', NEW q \in Requests, Count(q)
    PROVE  BudgetInv'
<1>1. /\ TypeOK /\ CountsKnown /\ CountedBehind /\ RefusalsFair /\ WindowsExact
      /\ SpansBounded
  BY DEF BudgetInv
<1>2. PICK l : l = Element(q)
  OBVIOUS
<1>3. PICK c : c = Client(q, l)
  OBVIOUS
<1>4. /\ l \in Limiters /\ c \in Clients
      /\ req[q].hits[l] = 0 /\ req[q].answer # "limited" /\ req[q].phase = "passing"
      /\ req[q].pos \in DOMAIN Chain(req[q].route)
      /\ now' = now
      /\ \A p \in Requests \ {q} : req'[p] = req[p]
      /\ req'[q].route = req[q].route /\ req'[q].bearer = req[q].bearer
      /\ req'[q].address = req[q].address /\ req'[q].vault = req[q].vault
      /\ req'[q].phase \in {"passing", "done"}
      /\ req'[q].hits = [req[q].hits EXCEPT ![l] = now]
      /\ \/ req'[q].phase = "done" /\ req'[q].answer = "limited"
            /\ req'[q].pos = req[q].pos
         \/ req'[q].answer = req[q].answer /\ req'[q].pos = req[q].pos + 1
  BY <1>2, <1>3, Counts DEF CountsTo
<1>5. \A m \in Limiters : \A d \in Clients :
         m # l \/ d # c => window'[m][d] = window[m][d]
  <2>1. PICK hits \in Nat, reset \in Nat : CountsTo(q, l, c, hits, reset)
    BY <1>2, <1>3, Counts
  <2> QED BY <1>1, <1>4, <2>1 DEF TypeOK, CountsTo
<1>6. /\ now \in Nat
      /\ \A p \in Requests : \A m \in Limiters : req[p].hits[m] \in Nat
      /\ req[q].hits \in [Limiters -> Nat] /\ req[q].pos \in Nat
  BY <1>1, TimeAssumption DEF TypeOK, Request
<1>7. CountsKnown'
  <2>1. ASSUME NEW m \in Limiters PROVE IsFiniteSet(CountedBy(m)')
    <3>1. CountedBy(m)' \subseteq CountedBy(m) \cup {q}
      BY <1>2, <1>3, CountsThrough
    <3>2. IsFiniteSet(CountedBy(m))
      BY <1>1 DEF CountsKnown
    <3> QED BY <3>1, <3>2, FS_AddElement, FS_Subset
  <2>2. \A p \in Requests : \A m \in Limiters : req'[p].hits[m] <= now'
    BY <1>1, <1>4, <1>6 DEF CountsKnown
  <2>3. \A p \in Requests : req'[p].phase = "new" =>
          /\ req'[p].answer = "none"
          /\ \A m \in Limiters : req'[p].hits[m] = 0
    BY <1>1, <1>4 DEF CountsKnown
  <2> QED BY <2>1, <2>2, <2>3 DEF CountsKnown
<1>8. CountedBehind'
  <2> SUFFICES ASSUME NEW p \in Requests, NEW m \in Limiters, req'[p].hits[m] # 0
               PROVE  \E i \in Nat :
                         /\ i \in DOMAIN Chain(req'[p].route)
                         /\ Chain(req'[p].route)[i] = m
                         /\ i < req'[p].pos
                            \/ (i = req'[p].pos /\ req'[p].answer = "limited")
    BY DEF CountedBehind, Chain
  <2>1. CASE p # q
    <3>1. req'[p] = req[p]
      BY <1>4, <2>1
    <3> QED BY <1>1, <3>1 DEF CountedBehind
  <2>2. CASE p = q /\ m # l
    <3>1. req[q].hits[m] # 0
      BY <1>4, <1>6, <2>2
    <3>2. PICK i \in Nat : /\ i \in DOMAIN Chain(req[q].route)
                           /\ Chain(req[q].route)[i] = m
                           /\ i < req[q].pos
                              \/ (i = req[q].pos /\ req[q].answer = "limited")
      BY <1>1, <3>1 DEF CountedBehind
    <3>3. i < req'[q].pos
      BY <1>4, <1>6, <3>2
    <3> QED BY <1>4, <2>2, <3>2, <3>3
  <2>3. CASE p = q /\ m = l
    <3>1. Chain(req[q].route)[req[q].pos] = l
      BY <1>2 DEF Element
    <3>2. \/ req[q].pos < req'[q].pos
          \/ req[q].pos = req'[q].pos /\ req'[q].answer = "limited"
      BY <1>4, <1>6
    <3>3. PICK i \in Nat : i = req[q].pos
      BY <1>6
    <3> QED BY <1>4, <2>3, <3>1, <3>2, <3>3
  <2> QED BY <2>1, <2>2, <2>3
<1>9. (\E s \in Nat : WindowSince(l, c, s)')
      /\ (req'[q].answer = "limited" => RefusedFairly(q)')
  BY <1>2, <1>3, <1>7, WindowCounted
<1>10. \A m \in Limiters : \A d, times :
          LetThrough(m, d, times) \subseteq LetThrough(m, d, times)'
  BY <1>2, <1>3, CountsThrough
<1>11. \A m \in Limiters : \A d, times :
          m # l \/ d # c => LetThrough(m, d, times)' = LetThrough(m, d, times)
  BY <1>2, <1>3, CountsThrough
<1>12. \A times : now \notin times => LetThrough(l, c, times)' = LetThrough(l, c, times)
  BY <1>2, <1>3, CountsThrough
<1>13. RefusalsFair'
  <2> SUFFICES ASSUME NEW p \in Requests, req'[p].answer = "limited"
               PROVE  RefusedFairly(p)'
    BY DEF RefusalsFair
  <2>1. CASE p = q
    BY <1>9, <2>1
  <2>2. CASE p # q
    <3>1. req'[p] = req[p] /\ req[p].answer = "limited"
      BY <1>4, <2>2
    <3>2. RefusedFairly(p)
      BY <1>1, <3>1 DEF RefusalsFair
    <3>3. PICK m : m = Element(p)
      OBVIOUS
    <3>4. PICK d : d = Client(p, m)
      OBVIOUS
    <3>5. PICK t : t = req[p].hits[m]
      OBVIOUS
    <3>6. /\ m \in Limiters /\ req[p].phase = "done" /\ t # 0
          /\ Cardinality(LetThrough(m, d, (t - Window[m] + 1)..t)) >= Limit[m]
      BY <3>2, <3>3, <3>4, <3>5 DEF RefusedFairly
    <3> DEFINE last == LetThrough(m, d, (t - Window[m] + 1)..t)
    <3>7. last \subseteq last'
      BY <1>10, <3>6
    <3>8. /\ IsFiniteSet(last') /\ Cardinality(last') \in Nat
          /\ Cardinality(last) \in Nat
      <4>1. Cardinality(last) \in Nat
        BY <1>1, <3>6, Throughs
      <4>2. last' \subseteq CountedBy(m)'
        BY DEF LetThrough, CountedBy
      <4>3. IsFiniteSet(CountedBy(m)')
        BY <1>7, <3>6 DEF CountsKnown
      <4> QED BY <4>1, <4>2, <4>3, FS_Subset, FS_CardinalityType
    <3>9. Cardinality(last) <= Cardinality(last')
      BY <3>7, <3>8, FS_Subset
    <3>10. Cardinality(last') >= Limit[m]
      BY <3>6, <3>8, <3>9, LimitAssumption
    <3>11. Element(p)' = m /\ Client(p, m)' = d /\ req'[p].hits[m] = t
      BY <3>1, <3>3, <3>4, <3>5 DEF Element, Client
    <3> QED BY <3>1, <3>6, <3>10, <3>11 DEF RefusedFairly
  <2> QED BY <2>1, <2>2
<1>14. WindowsExact'
  <2> SUFFICES ASSUME NEW m \in Limiters, NEW d \in Clients, m # l \/ d # c
               PROVE  NoWindow(m, d)' \/ \E s \in Nat : WindowSince(m, d, s)'
    BY <1>9 DEF WindowsExact
  <2>1. window'[m][d] = window[m][d]
    BY <1>5
  <2>2. \A times : LetThrough(m, d, times)' = LetThrough(m, d, times)
    BY <1>11
  <2>3. NoWindow(m, d) => NoWindow(m, d)'
    BY <2>1, <2>2 DEF NoWindow
  <2>4. ASSUME NEW s \in Nat, WindowSince(m, d, s) PROVE WindowSince(m, d, s)'
    <3>1. Since(s)' = Since(s) /\ Since(s + Window[m])' = Since(s + Window[m])
      BY DEF Since
    <3> QED BY <1>4, <2>1, <2>2, <2>4, <3>1 DEF WindowSince
  <2> QED BY <1>1, <2>3, <2>4 DEF WindowsExact
<1>15. SpansBounded'
  <2> SUFFICES ASSUME NEW m \in Limiters, NEW d \in Clients, NEW t \in Int
               PROVE  Cardinality(LetThrough(m, d, t..(t + Window[m] - 1))') < 2 * Limit[m]
    BY DEF SpansBounded
  <2>1. CASE m # l \/ d # c
    BY <1>1, <1>11, <2>1 DEF SpansBounded
  <2>2. CASE m = l /\ d = c
    <3>1. PICK s \in Nat : WindowSince(l, c, s)'
      BY <1>9
    <3>2. s <= now /\ Window[l] \in Nat
      BY <1>4, <3>1, WindowAssumption DEF WindowSince
    <3>3. CASE t + Window[l] > s
      <4>1. Cardinality(LetThrough(l, c, t..(t + Window[l] - 1))') < 2 * Limit[l]
        BY <1>4, <1>7, <3>1, <3>3, SpanOfTwoNext DEF SpansOfTwo
      <4> QED BY <2>2, <4>1
    <3>4. CASE t + Window[l] <= s
      <4>1. now \notin t..(t + Window[l] - 1)
        BY <1>6, <3>2, <3>4
      <4>2. LetThrough(l, c, t..(t + Window[l] - 1))' = LetThrough(l, c, t..(t + Window[l] - 1))
        BY <1>12, <4>1
      <4> QED BY <1>1, <2>2, <4>2 DEF SpansBounded
    <3> QED BY <3>2, <3>3, <3>4
  <2> QED BY <2>1, <2>2
<1> QED BY <1>7, <1>8, <1>9, <1>13, <1>14, <1>15 DEF BudgetInv

\* The inductive invariant of the budgets.
THEOREM BudgetInvariance == Spec => []BudgetInv
<1>1. Init => CountsKnown /\ CountedBehind /\ RefusalsFair /\ WindowsExact /\ SpansBounded
  <2> SUFFICES ASSUME Init
               PROVE  CountsKnown /\ CountedBehind /\ RefusalsFair /\ WindowsExact
                      /\ SpansBounded
    OBVIOUS
  <2>1. \A q \in Requests : /\ req[q].phase = "new" /\ req[q].answer = "none"
                            /\ \A l \in Limiters : req[q].hits[l] = 0
    <3> SUFFICES ASSUME NEW q \in Requests
                 PROVE  /\ req[q].phase = "new" /\ req[q].answer = "none"
                        /\ \A l \in Limiters : req[q].hits[l] = 0
      OBVIOUS
    <3>1. PICK a \in Addresses :
             req[q] = [phase |-> "new", route |-> NotFound, bearer |-> NoBearer,
                       address |-> a, vault |-> NoVault, pos |-> 0, live |-> FALSE,
                       hits |-> [l \in Limiters |-> 0], answer |-> "none"]
      BY DEF Init
    <3> QED BY <3>1
  <2>2. /\ \A l \in Limiters : CountedBy(l) = {}
        /\ \A l \in Limiters : \A c, times : LetThrough(l, c, times) = {}
    BY <2>1 DEF CountedBy, LetThrough
  <2>3. CountsKnown
    <3>1. \A l \in Limiters : IsFiniteSet(CountedBy(l))
      BY <2>2, FS_EmptySet
    <3>2. now = 1
      BY DEF Init
    <3> QED BY <2>1, <3>1, <3>2 DEF CountsKnown
  <2>4. CountedBehind /\ RefusalsFair
    BY <2>1 DEF CountedBehind, RefusalsFair
  <2>5. WindowsExact
    BY <2>2 DEF WindowsExact, NoWindow, Init
  <2>6. SpansBounded
    <3> SUFFICES ASSUME NEW l \in Limiters, NEW c \in Clients, NEW t \in Int
                 PROVE  Cardinality(LetThrough(l, c, t..(t + Window[l] - 1))) < 2 * Limit[l]
      BY DEF SpansBounded
    <3>1. LetThrough(l, c, t..(t + Window[l] - 1)) = {}
      BY <2>2
    <3>2. Limit[l] \in Nat /\ Limit[l] > 0
      BY LimitAssumption
    <3>3. Cardinality({}) = 0 /\ 0 < 2 * Limit[l]
      BY <3>2, FS_EmptySet
    <3> QED BY <3>1, <3>3
  <2> QED BY <2>3, <2>4, <2>5, <2>6
<1>2. BudgetInv /\ TypeOK' /\ [Next]_vars => BudgetInv'
  <2> SUFFICES ASSUME BudgetInv, TypeOK', [Next]_vars PROVE BudgetInv'
    OBVIOUS
  <2>1. CASE \E q \in Requests : Count(q)
    BY <2>1, BudgetsCounted
  <2>2. CASE \A q \in Requests : ~Count(q)
    BY <2>2, OtherSteps, BudgetsKept
  <2> QED BY <2>1, <2>2
<1>3. Init /\ TypeOK => BudgetInv
  BY <1>1 DEF BudgetInv
<1> QED BY <1>2, <1>3, TypeCorrectness, PTL DEF Spec

\* keyGenerator and the limiters: whatever the limits, the windows, the clients and
\* the order of their requests, one that is refused comes after a full budget of
\* its own client within the last window.
THEOREM RefusalsAreFair == Spec => []FairRefusal
<1>1. BudgetInv => FairRefusal
  <2> SUFFICES ASSUME BudgetInv, NEW q \in Requests, req[q].answer = "limited"
               PROVE  LET l == Element(q)
                          t == req[q].hits[l]
                      IN Cardinality(PassedWith(q, l, {u \in 1..t : u + Window[l] > t}))
                             >= Limit[l]
    BY DEF FairRefusal
  <2>1. PICK l : l = Element(q)
    OBVIOUS
  <2>2. PICK t : t = req[q].hits[l]
    OBVIOUS
  <2>3. /\ l \in Limiters
        /\ Cardinality(LetThrough(l, Client(q, l), (t - Window[l] + 1)..t)) >= Limit[l]
    BY <2>1, <2>2 DEF BudgetInv, RefusalsFair, RefusedFairly
  <2>4. TypeOK /\ t \in Nat /\ Window[l] \in Nat
    BY <2>2, <2>3, WindowAssumption DEF BudgetInv, TypeOK, Request
  <2> DEFINE recent == {u \in 1..t : u + Window[l] > t}
  <2>5. PassedWith(q, l, recent) = LetThrough(l, Client(q, l), recent)
    BY <2>3, <2>4, SameClient
  <2>6. \A p \in Requests : req[p].hits[l] \in Nat
    BY <2>3, <2>4 DEF TypeOK, Request
  <2>7. LetThrough(l, Client(q, l), recent)
          = LetThrough(l, Client(q, l), (t - Window[l] + 1)..t)
    BY <2>4, <2>6 DEF LetThrough
  <2> QED BY <2>1, <2>2, <2>3, <2>5, <2>7
<1> QED BY <1>1, BudgetInvariance, PTL

\* In no span of a window's length does a client get two full budgets through a
\* limiter, for every limit and window: the first request of a window is through.
THEOREM BurstsBounded == Spec => []BurstBounded
<1>1. BudgetInv => BurstBounded
  <2> SUFFICES ASSUME BudgetInv, NEW q \in Requests, NEW l \in Limiters,
                      NEW t \in 1..now
               PROVE  Cardinality(PassedWith(q, l, t..(t + Window[l] - 1))) < 2 * Limit[l]
    BY DEF BurstBounded
  <2>1. TypeOK /\ SpansBounded /\ t \in Int
    BY TimeAssumption DEF BudgetInv, TypeOK
  <2>2. Client(q, l) \in Clients
    BY <2>1, ClientType
  <2>3. PassedWith(q, l, t..(t + Window[l] - 1))
          = LetThrough(l, Client(q, l), t..(t + Window[l] - 1))
    BY <2>1, SameClient, WindowAssumption
  <2> QED BY <2>1, <2>2, <2>3 DEF SpansBounded
<1> QED BY <1>1, BudgetInvariance, PTL
=============================================================================
