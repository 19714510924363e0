---------------------------- MODULE IdentityAuth ----------------------------
(***************************************************************************)
(* The nonce cache behind the signed requests of the relay                 *)
(* (lib/identityAuth.ts) and the middleware that consults it               *)
(* (middleware/authMiddleware.ts).                                         *)
(*                                                                         *)
(* A client signs a payload with a fresh nonce and its own clock's time.   *)
(* Copies of the request may reach the relay any number of times, at any   *)
(* later time: clients and proxies retry.  The middleware runs without an  *)
(* await, so a delivery is one step.  Time is the relay's Date.now(),      *)
(* counted from the start of the behaviour.                                *)
(***************************************************************************)
EXTENDS Integers, FiniteSets

CONSTANTS
    Nonces,         \* the nonces clients draw; each is drawn once
    Window,         \* MAX_TIMESTAMP_DRIFT_MS
    TTL,            \* NONCE_CACHE_TTL_MS
    CacheSize,      \* NONCE_CACHE_SIZE
    Skew,           \* bound: how far a client's clock may be off, either way
    MaxTime,        \* bound: the time at which a behaviour ends
    MaxRestarts     \* bound: restarts of the relay in a behaviour

ASSUME TimesAssumption == /\ Window \in Nat
                          /\ TTL \in Nat \ {0}
                          /\ Skew \in Nat
                          /\ MaxTime \in Nat
ASSUME SizesAssumption == CacheSize \in Nat /\ MaxRestarts \in Nat
\* both are ten minutes
ASSUME CoverAssumption == TTL >= Window

VARIABLES
    now,        \* the relay's clock
    due,        \* when the interval timer next runs the clean-up
    cache,      \* nonceCache: the time each spent nonce was spent
    signed,     \* the requests clients have signed, by nonce
    accepted,   \* history: how often this process has accepted each nonce
    first,      \* history: when a process, this or an earlier, first accepted it
    early,      \* history: nonces accepted before their own timestamp
    mismatched, \* history: nonces of which a copy had another body
    restarts

vars == <<now, due, cache, signed, accepted, first, early, mismatched, restarts>>

\* `bound`: the payload carries a hash of the body (clients of the transition
\* period sign none)
Payload == [ts: (0 - Skew)..(MaxTime + Skew), bound: BOOLEAN]

\* intact    the request as its client built it
\* altered   verified as signed, but the body is not the one that was hashed
\* foreign   the identity, the key or the signature does not verify
Copies == {"intact", "altered", "foreign"}

TypeOK ==
    /\ now \in 0..MaxTime
    /\ due \in Nat
    /\ DOMAIN signed \subseteq Nonces
    /\ signed \in [DOMAIN signed -> Payload]
    /\ DOMAIN cache \subseteq DOMAIN signed
    /\ cache \in [DOMAIN cache -> 0..MaxTime]
    /\ accepted \in [Nonces -> {"never", "once", "again"}]
    /\ DOMAIN first \subseteq DOMAIN signed
    /\ first \in [DOMAIN first -> 0..MaxTime]
    /\ early \in SUBSET Nonces
    /\ mismatched \in SUBSET Nonces
    /\ restarts \in 0..MaxRestarts

Empty == [n \in {} |-> 0]

Init ==
    /\ now = 0
    /\ due = TTL
    /\ cache = Empty
    /\ signed = Empty
    /\ accepted = [n \in Nonces |-> "never"]
    /\ first = Empty
    /\ early = {}
    /\ mismatched = {}
    /\ restarts = 0

-----------------------------------------------------------------------------
(* The cache *)

SweptInclusive(c) ==
    [n \in {m \in DOMAIN c : ~(c[m] <= now - TTL)} |-> c[n]]

SweptAfterTwoPeriods(c) ==
    [n \in {m \in DOMAIN c : ~(c[m] < now - 2 * TTL)} |-> c[n]]

\* cleanupNonceCache: forget the nonces spent more than TTL ago.
Swept(c) == [n \in {m \in DOMAIN c : ~(c[m] < now - TTL)} |-> c[n]]

\* consumeNonce: the cache with n spent now, swept if it has outgrown its size.
Spent(n) ==
    LET c == [m \in DOMAIN cache \cup {n} |-> IF m = n THEN now ELSE cache[m]]
    IN  IF Cardinality(DOMAIN c) > CacheSize THEN Swept(c) ELSE c

PayloadValidFromAnyFuture(n) ==
    /\ now - signed[n].ts <= Window
    /\ n \notin DOMAIN cache

\* validateSignaturePayload: the timestamp is in the window, in the past or in
\* the future, and the nonce is not spent.
PayloadValid(n) ==
    /\ now - signed[n].ts <= Window
    /\ signed[n].ts - now <= Window
    /\ n \notin DOMAIN cache

-----------------------------------------------------------------------------
(* Requests *)

\* A client signs a request with a nonce of its own and its clock's time.
Sign(n) ==
    /\ n \notin DOMAIN signed
    /\ \E ts \in (now - Skew)..(now + Skew), b \in BOOLEAN :
           signed' = [m \in DOMAIN signed \cup {n} |->
                         IF m = n THEN [ts |-> ts, bound |-> b] ELSE signed[m]]
    /\ UNCHANGED <<now, due, cache, accepted, first, early, mismatched, restarts>>

\* The payload and the signature verify and the body is the signed one, or
\* the payload has no hash to compare it with: the handler runs.
Accept(n, copy) ==
    /\ n \in DOMAIN signed
    /\ PayloadValid(n)
    /\ copy = "intact" \/ (copy = "altered" /\ ~signed[n].bound)
    /\ cache' = Spent(n)
    /\ accepted' = [accepted EXCEPT ![n] =
                       IF @ = "never" THEN "once" ELSE "again"]
    /\ first' = [m \in DOMAIN first \cup {n} |->
                    IF m \in DOMAIN first THEN first[m] ELSE now]
    /\ early' = IF signed[n].ts > now THEN early \cup {n} ELSE early
    /\ UNCHANGED <<now, due, signed, mismatched, restarts>>

\* The signature verifies, which spends the nonce, but the hash of the body
\* is another: the request is refused.
RefuseBody(n, copy) ==
    /\ n \in DOMAIN signed
    /\ PayloadValid(n)
    /\ copy = "altered" /\ signed[n].bound
    /\ cache' = Spent(n)
    /\ mismatched' = mismatched \cup {n}
    /\ UNCHANGED <<now, due, signed, accepted, first, early, restarts>>

RefuseAndSpend(n, copy) ==
    /\ n \in DOMAIN signed
    /\ PayloadValid(n)
    /\ copy = "foreign"
    /\ cache' = Spent(n)
    /\ UNCHANGED <<now, due, signed, accepted, first, early, mismatched, restarts>>

\* The payload is not valid, or it is not a signature of the identity that the
\* body names: the request is refused and nothing is kept of it.
Refuse(n, copy) ==
    /\ n \in DOMAIN signed
    /\ ~PayloadValid(n) \/ copy = "foreign"
    /\ UNCHANGED vars

Deliver(n, copy) == Accept(n, copy) \/ RefuseBody(n, copy) \/ Refuse(n, copy)

-----------------------------------------------------------------------------
(* Time, the interval timer, the process *)

\* startNonceCacheCleanup's interval.
CleanUp ==
    /\ now >= due
    /\ cache' = Swept(cache)
    /\ due' = now + TTL
    /\ UNCHANGED <<now, signed, accepted, first, early, mismatched, restarts>>

\* The event loop runs a due timer before the clock moves on.
Tick ==
    /\ now < MaxTime
    /\ now < due
    /\ now' = now + 1
    /\ UNCHANGED <<due, cache, signed, accepted, first, early, mismatched, restarts>>

\* The cache is in memory only; loading the routes starts a new interval.
Restart ==
    /\ restarts < MaxRestarts
    /\ restarts' = restarts + 1
    /\ cache' = Empty
    /\ due' = now + TTL
    /\ accepted' = [n \in Nonces |-> "never"]
    /\ early' = {}
    /\ mismatched' = {}
    /\ UNCHANGED <<now, signed, first>>

Next ==
    \/ \E n \in Nonces : Sign(n)
    \/ \E n \in Nonces, copy \in Copies : Deliver(n, copy)
    \/ CleanUp
    \/ Tick
    \/ Restart

Spec == Init /\ [][Next]_vars

-----------------------------------------------------------------------------
(* Properties *)

\* A process accepts a request at most once, however often it is delivered and
\* however the clean-ups fall (consumeNonce's "exactly one accepted request"),
\* provided it was not first accepted ahead of its own timestamp: an entry
\* lives TTL from its acceptance, which covers the window of a timestamp that
\* was in the past by then, to the millisecond, and of no other.
AcceptedOnce ==
    \A n \in Nonces : accepted[n] = "again" => n \in early

\* A request this process has not accepted is not refused as a repetition,
\* whatever its earlier deliveries failed on (the comment in
\* validateSignaturePayload), unless one of them came with another body.
RetryNotSpent ==
    \A n \in DOMAIN cache : accepted[n] = "never" => n \in mismatched

\* The cache forgets: no entry is older than two periods of the timer,
\* however the clean-ups by timer and by size fall.
CacheForgets ==
    \A n \in DOMAIN cache : now - cache[n] <= 2 * TTL

\* The cache dies with the process, so after a restart a request may be accepted
\* once more, but only for so long, however often the relay restarts: its nonce
\* is not spent again later than two windows after the first acceptance of it
\* by any process, or than one window after when that acceptance was not ahead
\* of the timestamp.
RepetitionsEnd ==
    [][\A n \in DOMAIN first :
           n \in DOMAIN cache' /\ n \notin DOMAIN cache =>
               /\ now - first[n] <= 2 * Window
               /\ first[n] >= signed[n].ts => now - first[n] <= Window]_vars

\* Why RepetitionsEnd is kept: a request was first accepted in the window of its
\* timestamp, before as after it.
FirstInWindow ==
    \A n \in DOMAIN first :
        /\ first[n] - signed[n].ts <= Window
        /\ signed[n].ts - first[n] <= Window

\* Why AcceptedOnce is kept: as long as the timestamp of an accepted request is
\* in the window its nonce is in the cache, spent no earlier than the timestamp.
WindowCovered ==
    \A n \in Nonces :
        accepted[n] # "never" /\ n \notin early =>
            /\ n \in DOMAIN signed
            /\ \/ n \in DOMAIN cache /\ cache[n] >= signed[n].ts
               \/ now - signed[n].ts > Window

\* The timer is never more than a period away and no entry is older than the
\* last run of the timer allows.
TimerAhead ==
    /\ now <= due /\ due <= now + TTL
    /\ \A n \in DOMAIN cache : cache[n] <= now /\ cache[n] >= due - 2 * TTL

\* The inductive invariant.
IInv ==
    /\ TypeOK
    /\ WindowCovered
    /\ TimerAhead
    /\ FirstInWindow
    /\ AcceptedOnce
    /\ RetryNotSpent

=============================================================================
