------------------------- MODULE IdentityAuthProofs -------------------------
(***************************************************************************)
(* Proofs about IdentityAuth, for every set of nonces and every window,    *)
(* lifetime, cache size and skew with TTL >= Window.                       *)
(***************************************************************************)
EXTENDS IdentityAuth, TLAPS

\* A sweep keeps the entries no older than TTL, with their times.
LEMMA SweptKeeps ==
    ASSUME NEW c, NEW n \in DOMAIN c, TypeOK, c[n] \in Int, c[n] >= now - TTL
    PROVE  n \in DOMAIN Swept(c) /\ Swept(c)[n] = c[n]
BY TimesAssumption DEF Swept, TypeOK

\* A sweep adds nothing and changes no time, and what it keeps is young.
LEMMA SweptOnlyForgets ==
    ASSUME NEW c
    PROVE  /\ DOMAIN Swept(c) \subseteq DOMAIN c
           /\ \A n \in DOMAIN Swept(c) :
                  Swept(c)[n] = c[n] /\ ~(c[n] < now - TTL)
BY DEF Swept

\* Spending n puts it in the cache at the present time; every other entry is
\* an old one, and an old one no older than TTL is still there.
LEMMA SpentEntries ==
    ASSUME NEW n \in Nonces, TypeOK
    PROVE  /\ DOMAIN Spent(n) \subseteq DOMAIN cache \cup {n}
           /\ Spent(n) \in [DOMAIN Spent(n) -> 0..MaxTime]
           /\ n \in DOMAIN Spent(n) /\ Spent(n)[n] = now
           /\ \A m \in DOMAIN Spent(n) : m # n => Spent(n)[m] = cache[m]
           /\ \A m \in DOMAIN cache :
                  m # n /\ cache[m] >= now - TTL => m \in DOMAIN Spent(n)
<1> DEFINE c == [m \in DOMAIN cache \cup {n} |-> IF m = n THEN now ELSE cache[m]]
<1>1. /\ DOMAIN c = DOMAIN cache \cup {n}
      /\ c[n] = now
      /\ \A m \in DOMAIN cache : m # n => c[m] = cache[m]
      /\ \A m \in DOMAIN c : c[m] \in 0..MaxTime
  BY DEF TypeOK
<1> HIDE DEF c
<1>2. Spent(n) = IF Cardinality(DOMAIN c) > CacheSize THEN Swept(c) ELSE c
  BY DEF Spent, c
<1>3. CASE Spent(n) = c
  <2>1. c = [m \in DOMAIN c |-> c[m]]
    BY DEF c
  <2> QED BY <1>1, <1>3, <2>1
<1>4. CASE Spent(n) = Swept(c)
  <2>1. now \in Int /\ now >= now - TTL
    BY TimesAssumption DEF TypeOK
  <2>2. n \in DOMAIN Swept(c) /\ Swept(c)[n] = now
    BY <1>1, <2>1, SweptKeeps
  <2>3. \A m \in DOMAIN cache : m # n /\ cache[m] >= now - TTL => m \in DOMAIN Swept(c)
    BY <1>1, SweptKeeps
  <2>4. /\ DOMAIN Swept(c) \subseteq DOMAIN c
        /\ \A m \in DOMAIN Swept(c) : Swept(c)[m] = c[m]
    BY SweptOnlyForgets
  <2>5. Swept(c) = [m \in DOMAIN Swept(c) |-> Swept(c)[m]]
    BY DEF Swept
  <2> QED BY <1>1, <1>4, <2>2, <2>3, <2>4, <2>5
<1> QED BY <1>2, <1>3, <1>4

\* Every step keeps the types.
LEMMA TypeInvariance == TypeOK /\ [Next]_vars => TypeOK'
<1> SUFFICES ASSUME TypeOK, [Next]_vars PROVE TypeOK'
  OBVIOUS
<1> USE TimesAssumption, SizesAssumption
<1>1. ASSUME NEW n \in Nonces, Sign(n) PROVE TypeOK'
  <2>1. PICK ts \in (now - Skew)..(now + Skew), b \in BOOLEAN :
           signed' = [m \in DOMAIN signed \cup {n} |->
                         IF m = n THEN [ts |-> ts, bound |-> b] ELSE signed[m]]
    BY <1>1 DEF Sign
  <2>2. [ts |-> ts, bound |-> b] \in Payload
    BY DEF TypeOK, Payload
  <2>3. \A m \in DOMAIN signed : signed[m] \in Payload
    BY DEF TypeOK
  <2> QED BY <1>1, <2>1, <2>2, <2>3 DEF Sign, TypeOK
<1>2. ASSUME NEW n \in Nonces, NEW copy \in Copies, Accept(n, copy)
      PROVE  TypeOK'
  BY <1>2, SpentEntries DEF Accept, TypeOK
<1>3. ASSUME NEW n \in Nonces, NEW copy \in Copies, RefuseBody(n, copy)
      PROVE  TypeOK'
  BY <1>3, SpentEntries DEF RefuseBody, TypeOK
<1>4. CASE CleanUp
  <2>1. cache' \in [DOMAIN cache' -> 0..MaxTime] /\ DOMAIN cache' \subseteq DOMAIN cache
    BY <1>4 DEF CleanUp, Swept, TypeOK
  <2> QED BY <1>4, <2>1 DEF CleanUp, TypeOK
<1>5. CASE Tick
  BY <1>5 DEF Tick, TypeOK
<1>6. CASE Restart
  BY <1>6 DEF Restart, TypeOK, Empty
<1>7. CASE UNCHANGED vars
  BY <1>7 DEF vars, TypeOK
<1> QED
  BY <1>1, <1>2, <1>3, <1>4, <1>5, <1>6, <1>7 DEF Next, Deliver, Refuse

\* Every step keeps the timer within a period and the entries young.
LEMMA TimerAheadInvariance ==
    TypeOK /\ TimerAhead /\ [Next]_vars => TimerAhead'
<1> SUFFICES ASSUME TypeOK, TimerAhead, [Next]_vars PROVE TimerAhead'
  OBVIOUS
<1> USE TimesAssumption
<1>1. ASSUME NEW n \in Nonces, Sign(n) PROVE TimerAhead'
  BY <1>1 DEF Sign, TimerAhead, TypeOK
<1>2. ASSUME NEW n \in Nonces, cache' = Spent(n), now' = now, due' = due
      PROVE  TimerAhead'
  <2>1. \A m \in DOMAIN Spent(n) :
            Spent(n)[m] <= now /\ Spent(n)[m] >= due - 2 * TTL
    BY SpentEntries DEF TimerAhead, TypeOK
  <2> QED BY <1>2, <2>1 DEF TimerAhead
<1>3. CASE CleanUp
  BY <1>3, SweptOnlyForgets DEF CleanUp, TimerAhead, TypeOK
<1>4. CASE Tick
  BY <1>4 DEF Tick, TimerAhead, TypeOK
<1>5. CASE Restart
  BY <1>5 DEF Restart, TimerAhead, TypeOK, Empty
<1>6. CASE UNCHANGED vars
  BY <1>6 DEF vars, TimerAhead
<1> QED
  BY <1>1, <1>2, <1>3, <1>4, <1>5, <1>6
     DEF Next, Deliver, Accept, RefuseBody, Refuse

\* Every step keeps the entry of an accepted request while its timestamp is in
\* the window.
LEMMA WindowCoveredInvariance ==
    TypeOK /\ TimerAhead /\ WindowCovered /\ [Next]_vars => WindowCovered'
<1> SUFFICES ASSUME TypeOK, TimerAhead, WindowCovered, [Next]_vars
             PROVE  WindowCovered'
  OBVIOUS
<1> USE TimesAssumption
<1>1. ASSUME NEW n \in Nonces, Sign(n) PROVE WindowCovered'
  BY <1>1 DEF Sign, WindowCovered, TypeOK
<1>2. ASSUME NEW n \in Nonces, n \in DOMAIN signed, PayloadValid(n),
             cache' = Spent(n), now' = now, signed' = signed,
             early \subseteq early', signed[n].ts > now => n \in early' \/ accepted'[n] = "never",
             \A m \in Nonces : m # n => accepted'[m] = accepted[m],
             accepted[n] # "never" => n \in early'
                 \/ now - signed[n].ts > Window \/ accepted'[n] = accepted[n]
      PROVE  WindowCovered'
  <2> SUFFICES ASSUME NEW m \in Nonces, accepted'[m] # "never", m \notin early'
               PROVE  /\ m \in DOMAIN signed
                      /\ \/ m \in DOMAIN Spent(n) /\ Spent(n)[m] >= signed[m].ts
                         \/ now - signed[m].ts > Window
    BY <1>2 DEF WindowCovered
  <2>1. CASE m = n
    <3>1. signed[n].ts <= now
      BY <1>2, <2>1 DEF TypeOK, Payload
    <3> QED BY <1>2, <2>1, <3>1, SpentEntries DEF TypeOK
  <2>2. CASE m # n
    <3>1. /\ m \in DOMAIN signed
          /\ \/ m \in DOMAIN cache /\ cache[m] >= signed[m].ts
             \/ now - signed[m].ts > Window
      BY <1>2, <2>2 DEF WindowCovered
    <3>2. signed[m].ts \in Int
      BY <3>1 DEF TypeOK, Payload
    <3>3. ASSUME m \in DOMAIN cache, cache[m] >= signed[m].ts,
                 ~(now - signed[m].ts > Window)
          PROVE  m \in DOMAIN Spent(n) /\ Spent(n)[m] >= signed[m].ts
      <4>1. cache[m] >= now - TTL
        BY <3>2, <3>3, CoverAssumption DEF TypeOK
      <4> QED BY <2>2, <3>3, <4>1, SpentEntries
    <3> QED BY <3>1, <3>3
  <2> QED BY <2>1, <2>2
<1>3. ASSUME NEW n \in Nonces, NEW copy \in Copies, Accept(n, copy)
      PROVE  WindowCovered'
  <2>1. signed[n].ts \in Int
    BY <1>3 DEF Accept, TypeOK, Payload
  <2>2. accepted[n] # "never" => n \in early \/ now - signed[n].ts > Window
    BY <1>3 DEF Accept, PayloadValid, WindowCovered
  <2>3. early \subseteq early' /\ (signed[n].ts > now => n \in early')
    BY <1>3 DEF Accept
  <2>4. \A m \in Nonces : m # n => accepted'[m] = accepted[m]
    BY <1>3 DEF Accept, TypeOK
  <2> QED BY <1>2, <1>3, <2>2, <2>3, <2>4 DEF Accept
<1>4. ASSUME NEW n \in Nonces, NEW copy \in Copies, RefuseBody(n, copy)
      PROVE  WindowCovered'
  <2>1. accepted[n] # "never" => n \in early \/ now - signed[n].ts > Window
    BY <1>4 DEF RefuseBody, PayloadValid, WindowCovered
  <2>2. now - signed[n].ts <= Window
    BY <1>4 DEF RefuseBody, PayloadValid
  <2>3. signed[n].ts \in Int
    BY <1>4 DEF RefuseBody, TypeOK, Payload
  <2>4. n \in early \/ accepted[n] = "never"
    BY <2>1, <2>2, <2>3 DEF TypeOK
  <2> QED BY <1>2, <1>4, <2>4 DEF RefuseBody
<1>5. CASE CleanUp
  <2> SUFFICES ASSUME NEW m \in Nonces, accepted[m] # "never", m \notin early
               PROVE  /\ m \in DOMAIN signed
                      /\ \/ m \in DOMAIN Swept(cache) /\ Swept(cache)[m] >= signed[m].ts
                         \/ now - signed[m].ts > Window
    BY <1>5 DEF CleanUp, WindowCovered
  <2>1. /\ m \in DOMAIN signed
        /\ \/ m \in DOMAIN cache /\ cache[m] >= signed[m].ts
           \/ now - signed[m].ts > Window
    BY DEF WindowCovered
  <2>2. signed[m].ts \in Int
    BY <2>1 DEF TypeOK, Payload
  <2>3. ASSUME m \in DOMAIN cache, cache[m] >= signed[m].ts,
               ~(now - signed[m].ts > Window)
        PROVE  m \in DOMAIN Swept(cache) /\ Swept(cache)[m] >= signed[m].ts
    <3>1. cache[m] \in Int /\ cache[m] >= now - TTL
      BY <2>2, <2>3, CoverAssumption DEF TypeOK
    <3> QED BY <2>3, <3>1, SweptKeeps
  <2> QED BY <2>1, <2>3
<1>6. CASE Tick
  <2> SUFFICES ASSUME NEW m \in Nonces, accepted[m] # "never", m \notin early
               PROVE  /\ m \in DOMAIN signed
                      /\ \/ m \in DOMAIN cache /\ cache[m] >= signed[m].ts
                         \/ (now + 1) - signed[m].ts > Window
    BY <1>6 DEF Tick, WindowCovered
  <2>1. m \in DOMAIN signed => signed[m].ts \in Int
    BY DEF TypeOK, Payload
  <2> QED BY <2>1 DEF WindowCovered, TypeOK
<1>7. CASE Restart
  BY <1>7 DEF Restart, WindowCovered
<1>8. CASE UNCHANGED vars
  BY <1>8 DEF vars, WindowCovered
<1> QED
  BY <1>1, <1>3, <1>4, <1>5, <1>6, <1>7, <1>8 DEF Next, Deliver, Refuse

\* Every step keeps AcceptedOnce: a second acceptance needs a nonce that is not
\* in the cache with a timestamp that is in the window.
LEMMA AcceptedOnceInvariance ==
    TypeOK /\ WindowCovered /\ AcceptedOnce /\ [Next]_vars => AcceptedOnce'
<1> SUFFICES ASSUME TypeOK, WindowCovered, AcceptedOnce, [Next]_vars
             PROVE  AcceptedOnce'
  OBVIOUS
<1> USE TimesAssumption
<1>1. ASSUME NEW n \in Nonces, NEW copy \in Copies, Accept(n, copy)
      PROVE  AcceptedOnce'
  <2>1. signed[n].ts \in Int /\ now - signed[n].ts <= Window /\ n \notin DOMAIN cache
    BY <1>1 DEF Accept, PayloadValid, TypeOK, Payload
  <2>2. accepted[n] # "never" => n \in early
    BY <2>1 DEF WindowCovered, TypeOK
  <2> QED BY <1>1, <2>2 DEF Accept, AcceptedOnce, TypeOK
<1>2. CASE Restart
  BY <1>2 DEF Restart, AcceptedOnce
<1>3. CASE UNCHANGED <<accepted, early>>
  BY <1>3 DEF AcceptedOnce
<1> QED
  BY <1>1, <1>2, <1>3
     DEF Next, Deliver, Sign, RefuseBody, Refuse, CleanUp, Tick, vars

\* Every step keeps RetryNotSpent: nonces are spent by an acceptance or by a
\* mismatch of the body.
LEMMA RetryNotSpentInvariance ==
    TypeOK /\ RetryNotSpent /\ [Next]_vars => RetryNotSpent'
<1> SUFFICES ASSUME TypeOK, RetryNotSpent, [Next]_vars PROVE RetryNotSpent'
  OBVIOUS
<1>1. ASSUME NEW n \in Nonces, NEW copy \in Copies, Accept(n, copy)
      PROVE  RetryNotSpent'
  BY <1>1, SpentEntries DEF Accept, RetryNotSpent, TypeOK
<1>2. ASSUME NEW n \in Nonces, NEW copy \in Copies, RefuseBody(n, copy)
      PROVE  RetryNotSpent'
  BY <1>2, SpentEntries DEF RefuseBody, RetryNotSpent, TypeOK
<1>3. CASE CleanUp
  BY <1>3, SweptOnlyForgets DEF CleanUp, RetryNotSpent
<1>4. CASE Restart
  BY <1>4 DEF Restart, RetryNotSpent, Empty
<1>5. CASE UNCHANGED <<cache, accepted, mismatched>>
  BY <1>5 DEF RetryNotSpent
<1> QED
  BY <1>1, <1>2, <1>3, <1>4, <1>5 DEF Next, Deliver, Sign, Refuse, Tick, vars

\* Every step keeps FirstInWindow: a first acceptance is in the window of its
\* timestamp, a later one does not change its time.
LEMMA FirstInWindowInvariance ==
    TypeOK /\ FirstInWindow /\ [Next]_vars => FirstInWindow'
<1> SUFFICES ASSUME TypeOK, FirstInWindow, [Next]_vars PROVE FirstInWindow'
  OBVIOUS
<1>1. ASSUME NEW n \in Nonces, Sign(n) PROVE FirstInWindow'
  BY <1>1 DEF Sign, FirstInWindow, TypeOK
<1>2. ASSUME NEW n \in Nonces, NEW copy \in Copies, Accept(n, copy)
      PROVE  FirstInWindow'
  BY <1>2 DEF Accept, PayloadValid, FirstInWindow
<1>3. CASE UNCHANGED <<signed, first>>
  BY <1>3 DEF FirstInWindow
<1> QED
  BY <1>1, <1>2, <1>3
     DEF Next, Deliver, RefuseBody, Refuse, CleanUp, Tick, Restart, vars

\* The inductive invariant of the nonce cache.
THEOREM Invariance == Spec => []IInv
<1>1. Init => IInv
  BY TimesAssumption, SizesAssumption
     DEF Init, IInv, TypeOK, WindowCovered, TimerAhead, FirstInWindow,
         AcceptedOnce, RetryNotSpent, Empty
<1>2. IInv /\ [Next]_vars => IInv'
  BY TypeInvariance, TimerAheadInvariance, WindowCoveredInvariance,
     FirstInWindowInvariance, AcceptedOnceInvariance, RetryNotSpentInvariance
     DEF IInv
<1> QED BY <1>1, <1>2, PTL DEF Spec

\* The nonce cache: it holds nothing but nonces of requests that were signed.
THEOREM TypeCorrectness == Spec => []TypeOK
<1>1. IInv => TypeOK
  BY DEF IInv
<1> QED BY <1>1, Invariance, PTL

\* validateSignaturePayload and consumeNonce: one process accepts a request
\* once, unless it accepted it ahead of the request's own timestamp.
THEOREM AcceptsOnce == Spec => []AcceptedOnce
<1>1. IInv => AcceptedOnce
  BY DEF IInv
<1> QED BY <1>1, Invariance, PTL

\* A request that was never accepted is never taken for a repetition, unless a
\* copy of it came with another body.
THEOREM RetriesNotSpent == Spec => []RetryNotSpent
<1>1. IInv => RetryNotSpent
  BY DEF IInv
<1> QED BY <1>1, Invariance, PTL

\* The restart of the relay empties the nonce cache; what bounds the repetition
\* of a request across restarts is the window of its timestamp.
THEOREM RepetitionsStop == Spec => RepetitionsEnd
<1> DEFINE InTime(n) ==
        n \in DOMAIN cache' /\ n \notin DOMAIN cache =>
            /\ now - first[n] <= 2 * Window
            /\ first[n] >= signed[n].ts => now - first[n] <= Window
<1>1. IInv /\ [Next]_vars => [\A n \in DOMAIN first : InTime(n)]_vars
  <2> SUFFICES ASSUME IInv, [Next]_vars, NEW n \in DOMAIN first,
                      n \in DOMAIN cache', n \notin DOMAIN cache
               PROVE  /\ now - first[n] <= 2 * Window
                      /\ first[n] >= signed[n].ts => now - first[n] <= Window
    OBVIOUS
  <2>1. /\ first[n] \in Int /\ now \in Int /\ Window \in Int
        /\ signed[n].ts \in Int
    BY TimesAssumption DEF IInv, TypeOK, Payload
  <2>2. signed[n].ts - first[n] <= Window
    BY DEF IInv, FirstInWindow
  <2>3. now - signed[n].ts <= Window
    <3>1. ASSUME NEW m \in Nonces, PayloadValid(m), cache' = Spent(m)
          PROVE  now - signed[n].ts <= Window
      <4>1. n = m
        BY <3>1, SpentEntries DEF IInv
      <4> QED BY <3>1, <4>1 DEF PayloadValid
    <3>2. CASE CleanUp
      BY <3>2, SweptOnlyForgets DEF CleanUp
    <3>3. CASE Restart
      BY <3>3 DEF Restart, Empty
    <3>4. CASE UNCHANGED cache
      BY <3>4
    <3> QED
      BY <3>1, <3>2, <3>3, <3>4
         DEF Next, Deliver, Sign, Accept, RefuseBody, Refuse, Tick, vars
  <2> QED BY <2>1, <2>2, <2>3
<1> QED BY <1>1, Invariance, PTL DEF Spec, RepetitionsEnd

\* cleanupNonceCache by timer and by size: no entry outlives two periods.
THEOREM Forgets == Spec => []CacheForgets
<1>1. IInv => CacheForgets
  BY TimesAssumption DEF IInv, TypeOK, TimerAhead, CacheForgets
<1> QED BY <1>1, Invariance, PTL

=============================================================================
