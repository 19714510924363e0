------------------------------ MODULE FeedsProofs ------------------------------
(***************************************************************************)
(* Proofs about Feeds, for every list of coins, every Period above 1 and   *)
(* every number of rounds.                                                 *)
(***************************************************************************)
EXTENDS Feeds, TLAPS

(* Arithmetic: the round before and the last refresh *)

LEMMA Division ==
    ASSUME NEW P \in Nat \ {0}, NEW r \in Int
    PROVE  r \div P \in Int /\ r % P \in 0..P-1 /\ r = P * (r \div P) + (r % P)
BY Z3

LEMMA RemainderIs ==
    ASSUME NEW P \in Nat \ {0}, NEW r \in Int, NEW k \in Int, NEW x \in 0..P-1,
           r = P * k + x
    PROVE  r % P = x
<1> DEFINE a == r \div P
           y == r % P
<1>1. a \in Int /\ y \in 0..P-1 /\ P * a + y = P * k + x
  BY Division
<1> HIDE DEF a, y
<1>2. CASE a = k
  BY <1>1, <1>2, Z3
<1>3. CASE a > k
  <2>1. P * (a - k) >= P
    BY <1>1, <1>3, Z3
  <2>2. P * (a - k) = P * a - P * k
    BY <1>1, Z3
  <2> QED BY <1>1, <2>1, <2>2
<1>4. CASE a < k
  <2>1. P * (k - a) >= P
    BY <1>1, <1>4, Z3
  <2>2. P * (k - a) = P * k - P * a
    BY <1>1, Z3
  <2> QED BY <1>1, <2>1, <2>2
<1>5. y = x
  BY <1>1, <1>2, <1>3, <1>4
<1> QED BY <1>5 DEF y

\* A round that refreshes is its own last refresh; any other has the last
\* refresh of the round before it.
LEMMA Refreshes ==
    ASSUME NEW r \in Int
    PROVE  /\ r % Period = 1 => LastRefresh(r) = r
           /\ r % Period # 1 => LastRefresh(r) = LastRefresh(r - 1)
<1> DEFINE k == r \div Period
           x == r % Period
<1>1. /\ Period \in Nat \ {0} /\ Period > 1
      /\ k \in Int /\ x \in 0..Period-1 /\ r = Period * k + x
  BY Division, PeriodAssumption
<1> HIDE DEF k, x
<1>2. CASE x = 1
  <2>1. r - 1 = Period * k + 0
    BY <1>1, <1>2
  <2>2. (r - 1) % Period = 0
    BY <1>1, <2>1, RemainderIs
  <2> QED BY <1>2, <2>2 DEF LastRefresh, x
<1>3. CASE x > 1
  <2>1. r - 1 = Period * k + (x - 1) /\ (r - 1) - 1 = Period * k + (x - 2)
    BY <1>1
  <2>2. (r - 1) % Period = x - 1 /\ ((r - 1) - 1) % Period = x - 2
    BY <1>1, <1>3, <2>1, RemainderIs
  <2>3. r - (x - 1) = (r - 1) - (x - 2)
    BY <1>1
  <2> QED BY <1>1, <1>3, <2>2, <2>3 DEF LastRefresh, x
<1>4. CASE x = 0
  <2>1. Period * (k - 1) = Period * k - Period
    BY <1>1, Z3
  <2>2. /\ r - 1 = Period * (k - 1) + (Period - 1)
        /\ (r - 1) - 1 = Period * (k - 1) + (Period - 2)
    BY <1>1, <1>4, <2>1
  <2>3. (r - 1) % Period = Period - 1 /\ ((r - 1) - 1) % Period = Period - 2
    BY <1>1, <2>2, RemainderIs
  <2>4. r - (Period - 1) = (r - 1) - (Period - 2)
    BY <1>1
  <2> QED BY <1>1, <1>4, <2>3, <2>4 DEF LastRefresh, x
<1> QED BY <1>1, <1>2, <1>3, <1>4

-----------------------------------------------------------------------------
(* The fees *)

Fresh(list, r) ==
    \A c \in DOMAIN list : list[c].since = IF c \in Slow THEN LastRefresh(r) ELSE r

\* Where the loop is tells how far the list that is served is behind the round,
\* and whether the round refreshes btc and ltc.
RoundOf ==
    /\ round \in Int
    /\ listed \in Int
    /\ stage \in Stages
    /\ next \in DOMAIN Evm
    /\ stage = "refresh" => listed = round /\ found = NoFees
    /\ stage # "refresh" => listed = round - 1
    /\ stage \in {"btc1", "btc2", "pause", "ltc"} => round % Period = 1

FoundFresh == Fresh(found, round) /\ Static \cap DOMAIN found = {}

FeesInv == RoundOf /\ FoundFresh /\ FeesFresh

LEMMA InitFees == Init => FeesInv
<1>1. 1 \in DOMAIN Evm
  BY CoinAssumption
<1> QED BY <1>1 DEF Init, FeesInv, RoundOf, FoundFresh, FeesFresh, Fresh, NoFees, Stages

\* A fee of this round may be put on the list of the round.
LEMMA PutFresh ==
    ASSUME FoundFresh, round \in Int, NEW c \in Slow \cup EvmCoins, NEW sound,
           c \in Slow => round % Period = 1
    PROVE  LET new == Put(found, c, [since |-> round, sound |-> sound])
           IN  Fresh(new, round) /\ Static \cap DOMAIN new = {}
<1> DEFINE new == Put(found, c, [since |-> round, sound |-> sound])
<1>1. /\ DOMAIN new = DOMAIN found \cup {c}
      /\ new[c].since = round
      /\ \A d \in DOMAIN found \ {c} : new[d] = found[d]
  BY DEF Put
<1>2. c \in Slow => LastRefresh(round) = round
  BY Refreshes
<1> HIDE DEF new
<1>3. Fresh(new, round)
  BY <1>1, <1>2 DEF FoundFresh, Fresh
<1>4. Static \cap DOMAIN new = {}
  BY <1>1, CoinAssumption DEF FoundFresh
<1> QED BY <1>3, <1>4 DEF new

LEMMA ObtainedFresh ==
    ASSUME FoundFresh, round \in Int, NEW c \in Slow \cup EvmCoins, NEW outcome,
           c \in Slow => round % Period = 1
    PROVE  Fresh(Obtained(c, outcome), round) /\ Static \cap DOMAIN Obtained(c, outcome) = {}
BY PutFresh DEF Obtained, FoundFresh

LEMMA FeesStep == FeesInv /\ [Next]_vars => FeesInv'
<1> SUFFICES ASSUME FeesInv, [Next]_vars PROVE FeesInv'
  OBVIOUS
<1> USE DEF FeesInv
<1>1. CASE UNCHANGED feeVars
  BY <1>1 DEF feeVars, RoundOf, FoundFresh, FeesFresh, Fresh
<1>2. CASE StartRound
  <2>1. round \in Int /\ round' = round + 1 /\ round' - 1 = round /\ listed = round
    BY <1>2 DEF StartRound, RoundOf
  <2>2. RoundOf'
    BY <1>2, <2>1 DEF StartRound, RoundOf, Stages
  <2>3. FeesFresh'
    BY <1>2 DEF StartRound, FeesFresh
  <2>4. CASE round' % Period = 1
    BY <1>2, <2>2, <2>3, <2>4 DEF StartRound, FoundFresh, Fresh, NoFees
  <2>5. CASE round' % Period # 1
    <3>1. found' = Only(fees, Slow)
      BY <1>2, <2>5 DEF StartRound
    <3>2. DOMAIN found' = DOMAIN fees \cap Slow /\ \A c \in DOMAIN found' : found'[c] = fees[c]
      BY <3>1 DEF Only
    <3>3. LastRefresh(round') = LastRefresh(listed)
      BY <2>1, <2>5, Refreshes
    <3>4. Fresh(found, round)'
      BY <3>2, <3>3 DEF Fresh, FeesFresh
    <3>5. Static \cap DOMAIN found' = {}
      BY <3>2, CoinAssumption
    <3> QED BY <2>2, <2>3, <3>4, <3>5 DEF FoundFresh
  <2> QED BY <2>4, <2>5
<1>3. CASE ObtainBitcoin1
  BY <1>3 DEF ObtainBitcoin1, RoundOf, FoundFresh, FeesFresh, Fresh, Stages
<1>4. CASE ObtainBitcoin2
  <2>1. PICK second \in Outcomes :
            found' = IF {bitcoin, second} = {"failed"} THEN found
                     ELSE Put(found, "btc",
                              [since |-> round, sound |-> "empty" \notin {bitcoin, second}])
    BY <1>4 DEF ObtainBitcoin2
  <2>2. round \in Int /\ round % Period = 1 /\ "btc" \in Slow
    BY <1>4 DEF ObtainBitcoin2, RoundOf, Slow
  <2>3. Fresh(found', round) /\ Static \cap DOMAIN found' = {}
    BY <2>1, <2>2, PutFresh DEF FoundFresh
  <2>4. FoundFresh'
    BY <1>4, <2>3 DEF ObtainBitcoin2, FoundFresh, Fresh
  <2> QED BY <1>4, <2>4 DEF ObtainBitcoin2, RoundOf, FeesFresh, Stages
<1>5. CASE Pause
  BY <1>5 DEF Pause, RoundOf, FoundFresh, FeesFresh, Fresh, Stages
<1>6. CASE ObtainLitecoin
  <2>1. PICK outcome \in Outcomes : found' = Obtained("ltc", outcome)
    BY <1>6 DEF ObtainLitecoin
  <2>2. round \in Int /\ round % Period = 1 /\ "ltc" \in Slow
    BY <1>6 DEF ObtainLitecoin, RoundOf, Slow
  <2>3. Fresh(found', round) /\ Static \cap DOMAIN found' = {}
    BY <2>1, <2>2, ObtainedFresh
  <2>4. FoundFresh'
    BY <1>6, <2>3 DEF ObtainLitecoin, FoundFresh, Fresh
  <2> QED BY <1>6, <2>4 DEF ObtainLitecoin, RoundOf, FeesFresh, Stages
<1>7. ASSUME stage = "evm"
      PROVE  /\ round \in Int /\ Evm[next] \in EvmCoins /\ Evm[next] \notin Slow
             /\ listed = round - 1
  BY <1>7, CoinAssumption DEF RoundOf, EvmCoins
<1>8. CASE ObtainEvm
  <2>1. PICK outcome \in Outcomes : found' = Obtained(Evm[next], outcome)
    BY <1>8 DEF ObtainEvm
  <2>2. Fresh(found', round) /\ Static \cap DOMAIN found' = {}
    BY <1>7, <1>8, <2>1, ObtainedFresh DEF ObtainEvm
  <2>3. FoundFresh'
    BY <1>8, <2>2 DEF ObtainEvm, FoundFresh, Fresh
  <2>4. next' \in DOMAIN Evm
    BY <1>8, CoinAssumption DEF ObtainEvm, RoundOf
  <2> QED BY <1>8, <2>3, <2>4 DEF ObtainEvm, RoundOf, FeesFresh
<1>9. CASE Publish
  <2>1. PICK outcome \in Outcomes :
            LET all == Obtained(Evm[next], outcome) IN
            fees' = [c \in DOMAIN all \cup Static |->
                       IF c \in Static THEN [since |-> round, sound |-> TRUE] ELSE all[c]]
    BY <1>9 DEF Publish
  <2> DEFINE all == Obtained(Evm[next], outcome)
  <2>2. Fresh(all, round)
    BY <1>7, <1>9, ObtainedFresh DEF Publish
  <2>3. /\ DOMAIN fees' = DOMAIN all \cup Static
        /\ \A c \in Static : fees'[c].since = round
        /\ \A c \in DOMAIN all \ Static : fees'[c] = all[c]
    BY <2>1
  <2> HIDE DEF all
  <2>4. listed' = round /\ round' = round
    BY <1>9 DEF Publish
  <2>5. FeesFresh'
    BY <2>2, <2>3, <2>4, CoinAssumption DEF FeesFresh, Fresh
  <2>6. FoundFresh'
    BY <1>9 DEF Publish, FoundFresh, Fresh, NoFees
  <2>7. 1 \in DOMAIN Evm
    BY CoinAssumption
  <2> QED BY <1>9, <2>4, <2>5, <2>6, <2>7 DEF Publish, RoundOf, Stages
<1>10. CASE RateStep \/ \E q \in Requests : Ask(q) \/ Poll(q)
  BY <1>1, <1>10 DEF RateStep, FetchFiat, FetchCrypto, Rearm, Ask, Poll
<1>11. CASE UNCHANGED vars
  BY <1>1, <1>11 DEF vars
<1> QED BY <1>2, <1>3, <1>4, <1>5, <1>6, <1>8, <1>9, <1>10, <1>11 DEF Next, FeeStep

\* Every fee that is served is of the round that made the list, btc's and ltc's
\* of the last refresh up to it (networkFeesService.ts).
THEOREM FeesCurrent == Spec => []FeesFresh
<1>1. FeesInv => FeesFresh
  BY DEF FeesInv
<1> QED BY <1>1, InitFees, FeesStep, PTL DEF Spec

-----------------------------------------------------------------------------
(* The rates *)

Feed == {"fiat", "crypto"}

\* One fetch at most is under way, and it is of the round begun last.
RatesInv ==
    /\ tries \in Nat
    /\ rates \in [Feed -> Nat]
    /\ \A r \in Feed : rates[r] <= tries
    /\ armed => calls = {}
    /\ calls = {} \/ \E feed \in Feed : calls = {[feed |-> feed, since |-> tries]}

LEMMA InitRates == Init => RatesInv
BY DEF Init, RatesInv, Feed

LEMMA RatesStep ==
    ASSUME RatesInv, [Next]_vars
    PROVE  RatesInv' /\ \A r \in Feed : rates'[r] >= rates[r]
<1> USE DEF RatesInv
<1>1. CASE UNCHANGED rateVars
  <2>1. rates' = rates
    BY <1>1 DEF rateVars
  <2> QED BY <1>1, <2>1 DEF rateVars
<1>2. CASE FetchFiat
  <2>1. calls' = {[feed |-> "fiat", since |-> tries']}
    BY <1>2 DEF FetchFiat
  <2> QED BY <1>2, <2>1 DEF FetchFiat, Feed
<1>3. ASSUME NEW feed \in Feed, NEW since, since = tries, Replace(feed, since)
      PROVE  /\ rates' \in [Feed -> Nat]
             /\ \A r \in Feed : rates'[r] <= tries /\ rates'[r] >= rates[r]
  BY <1>3 DEF Replace
<1>4. ASSUME NEW call \in calls
      PROVE  \E feed \in Feed : call = [feed |-> feed, since |-> tries] /\ calls = {call}
  OBVIOUS
<1>5. ASSUME NEW call \in calls, FetchCrypto(call)
      PROVE  RatesInv' /\ \A r \in Feed : rates'[r] >= rates[r]
  <2>1. PICK feed \in Feed : call = [feed |-> feed, since |-> tries] /\ calls = {call}
    BY <1>4
  <2>2. calls' = {[feed |-> "crypto", since |-> tries]}
    BY <1>5, <2>1 DEF FetchCrypto
  <2>3. /\ rates' \in [Feed -> Nat]
        /\ \A r \in Feed : rates'[r] <= tries /\ rates'[r] >= rates[r]
    BY <1>3, <1>5, <2>1 DEF FetchCrypto, Feed
  <2>4. ~armed /\ armed' = armed /\ tries' = tries
    BY <1>5 DEF FetchCrypto
  <2> QED BY <2>2, <2>3, <2>4 DEF Feed
<1>6. ASSUME NEW call \in calls, Rearm(call)
      PROVE  RatesInv' /\ \A r \in Feed : rates'[r] >= rates[r]
  <2>1. PICK feed \in Feed : call = [feed |-> feed, since |-> tries] /\ calls = {call}
    BY <1>4
  <2>2. calls' = {} /\ tries' = tries
    BY <1>6, <2>1 DEF Rearm
  <2>3. /\ rates' \in [Feed -> Nat]
        /\ \A r \in Feed : rates'[r] <= tries /\ rates'[r] >= rates[r]
    BY <1>3, <1>6, <2>1 DEF Rearm, Feed
  <2> QED BY <2>2, <2>3
<1>7. CASE FeeStep \/ \E q \in Requests : Ask(q) \/ Poll(q)
  BY <1>1, <1>7
     DEF FeeStep, StartRound, ObtainBitcoin1, ObtainBitcoin2, Pause, ObtainLitecoin,
         ObtainEvm, Publish, Ask, Poll
<1>8. CASE UNCHANGED vars
  BY <1>1, <1>8 DEF vars
<1> QED BY <1>2, <1>5, <1>6, <1>7, <1>8 DEF Next, RateStep

\* Served rates never go back to an earlier round's: the timer of ratesService.ts
\* is set only when both fetches of a round have ended.
THEOREM RatesInOrder == Spec => RatesForward
<1> DEFINE Forward == \A r \in {"fiat", "crypto"} : rates'[r] >= rates[r]
<1>1. RatesInv /\ [Next]_vars => RatesInv' /\ [Forward]_vars
  BY RatesStep DEF Feed
<1> QED BY <1>1, InitRates, PTL DEF Spec, RatesForward

=============================================================================
