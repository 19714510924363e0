------------------------------- MODULE Feeds -------------------------------
(***************************************************************************)
(* The network fees and the exchange rates.  One loop collects the fees of *)
(* all coins, source after source, and replaces the list it serves at the  *)
(* end of its round; another fetches the fiat, then the crypto rates.      *)
(* Neither gives its sources a time limit: a source may never answer.      *)
(* GET /networkfee waits for a first list, ten seconds at most.            *)
(***************************************************************************)
EXTENDS Integers, Sequences, FiniteSets

CONSTANTS
    Evm,        \* coins of the EVM chains, in the order they are fetched
    Period,     \* btc and ltc are fetched in every Period-th round (10)
    Static,     \* coins whose fees are constants
    Requests,   \* requests for the fees
    Patience,   \* polls a request makes before it gives up (20)
    MaxRound,   \* bound on the rounds of the fees
    MaxTries    \* bound on the rounds of the rates

Slow == {"btc", "ltc"}
EvmCoins == {Evm[k] : k \in DOMAIN Evm}
Coins == Slow \cup EvmCoins \cup Static

ASSUME CoinAssumption ==
    /\ Slow \cap EvmCoins = {} /\ Slow \cap Static = {} /\ EvmCoins \cap Static = {}
    /\ Static # {}
    /\ Evm \in Seq(EvmCoins) /\ Evm # <<>>
ASSUME PeriodAssumption == Period \in Nat /\ Period > 1
ASSUME BoundAssumption == Patience \in Nat /\ MaxRound \in Nat /\ MaxTries \in Nat

VARIABLES
    round,     \* i
    stage,     \* what the fees' loop awaits
    next,      \* at "evm": the index of the coin
    bitcoin,   \* what the first of bitcoin's sources answered
    found,     \* the fees of the round so far
    fees,      \* currentFees
    listed,    \* the round that made it
    calls,     \* the rates' fetches under way
    armed,     \* the rates' timer runs
    tries,     \* rounds of the rates so far
    rates,     \* rates[r]: the round whose answer is served, 0 for the initial one
    req

feeVars == <<round, stage, next, bitcoin, found, fees, listed>>
rateVars == <<calls, armed, tries, rates>>
vars == <<feeVars, rateVars, req>>

\* good     the numbers asked for
\* empty    an answer without them: the arithmetic makes them NaN
\* failed   an error, or an answer of another shape
Outcomes == {"good", "empty", "failed"}

\* since: the round that fetched it.  sound: no NaN, which is sent as null.
Fee == [since: Int, sound: BOOLEAN]
NoFees == [c \in {} |-> [since |-> 0, sound |-> TRUE]]

\* "refresh" is the delay that starts the next round, "pause" the minute
\* between bitcoin's and litecoin's sources.
Stages == {"refresh", "btc1", "btc2", "pause", "ltc", "evm"}

TypeOK ==
    /\ round \in -1..MaxRound
    /\ stage \in Stages
    /\ next \in 1..Len(Evm)
    /\ bitcoin \in Outcomes
    /\ \E D \in SUBSET (Slow \cup EvmCoins) : found \in [D -> Fee]
    /\ \E D \in SUBSET Coins : fees \in [D -> Fee]
    /\ listed \in -1..round
    /\ calls \in SUBSET [feed: {"fiat", "crypto"}, since: 1..MaxTries]
    /\ armed \in BOOLEAN
    /\ tries \in 0..MaxTries
    /\ rates \in [{"fiat", "crypto"} -> 0..MaxTries]
    /\ req \in [Requests -> [phase: {"new", "waiting", "served", "unavailable"},
                             left: 0..Patience]]

Init ==
    /\ round = -1
    /\ stage = "refresh"
    /\ next = 1
    /\ bitcoin = "failed"
    /\ found = NoFees
    /\ fees = NoFees
    /\ listed = -1
    /\ calls = {}
    /\ armed = TRUE
    /\ tries = 0
    /\ rates = [r \in {"fiat", "crypto"} |-> 0]
    /\ req = [q \in Requests |-> [phase |-> "new", left |-> Patience]]

Put(list, coin, fee) ==
    [c \in DOMAIN list \cup {coin} |-> IF c = coin THEN fee ELSE list[c]]

\* What obtaining a coin adds to the round: nothing if its source failed.
Obtained(coin, outcome) ==
    IF outcome = "failed" THEN found
    ELSE Put(found, coin, [since |-> round, sound |-> outcome = "good"])

-----------------------------------------------------------------------------
(* The fees' loop *)

Only(list, coins) == [c \in DOMAIN list \cap coins |-> list[c]]

\* fetchFees is entered: in every Period-th round, from the second on, btc and
\* ltc are fetched, in the others they are taken from the list that is served.
StartRound ==
    /\ stage = "refresh"
    /\ round < MaxRound
    /\ round' = round + 1
    /\ IF round' % Period = 1
         THEN stage' = "btc1" /\ found' = NoFees
         ELSE stage' = "evm" /\ found' = Only(fees, Slow)
    /\ UNCHANGED <<next, bitcoin, fees, listed, rateVars, req>>

\* obtainBitcoinFees: its two sources, one after the other.
ObtainBitcoin1 ==
    /\ stage = "btc1"
    /\ bitcoin' \in Outcomes
    /\ stage' = "btc2"
    /\ UNCHANGED <<round, next, found, fees, listed, rateVars, req>>

\* Mutant: where both fail the old fee is kept.
ObtainBitcoin2Keeping ==
    /\ stage = "btc2"
    /\ \E second \in Outcomes :
         found' = IF {bitcoin, second} = {"failed"} THEN Only(fees, {"btc"})
                  ELSE Put(found, "btc",
                           [since |-> round, sound |-> "empty" \notin {bitcoin, second}])
    /\ stage' = "pause"
    /\ bitcoin' = "failed"
    /\ UNCHANGED <<round, next, fees, listed, rateVars, req>>

\* The larger of the two answers, or the only one; NaN if either is.
ObtainBitcoin2 ==
    /\ stage = "btc2"
    /\ \E second \in Outcomes :
         found' = IF {bitcoin, second} = {"failed"} THEN found
                  ELSE Put(found, "btc",
                           [since |-> round, sound |-> "empty" \notin {bitcoin, second}])
    /\ stage' = "pause"
    /\ bitcoin' = "failed"
    /\ UNCHANGED <<round, next, fees, listed, rateVars, req>>

Pause ==
    /\ stage = "pause"
    /\ stage' = "ltc"
    /\ UNCHANGED <<round, next, bitcoin, found, fees, listed, rateVars, req>>

ObtainLitecoin ==
    /\ stage = "ltc"
    /\ \E outcome \in Outcomes : found' = Obtained("ltc", outcome)
    /\ stage' = "evm"
    /\ UNCHANGED <<round, next, bitcoin, fees, listed, rateVars, req>>

\* obtainEthFees to obtainAvaxFees.
ObtainEvm ==
    /\ stage = "evm"
    /\ next < Len(Evm)
    /\ \E outcome \in Outcomes : found' = Obtained(Evm[next], outcome)
    /\ next' = next + 1
    /\ UNCHANGED <<round, stage, bitcoin, fees, listed, rateVars, req>>

\* The last of them: the constants are added, and the list is replaced at once.
Publish ==
    /\ stage = "evm"
    /\ next = Len(Evm)
    /\ \E outcome \in Outcomes :
         LET all == Obtained(Evm[next], outcome) IN
         fees' = [c \in DOMAIN all \cup Static |->
                    IF c \in Static THEN [since |-> round, sound |-> TRUE] ELSE all[c]]
    /\ found' = NoFees
    /\ listed' = round
    /\ stage' = "refresh"
    /\ next' = 1
    /\ UNCHANGED <<round, bitcoin, rateVars, req>>

-----------------------------------------------------------------------------
(* The rates' loop *)

\* Mutant: the timer is an interval.
FetchFiatInterval ==
    /\ armed
    /\ tries < MaxTries
    /\ tries' = tries + 1
    /\ calls' = calls \cup {[feed |-> "fiat", since |-> tries']}
    /\ UNCHANGED <<feeVars, armed, rates, req>>

\* initRates is entered.
FetchFiat ==
    /\ armed
    /\ tries < MaxTries
    /\ armed' = FALSE
    /\ tries' = tries + 1
    /\ calls' = calls \cup {[feed |-> "fiat", since |-> tries']}
    /\ UNCHANGED <<feeVars, rates, req>>

\* Either answer replaces all rates of its feed, or none if it is not whole.
Replace(feed, since) ==
    \/ rates' = [rates EXCEPT ![feed] = since]
    \/ UNCHANGED rates

\* The fiat rates are there, or not, and the crypto rates are asked for.
FetchCrypto(call) ==
    /\ call \in calls
    /\ call.feed = "fiat"
    /\ calls' = (calls \ {call}) \cup {[call EXCEPT !.feed = "crypto"]}
    /\ Replace("fiat", call.since)
    /\ UNCHANGED <<feeVars, armed, tries, req>>

\* The crypto rates are there, or not, and the timer is set.
Rearm(call) ==
    /\ call \in calls
    /\ call.feed = "crypto"
    /\ calls' = calls \ {call}
    /\ Replace("crypto", call.since)
    /\ armed' = TRUE
    /\ UNCHANGED <<feeVars, tries, req>>

-----------------------------------------------------------------------------
(* GET /networkfee *)

Ask(q) ==
    /\ req[q].phase = "new"
    /\ req' = [req EXCEPT ![q].phase = "waiting"]
    /\ UNCHANGED <<feeVars, rateVars>>

\* Mutant: waits for a list as long as it takes.
PollForever(q) ==
    /\ req[q].phase = "waiting"
    /\ fees # NoFees
    /\ req' = [req EXCEPT ![q].phase = "served"]
    /\ UNCHANGED <<feeVars, rateVars>>

\* One turn of the loop: the list, 503, or half a second's sleep.
Poll(q) ==
    /\ req[q].phase = "waiting"
    /\ IF fees # NoFees
         THEN req' = [req EXCEPT ![q].phase = "served"]
       ELSE IF req[q].left = 0
         THEN req' = [req EXCEPT ![q].phase = "unavailable"]
       ELSE req' = [req EXCEPT ![q].left = @ - 1]
    /\ UNCHANGED <<feeVars, rateVars>>

-----------------------------------------------------------------------------

FeeStep ==
    \/ StartRound
    \/ ObtainBitcoin1
    \/ ObtainBitcoin2
    \/ Pause
    \/ ObtainLitecoin
    \/ ObtainEvm
    \/ Publish

RateStep == FetchFiat \/ \E call \in calls : FetchCrypto(call) \/ Rearm(call)

Next ==
    \/ FeeStep
    \/ RateStep
    \/ \E q \in Requests : Ask(q) \/ Poll(q)

Spec == Init /\ [][Next]_vars

\* The timer of a poll goes off; nothing is said of the sources.
Fairness == \A q \in Requests : WF_vars(Poll(q))

FairSpec == Spec /\ Fairness

-----------------------------------------------------------------------------
(* Correctness *)

\* The last round, up to r, in which btc and ltc were fetched.
LastRefresh(r) == r - ((r - 1) % Period)

\* What is served as a coin's fee comes from the round that made the list, for
\* btc and ltc from the last round that asked for them: a source that fails
\* takes its coin off the list, and its old fee never comes back.
FeesFresh ==
    \A c \in DOMAIN fees :
        fees[c].since = IF c \in Slow THEN LastRefresh(listed) ELSE listed

\* Rates never go back to those of an earlier round: there is no late answer.
RatesForward ==
    [][\A r \in {"fiat", "crypto"} : rates'[r] >= rates[r]]_vars

\* A request for the fees is answered, with a list or a 503, also when the
\* first source it takes never answers.
FeesAnswered ==
    \A q \in Requests :
        req[q].phase = "waiting" ~> req[q].phase \in {"served", "unavailable"}

=============================================================================
