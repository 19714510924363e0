------------------------------ MODULE Gateway ------------------------------
(***************************************************************************)
(* A request's way through the relay: the limiters, apiKeyAuth with its    *)
(* wait for the enterprise module, and the handler.  The limiters are      *)
(* those of express-rate-limit with its store in memory: a client's window *)
(* starts with its first hit and is not moved by later ones.  One action   *)
(* per middleware; what awaits nothing but the store in memory runs in one *)
(* go, so requests interleave at the key's check and at the handler.       *)
(***************************************************************************)
EXTENDS RouteTable, FiniteSets

CONSTANTS
    Requests,    \* the requests of a behaviour
    Offered,     \* their methods, paths and bearers
    Bearers,     \* bearer tokens: API keys, issued or not, and sessions
    NoBearer,    \* no Authorization header, or one that is not an API key's
    Addresses,   \* clients' addresses
    Vaults,      \* vaults named by a path
    NoVault,     \* no vault in the path
    Scopes,      \* Scopes[k]: the scopes of API key k
    Limit,       \* Limit[l]: hits limiter l lets through in a window
    Window,      \* Window[l]: length of its window
    MaxTime      \* bound on time

ASSUME BearerAssumption == NoBearer \notin Bearers
ASSUME OfferedAssumption == \A offer \in Offered : /\ offer.bearer \in Bearers \cup {NoBearer}
                                                   /\ offer.vault \in Vaults
ASSUME VaultAssumption == NoVault \in Vaults
\* The limiters' keys have prefixes, "ip:" and "apikey:", that keep them apart.
ASSUME AddressAssumption == Addresses \cap (Bearers \cup {NoBearer}) = {}
ASSUME LimitAssumption == Limit \in [Limiters -> Nat \ {0}]
ASSUME WindowAssumption == Window \in [Limiters -> Nat \ {0}]
ASSUME TimeAssumption == MaxTime \in Nat
ASSUME TableAssumption ==
    Table \in Seq([method: STRING, paths: SUBSET Seq(STRING), chain: Seq(STRING),
                   scope: STRING])

VARIABLES
    now,
    module,      \* what enterpriseHooks.init found: "absent" or "loaded"
    valid,       \* the API keys that validateApiKey accepts
    window,      \* window[l][c]: the hits of client c and when they expire
    req

vars == <<now, module, valid, window, req>>

\* passing    at element pos of the chain
\* checking   validateApiKey was called
\* handling   the handler awaits what it called
Phases == {"new", "passing", "checking", "handling", "done"}
Answers == {"none", "limited", "unauthorized", "forbidden", "unavailable",
            "notfound", "error", "answered"}

\* Whose window it is: an address or a bearer, and for a session's limiter
\* the vault as well.
Clients == (Addresses \cup Bearers) \X Vaults
Routes == {NotFound} \cup DOMAIN Table

\* live: the bearer was valid when the request came in.
\* hits[l]: when limiter l counted the request, 0 if it did not.
Request == [phase: Phases, route: Routes, bearer: Bearers \cup {NoBearer},
            address: Addresses, vault: Vaults, pos: Nat, live: BOOLEAN,
            hits: [Limiters -> Nat], answer: Answers]

\* Types; the module is only asked, and only works, where there is one.
TypeOK ==
    /\ now \in 1..MaxTime + 1
    /\ module \in {"absent", "loaded"}
    /\ valid \in SUBSET Bearers
    /\ window \in [Limiters -> [Clients -> [hits: Nat, reset: Nat]]]
    /\ req \in [Requests -> Request]
    /\ \A q \in Requests :
          /\ req[q].phase = "checking" => module = "loaded" /\ req[q].bearer # NoBearer
          /\ req[q].phase = "handling" /\ NeedsModule(req[q].route) => module = "loaded"

Init ==
    /\ now = 1
    /\ module \in {"absent", "loaded"}
    /\ valid = Bearers
    /\ window = [l \in Limiters |-> [c \in Clients |-> [hits |-> 0, reset |-> 0]]]
    /\ req \in [Requests ->
                  {[phase |-> "new", route |-> NotFound, bearer |-> NoBearer,
                    address |-> a, vault |-> NoVault, pos |-> 0, live |-> FALSE,
                    hits |-> [l \in Limiters |-> 0], answer |-> "none"] : a \in Addresses}]

\* What a request goes through: the global limiter, unless server.ts registers
\* its route before it, then the route's own middleware.
Chain(i) ==
    IF i = NotFound THEN <<"limiter">>
    ELSE IF i <= Len(ServerRoutes) THEN Table[i].chain
    ELSE <<"limiter">> \o Table[i].chain

\* No request passes a limiter twice.
ASSUME ChainAssumption ==
    \A i \in Routes : \A j, k \in DOMAIN Chain(i) :
        Chain(i)[j] \in Limiters /\ Chain(i)[j] = Chain(i)[k] => j = k

\* No request is between two middlewares that run in one go.
Quiet == \A q \in Requests : req[q].phase # "passing"

At(q, elements) ==
    /\ req[q].phase = "passing"
    /\ req[q].pos \in DOMAIN Chain(req[q].route)
    /\ Chain(req[q].route)[req[q].pos] \in elements

Element(q) == Chain(req[q].route)[req[q].pos]

\* Mutant: the limiters of the customer API count addresses.
ClientByAddress(q, l) == <<req[q].address, NoVault>>

\* keyGenerator: whose window a request counts in.
Client(q, l) ==
    <<IF l \in IpLimiters \/ req[q].bearer = NoBearer
        THEN req[q].address ELSE req[q].bearer,
      IF l \in SessionLimiters THEN req[q].vault ELSE NoVault>>

Done(q, answer) ==
    req' = [req EXCEPT ![q].phase = "done", ![q].answer = answer]

-----------------------------------------------------------------------------

Arrive(q, offer) ==
    /\ Quiet
    /\ req[q].phase = "new"
    /\ req' = [req EXCEPT ![q] = [@ EXCEPT !.phase = "passing",
                                          !.route = Dispatch(offer.method, offer.path),
                                          !.bearer = offer.bearer,
                                          !.vault = offer.vault,
                                          !.pos = 1,
                                          !.live = offer.bearer \in valid]]
    /\ UNCHANGED <<now, module, valid, window>>

\* Mutant: a refusal clears the client's window.
CountForgiving(q) ==
    /\ At(q, Limiters)
    /\ LET l == Element(q)
           c == Client(q, l)
           r == req[q]
           old == window[l][c]
           fresh == old.reset <= now
           hits == IF fresh THEN 1 ELSE old.hits + 1
           over == hits > Limit[l]
       IN /\ window' = [window EXCEPT ![l][c] =
                [hits |-> IF over THEN 0 ELSE hits,
                 reset |-> IF fresh THEN now + Window[l] ELSE old.reset]]
          /\ req' = [req EXCEPT ![q] =
                IF over THEN [r EXCEPT !.hits[l] = now, !.phase = "done", !.answer = "limited"]
                        ELSE [r EXCEPT !.hits[l] = now, !.pos = r.pos + 1]]
    /\ UNCHANGED <<now, module, valid>>

\* A limiter counts the request and lets it pass or answers 429.
Count(q) ==
    /\ At(q, Limiters)
    /\ LET l == Element(q)
           c == Client(q, l)
           r == req[q]
           old == window[l][c]
           fresh == old.reset <= now
           hits == IF fresh THEN 1 ELSE old.hits + 1
           over == hits > Limit[l]
       IN /\ window' = [window EXCEPT ![l][c] =
                [hits |-> hits, reset |-> IF fresh THEN now + Window[l] ELSE old.reset]]
          /\ req' = [req EXCEPT ![q] =
                IF over THEN [r EXCEPT !.hits[l] = now, !.phase = "done", !.answer = "limited"]
                        ELSE [r EXCEPT !.hits[l] = now, !.pos = r.pos + 1]]
    /\ UNCHANGED <<now, module, valid>>

\* requireAuth: the signature verifies, or 401 (see IdentityAuth).
Verify(q) ==
    /\ At(q, {"requireAuth", "optionalAuth"})
    /\ \/ req' = [req EXCEPT ![q].pos = @ + 1]
       \/ Done(q, "unauthorized")
    /\ UNCHANGED <<now, module, valid, window>>

\* Mutant: apiKeyAuth does not ask whether there is a module.
PresentUnloaded(q) ==
    /\ At(q, {"apiKeyAuth"})
    /\ IF req[q].bearer = NoBearer THEN Done(q, "unauthorized")
       ELSE req' = [req EXCEPT ![q].phase = "checking"]
    /\ UNCHANGED <<now, module, valid, window>>

\* apiKeyAuth up to the call of validateApiKey.
Present(q) ==
    /\ At(q, {"apiKeyAuth"})
    /\ IF module = "absent" THEN Done(q, "unavailable")
       ELSE IF req[q].bearer = NoBearer THEN Done(q, "unauthorized")
       ELSE req' = [req EXCEPT ![q].phase = "checking"]
    /\ UNCHANGED <<now, module, valid, window>>

\* apiKeyAuth once the module has looked the key up and found it valid or not:
\* 401, 403 or on to the next middleware.
Resume(q, found) ==
    /\ Quiet
    /\ req[q].phase = "checking"
    /\ IF ~found THEN Done(q, "unauthorized")
       ELSE IF Table[req[q].route].scope \notin Scopes[req[q].bearer]
              THEN Done(q, "forbidden")
       ELSE req' = [req EXCEPT ![q].phase = "passing", ![q].pos = @ + 1]
    /\ UNCHANGED <<now, module, valid, window>>

\* Mutant: a key that was accepted once is not looked up again.
LookUpCached(q) ==
    Resume(q, \/ req[q].bearer \in valid
              \/ \E p \in Requests : /\ req[p].bearer = req[q].bearer
                                     /\ "apiKeyAuth" \in {Chain(req[p].route)[i] :
                                            i \in 1..req[p].pos - 1})

LookUp(q) == Resume(q, req[q].bearer \in valid)

\* What validateApiKey awaits throws: 500.
CheckFails(q) ==
    /\ Quiet
    /\ req[q].phase = "checking"
    /\ Done(q, "error")
    /\ UNCHANGED <<now, module, valid, window>>

\* The end of the chain: no route, no module, or the handler runs.
Handle(q) ==
    /\ req[q].phase = "passing"
    /\ req[q].pos > Len(Chain(req[q].route))
    /\ IF req[q].route = NotFound THEN Done(q, "notfound")
       ELSE IF NeedsModule(req[q].route) /\ module = "absent" THEN Done(q, "unavailable")
       ELSE req' = [req EXCEPT ![q].phase = "handling"]
    /\ UNCHANGED <<now, module, valid, window>>

\* The hook, or the service, is done or has thrown, and the handler answers.
Answer(q) ==
    /\ Quiet
    /\ req[q].phase = "handling"
    /\ Done(q, "answered")
    /\ UNCHANGED <<now, module, valid, window>>

\* A key is revoked, or expires.
Revoke(k) ==
    /\ Quiet
    /\ k \in valid
    /\ valid' = valid \ {k}
    /\ UNCHANGED <<now, module, window, req>>

Tick ==
    /\ Quiet
    /\ now <= MaxTime
    /\ now' = now + 1
    /\ UNCHANGED <<module, valid, window, req>>

-----------------------------------------------------------------------------

CustomerStep(q) == Present(q) \/ LookUp(q) \/ CheckFails(q)

RequestStep(q) ==
    \/ \E offer \in Offered : Arrive(q, offer)
    \/ Count(q)
    \/ Verify(q)
    \/ CustomerStep(q)
    \/ Handle(q)
    \/ Answer(q)

Next ==
    \/ \E q \in Requests : RequestStep(q)
    \/ \E k \in Bearers : Revoke(k)
    \/ Tick

Spec == Init /\ [][Next]_vars

-----------------------------------------------------------------------------
(* Correctness *)

\* Wherever the first request of the process is sent, it gets to the route that
\* was written for it, and the customer API is guarded as CustomerRoutesGuarded
\* says.  The table never changes, so this is asked before anything came in.
TableSound ==
    (\A q \in Requests : req[q].phase = "new")
        => NoRouteShadowed /\ CustomerRoutesGuarded

\* Every handler of the customer API runs for a key that was valid when the
\* request came in, whatever had been accepted before, and that has the scope
\* of the route.
KeyJustified ==
    \A q \in Requests :
        /\ req[q].phase = "handling" \/ req[q].answer = "answered"
        /\ req[q].route # NotFound
        /\ IsApi(req[q].route)
        => /\ req[q].live
           /\ Table[req[q].route].scope \in Scopes[req[q].bearer]

\* The requests that limiter l let through at a time in times, of those that
\* share a budget with q: the same address, the same key, or the same session
\* at the same vault.
PassedWith(q, l, times) ==
    {p \in Requests :
        /\ req[p].hits[l] \in times \ {0}
        /\ ~(req[p].answer = "limited" /\ Element(p) = l)
        /\ l \notin IpLimiters => req[p].bearer = req[q].bearer
        /\ l \in IpLimiters \/ req[q].bearer = NoBearer => req[p].address = req[q].address
        /\ l \in SessionLimiters => req[p].vault = req[q].vault}

\* Nobody pays for another's requests: one that a limiter refuses comes after a
\* full budget of its own key, or address, within the last window.  "Keyed by
\* the validated apiKeyId ... so each key gets its own budget."
FairRefusal ==
    \A q \in Requests : req[q].answer = "limited" =>
        LET l == Element(q)
            t == req[q].hits[l]
        IN Cardinality(PassedWith(q, l, {u \in 1..t : u + Window[l] > t})) >= Limit[l]

\* The most a client gets through in any span of a window's length: one less
\* than two budgets, since windows do not slide (see the README on "60/min
\* sustained with a 120 burst").
BurstBounded ==
    \A q \in Requests : \A l \in {l \in Limiters : req[q].hits[l] > 0} :
    \A t \in 1..now :
        Cardinality(PassedWith(q, l, t..(t + Window[l] - 1))) < 2 * Limit[l]

=============================================================================
