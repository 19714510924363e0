---------------------------- MODULE UpsertStore ----------------------------
(***************************************************************************)
(* What an upsert by identity promises, seen from outside: a request asks  *)
(* to be stored for an identity; some time later, perhaps long after       *)
(* nobody waits for it any more, perhaps never, it is stored in one        *)
(* indivisible step, once, in place of at most one other; it is confirmed  *)
(* only after that.  A store that is sealed holds one request per          *)
(* identity.  Matches, inserts, retries, timeouts and processes are not    *)
(* visible here.                                                           *)
(***************************************************************************)
CONSTANTS
    Identities,   \* whom requests are stored for
    Requests,     \* the requests that may be stored
    None,         \* not asked yet
    Expiring      \* whether what is stored may go away by itself

VARIABLES
    shelf,        \* shelf[w]: the requests stored for w
    asked,        \* asked[r]: the identity r is to be stored for, or None
    done,         \* the requests that have been stored at some time
    confirmed,    \* the requests whose sender was told so
    sealed        \* an identity has at most one stored request from now on

upsertVars == <<shelf, asked, done, confirmed, sealed>>

AtMostOne(S) == \A x, y \in S : x = y

Init ==
    /\ shelf = [w \in Identities |-> {}]
    /\ asked = [r \in Requests |-> None]
    /\ done = {}
    /\ confirmed = {}
    /\ sealed = FALSE

Ask(r, w) ==
    /\ asked[r] = None
    /\ asked' = [asked EXCEPT ![r] = w]
    /\ UNCHANGED <<shelf, done, confirmed, sealed>>

\* The one moment at which r is stored.  In a sealed store it is alone then.
Put(r, w) ==
    /\ asked[r] = w
    /\ r \notin done
    /\ done' = done \cup {r}
    /\ \E old \in SUBSET shelf[w] :
          /\ AtMostOne(old)
          /\ sealed => old = shelf[w]
          /\ shelf' = [shelf EXCEPT ![w] = (@ \ old) \cup {r}]
    /\ UNCHANGED <<asked, confirmed, sealed>>

Confirm(r) ==
    /\ r \in done
    /\ confirmed' = confirmed \cup {r}
    /\ UNCHANGED <<shelf, asked, done, sealed>>

\* Only a store without two requests for an identity can be sealed.
Seal ==
    /\ \A w \in Identities : AtMostOne(shelf[w])
    /\ sealed' = TRUE
    /\ UNCHANGED <<shelf, asked, done, confirmed>>

Expire ==
    /\ Expiring
    /\ shelf' \in [Identities -> SUBSET Requests]
    /\ \A w \in Identities : shelf'[w] \subseteq shelf[w]
    /\ UNCHANGED <<asked, done, confirmed, sealed>>

Next ==
    \/ \E r \in Requests, w \in Identities : Ask(r, w) \/ Put(r, w)
    \/ \E r \in Requests : Confirm(r)
    \/ Seal
    \/ Expire

Spec == Init /\ [][Next]_upsertVars

=============================================================================
