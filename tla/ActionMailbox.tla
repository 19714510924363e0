--------------------------- MODULE ActionMailbox ---------------------------
(***************************************************************************)
(* What the action relay promises, seen from outside: every identity has a *)
(* mailbox; an action is put into it once, and only what has been put into *)
(* the mailbox of an identity is delivered, always to all the devices of   *)
(* one kind that listen on that identity at the moment.  Handlers, awaits, *)
(* database commands and the process itself are not visible here.          *)
(***************************************************************************)
CONSTANTS
    Identities,   \* wallet-key identities
    Kinds,        \* the kinds of devices: a set of disjoint sets of devices
    Posts,        \* the actions that may be put into mailboxes
    None          \* not put yet

Listeners == UNION Kinds

VARIABLES
    box,          \* box[w]: what the mailbox of w holds
    owner,        \* owner[p]: the identity p was put for, or None
    listening,    \* listening[d]: the identities device d listens on
    got           \* got[d]: what was ever delivered to d

mailVars == <<box, owner, listening, got>>

Init ==
    /\ box = [w \in Identities |-> {}]
    /\ owner = [p \in Posts |-> None]
    /\ listening = [d \in Listeners |-> {}]
    /\ got = [d \in Listeners |-> {}]

\* An action is put once; it takes the place of at most one other.
Put(p, w) ==
    /\ owner[p] = None
    /\ owner' = [owner EXCEPT ![p] = w]
    /\ \E old \in SUBSET box[w] :
          /\ \A x, y \in old : x = y
          /\ box' = [box EXCEPT ![w] = (@ \ old) \cup {p}]
    /\ UNCHANGED <<listening, got>>

Remove(w, p) ==
    /\ p \in box[w]
    /\ box' = [box EXCEPT ![w] = @ \ {p}]
    /\ UNCHANGED <<owner, listening, got>>

\* What has been put for w goes to everyone of a kind who listens on w.
Deliver(p, kind) ==
    /\ owner[p] # None
    /\ got' = [d \in Listeners |-> IF d \in kind /\ owner[p] \in listening[d]
                                   THEN got[d] \cup {p}
                                   ELSE got[d]]
    /\ UNCHANGED <<box, owner, listening>>

Enter(d, w) ==
    /\ listening' = [listening EXCEPT ![d] = @ \cup {w}]
    /\ UNCHANGED <<box, owner, got>>

Quit(d) ==
    /\ \E rest \in SUBSET listening[d] : listening' = [listening EXCEPT ![d] = rest]
    /\ UNCHANGED <<box, owner, got>>

\* The service is interrupted: nobody listens, and nothing else changes.
Interrupt ==
    /\ listening' = [d \in Listeners |-> {}]
    /\ UNCHANGED <<box, owner, got>>

Next ==
    \/ \E p \in Posts, w \in Identities : Put(p, w)
    \/ \E w \in Identities, p \in Posts : Remove(w, p)
    \/ \E p \in Posts, kind \in Kinds : Deliver(p, kind)
    \/ \E d \in Listeners, w \in Identities : Enter(d, w)
    \/ \E d \in Listeners : Quit(d)
    \/ Interrupt

Spec == Init /\ [][Next]_mailVars

=============================================================================
