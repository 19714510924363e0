----------------------------- MODULE SyncStore -----------------------------
(***************************************************************************)
(* The synchronisations of wallet and key: the v1sync collection, the      *)
(* handler that fills it (POST /v1/sync) and what a read (GET /v1/sync)    *)
(* can find there.                                                         *)
(*                                                                         *)
(* postSync computes the creation time, sends an upsert whose $set holds   *)
(* the mandatory fields and those optional ones the request has, awaits    *)
(* it, awaits postToken (modelled in PushTokens) and answers.  Handlers    *)
(* interleave at the awaits.  A value in a document is represented by the  *)
(* post it came with; a read is a findOne, which may return any document   *)
(* of the identity.                                                        *)
(***************************************************************************)
EXTENDS Naturals, FiniteSets

CONSTANTS
    Identities,     \* wallet identities, the keys of v1sync
    Posts,          \* the POST /v1/sync requests of a behaviour
    Fields,         \* the optional fields: publicNonces, walletXpub, ...
    None,           \* the value of a field a document does not have
    TTL,            \* expireAfterSeconds of the index on createdAt
    Period,         \* how often the database's TTL monitor runs
    MaxTime         \* bound: the time at which a behaviour ends

ASSUME NoneAssumption == None \notin Posts \cup Identities
ASSUME TimesAssumption == TTL \in Nat /\ Period \in Nat \ {0} /\ MaxTime \in Nat

VARIABLES
    now,            \* the time
    swept,          \* when the TTL monitor last ran
    docs,           \* the documents of v1sync
    post,           \* post[p]: phase, identity, optional fields, createdAt, and
                    \* whether nobody awaits its upsert any more
    before,         \* history: posts of the identity over before p came
    forked,         \* history: identities that had two documents at some time
    overlapped      \* history: posts that ran while another of the identity did

vars == <<now, swept, docs, post, before, forked, overlapped>>

\* writing    the upsert is at the database, which has not matched it yet
\* inserting  the upsert matched no document and is about to insert one
\* written    the upsert is applied; the handler is in postToken
\* failed     the upsert is applied, and the sender got an error or no answer
\* dropped    the same, and the upsert never will be applied
PostPhases == {"unsent", "writing", "inserting", "written", "answered",
               "failed", "dropped"}

InFlight == {"writing", "inserting", "written"}

Over == {"answered", "failed", "dropped"}

\* `main` stands for the fields that every update sets: chain, keyXpub,
\* wkIdentity, generatedAddress (null if absent).
Document == [id: Identities, main: Posts, opt: [Fields -> Posts \cup {None}],
             at: 0..MaxTime]

TypeOK ==
    /\ now \in 0..MaxTime
    /\ swept \in 0..MaxTime
    /\ docs \in SUBSET Document
    /\ post \in [Posts -> [phase: PostPhases, id: Identities \cup {None},
                           opt: SUBSET Fields, at: 0..MaxTime, lost: BOOLEAN]]
    /\ \A p \in Posts : post[p].phase # "unsent" => post[p].id \in Identities
    /\ before \in [Posts -> SUBSET Posts]
    /\ forked \in SUBSET Identities
    /\ overlapped \in SUBSET Posts

Init ==
    /\ now = 0
    /\ swept = 0
    /\ docs = {}
    /\ post = [p \in Posts |-> [phase |-> "unsent", id |-> None, opt |-> {},
                                at |-> 0, lost |-> FALSE]]
    /\ before = [p \in Posts |-> {}]
    /\ forked = {}
    /\ overlapped = {}

-----------------------------------------------------------------------------
(* POST /v1/sync *)

PostsOf(w, phases) == {q \in Posts : post[q].id = w /\ post[q].phase \in phases}

DocsOf(w) == {d \in docs : d.id = w}

Overlap(p, w) ==
    overlapped' = IF PostsOf(w, InFlight) = {} THEN overlapped
                  ELSE overlapped \cup {p} \cup PostsOf(w, InFlight)

\* A valid request with the optional fields fs: createdAt is computed here,
\* before the upsert is sent.
Receive(p, w, fs) ==
    /\ post[p].phase = "unsent"
    /\ post' = [post EXCEPT ![p] = [phase |-> "writing", id |-> w, opt |-> fs,
                                    at |-> now, lost |-> FALSE]]
    /\ before' = [before EXCEPT ![p] = PostsOf(w, Over)]
    /\ Overlap(p, w)
    /\ UNCHANGED <<now, swept, docs, forked>>

\* The document after $set with the data of p.
SetFields(p, opt) ==
    [id |-> post[p].id, main |-> p, at |-> post[p].at,
     opt |-> [f \in Fields |-> IF f \in post[p].opt THEN p ELSE opt[f]]]

\* The phase of p after the database applied its upsert: nobody may await it.
AfterUpsert(p) == IF post[p].lost THEN "failed" ELSE "written"

\* Mutant: the mandatory fields are under $setOnInsert.
UpdateKeepingMain(p, d) ==
    /\ post[p].phase = "writing"
    /\ d \in DocsOf(post[p].id)
    /\ docs' = (docs \ {d}) \cup {[SetFields(p, d.opt) EXCEPT !.main = d.main]}
    /\ post' = [post EXCEPT ![p].phase = AfterUpsert(p)]
    /\ UNCHANGED <<now, swept, before, forked, overlapped>>

\* Mutant: createdAt is under $setOnInsert.
UpdateKeepingDate(p, d) ==
    /\ post[p].phase = "writing"
    /\ d \in DocsOf(post[p].id)
    /\ docs' = (docs \ {d}) \cup {[SetFields(p, d.opt) EXCEPT !.at = d.at]}
    /\ post' = [post EXCEPT ![p].phase = AfterUpsert(p)]
    /\ UNCHANGED <<now, swept, before, forked, overlapped>>

\* Mutant: the query is not by identity.
UpdateOfAnyIdentity(p, d) ==
    /\ post[p].phase = "writing"
    /\ d \in docs
    /\ docs' = (docs \ {d}) \cup {SetFields(p, d.opt)}
    /\ post' = [post EXCEPT ![p].phase = AfterUpsert(p)]
    /\ UNCHANGED <<now, swept, before, forked, overlapped>>

\* The upsert matches a document, any one of the identity.
Update(p, d) ==
    /\ post[p].phase = "writing"
    /\ d \in DocsOf(post[p].id)
    /\ docs' = (docs \ {d}) \cup {SetFields(p, d.opt)}
    /\ post' = [post EXCEPT ![p].phase = AfterUpsert(p)]
    /\ UNCHANGED <<now, swept, before, forked, overlapped>>

\* The upsert matches none.  The index on walletIdentity is not unique.
UpsertMiss(p) ==
    /\ post[p].phase = "writing"
    /\ DocsOf(post[p].id) = {}
    /\ post' = [post EXCEPT ![p].phase = "inserting"]
    /\ UNCHANGED <<now, swept, docs, before, forked, overlapped>>

Insert(p) ==
    LET w == post[p].id IN
    /\ post[p].phase = "inserting"
    /\ docs' = docs \cup {SetFields(p, [f \in Fields |-> None])}
    /\ forked' = IF DocsOf(w) = {} THEN forked ELSE forked \cup {w}
    /\ post' = [post EXCEPT ![p].phase = AfterUpsert(p)]
    /\ UNCHANGED <<now, swept, before, overlapped>>

\* postToken is done or has thrown, which is only logged: the data is the
\* answer.
Answer(p) ==
    /\ post[p].phase = "written"
    /\ post' = [post EXCEPT ![p].phase = "answered"]
    /\ UNCHANGED <<now, swept, docs, before, forked, overlapped>>

\* The await of the upsert throws, or the process dies, and the upsert was
\* applied or never will be: the sender gets an error or no answer.
Fail(p) ==
    /\ post[p].phase \in InFlight
    /\ ~post[p].lost
    /\ post' = [post EXCEPT ![p].phase = IF @ = "written" THEN "failed"
                                                          ELSE "dropped",
                             ![p].lost = TRUE]
    /\ UNCHANGED <<now, swept, docs, before, forked, overlapped>>

\* The same, and the upsert is still under way: the database may apply it at any
\* later time.
LoseTrack(p) ==
    /\ post[p].phase \in {"writing", "inserting"}
    /\ ~post[p].lost
    /\ post' = [post EXCEPT ![p].lost = TRUE]
    /\ UNCHANGED <<now, swept, docs, before, forked, overlapped>>

-----------------------------------------------------------------------------
(* Time and the database's TTL monitor *)

Tick ==
    /\ now < MaxTime
    /\ now < swept + Period
    /\ now' = now + 1
    /\ UNCHANGED <<swept, docs, post, before, forked, overlapped>>

\* The monitor removes the documents created more than TTL ago.
Sweep ==
    /\ swept' = now
    /\ docs' = {d \in docs : now - d.at <= TTL}
    /\ UNCHANGED <<now, post, before, forked, overlapped>>

Next ==
    \/ \E p \in Posts, w \in Identities, fs \in SUBSET Fields : Receive(p, w, fs)
    \/ \E p \in Posts : \/ \E d \in docs : Update(p, d)
                        \/ UpsertMiss(p)
                        \/ Insert(p)
                        \/ Answer(p)
                        \/ Fail(p)
                        \/ LoseTrack(p)
    \/ Tick
    \/ Sweep

Spec == Init /\ [][Next]_vars

-----------------------------------------------------------------------------
(* Properties *)

Stored == {"written", "answered"}

\* A device that reads after its sync was answered reads that sync or one that
\* was not over before it came, never an older one, and the same of every
\* optional field it sent.  So a sync that failed may come late, over a newer
\* one, but not come back; as long as concurrent first syncs of the identity
\* did not leave it with two documents, of which a read may return either.
NoStaleSync ==
    \A d \in docs : d.id \notin forked =>
        \A q \in PostsOf(d.id, Stored) :
            /\ d.main \notin before[q]
            /\ \A f \in post[q].opt : d.opt[f] \notin before[q]

\* A stored sync can be found until TTL after its creation time, whatever later
\* syncs and the TTL monitor do, unless a sync that ran at the same time put an
\* earlier creation time over it.
KeptUntilExpiry ==
    \A q \in Posts \ overlapped :
        post[q].phase \in Stored /\ now - post[q].at <= TTL =>
            \E d \in DocsOf(post[q].id) : d.at >= post[q].at

\* A document's mandatory fields and its date come from one post, and every
\* field from a post of its identity that carried it: identities never mix.
FieldsBelong ==
    \A d \in docs :
        /\ post[d.main].id = d.id /\ post[d.main].at = d.at
        /\ \A f \in Fields : d.opt[f] # None =>
               post[d.opt[f]].id = d.id /\ f \in post[d.opt[f]].opt

-----------------------------------------------------------------------------
(* The store of syncs implements UpsertStore *)

\* The posts whose upsert was applied, whoever was told.
Applied == {p \in Posts : post[p].phase \in {"written", "answered", "failed"}}

Upserts == INSTANCE UpsertStore WITH
    Requests <- Posts,
    shelf <- [w \in Identities |-> {d.main : d \in DocsOf(w)}],
    asked <- [p \in Posts |-> post[p].id], done <- Applied,
    confirmed <- {p \in Posts : post[p].phase = "answered"}, sealed <- FALSE,
    Expiring <- TRUE

\* A sync is stored at one moment, once, as a whole in its mandatory fields, for
\* its identity and in place of at most one other, however late; its sender is
\* told so only after that; and nothing else changes what is stored but
\* expiry.
ImplementsUpserts == Upserts!Spec

-----------------------------------------------------------------------------
(* The inductive invariant *)

\* What was over before a post is over, and is another post of the identity.
BeforeOver ==
    \A q \in Posts : \A p \in before[q] :
        post[p].phase \in Over /\ post[p].id = post[q].id

\* An identity whose inserts did not race has one document.
OneDocument ==
    \A d, e \in docs : d.id = e.id /\ d.id \notin forked => d = e

\* Every value in a document was received.
ValuesReceived ==
    \A d \in docs :
        /\ post[d.main].phase # "unsent"
        /\ \A f \in Fields : d.opt[f] # None => post[d.opt[f]].phase # "unsent"

\* A post is for nobody before it is sent.
UnsentIsNew == \A p \in Posts : post[p].phase = "unsent" => post[p].id = None

\* A document holds posts that were applied, each in one document.
WrittenOnce ==
    /\ \A d \in docs : d.main \in Applied
    /\ \A d, e \in docs : d.main = e.main => d = e

\* Overlaps are recorded, and a post that overlaps none is not followed by a
\* write with an earlier creation time.
OverlapRecorded ==
    /\ \A p, q \in Posts :
          /\ p # q /\ post[p].id = post[q].id
          /\ post[p].phase \in InFlight /\ post[q].phase \in InFlight
          => p \in overlapped /\ q \in overlapped
    /\ \A p \in Posts, q \in Posts \ overlapped :
          /\ p # q /\ post[p].id = post[q].id
          /\ post[p].phase \in InFlight /\ post[q].phase \in Stored
          => post[q].at <= post[p].at
    /\ \A p \in Posts : post[p].at <= now

IInv ==
    /\ TypeOK
    /\ BeforeOver
    /\ OneDocument
    /\ ValuesReceived
    /\ UnsentIsNew
    /\ WrittenOnce
    /\ OverlapRecorded
    /\ NoStaleSync
    /\ KeptUntilExpiry
    /\ FieldsBelong

=============================================================================
