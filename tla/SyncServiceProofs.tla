------------------------- MODULE SyncServiceProofs -------------------------
(***************************************************************************)
(* Proofs about the two collections syncService keeps: SyncStore, for      *)
(* every set of identities, posts and optional fields and every expiry,    *)
(* and PushTokens, for every set of identities, tokens, registrations and  *)
(* notifications and every limit.                                          *)
(***************************************************************************)
EXTENDS SyncStore, PushTokens, FiniteSetTheorems, TLAPS

\* What $set leaves in a document: the post's own mandatory fields and date,
\* and for each optional field the post's value or the one it found.
LEMMA SetFieldsResult ==
    ASSUME NEW p \in Posts, NEW opt
    PROVE  /\ SetFields(p, opt).id = post[p].id
           /\ SetFields(p, opt).main = p
           /\ SetFields(p, opt).at = post[p].at
           /\ \A f \in Fields : SetFields(p, opt).opt[f] =
                  IF f \in post[p].opt THEN p ELSE opt[f]
BY DEF SetFields

\* With an old value for each field, it is a document.
LEMMA SetFieldsType ==
    ASSUME NEW p \in Posts, TypeOK, post[p].phase # "unsent",
           NEW opt \in [Fields -> Posts \cup {None}]
    PROVE  SetFields(p, opt) \in Document
BY DEF SetFields, TypeOK, Document

\* Every step keeps the types.
LEMMA TypeInvariance == TypeOK /\ [Next]_vars => TypeOK'
<1> SUFFICES ASSUME TypeOK, [Next]_vars PROVE TypeOK'
  OBVIOUS
<1> USE TimesAssumption
<1>1. ASSUME NEW p \in Posts, NEW w \in Identities, NEW fs \in SUBSET Fields,
             Receive(p, w, fs)
      PROVE  TypeOK'
  <2>1. PostsOf(w, Over) \subseteq Posts /\ PostsOf(w, InFlight) \subseteq Posts
    BY DEF PostsOf
  <2>2. post' \in [Posts -> [phase: PostPhases, id: Identities \cup {None},
                             opt: SUBSET Fields, at: 0..MaxTime, lost: BOOLEAN]]
    BY <1>1 DEF Receive, TypeOK, PostPhases
  <2>3. \A q \in Posts : post'[q].phase # "unsent" => post'[q].id \in Identities
    BY <1>1 DEF Receive, TypeOK
  <2> QED BY <1>1, <2>1, <2>2, <2>3 DEF Receive, Overlap, TypeOK
<1>2. ASSUME NEW p \in Posts, NEW d \in docs, Update(p, d) PROVE TypeOK'
  <2>1. d.opt \in [Fields -> Posts \cup {None}]
    BY DEF TypeOK, Document
  <2>2. SetFields(p, d.opt) \in Document
    BY <1>2, <2>1, SetFieldsType DEF Update
  <2> QED BY <1>2, <2>2 DEF Update, AfterUpsert, TypeOK, PostPhases
<1>3. ASSUME NEW p \in Posts, UpsertMiss(p) PROVE TypeOK'
  BY <1>3 DEF UpsertMiss, TypeOK, PostPhases
<1>4. ASSUME NEW p \in Posts, Insert(p) PROVE TypeOK'
  <2>1. post[p].id \in Identities
    BY <1>4 DEF Insert, TypeOK
  <2>2. SetFields(p, [f \in Fields |-> None]) \in Document
    BY <1>4, SetFieldsType DEF Insert
  <2> QED BY <1>4, <2>1, <2>2 DEF Insert, AfterUpsert, TypeOK, PostPhases
<1>5. ASSUME NEW p \in Posts, Answer(p) PROVE TypeOK'
  BY <1>5 DEF Answer, TypeOK, PostPhases
<1>6. ASSUME NEW p \in Posts, Fail(p) PROVE TypeOK'
  BY <1>6 DEF Fail, TypeOK, PostPhases, InFlight
<1>7. ASSUME NEW p \in Posts, LoseTrack(p) PROVE TypeOK'
  BY <1>7 DEF LoseTrack, TypeOK, PostPhases
<1>8. CASE Tick
  BY <1>8 DEF Tick, TypeOK
<1>9. CASE Sweep
  BY <1>9 DEF Sweep, TypeOK
<1>10. CASE UNCHANGED vars
  BY <1>10 DEF vars, TypeOK
<1> QED
  BY <1>1, <1>2, <1>3, <1>4, <1>5, <1>6, <1>7, <1>8, <1>9, <1>10 DEF Next

\* A step other than the arrival of p keeps the fields of p; none but its own
\* changes its phase, and an unsent post only arrives.
LEMMA PostStep ==
    ASSUME TypeOK, [Next]_vars, NEW p \in Posts
    PROVE  /\ post[p].phase # "unsent" =>
                  /\ post'[p].phase # "unsent"
                  /\ post'[p].id = post[p].id
                  /\ post'[p].opt = post[p].opt
                  /\ post'[p].at = post[p].at
                  /\ before'[p] = before[p]
           /\ post[p].phase \in Over => post'[p].phase \in Over
           /\ post[p].phase = "unsent" => post'[p].phase \in {"unsent", "writing"}
<1> USE DEF Over
<1>1. CASE \E q \in Posts, w \in Identities, fs \in SUBSET Fields : Receive(q, w, fs)
  BY <1>1 DEF Receive, TypeOK
<1>2. CASE \E q \in Posts : \E d \in docs : Update(q, d)
  BY <1>2 DEF Update, AfterUpsert, TypeOK
<1>3. CASE \E q \in Posts : UpsertMiss(q) \/ Insert(q)
  BY <1>3 DEF UpsertMiss, Insert, AfterUpsert, TypeOK
<1>4. CASE \E q \in Posts : Answer(q) \/ Fail(q) \/ LoseTrack(q)
  BY <1>4 DEF Answer, Fail, LoseTrack, InFlight, TypeOK
<1>5. CASE UNCHANGED <<post, before>>
  BY <1>5
<1> QED BY <1>1, <1>2, <1>3, <1>4, <1>5 DEF Next, Tick, Sweep, vars

\* What was over before a post came stays so.
LEMMA BeforeOverInvariance ==
    TypeOK /\ BeforeOver /\ [Next]_vars => BeforeOver'
<1> SUFFICES ASSUME TypeOK, BeforeOver, [Next]_vars,
                    NEW q \in Posts, NEW p \in before'[q]
             PROVE  post'[p].phase \in Over /\ post'[p].id = post'[q].id
  BY DEF BeforeOver
<1> USE DEF Over
<1>1. CASE before'[q] = before[q] /\ post[q].phase # "unsent"
  <2>1. p \in Posts /\ post[p].phase \in Over /\ post[p].id = post[q].id
    BY <1>1 DEF BeforeOver, TypeOK
  <2> QED BY <1>1, <2>1, PostStep
<1>2. ASSUME NEW w \in Identities, NEW fs \in SUBSET Fields, Receive(q, w, fs)
      PROVE  post'[p].phase \in Over /\ post'[p].id = post'[q].id
  BY <1>2 DEF Receive, PostsOf, TypeOK
<1>3. ASSUME post[q].phase = "unsent", post'[q] = post[q], before'[q] = before[q]
      PROVE  post'[p].phase \in Over /\ post'[p].id = post'[q].id
  <2>1. p \in Posts /\ post[p].phase \in Over /\ post[p].id = post[q].id
    BY <1>3 DEF BeforeOver, TypeOK
  <2> QED BY <1>3, <2>1, PostStep
<1>4. post[q].phase # "unsent" => before'[q] = before[q]
  BY PostStep
<1>5. ASSUME post[q].phase = "unsent",
             ~\E w \in Identities, fs \in SUBSET Fields : Receive(q, w, fs)
      PROVE  post'[q] = post[q] /\ before'[q] = before[q]
  <2>1. CASE \E r \in Posts, w \in Identities, fs \in SUBSET Fields : Receive(r, w, fs)
    <3>1. PICK r \in Posts, w \in Identities, fs \in SUBSET Fields : Receive(r, w, fs)
      BY <2>1
    <3>2. r # q
      BY <1>5, <3>1
    <3> QED BY <3>1, <3>2 DEF Receive, TypeOK
  <2>2. CASE \E r \in Posts : \/ \E d \in docs : Update(r, d)
                              \/ UpsertMiss(r) \/ Insert(r) \/ Answer(r)
                              \/ Fail(r) \/ LoseTrack(r)
    <3>1. PICK r \in Posts : \/ \E d \in docs : Update(r, d)
                             \/ UpsertMiss(r) \/ Insert(r) \/ Answer(r)
                             \/ Fail(r) \/ LoseTrack(r)
      BY <2>2
    <3>2. r # q
      BY <1>5, <3>1 DEF Update, UpsertMiss, Insert, Answer, Fail, LoseTrack, InFlight
    <3>3. UNCHANGED before /\ \E new : post' = [post EXCEPT ![r] = new]
      BY <3>1 DEF Update, UpsertMiss, Insert, Answer, Fail, LoseTrack
    <3> QED BY <3>2, <3>3 DEF TypeOK
  <2>3. CASE UNCHANGED <<post, before>>
    BY <2>3
  <2> QED BY <2>1, <2>2, <2>3 DEF Next, Tick, Sweep, vars
<1> QED BY <1>1, <1>2, <1>3, <1>4, <1>5

\* An update replaces a document, an insert beside another one is recorded.
LEMMA OneDocumentInvariance ==
    TypeOK /\ OneDocument /\ [Next]_vars => OneDocument'
<1> SUFFICES ASSUME TypeOK, OneDocument, [Next]_vars PROVE OneDocument'
  OBVIOUS
<1>1. ASSUME NEW p \in Posts, NEW d \in docs, Update(p, d) PROVE OneDocument'
  <2>1. SetFields(p, d.opt).id = d.id
    BY <1>1, SetFieldsResult DEF Update, DocsOf
  <2> QED BY <1>1, <2>1 DEF Update, OneDocument
<1>2. ASSUME NEW p \in Posts, Insert(p) PROVE OneDocument'
  <2>1. SetFields(p, [f \in Fields |-> None]).id = post[p].id
    BY SetFieldsResult
  <2> QED BY <1>2, <2>1 DEF Insert, DocsOf, OneDocument
<1>3. CASE docs' \subseteq docs /\ forked' = forked
  BY <1>3 DEF OneDocument
<1> QED
  BY <1>1, <1>2, <1>3
     DEF Next, Receive, UpsertMiss, Answer, Fail, LoseTrack, Tick, Sweep, vars

\* The documents after a step: old ones, and what one stored post set on top
\* of an old one or of nothing.
LEMMA DocsStep ==
    ASSUME TypeOK, [Next]_vars, NEW d \in docs'
    PROVE  \/ d \in docs
           \/ \E p \in Posts :
                 /\ post[p].phase \in {"writing", "inserting"}
                 /\ d.id = post[p].id /\ d.main = p /\ d.at = post[p].at
                 /\ \/ \A f \in Fields : d.opt[f] =
                           IF f \in post[p].opt THEN p ELSE None
                    \/ \E e \in docs : /\ e.id = d.id
                                       /\ \A f \in Fields : d.opt[f] =
                                             IF f \in post[p].opt THEN p ELSE e.opt[f]
<1>1. ASSUME NEW p \in Posts, NEW e \in docs, Update(p, e), d \notin docs
      PROVE  /\ post[p].phase = "writing"
             /\ d.id = post[p].id /\ d.main = p /\ d.at = post[p].at
             /\ e.id = d.id
             /\ \A f \in Fields : d.opt[f] = IF f \in post[p].opt THEN p ELSE e.opt[f]
  <2>1. d = SetFields(p, e.opt)
    BY <1>1 DEF Update
  <2> QED BY <1>1, <2>1, SetFieldsResult DEF Update, DocsOf, TypeOK
<1>2. ASSUME NEW p \in Posts, Insert(p), d \notin docs
      PROVE  /\ post[p].phase = "inserting"
             /\ d.id = post[p].id /\ d.main = p /\ d.at = post[p].at
             /\ \A f \in Fields : d.opt[f] = IF f \in post[p].opt THEN p ELSE None
  <2>1. d = SetFields(p, [f \in Fields |-> None])
    BY <1>2 DEF Insert
  <2> QED BY <1>2, <2>1, SetFieldsResult DEF Insert, TypeOK
<1>3. \/ docs' \subseteq docs
      \/ \E p \in Posts : Insert(p) \/ \E e \in docs : Update(p, e)
  BY DEF Next, Receive, UpsertMiss, Answer, Fail, LoseTrack, Tick, Sweep, vars
<1> QED BY <1>1, <1>2, <1>3

\* Documents hold only what was received, each value from a post of the
\* document's identity that carried it.
LEMMA FieldsBelongInvariance ==
    TypeOK /\ ValuesReceived /\ FieldsBelong /\ [Next]_vars
        => ValuesReceived' /\ FieldsBelong'
<1> SUFFICES ASSUME TypeOK, ValuesReceived, FieldsBelong, [Next]_vars,
                    NEW d \in docs'
             PROVE  /\ post'[d.main].phase # "unsent"
                    /\ post'[d.main].id = d.id /\ post'[d.main].at = d.at
                    /\ \A f \in Fields : d.opt[f] # None =>
                          /\ post'[d.opt[f]].phase # "unsent"
                          /\ post'[d.opt[f]].id = d.id
                          /\ f \in post'[d.opt[f]].opt
  BY DEF ValuesReceived, FieldsBelong
<1>1. ASSUME NEW e \in docs, NEW f \in Fields, e.opt[f] # None
      PROVE  /\ post'[e.opt[f]].phase # "unsent"
             /\ post'[e.opt[f]].id = e.id
             /\ f \in post'[e.opt[f]].opt
  <2>1. e.opt[f] \in Posts
    BY <1>1 DEF TypeOK, Document
  <2> QED BY <1>1, <2>1, PostStep DEF ValuesReceived, FieldsBelong
<1>2. CASE d \in docs
  <2>1. d.main \in Posts
    BY <1>2 DEF TypeOK, Document
  <2>2. /\ post'[d.main].phase # "unsent"
        /\ post'[d.main].id = d.id /\ post'[d.main].at = d.at
    BY <1>2, <2>1, PostStep DEF ValuesReceived, FieldsBelong
  <2> QED BY <1>1, <1>2, <2>2
<1>3. ASSUME NEW p \in Posts,
             post[p].phase \in {"writing", "inserting"},
             d.id = post[p].id, d.main = p, d.at = post[p].at,
             \/ \A f \in Fields : d.opt[f] = IF f \in post[p].opt THEN p ELSE None
             \/ \E e \in docs : /\ e.id = d.id
                                /\ \A f \in Fields : d.opt[f] =
                                      IF f \in post[p].opt THEN p ELSE e.opt[f]
      PROVE  /\ post'[d.main].phase # "unsent"
             /\ post'[d.main].id = d.id /\ post'[d.main].at = d.at
             /\ \A f \in Fields : d.opt[f] # None =>
                   /\ post'[d.opt[f]].phase # "unsent"
                   /\ post'[d.opt[f]].id = d.id
                   /\ f \in post'[d.opt[f]].opt
  <2>1. /\ post'[p].phase # "unsent" /\ post'[p].id = post[p].id
        /\ post'[p].opt = post[p].opt /\ post'[p].at = post[p].at
    BY <1>3, PostStep
  <2>2. CASE \A f \in Fields : d.opt[f] = IF f \in post[p].opt THEN p ELSE None
    BY <1>3, <2>1, <2>2
  <2>3. ASSUME NEW e \in docs, e.id = d.id,
               \A f \in Fields : d.opt[f] = IF f \in post[p].opt THEN p ELSE e.opt[f]
        PROVE  \A f \in Fields : d.opt[f] # None =>
                   /\ post'[d.opt[f]].phase # "unsent"
                   /\ post'[d.opt[f]].id = d.id
                   /\ f \in post'[d.opt[f]].opt
    <3> TAKE f \in Fields
    <3>1. CASE f \in post[p].opt
      BY <1>3, <2>1, <2>3, <3>1
    <3>2. CASE f \notin post[p].opt
      BY <1>1, <2>3, <3>2
    <3> QED BY <3>1, <3>2
  <2> QED BY <1>3, <2>1, <2>2, <2>3
<1> QED BY <1>2, <1>3, DocsStep

\* A step that stores nothing new: the stored posts were stored before it, and
\* what came before them is the same.
LEMMA StoredStep ==
    ASSUME TypeOK, [Next]_vars,
           ~\E p \in Posts : Insert(p) \/ \E d \in docs : Update(p, d)
    PROVE  /\ docs' \subseteq docs /\ forked' = forked
           /\ \A q \in Posts : post'[q].phase \in Stored =>
                 /\ post[q].phase \in Stored
                 /\ post'[q].id = post[q].id /\ post'[q].opt = post[q].opt
                 /\ post'[q].at = post[q].at /\ before'[q] = before[q]
<1>1. CASE \E q \in Posts, w \in Identities, fs \in SUBSET Fields : Receive(q, w, fs)
  BY <1>1 DEF Receive, TypeOK, Stored
<1>2. CASE \E q \in Posts : UpsertMiss(q) \/ Answer(q) \/ Fail(q) \/ LoseTrack(q)
  BY <1>2 DEF UpsertMiss, Answer, Fail, LoseTrack, InFlight, TypeOK, Stored
<1>3. CASE Tick \/ Sweep \/ UNCHANGED vars
  BY <1>3 DEF Tick, Sweep, vars
<1> QED BY <1>1, <1>2, <1>3 DEF Next

\* What a stored post leaves in the documents is never older than an answered
\* post: the writer was itself unanswered, and it replaced the only document.
LEMMA NoStaleSyncInvariance ==
    TypeOK /\ BeforeOver /\ OneDocument /\ NoStaleSync /\ [Next]_vars
        => NoStaleSync'
<1> SUFFICES ASSUME TypeOK, BeforeOver, OneDocument, NoStaleSync, [Next]_vars
             PROVE  NoStaleSync'
  OBVIOUS
<1> DEFINE Young(d, q) == /\ d.main \notin before[q]
                          /\ \A f \in post[q].opt : d.opt[f] \notin before[q]
<1>1. ASSUME NEW d \in docs, d.id \notin forked, NEW q \in Posts,
             post[q].id = d.id, post[q].phase \in Stored
      PROVE  Young(d, q)
  BY <1>1 DEF NoStaleSync, PostsOf
<1>2. ASSUME NEW p \in Posts, post[p].phase \in {"writing", "inserting"}, NEW q \in Posts
      PROVE  p \notin before[q]
  BY <1>2 DEF BeforeOver, Over
<1>3. ASSUME NEW q \in Posts PROVE None \notin before[q]
  BY NoneAssumption DEF TypeOK
<1>4. ASSUME NEW p \in Posts, NEW e \in docs, Update(p, e) PROVE NoStaleSync'
  <2>1. /\ before' = before /\ forked' = forked
        /\ \A q \in Posts : post'[q].id = post[q].id /\ post'[q].opt = post[q].opt
        /\ \A q \in Posts : q # p => post'[q].phase = post[q].phase
        /\ docs' = (docs \ {e}) \cup {SetFields(p, e.opt)}
        /\ post[p].phase = "writing" /\ e.id = post[p].id
    BY <1>4 DEF Update, DocsOf, TypeOK
  <2> SUFFICES ASSUME NEW d \in docs', d.id \notin forked, NEW q \in Posts,
                      post[q].id = d.id, post'[q].phase \in Stored
               PROVE  Young(d, q)
    BY <2>1 DEF NoStaleSync, PostsOf
  <2>2. CASE d = SetFields(p, e.opt)
    <3>1. /\ d.main = p /\ d.id = e.id
          /\ \A f \in Fields : d.opt[f] = IF f \in post[p].opt THEN p ELSE e.opt[f]
      BY <2>1, <2>2, SetFieldsResult
    <3>2. post[q].opt \subseteq Fields
      BY DEF TypeOK
    <3>3. CASE q = p
      BY <1>2, <2>1, <3>1, <3>2, <3>3
    <3>4. CASE q # p
      <4>1. Young(e, q)
        BY <1>1, <2>1, <3>1, <3>4
      <4> QED BY <1>2, <2>1, <3>1, <3>2, <4>1
    <3> QED BY <3>3, <3>4
  <2>3. CASE d # SetFields(p, e.opt)
    <3>1. d \in docs /\ d # e
      BY <2>1, <2>3
    <3>2. d.id # e.id
      BY <3>1 DEF OneDocument
    <3>3. q # p
      BY <2>1, <3>2
    <3> QED BY <1>1, <2>1, <3>1, <3>3
  <2> QED BY <2>2, <2>3
<1>5. ASSUME NEW p \in Posts, Insert(p) PROVE NoStaleSync'
  <2> DEFINE new == SetFields(p, [f \in Fields |-> None])
  <2>1. /\ before' = before /\ forked \subseteq forked'
        /\ \A q \in Posts : post'[q].id = post[q].id /\ post'[q].opt = post[q].opt
        /\ \A q \in Posts : q # p => post'[q].phase = post[q].phase
        /\ docs' = docs \cup {new}
        /\ post[p].phase = "inserting"
        /\ \A d \in docs : d.id = post[p].id => d.id \in forked'
    BY <1>5 DEF Insert, DocsOf, TypeOK
  <2>2. /\ new.main = p /\ new.id = post[p].id
        /\ \A f \in Fields : new.opt[f] = IF f \in post[p].opt THEN p ELSE None
    BY SetFieldsResult
  <2> HIDE DEF new
  <2> SUFFICES ASSUME NEW d \in docs', d.id \notin forked', NEW q \in Posts,
                      post[q].id = d.id, post'[q].phase \in Stored
               PROVE  Young(d, q)
    BY <2>1 DEF NoStaleSync, PostsOf
  <2>3. CASE d = new
    <3>1. post[q].opt \subseteq Fields
      BY DEF TypeOK
    <3> QED BY <1>2, <1>3, <2>1, <2>2, <2>3, <3>1
  <2>4. CASE d # new
    <3>1. d \in docs /\ d.id # post[p].id
      BY <2>1, <2>4
    <3> QED BY <1>1, <2>1, <3>1
  <2> QED BY <2>3, <2>4
<1>6. CASE ~\E p \in Posts : Insert(p) \/ \E d \in docs : Update(p, d)
  <2> SUFFICES ASSUME NEW d \in docs', d.id \notin forked', NEW q \in Posts,
                      post'[q].id = d.id, post'[q].phase \in Stored
               PROVE  /\ d.main \notin before'[q]
                      /\ \A f \in post'[q].opt : d.opt[f] \notin before'[q]
    BY DEF NoStaleSync, PostsOf
  <2> QED BY <1>1, <1>6, StoredStep
<1> QED BY <1>4, <1>5, <1>6

\* Every step keeps the record of overlaps: a post arrives either while
\* another is in flight, and both are recorded, or dated after all of them.
LEMMA OverlapRecordedInvariance ==
    TypeOK /\ OverlapRecorded /\ [Next]_vars => OverlapRecorded'
<1> SUFFICES ASSUME TypeOK, OverlapRecorded, [Next]_vars PROVE OverlapRecorded'
  OBVIOUS
<1> USE DEF InFlight, Stored
<1>1. ASSUME NEW r \in Posts, NEW w \in Identities, NEW fs \in SUBSET Fields,
             Receive(r, w, fs)
      PROVE  OverlapRecorded'
  <2>1. /\ post'[r].phase = "writing" /\ post'[r].id = w /\ post'[r].at = now
        /\ \A q \in Posts : q # r => post'[q] = post[q]
        /\ now' = now /\ now \in Nat
        /\ overlapped \subseteq overlapped'
    BY <1>1 DEF Receive, Overlap, TypeOK
  <2>2. \A q \in Posts : q # r /\ post[q].id = w /\ post[q].phase \in InFlight =>
            q \in overlapped' /\ r \in overlapped'
    BY <1>1 DEF Receive, Overlap, PostsOf
  <2>3. \A p, q \in Posts :
          /\ p # q /\ post'[p].id = post'[q].id
          /\ post'[p].phase \in InFlight /\ post'[q].phase \in InFlight
          => p \in overlapped' /\ q \in overlapped'
    <3> SUFFICES ASSUME NEW p \in Posts, NEW q \in Posts,
                        p # q, post'[p].id = post'[q].id,
                        post'[p].phase \in InFlight, post'[q].phase \in InFlight
                 PROVE  p \in overlapped' /\ q \in overlapped'
      OBVIOUS
    <3>1. CASE p # r /\ q # r
      BY <2>1, <3>1 DEF OverlapRecorded
    <3>2. CASE p = r
      BY <2>1, <2>2, <3>2
    <3>3. CASE q = r
      BY <2>1, <2>2, <3>3
    <3> QED BY <3>1, <3>2, <3>3
  <2>4. \A p \in Posts, q \in Posts \ overlapped' :
          /\ p # q /\ post'[p].id = post'[q].id
          /\ post'[p].phase \in InFlight /\ post'[q].phase \in Stored
          => post'[q].at <= post'[p].at
    <3> SUFFICES ASSUME NEW p \in Posts, NEW q \in Posts \ overlapped',
                        p # q, post'[p].id = post'[q].id,
                        post'[p].phase \in InFlight, post'[q].phase \in Stored
                 PROVE  post'[q].at <= post'[p].at
      OBVIOUS
    <3>1. q # r
      BY <2>1
    <3>2. CASE p = r
      BY <2>1, <3>1, <3>2 DEF OverlapRecorded
    <3>3. CASE p # r
      BY <2>1, <3>1, <3>3 DEF OverlapRecorded
    <3> QED BY <3>2, <3>3
  <2>5. \A p \in Posts : post'[p].at <= now'
    BY <2>1 DEF OverlapRecorded
  <2> QED BY <2>3, <2>4, <2>5 DEF OverlapRecorded
<1>2. ASSUME overlapped' = overlapped, now <= now', now' \in Nat,
             \A q \in Posts : /\ post'[q].id = post[q].id /\ post'[q].at = post[q].at
                              /\ post'[q].phase \in InFlight => post[q].phase \in InFlight
                              /\ post'[q].phase \in Stored =>
                                    post[q].phase \in InFlight \cup Stored
      PROVE  OverlapRecorded'
  <2>1. \A p \in Posts, q \in Posts \ overlapped :
          /\ p # q /\ post[p].id = post[q].id
          /\ post[p].phase \in InFlight /\ post[q].phase \in InFlight \cup Stored
          => post[q].at <= post[p].at
    BY DEF OverlapRecorded
  <2>2. \A p \in Posts : post[p].at <= now'
    BY <1>2 DEF OverlapRecorded, TypeOK
  <2>3. \A p, q \in Posts :
          /\ p # q /\ post'[p].id = post'[q].id
          /\ post'[p].phase \in InFlight /\ post'[q].phase \in InFlight
          => p \in overlapped /\ q \in overlapped
    BY <1>2 DEF OverlapRecorded
  <2>4. \A p \in Posts, q \in Posts \ overlapped :
          /\ p # q /\ post'[p].id = post'[q].id
          /\ post'[p].phase \in InFlight /\ post'[q].phase \in Stored
          => post'[q].at <= post'[p].at
    BY <1>2, <2>1
  <2> QED BY <1>2, <2>2, <2>3, <2>4 DEF OverlapRecorded
<1>3. ASSUME NEW p \in Posts,
             \/ (\E d \in docs : Update(p, d))
             \/ UpsertMiss(p) \/ Insert(p) \/ Answer(p) \/ Fail(p) \/ LoseTrack(p)
      PROVE  OverlapRecorded'
  <2>1. /\ overlapped' = overlapped /\ now' = now /\ now \in Nat
        /\ \A q \in Posts :
             /\ post'[q].id = post[q].id /\ post'[q].at = post[q].at
             /\ post'[q].phase \in InFlight => post[q].phase \in InFlight
             /\ post'[q].phase \in Stored => post[q].phase \in InFlight \cup Stored
    BY <1>3 DEF Update, UpsertMiss, Insert, AfterUpsert, Answer, Fail, LoseTrack, TypeOK
  <2> QED BY <1>2, <2>1
<1>4. CASE Tick \/ Sweep \/ UNCHANGED vars
  <2>1. overlapped' = overlapped /\ post' = post /\ now <= now' /\ now' \in Nat
    BY <1>4 DEF Tick, Sweep, vars, TypeOK
  <2> QED BY <1>2, <2>1
<1> QED BY <1>1, <1>3, <1>4 DEF Next

\* Every step keeps the document of a stored post that overlapped no other:
\* later writes have later dates, and the monitor takes only what is older
\* than TTL.
LEMMA KeptUntilExpiryInvariance ==
    TypeOK /\ OverlapRecorded /\ KeptUntilExpiry /\ [Next]_vars => KeptUntilExpiry'
<1> SUFFICES ASSUME TypeOK, OverlapRecorded, KeptUntilExpiry, [Next]_vars,
                    NEW q \in Posts \ overlapped', post'[q].phase \in Stored,
                    now' - post'[q].at <= TTL
             PROVE  \E d \in docs' : d.id = post'[q].id /\ d.at >= post'[q].at
  BY DEF KeptUntilExpiry, DocsOf
<1> USE TimesAssumption
<1>1. ASSUME q \notin overlapped, post[q].phase \in Stored, now - post[q].at <= TTL
      PROVE  \E d \in docs : d.id = post[q].id /\ d.at >= post[q].at
  BY <1>1 DEF KeptUntilExpiry, DocsOf
<1>2. overlapped \subseteq overlapped'
  BY DEF Next, Receive, Overlap, Update, UpsertMiss, Insert, Answer, Fail,
         LoseTrack, Tick, Sweep, vars
<1>3. ASSUME NEW p \in Posts, NEW e \in docs, Update(p, e)
      PROVE  \E d \in docs' : d.id = post'[q].id /\ d.at >= post'[q].at
  <2>1. /\ docs' = (docs \ {e}) \cup {SetFields(p, e.opt)}
        /\ post'[q].id = post[q].id /\ post'[q].at = post[q].at /\ now' = now
        /\ e.id = post[p].id /\ post[p].phase \in InFlight
        /\ q # p => post[q].phase \in Stored
    BY <1>3 DEF Update, DocsOf, TypeOK, InFlight
  <2>2. SetFields(p, e.opt).id = post[p].id /\ SetFields(p, e.opt).at = post[p].at
    BY SetFieldsResult
  <2>3. CASE q = p
    BY <2>1, <2>2, <2>3 DEF TypeOK
  <2>4. CASE q # p
    <3>1. PICK d \in docs : d.id = post[q].id /\ d.at >= post[q].at
      BY <1>1, <1>2, <2>1, <2>4
    <3>2. CASE d = e
      <4>1. post[q].at <= post[p].at
        BY <1>2, <2>1, <2>4, <3>1, <3>2 DEF OverlapRecorded
      <4> QED BY <2>1, <2>2, <3>1, <3>2, <4>1
    <3> QED BY <2>1, <3>1, <3>2
  <2> QED BY <2>3, <2>4
<1>4. ASSUME NEW p \in Posts, Insert(p)
      PROVE  \E d \in docs' : d.id = post'[q].id /\ d.at >= post'[q].at
  <2> DEFINE new == SetFields(p, [f \in Fields |-> None])
  <2>1. /\ docs' = docs \cup {new}
        /\ post'[q].id = post[q].id /\ post'[q].at = post[q].at /\ now' = now
        /\ q # p => post[q].phase \in Stored
    BY <1>4 DEF Insert, TypeOK
  <2>2. new.id = post[p].id /\ new.at = post[p].at
    BY SetFieldsResult
  <2> HIDE DEF new
  <2>3. CASE q = p
    BY <2>1, <2>2, <2>3 DEF TypeOK
  <2>4. CASE q # p
    BY <1>1, <1>2, <2>1, <2>4
  <2> QED BY <2>3, <2>4
<1>5. CASE ~\E p \in Posts : Insert(p) \/ \E d \in docs : Update(p, d)
  <2>1. /\ post[q].phase \in Stored
        /\ post'[q].id = post[q].id /\ post'[q].at = post[q].at
    BY <1>5, StoredStep
  <2>2. now \in Nat /\ now <= now' /\ now' \in Nat /\ post[q].at \in Nat
    <3>1. now' = now \/ now' = now + 1
      BY DEF Next, Receive, UpsertMiss, Update, Insert, Answer, Fail,
             LoseTrack, Tick, Sweep, vars
    <3> QED BY <3>1, TimesAssumption DEF TypeOK
  <2>3. PICK d \in docs : d.id = post[q].id /\ d.at >= post[q].at
    BY <1>1, <1>2, <2>1, <2>2
  <2>4. d.at \in Nat
    BY DEF TypeOK, Document
  <2>5. CASE Sweep
    BY <2>1, <2>2, <2>3, <2>4, <2>5 DEF Sweep
  <2>6. CASE docs' = docs
    BY <2>1, <2>3, <2>6
  <2> QED
    BY <1>5, <2>5, <2>6 DEF Next, Receive, UpsertMiss, Answer, Fail, LoseTrack,
                             Tick, vars
<1> QED BY <1>3, <1>4, <1>5

-----------------------------------------------------------------------------
(* The store of syncs implements UpsertStore *)

Ids == [p \in Posts |-> post[p].id]
Told == {p \in Posts : post[p].phase = "answered"}
Shelf == [w \in Identities |-> {d.main : d \in DocsOf(w)}]

\* What of a post the abstract store sees.
Unseen(p) ==
    /\ post'[p].id = post[p].id
    /\ (p \in Applied)' <=> p \in Applied
    /\ post'[p].phase = "answered" <=> post[p].phase = "answered"

LEMMA UnseenKeeps ==
    ASSUME \A p \in Posts : Unseen(p)
    PROVE  UNCHANGED <<Ids, Applied, Told>>
BY DEF Unseen, Ids, Applied, Told

\* A failure, a lost upsert and the upsert's match are not seen, nor is time.
LEMMA QuietSteps ==
    ASSUME TypeOK,
           \/ \E p \in Posts : UpsertMiss(p) \/ Fail(p) \/ LoseTrack(p)
           \/ Tick \/ Sweep \/ UNCHANGED vars
    PROVE  UNCHANGED <<Ids, Applied, Told>>
<1>1. CASE \E p \in Posts : UpsertMiss(p) \/ LoseTrack(p)
  <2>1. \A q \in Posts : Unseen(q)
    BY <1>1 DEF UpsertMiss, LoseTrack, TypeOK, Unseen, Applied
  <2> QED BY <2>1, UnseenKeeps
<1>2. ASSUME NEW p \in Posts, Fail(p) PROVE UNCHANGED <<Ids, Applied, Told>>
  <2>1. /\ \A q \in Posts \ {p} : post'[q] = post[q]
        /\ post'[p].id = post[p].id
        /\ post'[p].phase = IF post[p].phase = "written" THEN "failed" ELSE "dropped"
        /\ post[p].phase \in InFlight
    BY <1>2 DEF Fail, TypeOK
  <2>2. \A q \in Posts : Unseen(q)
    BY <2>1 DEF Unseen, Applied, InFlight
  <2> QED BY <2>2, UnseenKeeps
<1>3. CASE Tick \/ Sweep \/ UNCHANGED vars
  BY <1>3 DEF Tick, Sweep, vars, Ids, Applied, Told
<1> QED BY <1>1, <1>2, <1>3

\* The upsert is applied once: p was not applied before.
LEMMA UpsertApplies ==
    ASSUME TypeOK, NEW p \in Posts, post[p].phase \in {"writing", "inserting"},
           post' = [post EXCEPT ![p].phase = AfterUpsert(p)]
    PROVE  /\ p \notin Applied /\ Applied' = Applied \cup {p}
           /\ UNCHANGED <<Ids, Told>>
<1>1. /\ \A q \in Posts \ {p} : post'[q] = post[q]
      /\ post'[p].id = post[p].id
      /\ post'[p].phase \in {"written", "failed"}
  BY DEF AfterUpsert, TypeOK
<1> QED BY <1>1 DEF Applied, Ids, Told

\* What an upsert writes is the post that was not in any document.
LEMMA UpsertWrites ==
    ASSUME TypeOK, NEW p \in Posts,
           Insert(p) \/ \E d \in docs : Update(p, d)
    PROVE  /\ post[p].phase \in {"writing", "inserting"}
           /\ post' = [post EXCEPT ![p].phase = AfterUpsert(p)]
           /\ post[p].id \in Identities
           /\ \E old, new :
                 /\ old \subseteq DocsOf(post[p].id)
                 /\ \A d, e \in old : d = e
                 /\ new.main = p /\ new.id = post[p].id
                 /\ docs' = (docs \ old) \cup {new}
<1>1. CASE Insert(p)
  <2> DEFINE new == SetFields(p, [f \in Fields |-> None])
  <2>1. new.main = p /\ new.id = post[p].id
    BY SetFieldsResult
  <2>2. docs' = (docs \ {}) \cup {new}
    BY <1>1 DEF Insert
  <2>3. /\ {} \in SUBSET DocsOf(post[p].id)
        /\ \A d, e \in {} : d = e
    OBVIOUS
  <2> QED BY <1>1, <2>1, <2>2, <2>3 DEF Insert, TypeOK
<1>2. ASSUME NEW d \in docs, Update(p, d)
      PROVE  /\ post[p].phase \in {"writing", "inserting"}
             /\ post' = [post EXCEPT ![p].phase = AfterUpsert(p)]
             /\ post[p].id \in Identities
             /\ \E old, new :
                   /\ old \subseteq DocsOf(post[p].id)
                   /\ \A x, e \in old : x = e
                   /\ new.main = p /\ new.id = post[p].id
                   /\ docs' = (docs \ old) \cup {new}
  <2> DEFINE new == SetFields(p, d.opt)
  <2>1. new.main = p /\ new.id = post[p].id
    BY SetFieldsResult
  <2>2. /\ docs' = (docs \ {d}) \cup {new}
        /\ {d} \in SUBSET DocsOf(post[p].id)
        /\ \A x, e \in {d} : x = e
    BY <1>2 DEF Update
  <2> QED BY <1>2, <2>1, <2>2 DEF Update, TypeOK
<1> QED BY <1>1, <1>2

\* An unsent post has no identity.
LEMMA UnsentInvariance == TypeOK /\ UnsentIsNew /\ [Next]_vars => UnsentIsNew'
<1> SUFFICES ASSUME TypeOK, UnsentIsNew, [Next]_vars, NEW p \in Posts,
                    post'[p].phase = "unsent"
             PROVE  post'[p].id = None
  BY DEF UnsentIsNew
<1>1. post[p].phase = "unsent" /\ post[p].id = None
  BY PostStep DEF UnsentIsNew
<1>2. CASE \E q \in Posts, w \in Identities, fs \in SUBSET Fields : Receive(q, w, fs)
  BY <1>1, <1>2 DEF Receive, TypeOK
<1>3. ASSUME NEW q \in Posts, Insert(q) \/ \E d \in docs : Update(q, d)
      PROVE  post'[p].id = None
  BY <1>1, <1>3, UpsertWrites DEF TypeOK
<1>4. CASE \E q \in Posts : Answer(q)
  BY <1>1, <1>4 DEF Answer, TypeOK
<1>5. CASE \/ \E q \in Posts : UpsertMiss(q) \/ Fail(q) \/ LoseTrack(q)
           \/ Tick \/ Sweep \/ UNCHANGED vars
  BY <1>1, <1>5, QuietSteps DEF Ids
<1> QED BY <1>2, <1>3, <1>4, <1>5 DEF Next

\* A post is in one document at most, from when its upsert is applied.
LEMMA WrittenOnceInvariance == TypeOK /\ WrittenOnce /\ [Next]_vars => WrittenOnce'
<1> SUFFICES ASSUME TypeOK, WrittenOnce, [Next]_vars PROVE WrittenOnce'
  OBVIOUS
<1>1. ASSUME NEW p \in Posts, Insert(p) \/ \E d \in docs : Update(p, d)
      PROVE  WrittenOnce'
  <2>1. PICK old, new : new.main = p /\ docs' = (docs \ old) \cup {new}
    BY <1>1, UpsertWrites
  <2>2. p \notin Applied /\ Applied' = Applied \cup {p}
    BY <1>1, UpsertWrites, UpsertApplies
  <2> QED BY <2>1, <2>2 DEF WrittenOnce
<1>2. ASSUME docs' \subseteq docs, Applied \subseteq Applied' PROVE WrittenOnce'
  BY <1>2 DEF WrittenOnce
<1>3. CASE \E q \in Posts, w \in Identities, fs \in SUBSET Fields : Receive(q, w, fs)
  BY <1>2, <1>3 DEF Receive, TypeOK, Applied
<1>4. CASE \E q \in Posts : Answer(q)
  BY <1>2, <1>4 DEF Answer, TypeOK, Applied
<1>5. CASE \/ \E q \in Posts : UpsertMiss(q) \/ Fail(q) \/ LoseTrack(q)
           \/ Tick \/ Sweep \/ UNCHANGED vars
  <2>1. docs' \subseteq docs
    BY <1>5 DEF UpsertMiss, Fail, LoseTrack, Tick, Sweep, vars
  <2> QED BY <1>2, <1>5, <2>1, QuietSteps
<1> QED BY <1>1, <1>3, <1>4, <1>5 DEF Next

\* The application of an upsert is the moment the store puts the post.
LEMMA UpsertPuts ==
    ASSUME TypeOK, WrittenOnce, FieldsBelong, NEW p \in Posts,
           Insert(p) \/ \E d \in docs : Update(p, d)
    PROVE  Upserts!Next
<1> DEFINE w == post[p].id
<1>1. PICK old, new :
          /\ old \subseteq DocsOf(w)
          /\ \A d, e \in old : d = e
          /\ new.main = p /\ new.id = w
          /\ docs' = (docs \ old) \cup {new}
  BY UpsertWrites
<1>2. /\ w \in Identities
      /\ p \notin Applied /\ Applied' = Applied \cup {p}
      /\ UNCHANGED <<Ids, Told>>
  BY UpsertWrites, UpsertApplies
<1> DEFINE mains == {d.main : d \in old}
<1>3. /\ mains \in SUBSET Shelf[w]
      /\ Upserts!AtMostOne(mains)
  BY <1>1, <1>2 DEF Shelf, Upserts!AtMostOne
<1>4. ASSUME NEW v \in Identities, v # w PROVE Shelf'[v] = Shelf[v]
  BY <1>1, <1>4 DEF Shelf, DocsOf
<1>5. Shelf'[w] = (Shelf[w] \ mains) \cup {p}
  <2>1. Shelf'[w] = {d.main : d \in (DocsOf(w) \ old) \cup {new}}
    BY <1>1, <1>2 DEF Shelf, DocsOf
  <2>2. \A d \in DocsOf(w) : d.main \in mains <=> d \in old
    BY <1>1 DEF WrittenOnce, DocsOf
  <2>3. {d.main : d \in DocsOf(w) \ old} = {d.main : d \in DocsOf(w)} \ mains
    BY <2>2
  <2>4. Shelf[w] = {d.main : d \in DocsOf(w)}
    BY <1>2 DEF Shelf
  <2>5. {d.main : d \in (DocsOf(w) \ old) \cup {new}}
            = {d.main : d \in DocsOf(w) \ old} \cup {p}
    BY <1>1
  <2> QED BY <2>1, <2>3, <2>4, <2>5
<1>6. Shelf' = [Shelf EXCEPT ![w] = (@ \ mains) \cup {p}]
  BY <1>2, <1>4, <1>5 DEF Shelf
<1>7. PICK v \in Identities : v = w
  BY <1>2
<1>8. Upserts!Put(p, v)
  BY <1>2, <1>3, <1>6, <1>7 DEF Upserts!Put, Ids, Told, Shelf
<1> QED BY <1>8 DEF Upserts!Next

\* Every step of the store of syncs is a step of the abstract one or not seen.
LEMMA UpsertStepRefines ==
    ASSUME IInv, [Next]_vars
    PROVE  [Upserts!Next]_(Upserts!upsertVars)
<1> USE DEF Upserts!upsertVars
<1>1. TypeOK /\ WrittenOnce /\ FieldsBelong /\ UnsentIsNew
  BY DEF IInv
<1>2. ASSUME NEW p \in Posts, NEW w \in Identities, NEW fs \in SUBSET Fields,
             Receive(p, w, fs)
      PROVE  Upserts!Next
  <2>1. post[p].phase = "unsent" /\ post[p].id = None
    BY <1>1, <1>2 DEF Receive, UnsentIsNew
  <2>2. /\ \A q \in Posts \ {p} : post'[q] = post[q]
        /\ post'[p].id = w /\ post'[p].phase = "writing"
    BY <1>1, <1>2 DEF Receive, TypeOK
  <2>3. Ids' = [Ids EXCEPT ![p] = w] /\ UNCHANGED <<Applied, Told>>
    BY <2>1, <2>2 DEF Ids, Applied, Told
  <2>4. Shelf' = Shelf /\ Ids[p] = None
    BY <1>2, <2>1 DEF Receive, Shelf, DocsOf, Ids
  <2>5. Upserts!Ask(p, w)
    BY <2>3, <2>4 DEF Upserts!Ask, Ids, Told, Shelf
  <2> QED BY <2>5 DEF Upserts!Next
<1>3. ASSUME NEW p \in Posts, Insert(p) \/ \E d \in docs : Update(p, d)
      PROVE  Upserts!Next
  BY <1>1, <1>3, UpsertPuts
<1>4. ASSUME NEW p \in Posts, Answer(p) PROVE Upserts!Next
  <2>1. /\ \A q \in Posts \ {p} : post'[q] = post[q]
        /\ post'[p].id = post[p].id /\ post'[p].phase = "answered"
        /\ post[p].phase = "written"
    BY <1>1, <1>4 DEF Answer, TypeOK
  <2>2. Told' = Told \cup {p} /\ UNCHANGED <<Ids, Applied>> /\ p \in Applied
    BY <2>1 DEF Ids, Applied, Told
  <2>3. Shelf' = Shelf
    BY <1>4 DEF Answer, Shelf, DocsOf
  <2>4. Upserts!Confirm(p)
    BY <2>2, <2>3 DEF Upserts!Confirm, Ids, Told, Shelf
  <2> QED BY <2>4 DEF Upserts!Next
<1>5. CASE \E p \in Posts : UpsertMiss(p) \/ Fail(p) \/ LoseTrack(p)
  <2>1. UNCHANGED <<Ids, Applied, Told>>
    BY <1>1, <1>5, QuietSteps
  <2>2. Shelf' = Shelf
    BY <1>5 DEF UpsertMiss, Fail, LoseTrack, Shelf, DocsOf
  <2> QED BY <2>1, <2>2 DEF Ids, Told, Shelf
<1>6. CASE Tick \/ UNCHANGED vars
  <2>1. UNCHANGED <<Ids, Applied, Told>>
    BY <1>1, <1>6, QuietSteps
  <2>2. Shelf' = Shelf
    BY <1>6 DEF Tick, vars, Shelf, DocsOf
  <2> QED BY <2>1, <2>2 DEF Ids, Told, Shelf
<1>7. CASE Sweep
  <2>1. UNCHANGED <<Ids, Applied, Told>>
    BY <1>1, <1>7, QuietSteps
  <2>2. \A w \in Identities : Shelf'[w] \subseteq Shelf[w] /\ Shelf[w] \subseteq Posts
    BY <1>1, <1>7 DEF Sweep, Shelf, DocsOf, TypeOK, Document
  <2>3. Shelf' \in [Identities -> SUBSET Posts]
    BY <2>2 DEF Shelf
  <2>4. Upserts!Expire
    BY <2>1, <2>2, <2>3 DEF Upserts!Expire, Ids, Told, Shelf
  <2> QED BY <2>4 DEF Upserts!Next
<1> QED BY <1>2, <1>3, <1>4, <1>5, <1>6, <1>7 DEF Next

\* The inductive invariant of the synchronisation store.
THEOREM Invariance == Spec => []IInv
<1>1. Init => IInv
  BY NoneAssumption, TimesAssumption
     DEF Init, IInv, TypeOK, BeforeOver, OneDocument, ValuesReceived,
         OverlapRecorded, NoStaleSync, KeptUntilExpiry, FieldsBelong, PostPhases,
         InFlight, Stored, UnsentIsNew, WrittenOnce, ValuesReceived
<1>2. IInv /\ [Next]_vars => IInv'
  BY TypeInvariance, BeforeOverInvariance, OneDocumentInvariance,
     FieldsBelongInvariance, OverlapRecordedInvariance, NoStaleSyncInvariance,
     KeptUntilExpiryInvariance, UnsentInvariance, WrittenOnceInvariance
     DEF IInv
<1> QED BY <1>1, <1>2, PTL DEF Spec

\* POST /v1/sync: a post that is under way or answered belongs to an identity, and
\* every document is that of an identity.
THEOREM TypeCorrectness == Spec => []TypeOK
<1>1. IInv => TypeOK
  BY DEF IInv
<1> QED BY <1>1, Invariance, PTL

\* A read after an answered sync never finds an older one, unless concurrent
\* first syncs left the identity with two documents.
THEOREM NothingStale == Spec => []NoStaleSync
<1>1. IInv => NoStaleSync
  BY DEF IInv
<1> QED BY <1>1, Invariance, PTL

\* A stored sync that overlapped no other can be found until it expires.
THEOREM KeptLongEnough == Spec => []KeptUntilExpiry
<1>1. IInv => KeptUntilExpiry
  BY DEF IInv
<1> QED BY <1>1, Invariance, PTL

\* Every value of a document was sent for its identity.
THEOREM IdentitiesApart == Spec => []FieldsBelong
<1>1. IInv => FieldsBelong
  BY DEF IInv
<1> QED BY <1>1, Invariance, PTL

\* POST /v1/sync implements UpsertStore: a sync is stored once, at one moment,
\* for its own identity, and its sender is told so only after that, although the
\* upsert takes two steps, may be applied after everyone gave up on it, and races
\* with others on an index that is not unique.
THEOREM SyncsAreUpserts == Spec => ImplementsUpserts
<1>1. Init => Upserts!Init
  BY DEF Init, Upserts!Init, Applied, DocsOf
<1>2. IInv /\ [Next]_vars => [Upserts!Next]_(Upserts!upsertVars)
  BY UpsertStepRefines
<1> QED BY <1>1, <1>2, Invariance, PTL DEF Spec, ImplementsUpserts, Upserts!Spec

-----------------------------------------------------------------------------
(* The push tokens.  Types first. *)

\* The number of the message for a record that has a token is the number of a
\* record no later: the clean-up looks nothing up beyond what it read.
LEMMA MessageInRange ==
    ASSUME NEW syncs \in Seq(Record), NEW j \in DOMAIN syncs, HasToken(syncs[j])
    PROVE  MessageOf(syncs, j) \in 1..j
<1> DEFINE Before == {h \in 1..j : HasToken(syncs[h])}
<1>1. j \in Nat /\ j >= 1
  OBVIOUS
<1>2. IsFiniteSet(1..j) /\ Cardinality(1..j) = j
  BY <1>1, FS_Interval
<1>3. /\ IsFiniteSet(Before)
      /\ Cardinality(Before) <= j
  <2>1. Before \in SUBSET (1..j)
    OBVIOUS
  <2> QED BY <1>2, <2>1, FS_Subset
<1>4. Before # {}
  BY <1>1
<1>5. Cardinality(Before) \in Nat /\ Cardinality(Before) # 0
  BY <1>3, <1>4, FS_CardinalityType, FS_EmptySet
<1> QED BY <1>1, <1>3, <1>5 DEF MessageOf

\* The messages that are gone have the number of a record.
LEMMA GoneInRange ==
    ASSUME TokenTypeOK, NEW n \in Notifiers
    PROVE  GoneMessages(send[n].syncs) \subseteq DOMAIN send[n].syncs
<1> SUFFICES ASSUME NEW j \in DOMAIN send[n].syncs, send[n].syncs[j].tok \in dead
             PROVE  MessageOf(send[n].syncs, j) \in DOMAIN send[n].syncs
  BY DEF GoneMessages
<1>1. send[n].syncs \in Seq(Record)
  BY DEF TokenTypeOK
<1>2. HasToken(send[n].syncs[j])
  BY NoTokenAssumption DEF TokenTypeOK, HasToken
<1>3. MessageOf(send[n].syncs, j) \in 1..j
  BY <1>1, <1>2, MessageInRange
<1> QED BY <1>1, <1>3

\* The idle slots have their types.
LEMMA IdleTypes ==
    /\ IdleReg \in [phase: RegPhases, rec: Record]
    /\ IdleSend \in [phase: SendPhases, wk: WkIdentities,
                     syncs: Seq(Record), doomed: SUBSET Nat]
    /\ IdleSend.doomed = {}
BY WkIdentitiesAssumption DEF IdleReg, IdleSend, Record, RegPhases, SendPhases

\* A deletion leaves the other records as they were.
LEMMA DeleteLeaves ==
    ASSUME NEW ids, Delete(ids)
    PROVE  /\ DOMAIN records' = DOMAIN records \ ids
           /\ \A i \in DOMAIN records' : records'[i] = records[i]
           /\ records' = [i \in DOMAIN records \ ids |-> records[i]]
BY DEF Delete, Restrict

\* The type of the records alone: they are typed, and each has an id.
RecordsTyped == /\ DOMAIN records \subseteq RecordIds
                /\ records \in [DOMAIN records -> Record]

LEMMA DeleteType ==
    ASSUME RecordsTyped, NEW ids, Delete(ids)
    PROVE  RecordsTyped'
BY DeleteLeaves DEF RecordsTyped

LEMMA DeleteOneType ==
    ASSUME RecordsTyped, NEW ids, DeleteOne(ids)
    PROVE  RecordsTyped'
BY DeleteType DEF DeleteOne, RecordsTyped

\* The slots' types alone.
RegTyped == reg \in [Registrars -> [phase: RegPhases, rec: Record]]
SendTyped ==
    /\ send \in [Notifiers -> [phase: SendPhases, wk: WkIdentities,
                               syncs: Seq(Record), doomed: SUBSET Nat]]
    /\ \A n \in Notifiers : send[n].doomed \subseteq DOMAIN send[n].syncs
RestTyped == /\ dead \in SUBSET Tokens
             /\ raced \in SUBSET Tokens
             /\ starts \in 0..MaxStarts
             /\ sends \in 0..MaxSends

LEMMA TokenTypesApart ==
    TokenTypeOK <=> RecordsTyped /\ RegTyped /\ SendTyped /\ RestTyped
BY DEF TokenTypeOK, RecordsTyped, RegTyped, SendTyped, RestTyped

LEMMA TokenTypesJoined ==
    RecordsTyped' /\ RegTyped' /\ SendTyped' /\ RestTyped' => TokenTypeOK'
BY DEF TokenTypeOK, RecordsTyped, RegTyped, SendTyped, RestTyped

LEMMA AfterCleanType ==
    ASSUME TokenTypeOK, NEW n \in Notifiers, send[n].phase = "cleaning",
           NEW i, AfterClean(n, i)
    PROVE  SendTyped'
<1> USE DEF SendTyped
<1>1. SendTyped
  BY TokenTypesApart
<1>2. CASE send[n].doomed \ {i} = {}
  BY <1>1, <1>2, IdleTypes DEF AfterClean
<1>3. CASE send[n].doomed \ {i} # {}
  BY <1>1, <1>3 DEF AfterClean
<1> QED BY <1>2, <1>3

\* Every step of a registration keeps the types.
LEMMA RegistrationType ==
    ASSUME TokenTypeOK, NEW r \in Registrars, RegistrationStep(r)
    PROVE  TokenTypeOK'
<1> USE DEF RegPhases
<1>a. RecordsTyped /\ RegTyped /\ SendTyped /\ RestTyped
  BY TokenTypesApart
<1>b. reg[r].rec \in Record
  BY <1>a DEF RegTyped
<1>c. UNCHANGED send => SendTyped'
  BY <1>a DEF SendTyped
<1>d. UNCHANGED <<dead, raced, starts, sends>> => RestTyped'
  BY <1>a DEF RestTyped
<1>e. End(r) => RegTyped'
  BY <1>a, IdleTypes DEF End, RegTyped
<1>f. \A phase \in RegPhases : Goto(r, phase) => RegTyped'
  BY <1>a DEF Goto, RegTyped
<1>g. UNCHANGED records => RecordsTyped'
  BY <1>a DEF RecordsTyped
<1>1. CASE LookToken(r)
  <2>1. RegTyped'
    BY <1>1, <1>f DEF LookToken
  <2> QED BY <1>1, <1>c, <1>d, <1>g, <2>1, TokenTypesJoined DEF LookToken
<1>2. CASE RemoveDuplicates(r)
  <2>1. RegTyped'
    BY <1>2, <1>f DEF RemoveDuplicates
  <2>2. RecordsTyped'
    BY <1>2, <1>a, <1>g, DeleteType DEF RemoveDuplicates
  <2> QED BY <1>2, <1>c, <1>d, <2>1, <2>2, TokenTypesJoined
          DEF RemoveDuplicates
<1>3. CASE CountRecords(r)
  <2>1. RegTyped'
    BY <1>3, <1>e, <1>f DEF CountRecords
  <2> QED BY <1>3, <1>c, <1>d, <1>g, <2>1, TokenTypesJoined
          DEF CountRecords
<1>4. CASE UpsertUpdate(r)
  <2>1. RegTyped'
    BY <1>4, <1>e DEF UpsertUpdate
  <2>2. RecordsTyped'
    BY <1>4, <1>a, <1>b DEF UpsertUpdate, RecordsTyped, OfToken
  <2> QED BY <1>4, <1>c, <1>d, <2>1, <2>2, TokenTypesJoined
          DEF UpsertUpdate
<1>5. CASE UpsertFindsNone(r)
  <2>1. RegTyped'
    BY <1>5, <1>f DEF UpsertFindsNone
  <2> QED BY <1>5, <1>c, <1>d, <1>g, <2>1, TokenTypesJoined
          DEF UpsertFindsNone
<1>6. CASE UpsertInsert(r)
  <2>1. RegTyped'
    BY <1>6, <1>e DEF UpsertInsert
  <2>2. RecordsTyped'
    BY <1>6, <1>a, <1>b DEF UpsertInsert, RecordsTyped
  <2> QED BY <1>6, <1>c, <1>d, <2>1, <2>2, TokenTypesJoined
          DEF UpsertInsert
<1>7. CASE RegistrationFails(r)
  <2>1. RegTyped'
    BY <1>7, <1>e DEF RegistrationFails
  <2> QED BY <1>7, <1>c, <1>d, <1>g, <2>1, TokenTypesJoined
          DEF RegistrationFails
<1> QED BY <1>1, <1>2, <1>3, <1>4, <1>5, <1>6, <1>7 DEF RegistrationStep

\* What a notification reads: the records of its identity, each a record.
LEMMA NotifyReads ==
    ASSUME TokenTypeOK, NEW n \in Notifiers, NEW w \in WkIdentities, Notify(n, w)
    PROVE  /\ SendTyped'
           /\ \A m \in Notifiers : m # n => send'[m] = send[m]
           /\ send'[n].wk = w
           /\ \A i \in DOMAIN send'[n].syncs : send'[n].syncs[i].wk = w
<1>1. PICK found \in Bijection(1..Cardinality(OfIdentity(w)), OfIdentity(w)) :
          send' = [send EXCEPT
                     ![n] = [phase |-> "sending", wk |-> w,
                             syncs |-> [k \in DOMAIN found |-> records[found[k]]],
                             doomed |-> {}]]
  BY DEF Notify
<1> DEFINE read == [k \in DOMAIN found |-> records[found[k]]]
           count == Cardinality(OfIdentity(w))
<1>2. /\ DOMAIN found = 1..count
      /\ \A k \in 1..count : found[k] \in OfIdentity(w)
  BY DEF Bijection, Injection, Surjection, IsInjective
<1>3. count \in Nat
  <2>1. OfIdentity(w) \in SUBSET RecordIds
    BY DEF TokenTypeOK, OfIdentity
  <2> QED BY <2>1, RecordIdsAssumption, FS_Subset, FS_CardinalityType
<1>4. \A k \in 1..count : records[found[k]] \in Record /\ records[found[k]].wk = w
  BY <1>2 DEF TokenTypeOK, OfIdentity
<1>5. read \in Seq(Record)
  <2> HIDE DEF count
  <2>1. read \in [1..count -> Record]
    BY <1>2, <1>4
  <2> QED BY <1>3, <2>1
<1>6. \A i \in DOMAIN read : read[i].wk = w
  BY <1>2, <1>4
<1>7. send' = [send EXCEPT ![n] = [phase |-> "sending", wk |-> w, syncs |-> read,
                                   doomed |-> {}]]
  BY <1>1
<1> HIDE DEF read
<1> QED BY <1>5, <1>6, <1>7 DEF TokenTypeOK, SendTyped, SendPhases

\* Every step of a notification keeps the types.
LEMMA NotificationType ==
    ASSUME TokenTypeOK, NEW n \in Notifiers, NotificationStep(n)
    PROVE  TokenTypeOK'
<1>a. RecordsTyped /\ RegTyped /\ SendTyped /\ RestTyped
  BY TokenTypesApart
<1>b. UNCHANGED reg => RegTyped'
  BY <1>a DEF RegTyped
<1>c. UNCHANGED <<dead, raced, starts, sends>> => RestTyped'
  BY <1>a DEF RestTyped
<1>d. UNCHANGED records => RecordsTyped'
  BY <1>a DEF RecordsTyped
<1>1. CASE SendAnswered(n)
  <2>1. PICK gone \in SUBSET GoneMessages(send[n].syncs) :
            send' = [send EXCEPT
                       ![n] = IF gone = {}
                                THEN IdleSend
                                ELSE [@ EXCEPT !.phase = "cleaning", !.doomed = gone]]
    BY <1>1 DEF SendAnswered
  <2>2. gone \subseteq DOMAIN send[n].syncs
    BY GoneInRange
  <2>3. gone \subseteq Nat
    BY <1>a, <2>2 DEF SendTyped
  <2>4. CASE gone = {}
    <3>1. SendTyped'
      BY <1>a, <2>1, <2>4, IdleTypes DEF SendTyped
    <3> QED BY <1>1, <1>b, <1>c, <1>d, <3>1, TokenTypesJoined
            DEF SendAnswered
  <2>5. CASE gone # {}
    <3> DEFINE found == [send[n] EXCEPT !.phase = "cleaning", !.doomed = gone]
    <3>2. send' = [send EXCEPT ![n] = found]
      BY <2>1, <2>5
    <3>3. /\ found \in [phase: SendPhases, wk: WkIdentities, syncs: Seq(Record),
                        doomed: SUBSET Nat]
          /\ found.doomed \subseteq DOMAIN found.syncs
      BY <1>a, <2>2, <2>3 DEF SendTyped, SendPhases
    <3> HIDE DEF found
    <3>1. SendTyped'
      BY <1>a, <3>2, <3>3 DEF SendTyped
    <3> QED BY <1>1, <1>b, <1>c, <1>d, <3>1, TokenTypesJoined
            DEF SendAnswered
  <2> QED BY <2>4, <2>5
<1>2. CASE CleanOne(n)
  <2>1. SendTyped'
    BY <1>2, AfterCleanType DEF CleanOne
  <2>2. RecordsTyped'
    BY <1>2, <1>a, DeleteOneType DEF CleanOne
  <2> QED BY <1>2, <1>b, <1>c, <2>1, <2>2, TokenTypesJoined DEF CleanOne
<1>3. CASE CleanFails(n)
  <2>1. SendTyped'
    BY <1>3, AfterCleanType DEF CleanFails
  <2> QED BY <1>3, <1>b, <1>c, <1>d, <2>1, TokenTypesJoined DEF CleanFails
<1> QED BY <1>1, <1>2, <1>3 DEF NotificationStep

\* Every step keeps the types.
LEMMA TokenTypeInvariance == TokenTypeOK /\ [TokenNext]_tokenVars => TokenTypeOK'
<1> SUFFICES ASSUME TokenTypeOK, [TokenNext]_tokenVars PROVE TokenTypeOK'
  OBVIOUS
<1>a. RecordsTyped /\ RegTyped /\ SendTyped /\ RestTyped
  BY TokenTypesApart
<1>1. ASSUME NEW r \in Registrars, NEW rec \in Record, Register(r, rec)
      PROVE  TokenTypeOK'
  BY <1>1, BoundsAssumption DEF Register, TokenTypeOK, RegPhases
<1>2. ASSUME NEW r \in Registrars, RegistrationStep(r) PROVE TokenTypeOK'
  BY <1>2, RegistrationType
<1>3. ASSUME NEW n \in Notifiers, NEW w \in WkIdentities, Notify(n, w)
      PROVE  TokenTypeOK'
  <2>1. SendTyped'
    BY <1>3, NotifyReads
  <2>2. RecordsTyped' /\ RegTyped' /\ RestTyped'
    BY <1>3, <1>a, BoundsAssumption DEF Notify, RecordsTyped, RegTyped, RestTyped
  <2> QED BY <2>1, <2>2, TokenTypesJoined
<1>4. ASSUME NEW n \in Notifiers, NotificationStep(n) PROVE TokenTypeOK'
  BY <1>4, NotificationType
<1>5. ASSUME NEW t \in Tokens, TokenDies(t) PROVE TokenTypeOK'
  BY <1>5 DEF TokenDies, TokenTypeOK
<1>6. CASE UNCHANGED tokenVars
  BY <1>6 DEF tokenVars, TokenTypeOK
<1> QED BY <1>1, <1>2, <1>3, <1>4, <1>5, <1>6 DEF TokenNext

-----------------------------------------------------------------------------
(* The invariant of the push tokens *)

\* Registration r is under way, for token t.
RunningFor(r, t) == reg[r].phase # "idle" /\ reg[r].rec.tok = t

\* A token that was never registered twice at a time is registered once now.
OneRegistration ==
    \A t \in Tokens \ raced, q, r \in Registrars :
        RunningFor(q, t) /\ RunningFor(r, t) => q = r

\* Such a token has one record,
OneRecord == \A t \in Tokens \ raced, i, j \in RecordIds :
                 i \in OfToken(t) /\ j \in OfToken(t) => i = j

\* and none while the upsert that found none is about to insert one.
NoneFound ==
    \A r \in Registrars, t \in Tokens \ raced :
        RunningFor(r, t) /\ reg[r].phase = "inserting" => OfToken(t) = {}

\* The registrations of an identity that are past the check of its limit.
PastCheck(w) == {r \in Registrars : /\ reg[r].phase \in {"upserting", "inserting"}
                                    /\ reg[r].rec.wk = w}

\* Each of them may add a record; together with those there are they stay
\* within the bound.
QuotaReserved ==
    \A w \in WkIdentities :
        Cardinality(OfIdentity(w)) + Cardinality(PastCheck(w))
            <= Limit + Cardinality(Registrars)

\* What a notification has read was of the identity it is for.
ReadOfIdentity ==
    \A n \in Notifiers : \A i \in DOMAIN send[n].syncs :
        send[n].syncs[i].wk = send[n].wk

TokenInv == /\ TokenTypeOK
            /\ OneRegistration
            /\ OneRecord
            /\ NoneFound
            /\ QuotaReserved
            /\ ReadOfIdentity

-----------------------------------------------------------------------------
(* What a step does to the records *)

\* The step leaves the records alone or takes some away.
OnlyTakes == /\ DOMAIN records' \subseteq DOMAIN records
             /\ \A i \in DOMAIN records' : records'[i] = records[i]

\* The step puts the record of r under the id i, and ends the registration: in
\* the place of one with the token, or as a new one.
Puts(r, i) ==
    /\ reg[r].phase \in {"upserting", "inserting"}
    /\ IF reg[r].phase = "upserting" THEN i \in OfToken(reg[r].rec.tok)
                                     ELSE i \notin DOMAIN records
    /\ DOMAIN records' = DOMAIN records \cup {i}
    /\ \A j \in DOMAIN records' :
          records'[j] = IF j = i THEN reg[r].rec ELSE records[j]
    /\ End(r)
    /\ UNCHANGED raced

LEMMA DeletesOnlyTake ==
    ASSUME NEW ids, Delete(ids) \/ DeleteOne(ids) \/ UNCHANGED records
    PROVE  OnlyTakes
BY DeleteLeaves DEF DeleteOne, OnlyTakes

LEMMA RecordsStep ==
    ASSUME TokenTypeOK, [TokenNext]_tokenVars
    PROVE  OnlyTakes \/ \E r \in Registrars, i \in RecordIds : Puts(r, i)
<1> USE DeletesOnlyTake
<1>1. ASSUME NEW r \in Registrars, NEW rec \in Record, Register(r, rec)
      PROVE  OnlyTakes
  BY <1>1 DEF Register
<1>2. ASSUME NEW r \in Registrars, RegistrationStep(r)
      PROVE  OnlyTakes \/ \E i \in RecordIds : Puts(r, i)
  <2>1. CASE LookToken(r)
    BY <2>1 DEF LookToken
  <2>2. CASE RemoveDuplicates(r)
    BY <2>2 DEF RemoveDuplicates
  <2>3. CASE CountRecords(r)
    BY <2>3 DEF CountRecords
  <2>4. CASE UpsertUpdate(r)
    <3>1. PICK i \in OfToken(reg[r].rec.tok) :
              records' = [records EXCEPT ![i] = reg[r].rec]
      BY <2>4 DEF UpsertUpdate
    <3>2. i \in DOMAIN records /\ i \in RecordIds
      BY DEF OfToken, TokenTypeOK
    <3>3. Puts(r, i)
      BY <2>4, <3>1, <3>2 DEF UpsertUpdate, Puts
    <3> QED BY <3>2, <3>3
  <2>5. CASE UpsertFindsNone(r)
    BY <2>5 DEF UpsertFindsNone
  <2>6. CASE UpsertInsert(r)
    <3>1. PICK i \in RecordIds \ DOMAIN records :
              records' = [j \in DOMAIN records \cup {i} |->
                            IF j = i THEN reg[r].rec ELSE records[j]]
      BY <2>6 DEF UpsertInsert
    <3>2. Puts(r, i)
      BY <2>6, <3>1 DEF UpsertInsert, Puts
    <3> QED BY <3>2
  <2>7. CASE RegistrationFails(r)
    BY <2>7 DEF RegistrationFails
  <2> QED BY <1>2, <2>1, <2>2, <2>3, <2>4, <2>5, <2>6, <2>7 DEF RegistrationStep
<1>3. ASSUME NEW n \in Notifiers, NEW w \in WkIdentities, Notify(n, w)
      PROVE  OnlyTakes
  BY <1>3 DEF Notify
<1>4. ASSUME NEW n \in Notifiers, NotificationStep(n) PROVE OnlyTakes
  BY <1>4 DEF NotificationStep, SendAnswered, CleanOne, CleanFails
<1>5. ASSUME NEW t \in Tokens, TokenDies(t) PROVE OnlyTakes
  BY <1>5 DEF TokenDies
<1>6. CASE UNCHANGED tokenVars
  BY <1>6 DEF tokenVars
<1> QED BY <1>1, <1>2, <1>3, <1>4, <1>5, <1>6 DEF TokenNext

\* What a step does to the registrations: one begins, or none does.
NoneBegins ==
    /\ UNCHANGED raced
    /\ \A q \in Registrars : reg'[q].phase # "idle" =>
          /\ reg[q].phase # "idle"
          /\ reg'[q].rec = reg[q].rec

LEMMA RegistrationsStep ==
    ASSUME TokenTypeOK, [TokenNext]_tokenVars
    PROVE  \/ NoneBegins
           \/ \E r \in Registrars, rec \in Record : Register(r, rec)
<1> USE DEF NoneBegins
<1>a. reg \in [Registrars -> [phase: RegPhases, rec: Record]]
  BY DEF TokenTypeOK
<1>b. ASSUME NEW r \in Registrars, reg[r].phase # "idle",
             \/ End(r)
             \/ \E phase \in RegPhases : Goto(r, phase),
             UNCHANGED raced
      PROVE  NoneBegins
  BY <1>a, <1>b DEF End, Goto, IdleReg
<1>1. ASSUME NEW r \in Registrars, RegistrationStep(r) PROVE NoneBegins
  BY <1>1, <1>b DEF RegistrationStep, LookToken, RemoveDuplicates, CountRecords,
         UpsertUpdate, UpsertFindsNone, UpsertInsert, RegistrationFails, RegPhases
<1>2. ASSUME NEW n \in Notifiers, NEW w \in WkIdentities, Notify(n, w)
      PROVE  NoneBegins
  BY <1>2 DEF Notify
<1>3. ASSUME NEW n \in Notifiers, NotificationStep(n) PROVE NoneBegins
  BY <1>3 DEF NotificationStep, SendAnswered, CleanOne, CleanFails
<1>4. ASSUME NEW t \in Tokens, TokenDies(t) PROVE NoneBegins
  BY <1>4 DEF TokenDies
<1>5. CASE UNCHANGED tokenVars
  BY <1>5 DEF tokenVars
<1> QED BY <1>1, <1>2, <1>3, <1>4, <1>5 DEF TokenNext

-----------------------------------------------------------------------------
(* One record per token *)

LEMMA OneRegistrationInvariance ==
    ASSUME TokenInv, [TokenNext]_tokenVars
    PROVE  OneRegistration'
<1> USE DEF OneRegistration, RunningFor
<1>1. CASE NoneBegins
  BY <1>1 DEF TokenInv, NoneBegins
<1>2. ASSUME NEW r \in Registrars, NEW rec \in Record, Register(r, rec)
      PROVE  OneRegistration'
  <2> SUFFICES ASSUME NEW t \in Tokens, t \notin raced', NEW p \in Registrars,
                      NEW q \in Registrars, RunningFor(p, t)', RunningFor(q, t)'
               PROVE  p = q
    OBVIOUS
  <2>1. t \notin raced
    BY <1>2 DEF Register
  <2>2. rec.tok = t => \A s \in Registrars : ~ RunningFor(s, t)
    BY <1>2 DEF Register
  <2>3. /\ reg'[r] = [phase |-> "looking", rec |-> rec]
        /\ \A s \in Registrars \ {r} : reg'[s] = reg[s]
    BY <1>2 DEF Register, TokenInv, TokenTypeOK
  <2> QED BY <2>1, <2>2, <2>3 DEF TokenInv
<1> QED BY <1>1, <1>2, RegistrationsStep DEF TokenInv

\* A token keeps its records only by what a registration for it puts there.
LEMMA OfTokenStep ==
    ASSUME TokenTypeOK, [TokenNext]_tokenVars, NEW t \in Tokens
    PROVE  \/ OfToken(t)' \subseteq OfToken(t)
           \/ \E r \in Registrars, i \in RecordIds :
                 /\ Puts(r, i)
                 /\ RunningFor(r, t)
                 /\ OfToken(t)' \subseteq OfToken(t) \cup {i}
<1>1. CASE OnlyTakes
  BY <1>1 DEF OnlyTakes, OfToken
<1>2. ASSUME NEW r \in Registrars, NEW i \in RecordIds, Puts(r, i),
             reg[r].rec.tok # t
      PROVE  OfToken(t)' \subseteq OfToken(t)
  BY <1>2 DEF Puts, OfToken
<1>3. ASSUME NEW r \in Registrars, NEW i \in RecordIds, Puts(r, i),
             reg[r].rec.tok = t
      PROVE  RunningFor(r, t) /\ OfToken(t)' \subseteq OfToken(t) \cup {i}
  BY <1>3 DEF Puts, OfToken, RunningFor
<1> QED BY <1>1, <1>2, <1>3, RecordsStep

LEMMA RacedGrows ==
    ASSUME TokenTypeOK, [TokenNext]_tokenVars
    PROVE  raced \subseteq raced'
BY RegistrationsStep DEF NoneBegins, Register

LEMMA OneRecordInvariance ==
    ASSUME TokenInv, [TokenNext]_tokenVars
    PROVE  OneRecord'
<1> SUFFICES ASSUME NEW t \in Tokens, t \notin raced', NEW j \in RecordIds,
                    NEW k \in RecordIds, j \in OfToken(t)', k \in OfToken(t)'
             PROVE  j = k
  BY DEF OneRecord
<1>1. t \notin raced
  BY RacedGrows DEF TokenInv
<1>2. \A m \in RecordIds, n \in RecordIds :
          m \in OfToken(t) /\ n \in OfToken(t) => m = n
  BY <1>1 DEF TokenInv, OneRecord
<1>3. CASE OfToken(t)' \subseteq OfToken(t)
  BY <1>2, <1>3
<1>4. ASSUME NEW r \in Registrars, NEW i \in RecordIds, Puts(r, i), RunningFor(r, t),
             OfToken(t)' \subseteq OfToken(t) \cup {i}
      PROVE  j = k
  <2>1. CASE reg[r].phase = "upserting"
    BY <1>2, <1>4, <2>1 DEF Puts, RunningFor
  <2>2. CASE reg[r].phase = "inserting"
    <3>1. OfToken(t) = {}
      BY <1>1, <1>4, <2>2 DEF TokenInv, NoneFound
    <3> QED BY <1>4, <3>1
  <2> QED BY <1>4, <2>1, <2>2 DEF Puts
<1> QED BY <1>3, <1>4, OfTokenStep DEF TokenInv

\* Only an upsert that finds no record gets a registration to its insert.
LEMMA InsertingStep ==
    ASSUME TokenTypeOK, [TokenNext]_tokenVars, NEW r \in Registrars,
           reg'[r].phase = "inserting"
    PROVE  /\ reg[r].phase # "idle"
           /\ reg'[r].rec = reg[r].rec
           /\ \/ reg[r].phase = "inserting"
              \/ UpsertFindsNone(r)
<1>a. reg \in [Registrars -> [phase: RegPhases, rec: Record]]
  BY DEF TokenTypeOK
<1>1. CASE UNCHANGED reg
  BY <1>1
<1>2. ASSUME NEW q \in Registrars, NEW rec \in Record, Register(q, rec)
      PROVE  reg'[r] = reg[r]
  BY <1>a, <1>2 DEF Register
<1>3. ASSUME NEW q \in Registrars, RegistrationStep(q)
      PROVE  /\ reg[r].phase # "idle"
             /\ reg'[r].rec = reg[r].rec
             /\ reg[r].phase = "inserting" \/ UpsertFindsNone(r)
  <2>1. CASE q # r
    BY <1>a, <1>3, <2>1 DEF RegistrationStep, LookToken, RemoveDuplicates,
       CountRecords, UpsertUpdate, UpsertFindsNone, UpsertInsert,
       RegistrationFails, End, Goto
  <2>2. CASE q = r
    BY <1>a, <1>3, <2>2 DEF RegistrationStep, LookToken, RemoveDuplicates,
       CountRecords, UpsertUpdate, UpsertFindsNone, UpsertInsert,
       RegistrationFails, End, Goto, IdleReg
  <2> QED BY <2>1, <2>2
<1>4. ASSUME NEW n \in Notifiers, NEW w \in WkIdentities, Notify(n, w)
      PROVE  UNCHANGED reg
  BY <1>4 DEF Notify
<1>5. ASSUME NEW n \in Notifiers, NotificationStep(n) PROVE UNCHANGED reg
  BY <1>5 DEF NotificationStep, SendAnswered, CleanOne, CleanFails
<1>6. ASSUME NEW t \in Tokens, TokenDies(t) PROVE UNCHANGED reg
  BY <1>6 DEF TokenDies
<1>7. CASE UNCHANGED tokenVars
  BY <1>7 DEF tokenVars
<1> QED BY <1>1, <1>2, <1>3, <1>4, <1>5, <1>6, <1>7 DEF TokenNext

LEMMA NoneFoundInvariance ==
    ASSUME TokenInv, [TokenNext]_tokenVars
    PROVE  NoneFound'
<1> SUFFICES ASSUME NEW r \in Registrars, NEW t \in Tokens, t \notin raced',
                    RunningFor(r, t)', reg'[r].phase = "inserting"
             PROVE  OfToken(t)' = {}
  BY DEF NoneFound
<1>1. t \notin raced
  BY RacedGrows DEF TokenInv
<1>2. /\ RunningFor(r, t)
      /\ reg[r].phase = "inserting" \/ UpsertFindsNone(r)
  BY InsertingStep DEF TokenInv, RunningFor
<1>3. CASE reg[r].phase = "inserting"
  <2>1. OfToken(t) = {}
    BY <1>1, <1>2, <1>3 DEF TokenInv, NoneFound
  <2>2. ASSUME NEW q \in Registrars, NEW i \in RecordIds, Puts(q, i), RunningFor(q, t)
        PROVE  FALSE
    <3>1. q = r
      BY <1>1, <1>2, <2>2 DEF TokenInv, OneRegistration
    <3> QED BY <2>2, <3>1 DEF Puts, End, IdleReg, TokenInv, TokenTypeOK
  <2> QED BY <2>1, <2>2, OfTokenStep DEF TokenInv
<1>4. CASE UpsertFindsNone(r)
  BY <1>2, <1>4 DEF UpsertFindsNone, OfToken, RunningFor
<1> QED BY <1>2, <1>3, <1>4

-----------------------------------------------------------------------------
(* The limit of an identity *)

\* The sets that are counted are finite.
Counted ==
    \A w \in WkIdentities :
        /\ IsFiniteSet(OfIdentity(w)) /\ Cardinality(OfIdentity(w)) \in Nat
        /\ IsFiniteSet(PastCheck(w)) /\ Cardinality(PastCheck(w)) \in Nat
        /\ Cardinality(PastCheck(w)) <= Cardinality(Registrars)

LEMMA CountedFinite == TokenTypeOK => Counted
<1> SUFFICES ASSUME TokenTypeOK, NEW w \in WkIdentities
             PROVE  /\ IsFiniteSet(OfIdentity(w)) /\ Cardinality(OfIdentity(w)) \in Nat
                    /\ IsFiniteSet(PastCheck(w)) /\ Cardinality(PastCheck(w)) \in Nat
                    /\ Cardinality(PastCheck(w)) <= Cardinality(Registrars)
  BY DEF Counted
<1>1. OfIdentity(w) \in SUBSET RecordIds
  BY DEF OfIdentity, TokenTypeOK
<1>2. PastCheck(w) \in SUBSET Registrars
  BY DEF PastCheck
<1> HIDE DEF OfIdentity, PastCheck
<1>3. IsFiniteSet(OfIdentity(w)) /\ Cardinality(OfIdentity(w)) \in Nat
  BY <1>1, RecordIdsAssumption, FS_Subset, FS_CardinalityType
<1>4. /\ IsFiniteSet(PastCheck(w)) /\ Cardinality(PastCheck(w)) \in Nat
      /\ Cardinality(PastCheck(w)) <= Cardinality(Registrars)
  BY <1>2, RegistrarsAssumption, FS_Subset, FS_CardinalityType
<1> QED BY <1>3, <1>4

LEMMA RegistrarsCounted == Cardinality(Registrars) \in Nat
BY RegistrarsAssumption, FS_CardinalityType

\* A registration gets past the check while the identity has no more records
\* than the limit, and with no change to the records.
LEMMA PastCheckStep ==
    ASSUME TokenTypeOK, [TokenNext]_tokenVars, NEW w \in WkIdentities
    PROVE  \/ PastCheck(w)' \subseteq PastCheck(w)
           \/ /\ Cardinality(OfIdentity(w)) <= Limit
              /\ UNCHANGED records
<1>a. reg \in [Registrars -> [phase: RegPhases, rec: Record]]
  BY DEF TokenTypeOK
<1>1. CASE UNCHANGED reg
  BY <1>1 DEF PastCheck
<1>2. ASSUME NEW r \in Registrars, NEW rec \in Record, Register(r, rec)
      PROVE  PastCheck(w)' \subseteq PastCheck(w)
  BY <1>a, <1>2 DEF Register, PastCheck
<1>3. ASSUME NEW r \in Registrars, RegistrationStep(r)
      PROVE  \/ PastCheck(w)' \subseteq PastCheck(w)
             \/ Cardinality(OfIdentity(w)) <= Limit /\ UNCHANGED records
  <2>1. CASE CountRecords(r) /\ Goto(r, "upserting")
    <3>1. CASE reg[r].rec.wk # w
      BY <1>a, <2>1, <3>1 DEF Goto, PastCheck
    <3>2. CASE reg[r].rec.wk = w
      <4>1. ~ (Cardinality(OfIdentity(w)) > Limit)
        BY <1>a, <2>1, <3>2 DEF CountRecords, End, Goto, IdleReg
      <4>2. Cardinality(OfIdentity(w)) \in Nat
        BY CountedFinite DEF Counted
      <4> QED BY <2>1, <4>1, <4>2, BoundsAssumption DEF CountRecords
    <3> QED BY <3>1, <3>2
  <2>2. CASE CountRecords(r) /\ End(r)
    BY <1>a, <2>2 DEF End, IdleReg, PastCheck
  <2>3. CASE LookToken(r) \/ RemoveDuplicates(r)
    BY <1>a, <2>3 DEF LookToken, RemoveDuplicates, Goto, PastCheck
  <2>4. CASE UpsertUpdate(r) \/ UpsertInsert(r) \/ RegistrationFails(r)
    BY <1>a, <2>4 DEF UpsertUpdate, UpsertInsert, RegistrationFails, End, IdleReg,
       PastCheck
  <2>5. CASE UpsertFindsNone(r)
    BY <1>a, <2>5 DEF UpsertFindsNone, Goto, PastCheck
  <2> QED BY <1>3, <2>1, <2>2, <2>3, <2>4, <2>5 DEF RegistrationStep, CountRecords
<1>4. ASSUME NEW n \in Notifiers, NEW v \in WkIdentities, Notify(n, v)
      PROVE  UNCHANGED reg
  BY <1>4 DEF Notify
<1>5. ASSUME NEW n \in Notifiers, NotificationStep(n) PROVE UNCHANGED reg
  BY <1>5 DEF NotificationStep, SendAnswered, CleanOne, CleanFails
<1>6. ASSUME NEW t \in Tokens, TokenDies(t) PROVE UNCHANGED reg
  BY <1>6 DEF TokenDies
<1>7. UNCHANGED tokenVars => UNCHANGED reg
  BY DEF tokenVars
<1> QED BY <1>1, <1>2, <1>3, <1>4, <1>5, <1>6, <1>7 DEF TokenNext

\* The records of an identity after a step: no more than before, or one more
\* of a registration that was past the check and no longer is.
LEMMA OfIdentityStep ==
    ASSUME TokenTypeOK, [TokenNext]_tokenVars, NEW w \in WkIdentities
    PROVE  \/ OfIdentity(w)' \subseteq OfIdentity(w)
           \/ \E r \in Registrars, i \in RecordIds :
                 /\ OfIdentity(w)' \subseteq OfIdentity(w) \cup {i}
                 /\ r \in PastCheck(w)
                 /\ PastCheck(w)' \subseteq PastCheck(w) \ {r}
<1>1. CASE OnlyTakes
  BY <1>1 DEF OnlyTakes, OfIdentity
<1>2. ASSUME NEW r \in Registrars, NEW i \in RecordIds, Puts(r, i),
             reg[r].rec.wk # w
      PROVE  OfIdentity(w)' \subseteq OfIdentity(w)
  BY <1>2 DEF Puts, OfIdentity
<1>3. ASSUME NEW r \in Registrars, NEW i \in RecordIds, Puts(r, i),
             reg[r].rec.wk = w
      PROVE  /\ OfIdentity(w)' \subseteq OfIdentity(w) \cup {i}
             /\ r \in PastCheck(w)
             /\ PastCheck(w)' \subseteq PastCheck(w) \ {r}
  <2>1. OfIdentity(w)' \subseteq OfIdentity(w) \cup {i}
    BY <1>3 DEF Puts, OfIdentity
  <2>2. r \in PastCheck(w)
    BY <1>3 DEF Puts, PastCheck
  <2>3. PastCheck(w)' \subseteq PastCheck(w) \ {r}
    BY <1>3 DEF Puts, End, IdleReg, PastCheck, TokenTypeOK
  <2> QED BY <2>1, <2>2, <2>3
<1> QED BY <1>1, <1>2, <1>3, RecordsStep

LEMMA QuotaReservedInvariance ==
    ASSUME TokenInv, [TokenNext]_tokenVars
    PROVE  QuotaReserved'
<1> SUFFICES ASSUME NEW w \in WkIdentities
             PROVE  Cardinality(OfIdentity(w)') + Cardinality(PastCheck(w)')
                        <= Limit + Cardinality(Registrars)
  BY DEF QuotaReserved
<1> DEFINE own == OfIdentity(w)
           past == PastCheck(w)
<1>a. TokenTypeOK /\ TokenTypeOK'
  BY TokenTypeInvariance DEF TokenInv
<1>b. /\ IsFiniteSet(own) /\ Cardinality(own) \in Nat
      /\ IsFiniteSet(past) /\ Cardinality(past) \in Nat
      /\ Cardinality(Registrars) \in Nat
  BY <1>a, CountedFinite, RegistrarsCounted DEF Counted
<1>c. /\ IsFiniteSet(own') /\ Cardinality(own') \in Nat
      /\ IsFiniteSet(past') /\ Cardinality(past') \in Nat
      /\ Cardinality(past') <= Cardinality(Registrars)
  <2>1. Counted'
    BY <1>a, CountedFinite, PTL
  <2> QED BY <2>1 DEF Counted
<1>d. Cardinality(own) + Cardinality(past) <= Limit + Cardinality(Registrars)
  BY DEF TokenInv, QuotaReserved
<1>1. CASE Cardinality(own) <= Limit /\ UNCHANGED records
  <2>1. own' = own
    BY <1>1 DEF OfIdentity
  <2> QED BY <1>1, <1>b, <1>c, <2>1, BoundsAssumption
<1>2. CASE own' \subseteq own /\ past' \subseteq past
  <2>1. Cardinality(own') <= Cardinality(own) /\ Cardinality(past') <= Cardinality(past)
    BY <1>2, <1>b, FS_Subset
  <2> QED BY <1>b, <1>c, <1>d, <2>1, BoundsAssumption
<1>3. ASSUME NEW r \in Registrars, NEW i \in RecordIds, own' \subseteq own \cup {i},
             r \in past, past' \subseteq past \ {r}
      PROVE  Cardinality(own') + Cardinality(past') <= Limit + Cardinality(Registrars)
  <2> HIDE DEF own, past
  <2>1. /\ IsFiniteSet(own \cup {i})
        /\ Cardinality(own \cup {i}) =
               IF i \in own THEN Cardinality(own) ELSE Cardinality(own) + 1
    BY <1>b, FS_AddElement
  <2>2. /\ IsFiniteSet(past \ {r})
        /\ Cardinality(past \ {r}) = Cardinality(past) - 1
    BY <1>3, <1>b, FS_RemoveElement
  <2>3. Cardinality(own') <= Cardinality(own \cup {i})
    BY <1>3, <2>1, FS_Subset
  <2>4. Cardinality(past') <= Cardinality(past \ {r})
    BY <1>3, <2>2, FS_Subset
  <2> QED BY <1>b, <1>c, <1>d, <2>1, <2>2, <2>3, <2>4, BoundsAssumption
<1> QED BY <1>1, <1>2, <1>3, <1>a, PastCheckStep, OfIdentityStep

-----------------------------------------------------------------------------
(* The clean-up *)

LEMMA ReadOfIdentityInvariance ==
    ASSUME TokenInv, [TokenNext]_tokenVars
    PROVE  ReadOfIdentity'
<1> USE DEF ReadOfIdentity
<1>a. send \in [Notifiers -> [phase: SendPhases, wk: WkIdentities,
                              syncs: Seq(Record), doomed: SUBSET Nat]]
  BY DEF TokenInv, TokenTypeOK
<1>b. DOMAIN IdleSend.syncs = {}
  BY DEF IdleSend
<1>1. CASE UNCHANGED send
  BY <1>1 DEF TokenInv
<1>2. ASSUME NEW n \in Notifiers, NEW w \in WkIdentities, Notify(n, w)
      PROVE  ReadOfIdentity'
  BY <1>2, NotifyReads DEF TokenInv
<1>3. ASSUME NEW n \in Notifiers, NotificationStep(n),
             NEW m \in Notifiers, NEW i \in DOMAIN send'[m].syncs
      PROVE  send'[m].syncs[i].wk = send'[m].wk
  <2>1. /\ \A k \in Notifiers \ {n} : send'[k] = send[k]
        /\ \/ send'[n] = IdleSend
           \/ send'[n].syncs = send[n].syncs /\ send'[n].wk = send[n].wk
    <3>1. CASE SendAnswered(n)
      BY <1>a, <3>1 DEF SendAnswered
    <3>2. CASE CleanOne(n) \/ CleanFails(n)
      <4>1. PICK k : AfterClean(n, k)
        BY <3>2 DEF CleanOne, CleanFails
      <4> QED BY <1>a, <4>1 DEF AfterClean
    <3> QED BY <1>3, <3>1, <3>2 DEF NotificationStep
  <2> QED BY <1>b, <1>3, <2>1 DEF TokenInv
<1>4. ASSUME NEW r \in Registrars, NEW rec \in Record, Register(r, rec)
      PROVE  UNCHANGED send
  BY <1>4 DEF Register
<1>5. ASSUME NEW r \in Registrars, RegistrationStep(r) PROVE UNCHANGED send
  BY <1>5 DEF RegistrationStep, LookToken, RemoveDuplicates, CountRecords,
     UpsertUpdate, UpsertFindsNone, UpsertInsert, RegistrationFails
<1>6. ASSUME NEW t \in Tokens, TokenDies(t) PROVE UNCHANGED send
  BY <1>6 DEF TokenDies
<1>7. UNCHANGED tokenVars => UNCHANGED send
  BY DEF tokenVars
<1> QED BY <1>1, <1>2, <1>3, <1>4, <1>5, <1>6, <1>7 DEF TokenNext

\* What one step of a clean-up may take away.
StaysHome(n) == \A i \in DOMAIN records : \/ records[i].wk = send[n].wk
                                          \/ i \in DOMAIN records'

LEMMA CleanOneStaysHome ==
    ASSUME TokenInv, NEW n \in Notifiers, CleanOne(n)
    PROVE  StaysHome(n)
<1>1. PICK k \in DOMAIN send[n].syncs :
          DeleteOne({j \in DOMAIN records : records[j] = send[n].syncs[k]})
  BY DEF CleanOne
<1>2. send[n].syncs[k].wk = send[n].wk
  BY DEF TokenInv, ReadOfIdentity
<1>3. CASE UNCHANGED records
  BY <1>3 DEF StaysHome
<1>4. ASSUME NEW j \in DOMAIN records, records[j] = send[n].syncs[k], Delete({j})
      PROVE  StaysHome(n)
  <2>1. DOMAIN records' = DOMAIN records \ {j}
    BY <1>4, DeleteLeaves
  <2> QED BY <1>2, <1>4, <2>1 DEF StaysHome
<1> QED BY <1>1, <1>3, <1>4 DEF DeleteOne

-----------------------------------------------------------------------------
(* The theorems about the push tokens *)

LEMMA TokenInitInv == TokenInit => TokenInv
<1> SUFFICES ASSUME TokenInit PROVE TokenInv
  OBVIOUS
<1>1. TokenTypeOK
  BY IdleTypes, BoundsAssumption DEF TokenInit, TokenTypeOK
<1>2. OneRegistration /\ OneRecord /\ NoneFound
  BY DEF TokenInit, IdleReg, OneRegistration, OneRecord, NoneFound, RunningFor, OfToken
<1>3. QuotaReserved
  <2> SUFFICES ASSUME NEW w \in WkIdentities
               PROVE  Cardinality(OfIdentity(w)) + Cardinality(PastCheck(w))
                          <= Limit + Cardinality(Registrars)
    BY DEF QuotaReserved
  <2>1. OfIdentity(w) = {} /\ PastCheck(w) = {}
    BY DEF TokenInit, IdleReg, OfIdentity, PastCheck
  <2>2. Cardinality({}) = 0
    BY FS_EmptySet
  <2> QED BY <2>1, <2>2, BoundsAssumption, RegistrarsCounted
<1>4. ReadOfIdentity
  BY DEF TokenInit, IdleSend, ReadOfIdentity
<1> QED BY <1>1, <1>2, <1>3, <1>4 DEF TokenInv

\* The invariant of the registry holds in every reachable state, however many
\* registrations and notifications of however many identities interleave.
THEOREM TokenInvariance == TokenSpec => []TokenInv
<1>1. TokenInv /\ [TokenNext]_tokenVars => TokenInv'
  BY TokenTypeInvariance, OneRegistrationInvariance, OneRecordInvariance,
     NoneFoundInvariance, QuotaReservedInvariance, ReadOfIdentityInvariance
     DEF TokenInv
<1> QED BY <1>1, TokenInitInv, PTL DEF TokenSpec

\* Every variable of the registry keeps its type; in particular what the
\* clean-up looks up in `syncs` under a response's number is there.
THEOREM TokenTypeCorrectness == TokenSpec => []TokenTypeOK
<1>1. TokenInv => TokenTypeOK
  BY DEF TokenInv
<1> QED BY <1>1, TokenInvariance, PTL

\* A token no two registrations of which overlapped has one record at most.
THEOREM TokensRegisteredOnce == TokenSpec => []OneRecordPerToken
<1>1. TokenInv => OneRecordPerToken
  <2> SUFFICES ASSUME TokenInv, NEW t \in Tokens \ raced
               PROVE  Cardinality(OfToken(t)) <= 1
    BY DEF OneRecordPerToken
  <2>1. OfToken(t) \subseteq RecordIds
    BY DEF OfToken, TokenInv, TokenTypeOK
  <2>2. CASE OfToken(t) = {}
    BY <2>2, FS_EmptySet
  <2>3. ASSUME NEW i \in OfToken(t) PROVE OfToken(t) = {i}
    BY <2>1 DEF TokenInv, OneRecord
  <2>4. ASSUME NEW i \in OfToken(t) PROVE Cardinality(OfToken(t)) <= 1
    <3>1. OfToken(t) = {i}
      BY <2>3
    <3>2. Cardinality({i}) = 1
      BY FS_Singleton
    <3> QED BY <3>1, <3>2
  <2> QED BY <2>2, <2>4
<1> QED BY <1>1, TokenInvariance, PTL

\* An identity has at most as many records above the limit as registrations
\* can run at the same time.
THEOREM QuotaKept == TokenSpec => []QuotaOverrun
<1>1. TokenInv => QuotaOverrun
  <2> SUFFICES ASSUME TokenInv, NEW w \in WkIdentities
               PROVE  Cardinality(OfIdentity(w)) <= Limit + Cardinality(Registrars)
    BY DEF QuotaOverrun
  <2>1. /\ Cardinality(OfIdentity(w)) \in Nat
        /\ Cardinality(PastCheck(w)) \in Nat
        /\ Cardinality(Registrars) \in Nat
    BY CountedFinite, RegistrarsCounted DEF TokenInv, Counted
  <2> QED BY <2>1, BoundsAssumption DEF TokenInv, QuotaReserved
<1> QED BY <1>1, TokenInvariance, PTL

\* No clean-up takes a record of another identity, wherever the token it was
\* told is dead has been registered since it looked.
THEOREM CleanUpsStayHome == TokenSpec => CleanUpStaysHome
<1>1. TokenInv /\ [TokenNext]_tokenVars =>
          [\A n \in Notifiers : CleanOne(n) => StaysHome(n)]_tokenVars
  BY CleanOneStaysHome
<1>2. (\A n \in Notifiers : CleanOne(n) => StaysHome(n)) <=>
      \A n \in Notifiers :
          CleanOne(n) => \A i \in DOMAIN records : \/ records[i].wk = send[n].wk
                                                 \/ i \in DOMAIN records'
  BY DEF StaysHome
<1> QED BY <1>1, <1>2, TokenInvariance, PTL DEF TokenSpec, CleanUpStaysHome

-----------------------------------------------------------------------------
(* Why a clean-up removes live tokens: records without one *)

EveryRecordHasToken == \A i \in DOMAIN records : HasToken(records[i])

\* What is read then has a token, and what is doomed a dead one.
DoomedAreDead ==
    \A n \in Notifiers :
        /\ \A i \in DOMAIN send[n].syncs : HasToken(send[n].syncs[i])
        /\ \A i \in send[n].doomed : send[n].syncs[i].tok \in dead

\* Where every record has a token, messages are numbered as the records.
LEMMA MessageOfRecord ==
    ASSUME NEW syncs \in Seq(Record), \A i \in DOMAIN syncs : HasToken(syncs[i]),
           NEW j \in DOMAIN syncs
    PROVE  MessageOf(syncs, j) = j
<1>1. j \in Nat /\ 1..j \subseteq DOMAIN syncs
  OBVIOUS
<1>2. {h \in 1..j : HasToken(syncs[h])} = 1..j
  BY <1>1
<1>3. Cardinality(1..j) = j
  BY <1>1, FS_Interval
<1> QED BY <1>2, <1>3 DEF MessageOf

LEMMA DoomedAreDeadInvariance ==
    ASSUME TokenTypeOK, EveryRecordHasToken, DoomedAreDead, [TokenNext]_tokenVars
    PROVE  DoomedAreDead'
<1>a. send \in [Notifiers -> [phase: SendPhases, wk: WkIdentities,
                              syncs: Seq(Record), doomed: SUBSET Nat]]
  BY DEF TokenTypeOK
<1>b. IdleSend.doomed = {} /\ DOMAIN IdleSend.syncs = {}
  BY DEF IdleSend
<1>1. UNCHANGED send /\ dead \subseteq dead' => DoomedAreDead'
  BY DEF DoomedAreDead
<1>2. ASSUME NEW n \in Notifiers, NEW w \in WkIdentities, Notify(n, w)
      PROVE  DoomedAreDead'
  <2>1. PICK found \in Bijection(1..Cardinality(OfIdentity(w)), OfIdentity(w)) :
            send' = [send EXCEPT
                       ![n] = [phase |-> "sending", wk |-> w,
                               syncs |-> [k \in DOMAIN found |-> records[found[k]]],
                               doomed |-> {}]]
    BY <1>2 DEF Notify
  <2>2. \A k \in DOMAIN found : HasToken(records[found[k]])
    <3>1. \A k \in DOMAIN found : found[k] \in OfIdentity(w)
      BY DEF Bijection, Injection, Surjection, IsInjective
    <3> QED BY <3>1 DEF EveryRecordHasToken, OfIdentity
  <2>3. UNCHANGED dead
    BY <1>2 DEF Notify
  <2> QED BY <1>a, <2>1, <2>2, <2>3 DEF DoomedAreDead
<1>3. ASSUME NEW n \in Notifiers, SendAnswered(n) PROVE DoomedAreDead'
  <2>1. PICK gone \in SUBSET GoneMessages(send[n].syncs) :
            send' = [send EXCEPT
                       ![n] = IF gone = {}
                                THEN IdleSend
                                ELSE [@ EXCEPT !.phase = "cleaning", !.doomed = gone]]
    BY <1>3 DEF SendAnswered
  <2>2. \A i \in gone : send[n].syncs[i].tok \in dead
    <3>1. \A j \in DOMAIN send[n].syncs : MessageOf(send[n].syncs, j) = j
      BY <1>a, MessageOfRecord DEF DoomedAreDead
    <3> QED BY <3>1 DEF GoneMessages
  <2>3. UNCHANGED dead
    BY <1>3 DEF SendAnswered
  <2> QED BY <1>a, <1>b, <2>1, <2>2, <2>3 DEF DoomedAreDead
<1>4. ASSUME NEW n \in Notifiers, CleanOne(n) \/ CleanFails(n) PROVE DoomedAreDead'
  <2>1. PICK i : AfterClean(n, i)
    BY <1>4 DEF CleanOne, CleanFails
  <2>2. UNCHANGED dead
    BY <1>4 DEF CleanOne, CleanFails
  <2> QED BY <1>a, <1>b, <2>1, <2>2 DEF AfterClean, DoomedAreDead
<1>5. ASSUME NEW r \in Registrars, NEW rec \in Record, Register(r, rec)
      PROVE  DoomedAreDead'
  BY <1>1, <1>5 DEF Register
<1>6. ASSUME NEW r \in Registrars, RegistrationStep(r) PROVE DoomedAreDead'
  <2>1. UNCHANGED <<send, dead>>
    BY <1>6 DEF RegistrationStep, LookToken, RemoveDuplicates, CountRecords,
       UpsertUpdate, UpsertFindsNone, UpsertInsert, RegistrationFails
  <2> QED BY <1>1, <2>1
<1>7. ASSUME NEW t \in Tokens, TokenDies(t) PROVE DoomedAreDead'
  BY <1>1, <1>7 DEF TokenDies
<1>8. CASE UNCHANGED tokenVars
  BY <1>1, <1>8 DEF tokenVars
<1> QED BY <1>2, <1>3, <1>4, <1>5, <1>6, <1>7, <1>8 DEF TokenNext, NotificationStep

TakesDead == \A i \in DOMAIN records : \/ records[i].tok \in dead
                                       \/ i \in DOMAIN records'

LEMMA CleanOneTakesDead ==
    ASSUME TokenTypeOK, DoomedAreDead, NEW n \in Notifiers, CleanOne(n)
    PROVE  TakesDead
<1>1. PICK k \in DOMAIN send[n].syncs :
          /\ Foremost(n, k)
          /\ DeleteOne({j \in DOMAIN records : records[j] = send[n].syncs[k]})
  BY DEF CleanOne
<1>2. send[n].syncs[k].tok \in dead
  BY <1>1 DEF DoomedAreDead, Foremost
<1>3. CASE UNCHANGED records
  BY <1>3 DEF TakesDead
<1>4. ASSUME NEW j \in DOMAIN records, records[j] = send[n].syncs[k], Delete({j})
      PROVE  TakesDead
  <2>1. DOMAIN records' = DOMAIN records \ {j}
    BY <1>4, DeleteLeaves
  <2> QED BY <1>2, <1>4, <2>1 DEF TakesDead
<1> QED BY <1>1, <1>3, <1>4 DEF DeleteOne

\* The numbering of the responses is the whole of the error that the clean-up
\* makes: as long as no record lacks a token, it removes nothing but records of
\* dead tokens, in spite of what is registered or removed in between.
THEOREM CleanUpsRemoveDeadIfTokens ==
    TokenSpec /\ []EveryRecordHasToken => CleanUpRemovesDead
<1>1. TokenInit => DoomedAreDead
  BY DEF TokenInit, IdleSend, DoomedAreDead
<1>2. TokenTypeOK /\ EveryRecordHasToken /\ DoomedAreDead /\ [TokenNext]_tokenVars
          => DoomedAreDead'
  BY DoomedAreDeadInvariance
<1>3. TokenTypeOK /\ DoomedAreDead /\ [TokenNext]_tokenVars =>
          [\A n \in Notifiers : CleanOne(n) => TakesDead]_tokenVars
  BY CleanOneTakesDead
<1>4. (\A n \in Notifiers : CleanOne(n) => TakesDead) <=>
      \A n \in Notifiers :
          CleanOne(n) => \A i \in DOMAIN records : \/ records[i].tok \in dead
                                                 \/ i \in DOMAIN records'
  BY DEF TakesDead
<1> QED BY <1>1, <1>2, <1>3, <1>4, TokenTypeCorrectness, PTL
        DEF TokenSpec, CleanUpRemovesDead

=============================================================================
