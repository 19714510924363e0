------------------------- MODULE ActionRelayProofs -------------------------
(***************************************************************************)
(* Proofs about ActionRelay, for every set of identities, devices,         *)
(* requests and actions, and every number of crashes.                     *)
(***************************************************************************)
EXTENDS ActionRelay, TLAPS

-----------------------------------------------------------------------------
(* Types *)

\* What TypeOK says of the posts.
PostTypeOK ==
    /\ post \in [Posts -> [phase: PostPhases, wk: Identities \cup {None},
                           action: Actions \cup {None}, lost: BOOLEAN]]
    /\ \A p \in Posts : post[p].phase # "unsent" =>
          post[p].wk \in Identities /\ post[p].action \in Actions

\* A step that moves the handler of a post, or its upsert, keeps the posts'
\* types.
LEMMA PostMoves ==
    ASSUME PostTypeOK, NEW p \in Posts, post[p].phase # "unsent",
           NEW phase \in PostPhases, NEW lost \in BOOLEAN,
           post' = [post EXCEPT ![p] = [post[p] EXCEPT !.phase = phase,
                                                       !.lost = lost]]
    PROVE  PostTypeOK'
<1> DEFINE moved == [post[p] EXCEPT !.phase = phase, !.lost = lost]
<1>1. /\ post[p] \in [phase: PostPhases, wk: Identities \cup {None},
                      action: Actions \cup {None}, lost: BOOLEAN]
      /\ post[p].wk \in Identities /\ post[p].action \in Actions
  BY DEF PostTypeOK
<1>2. /\ moved \in [phase: PostPhases, wk: Identities \cup {None},
                    action: Actions \cup {None}, lost: BOOLEAN]
      /\ moved.wk \in Identities /\ moved.action \in Actions
  BY <1>1
<1>3. post' = [post EXCEPT ![p] = moved]
  OBVIOUS
<1> HIDE DEF moved
<1>4. QED
  BY <1>2, <1>3 DEF PostTypeOK

\* The same of a write that the database applies.
LEMMA WriteKeepsTypes ==
    ASSUME PostTypeOK, NEW p \in Posts, post[p].phase # "unsent", WriteApplied(p)
    PROVE  PostTypeOK'
<1>1. AfterWrite(p) \in PostPhases
  BY DEF AfterWrite, PostPhases
<1>2. post' = [post EXCEPT ![p] = [post[p] EXCEPT !.phase = AfterWrite(p),
                                                  !.lost = FALSE]]
  BY DEF WriteApplied, PostTypeOK
<1>3. QED
  BY <1>1, <1>2, PostMoves

\* The relay's state keeps its types.  Stated apart from the invariant because
\* every other proof starts from it.
LEMMA TypeInvariance == TypeOK /\ [Next]_vars => TypeOK'
<1> USE NoneAssumption, MaxCrashesAssumption DEF TypeOK
<1> SUFFICES ASSUME TypeOK, [Next]_vars
             PROVE  TypeOK'
  OBVIOUS
<1>1. ASSUME NEW p \in Posts, NEW w \in Identities, NEW a \in Actions,
             Submit(p, w, a)
      PROVE  TypeOK'
  BY <1>1 DEF Submit, PostPhases
<1>2. ASSUME NEW p \in Posts, NEW old \in Posts, WriteUpdate(p, old)
      PROVE  TypeOK'
  <2>1. PostTypeOK'
    BY <1>2, WriteKeepsTypes DEF WriteUpdate, PostTypeOK
  <2>2. QED
    BY <1>2, <2>1 DEF WriteUpdate, PostTypeOK
<1>3. ASSUME NEW p \in Posts, WriteMiss(p)
      PROVE  TypeOK'
  BY <1>3 DEF WriteMiss, PostTo, PostPhases
<1>4. ASSUME NEW p \in Posts, WriteInsert(p)
      PROVE  TypeOK'
  <2>1. PostTypeOK'
    BY <1>4, WriteKeepsTypes DEF WriteInsert, PostTypeOK
  <2>2. QED
    BY <1>4, <2>1 DEF WriteInsert, PostTypeOK
<1>5. ASSUME NEW p \in Posts, WriteFails(p)
      PROVE  TypeOK'
  <2>1. CASE /\ post[p].phase \in {"writing", "inserting"}
             /\ post' = [post EXCEPT ![p].lost = TRUE]
    <3>1. post' = [post EXCEPT ![p] = [post[p] EXCEPT !.phase = post[p].phase,
                                                      !.lost = TRUE]]
      BY <2>1
    <3>2. PostTypeOK'
      BY <2>1, <3>1, PostMoves DEF PostTypeOK
    <3>3. QED
      BY <1>5, <3>2 DEF WriteFails, PostTypeOK
  <2>2. CASE PostTo(p, "unconfirmed")
    BY <1>5, <2>2 DEF WriteFails, PostTo, PostPhases
  <2>3. QED
    BY <1>5, <2>1, <2>2 DEF WriteFails
<1>6. ASSUME NEW p \in Posts, Emit(p)
      PROVE  TypeOK'
  <2>1. /\ post[p].phase = "written"
        /\ PostTo(p, "notifying") \/ PostTo(p, "answered")
        /\ \/ EmitTo(Keys, post[p].wk, p)
           \/ EmitTo(Wallets, post[p].wk, p)
           \/ UNCHANGED received
        /\ UNCHANGED <<up, crashes, store, forked, room, join>>
    BY <1>6 DEF Emit
  <2>2. PostTypeOK'
    <3>1. PICK phase \in {"notifying", "answered"} : PostTo(p, phase)
      BY <2>1
    <3>2. post' = [post EXCEPT ![p] = [post[p] EXCEPT !.phase = phase,
                                                      !.lost = post[p].lost]]
      BY <3>1 DEF PostTo
    <3>3. QED
      BY <2>1, <3>2, PostMoves DEF PostTypeOK, PostPhases
  <2>3. received' \in [Devices -> SUBSET Posts]
    BY <2>1 DEF EmitTo
  <2>4. QED
    BY <2>1, <2>2, <2>3 DEF PostTypeOK
<1>7. ASSUME NEW p \in Posts, Answer(p)
      PROVE  TypeOK'
  BY <1>7 DEF Answer, PostTo, PostPhases
<1>8. ASSUME NEW j \in Joins, NEW d \in Keys, NEW w \in Identities,
             KeyJoin(j, d, w)
      PROVE  TypeOK'
  BY <1>8 DEF KeyJoin, JoinPhases, Devices
<1>9. ASSUME NEW j \in Joins, NEW d \in Wallets, NEW w \in Identities,
             WalletJoin(j, d, w)
      PROVE  TypeOK'
  BY <1>9 DEF WalletJoin, JoinPhases, Devices
<1>10. ASSUME NEW j \in Joins, NEW d \in Devices, NEW w \in Identities,
              JoinRefused(j, d, w)
       PROVE  TypeOK'
  BY <1>10 DEF JoinRefused, JoinPhases
<1>11. ASSUME NEW j \in Joins, NEW p \in Posts, ReadFound(j, p)
       PROVE  TypeOK'
  <2>1. join[j].phase = "reading" /\ "replaying" \in JoinPhases
    BY <1>11 DEF ReadFound, JoinPhases
  <2>2. join[j].dev \in Devices /\ join[j].wk \in Identities
    BY <2>1
  <2> DEFINE found == [join[j] EXCEPT !.phase = "replaying", !.read = p]
  <2> DEFINE Record == [phase: JoinPhases, dev: Devices \cup {None},
                       wk: Identities \cup {None}, read: Posts \cup {None}]
  <2>3. join[j] \in Record
    OBVIOUS
  <2>4. found \in Record
    <3>1. "replaying" \in JoinPhases /\ p \in Posts \cup {None}
      BY <2>1
    <3> HIDE DEF TypeOK
    <3>2. QED
      BY <2>3, <3>1
  <2>5. found.dev \in Devices /\ found.wk \in Identities /\ found.read \in Posts
    BY <2>2, <2>4
  <2>6. join' = [join EXCEPT ![j] = found]
    BY <1>11 DEF ReadFound
  <2> HIDE DEF found
  <2>7. QED
    BY <1>11, <2>4, <2>5, <2>6 DEF ReadFound
<1>12. ASSUME NEW j \in Joins, ReadNothing(j)
       PROVE  TypeOK'
  BY <1>12 DEF ReadNothing, JoinPhases
<1>21. ASSUME NEW j \in Joins, ReadFails(j)
       PROVE  TypeOK'
  BY <1>21 DEF ReadFails, JoinPhases
<1>13. ASSUME NEW j \in Joins, Replay(j)
       PROVE  TypeOK'
  <2>1. received' \in [Devices -> SUBSET Posts]
    <3>1. join[j].read \in Posts
      BY <1>13 DEF Replay
    <3>2. CASE EmitTo(Keys, join[j].wk, join[j].read)
      BY <3>1, <3>2 DEF EmitTo
    <3>3. QED
      BY <1>13, <3>2 DEF Replay
  <2>2. /\ join[j].phase = "replaying"
        /\ join' = [join EXCEPT ![j].phase = "done"]
        /\ UNCHANGED <<up, crashes, post, store, forked, room>>
    BY <1>13 DEF Replay
  <2>3. QED
    BY <2>1, <2>2 DEF JoinPhases
<1>14. ASSUME NEW d \in Devices, NEW w \in Identities, Leave(d, w)
       PROVE  TypeOK'
  BY <1>14 DEF Leave
<1>15. ASSUME NEW d \in Devices, Disconnect(d)
       PROVE  TypeOK'
  BY <1>15 DEF Disconnect
<1>16. ASSUME NEW w \in Identities, NEW p \in Posts, Expire(w, p)
       PROVE  TypeOK'
  BY <1>16 DEF Expire
<1>17. CASE Crash
  <2>1. "cut" \in PostPhases /\ "cut" \in JoinPhases
    BY DEF PostPhases, JoinPhases
  <2>2. post' \in [Posts -> [phase: PostPhases, wk: Identities \cup {None},
                             action: Actions \cup {None}, lost: BOOLEAN]]
    <3>1. post' = [p \in Posts |->
                     IF post[p].phase \in {"written", "notifying"}
                       THEN [post[p] EXCEPT !.phase = "cut"]
                       ELSE IF post[p].phase \in {"writing", "inserting"}
                         THEN [post[p] EXCEPT !.lost = TRUE]
                         ELSE post[p]]
      BY <1>17 DEF Crash
    <3>2. ASSUME NEW p \in Posts
          PROVE  post'[p] \in [phase: PostPhases, wk: Identities \cup {None},
                               action: Actions \cup {None}, lost: BOOLEAN]
      <4>1. post[p] \in [phase: PostPhases, wk: Identities \cup {None},
                         action: Actions \cup {None}, lost: BOOLEAN]
        OBVIOUS
      <4>2. \/ post'[p] = [post[p] EXCEPT !.phase = "cut"]
            \/ post'[p] = [post[p] EXCEPT !.lost = TRUE]
            \/ post'[p] = post[p]
        BY <3>1
      <4> HIDE DEF TypeOK
      <4>3. QED
        BY <2>1, <4>1, <4>2
    <3>3. QED
      BY <3>1, <3>2
  <2>3. join' \in [Joins -> [phase: JoinPhases, dev: Devices \cup {None},
                             wk: Identities \cup {None},
                             read: Posts \cup {None}]]
    <3>1. join' = [j \in Joins |->
                    IF join[j].phase \in {"reading", "replaying"}
                      THEN [join[j] EXCEPT !.phase = "cut"]
                      ELSE join[j]]
      BY <1>17 DEF Crash
    <3>2. ASSUME NEW j \in Joins
          PROVE  join'[j] \in [phase: JoinPhases, dev: Devices \cup {None},
                               wk: Identities \cup {None},
                               read: Posts \cup {None}]
      BY <3>1, <2>1
    <3>3. QED
      BY <3>1, <3>2
  <2>4. \A p \in Posts : /\ post[p].phase = "unsent" => post'[p] = post[p]
                         /\ post'[p].phase = "unsent" => post[p].phase = "unsent"
                         /\ post'[p].wk = post[p].wk
                         /\ post'[p].action = post[p].action
    BY <1>17 DEF Crash
  <2>5. \A j \in Joins : /\ join'[j].phase = "idle" => join[j].phase = "idle"
                         /\ join[j].phase = "idle" => join'[j].phase = "idle"
                         /\ join'[j].phase = "replaying" => join[j].phase = "replaying"
                         /\ join'[j].dev = join[j].dev
                         /\ join'[j].wk = join[j].wk
                         /\ join'[j].read = join[j].read
    BY <1>17 DEF Crash
  <2>6. /\ up' \in BOOLEAN
        /\ crashes' \in 0..MaxCrashes
        /\ room' \in [Devices -> SUBSET Identities]
        /\ UNCHANGED <<store, forked, received>>
    <3>1. /\ up' = FALSE
          /\ crashes < MaxCrashes
          /\ crashes' = crashes + 1
          /\ room' = [d \in Devices |-> {}]
          /\ UNCHANGED <<store, forked, received>>
      BY <1>17 DEF Crash
    <3>2. crashes' \in 0..MaxCrashes
      BY <3>1
    <3>3. QED
      BY <3>1, <3>2
  <2>7. QED
    BY <2>2, <2>3, <2>4, <2>5, <2>6
<1>18. CASE Restart
  BY <1>18 DEF Restart
<1>19. CASE UNCHANGED vars
  BY <1>19 DEF vars
<1>20. QED
  BY <1>1, <1>2, <1>3, <1>4, <1>5, <1>6, <1>7, <1>8, <1>9, <1>10, <1>11,
     <1>12, <1>13, <1>14, <1>15, <1>16, <1>17, <1>18, <1>19, <1>21
     DEF Next, ClientStep, PostStep, JoinStep, DatabaseWrite

-----------------------------------------------------------------------------
(* What a step leaves alone *)

\* A post whose fields have been in the database keeps its identity and its
\* action, and stays such a post.
LEMMA AppliedStable ==
    ASSUME TypeOK, [Next]_vars, NEW q \in Posts, post[q].phase \in Applied
    PROVE  /\ post'[q].phase \in Applied
           /\ post'[q].wk = post[q].wk
           /\ post'[q].action = post[q].action
<1> USE DEF TypeOK, Applied
<1>1. ASSUME NEW p \in Posts, NEW w \in Identities, NEW a \in Actions,
             Submit(p, w, a)
      PROVE  post'[q] = post[q]
  BY <1>1 DEF Submit
<1>2. ASSUME NEW p \in Posts, DatabaseWrite(p)
      PROVE  post'[q] = post[q]
  BY <1>2 DEF DatabaseWrite, WriteUpdate, WriteMiss, WriteInsert, PostTo,
              WriteApplied
<1>3. ASSUME NEW p \in Posts, WriteFails(p) \/ Emit(p) \/ Answer(p)
      PROVE  /\ post'[q].phase \in Applied
             /\ post'[q].wk = post[q].wk
             /\ post'[q].action = post[q].action
  BY <1>3, SMTT(30) DEF WriteFails, Emit, Answer, PostTo
<1>4. CASE Crash
  BY <1>4 DEF Crash
<1>5. CASE Restart
  BY <1>5 DEF Restart
<1>6. ASSUME NEW j \in Joins, JoinStep(j)
      PROVE  UNCHANGED post
  BY <1>6 DEF JoinStep, ReadFound, ReadNothing, ReadFails, Replay
<1>7. CASE UNCHANGED post
  BY <1>7
<1>8. QED
  BY <1>1, <1>2, <1>3, <1>4, <1>5, <1>6, <1>7
     DEF Next, vars, ClientStep, PostStep, KeyJoin, WalletJoin, JoinRefused,
         Leave, Disconnect, Expire

\* An accepted join stays one, of the same device for the same identity.
LEMMA JoinStable ==
    ASSUME TypeOK, [Next]_vars, NEW i \in Joins,
           join[i].phase \notin {"idle", "refused"}
    PROVE  /\ join'[i].phase \notin {"idle", "refused"}
           /\ join'[i].dev = join[i].dev
           /\ join'[i].wk = join[i].wk
<1> USE DEF TypeOK
<1>1. ASSUME NEW j \in Joins, NEW d \in Devices, NEW w \in Identities,
             KeyJoin(j, d, w) \/ WalletJoin(j, d, w) \/ JoinRefused(j, d, w)
      PROVE  join'[i] = join[i]
  BY <1>1 DEF KeyJoin, WalletJoin, JoinRefused
<1>2. ASSUME NEW j \in Joins, JoinStep(j)
      PROVE  /\ join'[i].phase \notin {"idle", "refused"}
             /\ join'[i].dev = join[i].dev
             /\ join'[i].wk = join[i].wk
  <2>1. ASSUME NEW p \in Posts, ReadFound(j, p)
        PROVE  /\ join'[i].phase \notin {"idle", "refused"}
               /\ join'[i].dev = join[i].dev
               /\ join'[i].wk = join[i].wk
    BY <2>1 DEF ReadFound
  <2>2. CASE ReadNothing(j)
    BY <2>2 DEF ReadNothing
  <2>3. CASE ReadFails(j)
    BY <2>3 DEF ReadFails
  <2>4. CASE Replay(j)
    <3>1. join' = [join EXCEPT ![j].phase = "done"]
      BY <2>4 DEF Replay
    <3>2. QED
      BY <3>1
  <2>5. QED
    BY <1>2, <2>1, <2>2, <2>3, <2>4 DEF JoinStep
<1>3. CASE Crash
  BY <1>3 DEF Crash
<1>4. ASSUME NEW p \in Posts, PostStep(p)
      PROVE  UNCHANGED join
  BY <1>4 DEF PostStep, DatabaseWrite, WriteUpdate, WriteMiss, WriteInsert,
              WriteFails, Emit, Answer
<1>5. CASE UNCHANGED join
  BY <1>5
<1>6. QED
  BY <1>1, <1>2, <1>3, <1>4, <1>5
     DEF Next, vars, ClientStep, Submit, Leave, Disconnect, Expire, Restart,
         Devices

\* A document appears only where the upsert of its post is applied.
LEMMA StoreGrows ==
    ASSUME TypeOK, [Next]_vars, NEW v \in Identities, NEW q \in store'[v],
           q \notin store[v]
    PROVE  /\ q \in Posts
           /\ post'[q].phase = AfterWrite(q)
           /\ post'[q].wk = v
           /\ UNCHANGED <<up, room, received>>
<1> USE DEF TypeOK
<1>1. ASSUME NEW p \in Posts, DatabaseWrite(p)
      PROVE  /\ q \in Posts
             /\ post'[q].phase = AfterWrite(q)
             /\ post'[q].wk = v
             /\ UNCHANGED <<up, room, received>>
  <2>1. ASSUME NEW old \in Posts, WriteUpdate(p, old)
        PROVE  q = p /\ v = post[p].wk
    BY <2>1 DEF WriteUpdate
  <2>2. CASE WriteInsert(p)
    <3>1. q = p /\ v = post[p].wk
      BY <2>2 DEF WriteInsert
    <3>2. QED
      BY <2>2, <3>1 DEF WriteInsert, WriteApplied
  <2>3. CASE WriteMiss(p)
    BY <2>3 DEF WriteMiss
  <2>4. ASSUME NEW old \in Posts, WriteUpdate(p, old)
        PROVE  /\ q \in Posts
               /\ post'[q].phase = AfterWrite(q)
               /\ post'[q].wk = v
               /\ UNCHANGED <<up, room, received>>
    BY <2>1, <2>4 DEF WriteUpdate, WriteApplied
  <2>5. QED
    BY <1>1, <2>2, <2>3, <2>4 DEF DatabaseWrite
<1>2. ASSUME NEW w \in Identities, NEW p \in Posts, Expire(w, p)
      PROVE  FALSE
  BY <1>2 DEF Expire
<1>3. CASE UNCHANGED store
  BY <1>3
<1>4. QED
  BY <1>1, <1>2, <1>3
     DEF Next, vars, ClientStep, PostStep, JoinStep, Submit, WriteFails, Emit,
         Answer, KeyJoin, WalletJoin, JoinRefused, ReadFound, ReadNothing,
         ReadFails, Replay, Leave, Disconnect, Crash, Restart

-----------------------------------------------------------------------------
(* Where documents, reads and memberships come from *)

\* A stored document of an identity is that of an applied post for it.
LEMMA StoreJustifiedInvariance ==
    ASSUME TypeOK, StoreJustified, [Next]_vars
    PROVE  StoreJustified'
<1> SUFFICES ASSUME NEW v \in Identities, NEW q \in store'[v]
             PROVE  post'[q].phase \in Applied /\ post'[q].wk = v
  BY DEF StoreJustified
<1>1. CASE q \in store[v]
  <2>1. q \in Posts /\ post[q].phase \in Applied /\ post[q].wk = v
    BY <1>1 DEF TypeOK, StoreJustified
  <2>2. QED
    BY <2>1, AppliedStable
<1>2. CASE q \notin store[v]
  BY <1>2, StoreGrows DEF AfterWrite, Applied
<1>3. QED
  BY <1>1, <1>2

\* An identity has one document at most, except where two upserts raced.
LEMMA OneDocumentInvariance ==
    ASSUME TypeOK, OneDocument, [Next]_vars
    PROVE  OneDocument'
<1> USE DEF TypeOK, OneDocument
<1>1. ASSUME NEW p \in Posts, NEW old \in Posts, WriteUpdate(p, old)
      PROVE  OneDocument'
  BY <1>1 DEF WriteUpdate
<1>2. ASSUME NEW p \in Posts, WriteInsert(p)
      PROVE  OneDocument'
  BY <1>2 DEF WriteInsert
<1>3. ASSUME NEW w \in Identities, NEW p \in Posts, Expire(w, p)
      PROVE  OneDocument'
  BY <1>3 DEF Expire
<1>4. CASE UNCHANGED <<store, forked>>
  BY <1>4
<1>5. QED
  BY <1>1, <1>2, <1>3, <1>4
     DEF Next, vars, ClientStep, PostStep, DatabaseWrite, JoinStep, Submit,
         WriteMiss, WriteFails, Emit, Answer, KeyJoin, WalletJoin, JoinRefused,
         ReadFound, ReadNothing, ReadFails, Replay, Leave, Disconnect, Crash,
         Restart

\* What a join handler holds after its read was stored for its identity.
LEMMA ReadJustifiedInvariance ==
    ASSUME TypeOK, StoreJustified, ReadJustified, [Next]_vars
    PROVE  ReadJustified'
<1> SUFFICES ASSUME NEW i \in Joins, join'[i].phase = "replaying"
             PROVE  /\ post'[join'[i].read].phase \in Applied
                    /\ post'[join'[i].read].wk = join'[i].wk
  BY DEF ReadJustified
<1>1. \/ join'[i] = join[i]
      \/ \E p \in Posts : ReadFound(i, p)
  <2> USE DEF TypeOK
  <2>1. ASSUME NEW j \in Joins, NEW d \in Devices, NEW w \in Identities,
               KeyJoin(j, d, w) \/ WalletJoin(j, d, w) \/ JoinRefused(j, d, w)
        PROVE  join'[i] = join[i]
    BY <2>1 DEF KeyJoin, WalletJoin, JoinRefused
  <2>2. ASSUME NEW j \in Joins, ReadNothing(j) \/ ReadFails(j) \/ Replay(j)
        PROVE  join'[i] = join[i]
    BY <2>2 DEF ReadNothing, ReadFails, Replay
  <2>3. ASSUME NEW j \in Joins, NEW p \in Posts, ReadFound(j, p)
        PROVE  \/ join'[i] = join[i]
               \/ \E q \in Posts : ReadFound(i, q)
    BY <2>3 DEF ReadFound
  <2>4. CASE Crash
    BY <2>4 DEF Crash
  <2>5. CASE UNCHANGED join
    BY <2>5
  <2>6. QED
    BY <2>1, <2>2, <2>3, <2>4, <2>5
       DEF Next, vars, ClientStep, PostStep, DatabaseWrite, JoinStep, Submit,
           WriteUpdate, WriteMiss, WriteInsert, WriteFails, Emit, Answer,
           Leave, Disconnect, Expire, Restart, Devices
<1>2. CASE join'[i] = join[i]
  <2>1. /\ join[i].read \in Posts
        /\ post[join[i].read].phase \in Applied
        /\ post[join[i].read].wk = join[i].wk
    BY <1>2 DEF TypeOK, ReadJustified
  <2>2. QED
    BY <1>2, <2>1, AppliedStable
<1>3. ASSUME NEW p \in Posts, ReadFound(i, p)
      PROVE  /\ post'[join'[i].read].phase \in Applied
             /\ post'[join'[i].read].wk = join'[i].wk
  <2>1. /\ join'[i].read = p
        /\ join'[i].wk = join[i].wk
        /\ p \in store[join[i].wk]
        /\ join[i].wk \in Identities
        /\ post' = post
    BY <1>3 DEF ReadFound, TypeOK
  <2>2. QED
    BY <2>1 DEF StoreJustified
<1>4. QED
  BY <1>1, <1>2, <1>3

\* A device is in the room of an identity only once its join was accepted.
LEMMA RoomJustifiedInvariance ==
    ASSUME TypeOK, RoomJustified, [Next]_vars
    PROVE  RoomJustified'
<1> SUFFICES ASSUME NEW e \in Devices, NEW v \in room'[e]
             PROVE  \E i \in Joins : /\ join'[i].dev = e
                                     /\ join'[i].wk = v
                                     /\ join'[i].phase \notin {"idle", "refused"}
  BY DEF RoomJustified, JoinsOf
<1>1. CASE v \in room[e]
  <2>1. PICK i \in Joins : /\ join[i].dev = e
                           /\ join[i].wk = v
                           /\ join[i].phase \notin {"idle", "refused"}
    BY <1>1 DEF RoomJustified, JoinsOf
  <2>2. QED
    BY <2>1, JoinStable
<1>2. CASE v \notin room[e]
  <2> USE DEF TypeOK
  <2>1. ASSUME NEW j \in Joins, NEW d \in Devices, NEW w \in Identities,
               KeyJoin(j, d, w) \/ WalletJoin(j, d, w)
        PROVE  /\ join'[j].dev = e
               /\ join'[j].wk = v
               /\ join'[j].phase \notin {"idle", "refused"}
    <3>1. d = e /\ w = v
      BY <1>2, <2>1 DEF KeyJoin, WalletJoin
    <3>2. QED
      BY <2>1, <3>1 DEF KeyJoin, WalletJoin
  <2>2. CASE \/ \E j \in Joins, d \in Devices, w \in Identities :
                  JoinRefused(j, d, w)
             \/ \E d \in Devices, w \in Identities : Leave(d, w)
             \/ \E d \in Devices : Disconnect(d)
             \/ Crash
             \/ UNCHANGED room
    BY <1>2, <2>2 DEF JoinRefused, Leave, Disconnect, Crash
  <2>3. QED
    BY <2>1, <2>2
       DEF Next, vars, ClientStep, PostStep, DatabaseWrite, JoinStep, Submit,
           WriteUpdate, WriteMiss, WriteInsert, WriteFails, Emit, Answer,
           ReadFound, ReadNothing, ReadFails, Replay, Expire, Restart, Devices
<1>3. QED
  BY <1>1, <1>2

\* A process that has ended has no handler under way and no member in a room.
LEMMA DeadIsQuietInvariance ==
    ASSUME TypeOK, DeadIsQuiet, [Next]_vars
    PROVE  DeadIsQuiet'
<1> USE DEF TypeOK, DeadIsQuiet
<1>1. CASE up /\ ~Crash
  <2>1. up'
    BY <1>1 DEF Next, vars, ClientStep, PostStep, DatabaseWrite, JoinStep,
           Submit, WriteUpdate, WriteMiss, WriteInsert, WriteFails, Emit,
           Answer, KeyJoin, WalletJoin, JoinRefused, ReadFound, ReadNothing,
           ReadFails, Replay, Leave, Disconnect, Expire, Restart
  <2>2. QED
    BY <2>1
<1>2. CASE Crash
  BY <1>2 DEF Crash
<1>3. ASSUME ~up, NEW p \in Posts, DatabaseWrite(p)
      PROVE  DeadIsQuiet'
  BY <1>3, SMTT(30) DEF DatabaseWrite, WriteUpdate, WriteMiss, WriteInsert, PostTo,
              WriteApplied, AfterWrite
<1>4. CASE Restart
  BY <1>4 DEF Restart
<1>5. CASE UNCHANGED <<up, post, join, room>>
  BY <1>5
<1>6. QED
  BY <1>1, <1>2, <1>3, <1>4, <1>5
     DEF Next, vars, ClientStep, PostStep, JoinStep, Submit, WriteFails, Emit,
         Answer, KeyJoin, WalletJoin, JoinRefused, ReadFound, ReadNothing,
         ReadFails, Replay, Leave, Disconnect, Expire

-----------------------------------------------------------------------------
(* No key device misses the current request *)

\* One step per action.  The interesting ones are the emit, the join, and the
\* two steps of the join handler; the others neither settle q nor let e in.
LEMMA NoMissedActionInvariance ==
    ASSUME TypeOK, StoreJustified, OneDocument, DeadIsQuiet, NoMissedAction,
           [Next]_vars
    PROVE  NoMissedAction'
<1> SUFFICES ASSUME NEW e \in Keys, NEW v \in Identities, NEW q \in Posts,
                    v \in room'[e],
                    q \in store'[v],
                    post'[q].phase \in Settled,
                    post'[q].action \in ReplayedActions
             PROVE  q \in received'[e] \/ Excused(e, v, q)'
  BY DEF NoMissedAction
<1> e \in Devices
  BY DEF Devices
<1> USE DEF TypeOK
<1>1. q \in store[v]
  <2> SUFFICES ASSUME q \notin store[v]
               PROVE  FALSE
    OBVIOUS
  <2>1. post'[q].phase = AfterWrite(q) /\ UNCHANGED <<up, room>>
    BY StoreGrows
  <2>2. ~up
    BY <2>1 DEF AfterWrite, Settled
  <2>3. QED
    BY <2>1, <2>2 DEF DeadIsQuiet
<1>2. post[q].phase \in Applied /\ post[q].wk = v
  BY <1>1 DEF StoreJustified
<1>3. post'[q].wk = v /\ post'[q].action = post[q].action
  BY <1>2, AppliedStable
<1>4. ASSUME v \in room[e], post[q].phase \in Settled
      PROVE  q \in received[e] \/ Excused(e, v, q)
  BY <1>1, <1>3, <1>4 DEF NoMissedAction
<1>5. ASSUME v \in room[e], post[q].phase \in Settled,
             forked \subseteq forked',
             UNCHANGED <<join, received>>
      PROVE  q \in received'[e] \/ Excused(e, v, q)'
  BY <1>4, <1>5 DEF Excused, JoinsOf
<1>6. ASSUME NEW p \in Posts, NEW w \in Identities, NEW a \in Actions,
             Submit(p, w, a)
      PROVE  q \in received'[e] \/ Excused(e, v, q)'
  BY <1>2, <1>5, <1>6 DEF Submit, Applied
<1>7. ASSUME NEW p \in Posts, DatabaseWrite(p)
      PROVE  q \in received'[e] \/ Excused(e, v, q)'
  BY <1>2, <1>5, <1>7
     DEF DatabaseWrite, WriteUpdate, WriteMiss, WriteInsert, PostTo,
         WriteApplied, Applied
<1>8. ASSUME NEW p \in Posts, WriteFails(p)
      PROVE  q \in received'[e] \/ Excused(e, v, q)'
  BY <1>5, <1>8 DEF WriteFails, PostTo, Settled
<1>9. ASSUME NEW p \in Posts, Emit(p)
      PROVE  q \in received'[e] \/ Excused(e, v, q)'
  <2>1. UNCHANGED <<room, join, forked>> /\ received[e] \subseteq received'[e]
    BY <1>9 DEF Emit, EmitTo
  <2>2. CASE p = q
    <3>1. post[q].action \in KeyActions /\ post[q].action \notin WalletActions
      BY <1>3 DEF ReplayedActions, KeyActions, WalletActions
    <3>2. EmitTo(Keys, v, q)
      BY <1>2, <1>9, <2>2, <3>1 DEF Emit
    <3>3. QED
      BY <2>1, <3>2 DEF EmitTo
  <2>3. CASE p # q
    <3>1. post'[q] = post[q]
      BY <1>9, <2>3 DEF Emit, PostTo
    <3>2. QED
      BY <1>4, <2>1, <3>1 DEF Excused, JoinsOf
  <2>4. QED
    BY <2>2, <2>3
<1>10. ASSUME NEW p \in Posts, Answer(p)
       PROVE  q \in received'[e] \/ Excused(e, v, q)'
  BY <1>5, <1>10 DEF Answer, PostTo, Settled
<1>11. ASSUME NEW j \in Joins, NEW d \in Keys, NEW w \in Identities,
              KeyJoin(j, d, w)
       PROVE  q \in received'[e] \/ Excused(e, v, q)'
  <2>1. CASE d = e /\ w = v
    BY <1>11, <2>1 DEF KeyJoin, Excused, JoinsOf
  <2>2. CASE ~(d = e /\ w = v)
    <3>1. v \in room[e] /\ post[q].phase \in Settled
      BY <1>11, <2>2 DEF KeyJoin, Devices
    <3>2. q \in received[e] \/ Excused(e, v, q)
      BY <1>4, <3>1
    <3>3. \A i \in Joins : join[i].phase # "idle" => join'[i] = join[i]
      BY <1>11 DEF KeyJoin
    <3>4. UNCHANGED <<received, forked>>
      BY <1>11 DEF KeyJoin
    <3>5. QED
      BY <3>2, <3>3, <3>4 DEF Excused, JoinsOf
  <2>3. QED
    BY <2>1, <2>2
<1>12. ASSUME NEW j \in Joins, NEW d \in Devices, NEW w \in Identities,
              \/ d \in Wallets /\ WalletJoin(j, d, w)
              \/ JoinRefused(j, d, w)
       PROVE  q \in received'[e] \/ Excused(e, v, q)'
  <2>1. v \in room[e] /\ post[q].phase \in Settled
    BY <1>12, DevicesAssumption DEF WalletJoin, JoinRefused
  <2>2. q \in received[e] \/ Excused(e, v, q)
    BY <1>4, <2>1
  <2>3. \A i \in Joins : join[i].phase # "idle" => join'[i] = join[i]
    BY <1>12 DEF WalletJoin, JoinRefused
  <2>4. UNCHANGED <<received, forked>>
    BY <1>12 DEF WalletJoin, JoinRefused
  <2>5. QED
    BY <2>2, <2>3, <2>4 DEF Excused, JoinsOf
<1>13. ASSUME NEW j \in Joins, NEW p \in Posts, ReadFound(j, p)
       PROVE  q \in received'[e] \/ Excused(e, v, q)'
  <2>1. UNCHANGED <<post, room, received, forked>>
    BY <1>13 DEF ReadFound
  <2>2. q \in received[e] \/ Excused(e, v, q)
    BY <1>4, <2>1
  <2>3. /\ join[j].phase = "reading"
        /\ p \in store[join[j].wk]
        /\ join'[j].phase = "replaying"
        /\ join'[j].read = p
        /\ join'[j].dev = join[j].dev
        /\ join'[j].wk = join[j].wk
        /\ \A i \in Joins \ {j} : join'[i] = join[i]
    BY <1>13 DEF ReadFound
  <2>4. CASE j \in JoinsOf(e, v) /\ v \notin forked
    <3>1. p = q
      BY <1>1, <2>3, <2>4 DEF JoinsOf, OneDocument
    <3>2. QED
      BY <2>3, <2>4, <3>1 DEF Excused, JoinsOf
  <2>5. CASE ~(j \in JoinsOf(e, v) /\ v \notin forked)
    BY <2>1, <2>2, <2>3, <2>5 DEF Excused, JoinsOf
  <2>6. QED
    BY <2>4, <2>5
<1>14. ASSUME NEW j \in Joins, ReadNothing(j) \/ ReadFails(j)
       PROVE  q \in received'[e] \/ Excused(e, v, q)'
  <2>1. UNCHANGED <<post, room, received, forked>>
    BY <1>14 DEF ReadNothing, ReadFails
  <2>2. q \in received[e] \/ Excused(e, v, q)
    BY <1>4, <2>1
  <2>3. /\ join[j].phase = "reading"
        /\ join'[j].phase = "failed" \/ store[join[j].wk] = {}
        /\ join'[j].dev = join[j].dev
        /\ join'[j].wk = join[j].wk
        /\ \A i \in Joins \ {j} : join'[i] = join[i]
    BY <1>14 DEF ReadNothing, ReadFails
  <2>4. QED
    BY <1>1, <2>1, <2>2, <2>3 DEF Excused, JoinsOf
<1>15. ASSUME NEW j \in Joins, Replay(j)
       PROVE  q \in received'[e] \/ Excused(e, v, q)'
  <2>1. UNCHANGED <<post, room, forked>> /\ received[e] \subseteq received'[e]
    BY <1>15 DEF Replay, EmitTo
  <2>2. q \in received[e] \/ Excused(e, v, q)
    BY <1>4, <2>1
  <2>3. /\ join[j].phase = "replaying"
        /\ \A i \in Joins \ {j} : join'[i] = join[i]
    BY <1>15 DEF Replay
  <2>4. CASE j \in JoinsOf(e, v) /\ join[j].read = q
    <3>1. EmitTo(Keys, v, q)
      BY <1>3, <1>15, <2>1, <2>4 DEF Replay, JoinsOf
    <3>2. QED
      BY <2>1, <3>1 DEF EmitTo
  <2>5. CASE ~(j \in JoinsOf(e, v) /\ join[j].read = q)
    BY <2>1, <2>2, <2>3, <2>5 DEF Excused, JoinsOf
  <2>6. QED
    BY <2>4, <2>5
<1>16. ASSUME NEW d \in Devices, NEW w \in Identities, Leave(d, w)
       PROVE  q \in received'[e] \/ Excused(e, v, q)'
  BY <1>5, <1>16 DEF Leave
<1>17. ASSUME NEW d \in Devices, Disconnect(d)
       PROVE  q \in received'[e] \/ Excused(e, v, q)'
  BY <1>5, <1>17 DEF Disconnect
<1>18. ASSUME NEW w \in Identities, NEW p \in Posts, Expire(w, p)
       PROVE  q \in received'[e] \/ Excused(e, v, q)'
  BY <1>5, <1>18 DEF Expire
<1>19. CASE Crash
  BY <1>19 DEF Crash
<1>20. CASE Restart
  BY <1>20 DEF Restart, DeadIsQuiet
<1>21. CASE UNCHANGED vars
  BY <1>5, <1>21 DEF vars
<1>22. QED
  BY <1>6, <1>7, <1>8, <1>9, <1>10, <1>11, <1>12, <1>13, <1>14, <1>15, <1>16,
     <1>17, <1>18, <1>19, <1>20, <1>21
     DEF Next, ClientStep, PostStep, JoinStep, Devices

-----------------------------------------------------------------------------
(* What a device gets is justified *)

\* Every delivery is of an applied post, to a device whose join of the post's
\* identity was accepted, and of the kind of action that the device serves.
LEMMA DeliveryJustifiedInvariance ==
    ASSUME TypeOK, ReadJustified, RoomJustified, DeliveryJustified, [Next]_vars
    PROVE  DeliveryJustified'
<1> SUFFICES ASSUME NEW e \in Devices, NEW q \in received'[e]
             PROVE  /\ post'[q].phase \in Applied
                    /\ \E i \in Joins :
                          /\ join'[i].dev = e
                          /\ join'[i].wk = post'[q].wk
                          /\ join'[i].phase \notin {"idle", "refused"}
                    /\ post'[q].action \in IF e \in Keys THEN KeyActions
                                                         ELSE WalletActions
  BY DEF DeliveryJustified, JoinsOf
<1>1. \/ q \in received[e]
      \/ /\ q \in Posts
         /\ post[q].phase \in Applied
         /\ post[q].wk \in room[e]
         /\ post[q].action \in IF e \in Keys THEN KeyActions ELSE WalletActions
  <2> USE DEF TypeOK
  <2>1. ASSUME NEW p \in Posts, Emit(p), q \notin received[e]
        PROVE  /\ q \in Posts
               /\ post[q].phase \in Applied
               /\ post[q].wk \in room[e]
               /\ post[q].action \in IF e \in Keys THEN KeyActions
                                                   ELSE WalletActions
    <3>1. q = p /\ post[p].wk \in room[e] /\ post[p].phase = "written"
      BY <2>1 DEF Emit, EmitTo
    <3>2. CASE post[p].action \in KeyActions /\ EmitTo(Keys, post[p].wk, p)
      BY <2>1, <3>1, <3>2 DEF EmitTo, Applied
    <3>3. CASE post[p].action \in WalletActions /\ EmitTo(Wallets, post[p].wk, p)
      <4>1. e \in Wallets
        BY <2>1, <3>3 DEF EmitTo
      <4>2. e \notin Keys
        BY <4>1, DevicesAssumption
      <4>3. QED
        BY <3>1, <3>3, <4>2 DEF Applied
    <3>4. QED
      BY <2>1, <3>2, <3>3 DEF Emit
  <2>2. ASSUME NEW j \in Joins, Replay(j), q \notin received[e]
        PROVE  /\ q \in Posts
               /\ post[q].phase \in Applied
               /\ post[q].wk \in room[e]
               /\ post[q].action \in IF e \in Keys THEN KeyActions
                                                   ELSE WalletActions
    <3>1. /\ join[j].phase = "replaying"
          /\ q = join[j].read
          /\ join[j].wk \in room[e]
          /\ e \in Keys
          /\ post[q].action \in ReplayedActions
      BY <2>2 DEF Replay, EmitTo
    <3>2. post[q].action \in KeyActions
      BY <3>1 DEF ReplayedActions, KeyActions
    <3>3. QED
      BY <3>1, <3>2 DEF ReadJustified
  <2>3. CASE UNCHANGED received
    BY <2>3
  <2>4. QED
    BY <2>1, <2>2, <2>3
       DEF Next, vars, ClientStep, PostStep, DatabaseWrite, JoinStep, Submit,
           WriteUpdate, WriteMiss, WriteInsert, WriteFails, Answer, KeyJoin,
           WalletJoin, JoinRefused, ReadFound, ReadNothing, ReadFails, Leave,
           Disconnect, Expire, Crash, Restart
<1>2. /\ q \in Posts
      /\ post[q].phase \in Applied
      /\ post[q].action \in IF e \in Keys THEN KeyActions ELSE WalletActions
      /\ \E i \in Joins : /\ join[i].dev = e
                          /\ join[i].wk = post[q].wk
                          /\ join[i].phase \notin {"idle", "refused"}
  <2>1. CASE q \in received[e]
    BY <2>1 DEF TypeOK, DeliveryJustified, JoinsOf
  <2>2. CASE q \notin received[e]
    BY <1>1, <2>2 DEF RoomJustified, JoinsOf
  <2>3. QED
    BY <2>1, <2>2
<1>3. PICK i \in Joins : /\ join[i].dev = e
                         /\ join[i].wk = post[q].wk
                         /\ join[i].phase \notin {"idle", "refused"}
  BY <1>2
<1>4. QED
  BY <1>2, <1>3, AppliedStable, JoinStable

-----------------------------------------------------------------------------
(* The relay implements the mailbox *)

\* The listeners of the mailbox are the devices.
LEMMA ListenersAreDevices == Mailbox!Listeners = Devices
BY DEF Mailbox!Listeners, Devices

\* A step that leaves every request in its place, as far as the database has
\* got to know it, leaves the owners alone.
LEMMA OwnersKept ==
    ASSUME \A q \in Posts : /\ post'[q].phase \in Applied <=> post[q].phase \in Applied
                            /\ post'[q].wk = post[q].wk
    PROVE  OwnerOf' = OwnerOf
BY DEF OwnerOf

\* The database's application of a write puts the request into its mailbox.
LEMMA WritePuts ==
    ASSUME TypeOK, NEW p \in Posts,
           post[p].phase \in {"writing", "inserting"},
           WriteApplied(p)
    PROVE  /\ post[p].wk \in Identities
           /\ OwnerOf[p] = None
           /\ OwnerOf' = [OwnerOf EXCEPT ![p] = post[p].wk]
<1>1. post[p].wk \in Identities
  BY DEF TypeOK
<1>2. /\ post[p].phase \notin Applied
      /\ AfterWrite(p) \in Applied
  BY DEF Applied, AfterWrite
<1>3. \A q \in Posts : /\ post'[q].wk = post[q].wk
                       /\ q # p => post'[q] = post[q]
  BY DEF WriteApplied, TypeOK
<1>4. post'[p].phase = AfterWrite(p)
  BY DEF WriteApplied, TypeOK
<1>5. QED
  BY <1>1, <1>2, <1>3, <1>4 DEF OwnerOf

\* An emission to the room of an identity is a delivery of the mailbox.
LEMMA EmitDelivers ==
    ASSUME TypeOK, NEW p \in Posts, NEW servers \in {Keys, Wallets},
           post[p].phase \in Applied,
           EmitTo(servers, post[p].wk, p),
           OwnerOf' = OwnerOf, UNCHANGED <<store, room>>
    PROVE  Mailbox!Next
<1>1. OwnerOf[p] = post[p].wk /\ OwnerOf[p] # None
  BY NoneAssumption DEF OwnerOf, TypeOK, Applied
<1>2. Mailbox!Deliver(p, servers)
  BY <1>1, ListenersAreDevices DEF Mailbox!Deliver, EmitTo
<1>3. QED
  BY <1>2 DEF Mailbox!Next

\* Every step of the relay is a step of the mailbox, or one that devices do not
\* see.
LEMMA StepRefines ==
    ASSUME TypeOK, ReadJustified, [Next]_vars
    PROVE  [Mailbox!Next]_(Mailbox!mailVars)
<1> USE DEF Mailbox!mailVars
<1> DEFINE Hidden == UNCHANGED <<store, OwnerOf, room, received>>
<1>1. ASSUME NEW p \in Posts, NEW w \in Identities, NEW a \in Actions,
             Submit(p, w, a)
      PROVE  Hidden
  <2>1. OwnerOf' = OwnerOf
    BY <1>1 DEF Submit, TypeOK, OwnerOf, Applied
  <2>2. QED
    BY <1>1, <2>1 DEF Submit
<1>2. ASSUME NEW p \in Posts, NEW old \in Posts, WriteUpdate(p, old)
      PROVE  Mailbox!Next
  <2>1. Mailbox!Put(p, post[p].wk)
    <3>1. /\ OwnerOf[p] = None
          /\ OwnerOf' = [OwnerOf EXCEPT ![p] = post[p].wk]
      BY <1>2, WritePuts DEF WriteUpdate
    <3>2. {old} \in SUBSET store[post[p].wk] /\ \A x, y \in {old} : x = y
      BY <1>2 DEF WriteUpdate
    <3>3. /\ store' = [store EXCEPT ![post[p].wk] = (@ \ {old}) \cup {p}]
          /\ UNCHANGED <<room, received>>
      BY <1>2 DEF WriteUpdate
    <3>4. QED
      BY <3>1, <3>2, <3>3 DEF Mailbox!Put
  <2>2. QED
    BY <1>2, <2>1, WritePuts DEF WriteUpdate, Mailbox!Next
<1>3. ASSUME NEW p \in Posts, WriteMiss(p)
      PROVE  Hidden
  <2>1. OwnerOf' = OwnerOf
    BY <1>3 DEF WriteMiss, PostTo, TypeOK, OwnerOf, Applied
  <2>2. QED
    BY <1>3, <2>1 DEF WriteMiss
<1>4. ASSUME NEW p \in Posts, WriteInsert(p)
      PROVE  Mailbox!Next
  <2>1. Mailbox!Put(p, post[p].wk)
    <3>1. /\ OwnerOf[p] = None
          /\ OwnerOf' = [OwnerOf EXCEPT ![p] = post[p].wk]
      BY <1>4, WritePuts DEF WriteInsert
    <3>2. {} \in SUBSET store[post[p].wk] /\ \A x, y \in {} : x = y
      OBVIOUS
    <3>3. /\ store' = [store EXCEPT ![post[p].wk] = (@ \ {}) \cup {p}]
          /\ UNCHANGED <<room, received>>
      BY <1>4 DEF WriteInsert
    <3>4. QED
      BY <3>1, <3>2, <3>3 DEF Mailbox!Put
  <2>2. QED
    BY <1>4, <2>1, WritePuts DEF WriteInsert, Mailbox!Next
<1>5. ASSUME NEW p \in Posts, WriteFails(p)
      PROVE  Hidden
  <2>1. OwnerOf' = OwnerOf
    <3>1. CASE /\ post[p].phase \in {"writing", "inserting"}
               /\ post' = [post EXCEPT ![p].lost = TRUE]
      BY <3>1 DEF TypeOK, OwnerOf, Applied
    <3>2. CASE post[p].phase = "written" /\ PostTo(p, "unconfirmed")
      BY <3>2 DEF PostTo, TypeOK, OwnerOf, Applied
    <3>3. QED
      BY <1>5, <3>1, <3>2 DEF WriteFails
  <2>2. QED
    BY <1>5, <2>1 DEF WriteFails
<1>6. ASSUME NEW p \in Posts, Emit(p)
      PROVE  Mailbox!Next \/ Hidden
  <2>1. OwnerOf' = OwnerOf
    <3>1. PostTo(p, "notifying") \/ PostTo(p, "answered")
      BY <1>6 DEF Emit
    <3>2. post[p].phase = "written"
      BY <1>6 DEF Emit
    <3>3. \A q \in Posts : /\ post'[q].phase \in Applied <=> post[q].phase \in Applied
                           /\ post'[q].wk = post[q].wk
      <4>1. \A q \in Posts : q # p => post'[q] = post[q]
        BY <3>1 DEF PostTo, TypeOK
      <4>2. post'[p].phase \in {"notifying", "answered"} /\ post'[p].wk = post[p].wk
        BY <3>1 DEF PostTo, TypeOK
      <4>3. QED
        BY <3>2, <4>1, <4>2 DEF Applied
    <3>4. QED
      BY <3>3, OwnersKept
  <2>2. post[p].phase \in Applied /\ UNCHANGED <<store, room>>
    BY <1>6 DEF Emit, Applied
  <2>3. CASE EmitTo(Keys, post[p].wk, p)
    BY <2>1, <2>2, <2>3, EmitDelivers
  <2>4. CASE EmitTo(Wallets, post[p].wk, p)
    BY <2>1, <2>2, <2>4, EmitDelivers
  <2>5. CASE UNCHANGED received
    BY <2>1, <2>2, <2>5
  <2>6. QED
    BY <1>6, <2>3, <2>4, <2>5 DEF Emit
<1>7. ASSUME NEW p \in Posts, Answer(p)
      PROVE  Hidden
  <2>1. OwnerOf' = OwnerOf
    BY <1>7 DEF Answer, PostTo, TypeOK, OwnerOf, Applied
  <2>2. QED
    BY <1>7, <2>1 DEF Answer
<1>8. ASSUME NEW j \in Joins, NEW d \in Devices, NEW w \in Identities,
             room' = [room EXCEPT ![d] = @ \cup {w}],
             UNCHANGED <<post, store, received>>
      PROVE  Mailbox!Next
  <2>1. Mailbox!Enter(d, w)
    BY <1>8 DEF Mailbox!Enter, OwnerOf
  <2>2. QED
    BY <2>1, ListenersAreDevices DEF Mailbox!Next
<1>9. ASSUME NEW d \in Devices, NEW rest \in SUBSET room[d],
             room' = [room EXCEPT ![d] = rest],
             UNCHANGED <<post, store, received>>
      PROVE  Mailbox!Next
  <2>1. Mailbox!Quit(d)
    BY <1>9 DEF Mailbox!Quit, OwnerOf
  <2>2. QED
    BY <2>1, ListenersAreDevices DEF Mailbox!Next
<1>10. ASSUME NEW j \in Joins, JoinStep(j)
       PROVE  Mailbox!Next \/ Hidden
  <2>1. CASE UNCHANGED <<post, store, room, received>>
    BY <2>1 DEF OwnerOf
  <2>2. CASE Replay(j)
    <3>1. /\ join[j].read \in Posts
          /\ post[join[j].read].phase \in Applied
          /\ post[join[j].read].wk = join[j].wk
      BY <2>2 DEF Replay, TypeOK, ReadJustified
    <3>2. OwnerOf' = OwnerOf /\ UNCHANGED <<store, room>>
      BY <2>2 DEF Replay, OwnerOf
    <3>3. CASE EmitTo(Keys, join[j].wk, join[j].read)
      BY <3>1, <3>2, <3>3, EmitDelivers
    <3>4. CASE UNCHANGED received
      BY <3>2, <3>4
    <3>5. QED
      BY <2>2, <3>3, <3>4 DEF Replay
  <2>3. QED
    BY <1>10, <2>1, <2>2 DEF JoinStep, ReadFound, ReadNothing, ReadFails
<1>11. ASSUME NEW w \in Identities, NEW p \in Posts, Expire(w, p)
       PROVE  Mailbox!Next
  <2>1. Mailbox!Remove(w, p)
    BY <1>11 DEF Expire, Mailbox!Remove, OwnerOf
  <2>2. QED
    BY <2>1 DEF Mailbox!Next
<1>12. CASE Crash
  <2>1. OwnerOf' = OwnerOf
    BY <1>12 DEF Crash, TypeOK, OwnerOf, Applied
  <2>2. Mailbox!Interrupt
    BY <1>12, <2>1, ListenersAreDevices DEF Crash, Mailbox!Interrupt
  <2>3. QED
    BY <2>2 DEF Mailbox!Next
<1>13. CASE Restart
  <2>1. OwnerOf' = OwnerOf
    BY <1>13 DEF Restart, OwnerOf
  <2>2. QED
    BY <1>13, <2>1 DEF Restart
<1>14. CASE UNCHANGED vars
  BY <1>14 DEF vars, OwnerOf
<1>15. CASE ClientStep
  <2>1. ASSUME NEW j \in Joins, NEW d \in Keys, NEW w \in Identities,
               KeyJoin(j, d, w)
        PROVE  Mailbox!Next
    BY <1>8, <2>1 DEF KeyJoin, Devices
  <2>2. ASSUME NEW j \in Joins, NEW d \in Wallets, NEW w \in Identities,
               WalletJoin(j, d, w)
        PROVE  Mailbox!Next
    BY <1>8, <2>2 DEF WalletJoin, Devices
  <2>3. ASSUME NEW j \in Joins, NEW d \in Devices, NEW w \in Identities,
               JoinRefused(j, d, w)
        PROVE  Mailbox!Next
    BY <1>9, <2>3 DEF JoinRefused
  <2>4. ASSUME NEW d \in Devices, NEW w \in Identities, Leave(d, w)
        PROVE  Mailbox!Next
    <3>1. room' = [room EXCEPT ![d] = room[d] \ {w}]
      BY <2>4 DEF Leave
    <3>2. room[d] \ {w} \in SUBSET room[d]
      OBVIOUS
    <3>3. QED
      BY <1>9, <2>4, <3>1, <3>2 DEF Leave
  <2>5. ASSUME NEW d \in Devices, Disconnect(d)
        PROVE  Mailbox!Next
    BY <1>9, <2>5 DEF Disconnect
  <2>6. QED
    BY <1>1, <1>15, <2>1, <2>2, <2>3, <2>4, <2>5 DEF ClientStep
<1>16. CASE \E p \in Posts : PostStep(p)
  BY <1>2, <1>3, <1>4, <1>5, <1>6, <1>7, <1>16 DEF PostStep, DatabaseWrite
<1>17. QED
  BY <1>10, <1>11, <1>12, <1>13, <1>14, <1>15, <1>16 DEF Next

-----------------------------------------------------------------------------
(* The theorems *)

\* The inductive invariant holds in every reachable state: the documents, the
\* rooms and the reads of the relay come from where they should.
THEOREM Invariance == Spec => []IInv
<1>1. Init => IInv
  BY NoneAssumption, MaxCrashesAssumption
     DEF Init, IInv, TypeOK, StoreJustified, OneDocument, ReadJustified,
         RoomJustified, DeadIsQuiet, NoMissedAction, DeliveryJustified,
         PostPhases, JoinPhases
<1>2. IInv /\ [Next]_vars => IInv'
  BY TypeInvariance, StoreJustifiedInvariance, OneDocumentInvariance,
     ReadJustifiedInvariance, RoomJustifiedInvariance, DeadIsQuietInvariance,
     NoMissedActionInvariance, DeliveryJustifiedInvariance
     DEF IInv
<1>3. QED
  BY <1>1, <1>2, PTL DEF Spec

\* The types of the relay's state are kept, for all parameters.
THEOREM TypeCorrectness == Spec => []TypeOK
<1>1. IInv => TypeOK
  BY DEF IInv
<1>2. QED
  BY <1>1, Invariance, PTL

\* No key device in a room misses the request stored for the identity: the
\* order of socket.join and the read in the join handler, and of the write
\* and the emit in postAction, leaves no gap between them.
THEOREM NothingMissed == Spec => []NoMissedAction
<1>1. IInv => NoMissedAction
  BY DEF IInv
<1>2. QED
  BY <1>1, Invariance, PTL

\* No device gets an action of another identity, of the other kind of device,
\* or one that the database has never had.
THEOREM DeliveriesJustified == Spec => []DeliveryJustified
<1>1. IInv => DeliveryJustified
  BY DEF IInv
<1>2. QED
  BY <1>1, Invariance, PTL

\* The relay implements the mailbox of ActionMailbox: the interleaved handlers,
\* the two-step upsert of an index that is not unique, lost commands and the
\* death of the process show nothing to the devices but a mailbox.
THEOREM RelayIsMailbox == Spec => ImplementsMailbox
<1>1. Init => Mailbox!Init
  BY ListenersAreDevices DEF Init, Mailbox!Init, OwnerOf, Applied
<1>2. IInv /\ [Next]_vars => [Mailbox!Next]_(Mailbox!mailVars)
  BY StepRefines DEF IInv
<1>3. QED
  BY <1>1, <1>2, Invariance, PTL DEF Spec, ImplementsMailbox, Mailbox!Spec

=============================================================================
