---------------------------- MODULE ActionRelay ----------------------------
(***************************************************************************)
(* The action relay: the path an action takes from the device that posts   *)
(* it (POST /v1/action), through the v1action collection, to the devices   *)
(* of the same wallet-key identity that listen on the key and the wallet   *)
(* sockets.                                                                *)
(*                                                                         *)
(* The relay is one Node.js process.  A handler runs without interruption  *)
(* from one await to the next, so a handler is a sequence of steps whose   *)
(* boundaries are its awaits and the database commands behind them; the    *)
(* steps of different handlers interleave.  The database outlives the      *)
(* process.                                                                *)
(*                                                                         *)
(* A document of v1action is represented by the post whose fields it       *)
(* holds: every update sets all the fields that identify the action.       *)
(***************************************************************************)
EXTENDS Naturals, FiniteSets

CONSTANTS
    Identities,   \* wallet-key identities (rooms, keys of v1action)
    Keys,         \* SSP Key devices, clients of the key socket server
    Wallets,      \* SSP Wallet clients, clients of the wallet socket server
    Posts,        \* the POST /v1/action requests of a behaviour
    Joins,        \* the 'join' events of a behaviour
    Actions,      \* the action names the clients post
    None,         \* no value: not sent yet, or no document has been read
    MaxCrashes   \* bound: deaths of the process in a behaviour

ASSUME NoneAssumption == None \notin Posts \cup Identities \cup Keys \cup Wallets
ASSUME DevicesAssumption == Keys \cap Wallets = {}
ASSUME MaxCrashesAssumption == MaxCrashes \in Nat

\* The actions postAction emits to the key room (and pushes to the device).
KeyActions ==
    {"tx", "publicnoncesrequest", "evmsigningrequest", "wksigningrequest",
     "enterprisevaultxpub", "enterprisevaultsign", "enterprisekeynoncesync",
     "enterprisefluxnodestart", "recoveryrequest", "chainsyncrequest"}

\* The actions postAction emits to the wallet room.
WalletActions ==
    {"txrejected", "txid", "publicnoncesrejected", "publicnonces",
     "evmsigningrejected", "evmsigned", "wksigningrejected", "wksigned",
     "enterprisevaultxpubrejected", "enterprisevaultxpubsigned",
     "enterprisevaultsignrejected", "enterprisevaultsigned",
     "enterprisekeynoncesynced", "enterprisekeynoncesyncrejected",
     "enterprisefluxnodestarted", "recoveryresponse", "recoverydenied"}

\* The actions the key server's join handler sends again.
ReplayedActions ==
    {"tx", "publicnoncesrequest", "evmsigningrequest", "wksigningrequest",
     "enterprisevaultxpub", "enterprisevaultsign", "enterprisefluxnodestart",
     "recoveryrequest", "chainsyncrequest"}

Devices == Keys \cup Wallets

VARIABLES
    up,         \* the process runs
    crashes,    \* how often it died
    post,       \* post[p]: phase of the handler of p, its identity and action,
                \* and whether its handler ended while the upsert was under way
    store,      \* store[w]: the v1action documents of identity w
    forked,     \* history: identities that at some time had two documents
    room,       \* room[d]: the rooms device d is in on its present connection
    join,       \* join[j]: phase of the join handler j, its device and room,
                \* and the document it read
    received    \* history: received[d] is what was ever emitted to device d

vars == <<up, crashes, post, store, forked, room, join, received>>

\* unsent      not posted yet
\* writing     the upsert is at the database, which has not matched it yet
\* inserting   the upsert matched no document and is about to insert one
\* written     the database applied the upsert, the handler has not resumed
\* notifying   emitted to the key room, awaiting the push notification
\* answered    200
\* unconfirmed the write was applied and its await threw (400), or it was
\*             applied while a process ran and nobody awaited it any more
\* cut         the write was applied and the process died with the handler, or
\*             the other way round and no process ran
PostPhases == {"unsent", "writing", "inserting", "written", "notifying",
               "answered", "unconfirmed", "cut"}

\* The phases of a post whose fields have been in the database.
Applied == {"written", "notifying", "answered", "unconfirmed", "cut"}

\* idle        not sent yet
\* reading     in the room, awaiting socketService.getAction
\* replaying   the database answered, the handler has not resumed
\* done        finished, with or without sending a document
\* failed      getAction threw for another reason than a missing document
\* refused     refused, and the connection closed
\* cut         the process died with the handler
JoinPhases == {"idle", "reading", "replaying", "done", "failed", "refused",
               "cut"}

TypeOK ==
    /\ up \in BOOLEAN
    /\ crashes \in 0..MaxCrashes
    /\ post \in [Posts -> [phase: PostPhases, wk: Identities \cup {None},
                           action: Actions \cup {None}, lost: BOOLEAN]]
    /\ \A p \in Posts : post[p].phase # "unsent" =>
          post[p].wk \in Identities /\ post[p].action \in Actions
    /\ store \in [Identities -> SUBSET Posts]
    /\ forked \in SUBSET Identities
    /\ room \in [Devices -> SUBSET Identities]
    /\ join \in [Joins -> [phase: JoinPhases, dev: Devices \cup {None},
                           wk: Identities \cup {None},
                           read: Posts \cup {None}]]
    /\ \A j \in Joins : join[j].phase # "idle" =>
          join[j].dev \in Devices /\ join[j].wk \in Identities
    /\ \A j \in Joins : join[j].phase = "replaying" => join[j].read \in Posts
    /\ received \in [Devices -> SUBSET Posts]

Init ==
    /\ up = TRUE
    /\ crashes = 0
    /\ post = [p \in Posts |-> [phase |-> "unsent", wk |-> None, action |-> None,
                                lost |-> FALSE]]
    /\ store = [w \in Identities |-> {}]
    /\ forked = {}
    /\ room = [d \in Devices |-> {}]
    /\ join = [j \in Joins |-> [phase |-> "idle", dev |-> None, wk |-> None,
                                read |-> None]]
    /\ received = [d \in Devices |-> {}]

-----------------------------------------------------------------------------
(* POST /v1/action *)

PostTo(p, phase) == post' = [post EXCEPT ![p].phase = phase]

\* Socket.IO's `server.to(w).emit(...)`: the message goes to the sockets of
\* that server that are in the room when it is called.
EmitTo(servers, w, p) ==
    received' = [d \in Devices |-> IF d \in servers /\ w \in room[d]
                                     THEN received[d] \cup {p}
                                     ELSE received[d]]

\* Mutant: the identity is not put into the data.
SubmitWithoutIdentity(p, w, a) ==
    /\ up
    /\ post[p].phase = "unsent"
    /\ post' = [post EXCEPT ![p].phase = "writing", ![p].action = a]
    /\ UNCHANGED <<up, crashes, store, forked, room, join, received>>

\* A valid request reaches postAction, which sends the upsert.
Submit(p, w, a) ==
    /\ up
    /\ post[p].phase = "unsent"
    /\ post' = [post EXCEPT ![p] = [phase |-> "writing", wk |-> w, action |-> a,
                                    lost |-> FALSE]]
    /\ UNCHANGED <<up, crashes, store, forked, room, join, received>>

\* The database applied the upsert of p.  The handler resumes only if it still
\* awaits it.
AfterWrite(p) ==
    IF up THEN IF post[p].lost THEN "unconfirmed" ELSE "written" ELSE "cut"

WriteApplied(p) ==
    post' = [post EXCEPT ![p].phase = AfterWrite(p), ![p].lost = FALSE]

\* The upsert finds a document of the identity and sets its fields.
WriteUpdate(p, old) ==
    LET w == post[p].wk IN
    /\ post[p].phase = "writing"
    /\ old \in store[w]
    /\ store' = [store EXCEPT ![w] = (@ \ {old}) \cup {p}]
    /\ WriteApplied(p)
    /\ UNCHANGED <<up, crashes, forked, room, join, received>>

\* The upsert finds none.  v1action has no unique index, so nothing stops
\* another upsert from inserting before this one does.
WriteMiss(p) ==
    /\ post[p].phase = "writing"
    /\ store[post[p].wk] = {}
    /\ PostTo(p, "inserting")
    /\ UNCHANGED <<up, crashes, store, forked, room, join, received>>

WriteInsert(p) ==
    LET w == post[p].wk IN
    /\ post[p].phase = "inserting"
    /\ store' = [store EXCEPT ![w] = @ \cup {p}]
    /\ forked' = IF store[w] = {} THEN forked ELSE forked \cup {w}
    /\ WriteApplied(p)
    /\ UNCHANGED <<up, crashes, room, join, received>>

\* The await of the upsert throws, after the database applied it or before: it
\* may then do so at any later time, or never.  The catch block answers 400 and
\* nothing is emitted.
WriteFails(p) ==
    /\ up
    /\ \/ /\ post[p].phase \in {"writing", "inserting"}
          /\ ~post[p].lost
          /\ post' = [post EXCEPT ![p].lost = TRUE]
       \/ /\ post[p].phase = "written"
          /\ PostTo(p, "unconfirmed")
    /\ UNCHANGED <<up, crashes, store, forked, room, join, received>>

\* Mutant: the upsert is not awaited before the emit.
EmitUnawaited(p) ==
    LET w == post[p].wk
        a == post[p].action
    IN
    /\ up
    /\ post[p].phase \in {"writing", "written"}
    /\ ~post[p].lost
    /\ \/ /\ a \in KeyActions
          /\ EmitTo(Keys, w, p)
          /\ PostTo(p, "notifying")
       \/ /\ a \in WalletActions
          /\ EmitTo(Wallets, w, p)
          /\ PostTo(p, "answered")
       \/ /\ a \notin KeyActions \cup WalletActions
          /\ PostTo(p, "answered")
          /\ UNCHANGED received
    /\ UNCHANGED <<up, crashes, store, forked, room, join>>

\* The handler resumes after the upsert: a key action goes to the key room and
\* is pushed, a wallet action goes to the wallet room, any other to nobody.
Emit(p) ==
    LET w == post[p].wk
        a == post[p].action
    IN
    /\ up
    /\ post[p].phase = "written"
    /\ \/ /\ a \in KeyActions
          /\ EmitTo(Keys, w, p)
          /\ PostTo(p, "notifying")
       \/ /\ a \in WalletActions
          /\ EmitTo(Wallets, w, p)
          /\ PostTo(p, "answered")
       \/ /\ a \notin KeyActions \cup WalletActions
          /\ PostTo(p, "answered")
          /\ UNCHANGED received
    /\ UNCHANGED <<up, crashes, store, forked, room, join>>

\* The push notification is done or has failed; either way the answer is 200.
Answer(p) ==
    /\ up
    /\ post[p].phase = "notifying"
    /\ PostTo(p, "answered")
    /\ UNCHANGED <<up, crashes, store, forked, room, join, received>>

-----------------------------------------------------------------------------
(* The socket servers *)

\* Mutant: the key server, like the wallet server, sends nothing again.
KeyJoinWithoutReplay(j, d, w) ==
    /\ up
    /\ join[j].phase = "idle"
    /\ room' = [room EXCEPT ![d] = @ \cup {w}]
    /\ join' = [join EXCEPT ![j] = [phase |-> "done", dev |-> d, wk |-> w,
                                    read |-> None]]
    /\ UNCHANGED <<up, crashes, post, store, forked, received>>

\* A valid 'join' on the key server: the room is joined before the read.
KeyJoin(j, d, w) ==
    /\ up
    /\ join[j].phase = "idle"
    /\ room' = [room EXCEPT ![d] = @ \cup {w}]
    /\ join' = [join EXCEPT ![j] = [phase |-> "reading", dev |-> d, wk |-> w,
                                    read |-> None]]
    /\ UNCHANGED <<up, crashes, post, store, forked, received>>

\* A valid 'join' on the wallet server: no action is sent again.
WalletJoin(j, d, w) ==
    /\ up
    /\ join[j].phase = "idle"
    /\ room' = [room EXCEPT ![d] = @ \cup {w}]
    /\ join' = [join EXCEPT ![j] = [phase |-> "done", dev |-> d, wk |-> w,
                                    read |-> None]]
    /\ UNCHANGED <<up, crashes, post, store, forked, received>>

\* Mutant: the handler of a refused join does not return.
JoinRefusedLate(j, d, w) ==
    /\ up
    /\ join[j].phase = "idle"
    /\ room' = [room EXCEPT ![d] = @ \cup {w}]
    /\ join' = [join EXCEPT ![j] = [phase |-> "refused", dev |-> d, wk |-> w,
                                    read |-> None]]
    /\ UNCHANGED <<up, crashes, post, store, forked, received>>

\* A 'join' whose identity or signature is not accepted closes the socket,
\* which leaves every room it was in.
JoinRefused(j, d, w) ==
    /\ up
    /\ join[j].phase = "idle"
    /\ room' = [room EXCEPT ![d] = {}]
    /\ join' = [join EXCEPT ![j] = [phase |-> "refused", dev |-> d, wk |-> w,
                                    read |-> None]]
    /\ UNCHANGED <<up, crashes, post, store, forked, received>>

\* The database answers the join handler's read with a document; findOne has
\* no sort, so with two documents it may be either.
ReadFound(j, p) ==
    /\ up
    /\ join[j].phase = "reading"
    /\ p \in store[join[j].wk]
    /\ join' = [join EXCEPT ![j].phase = "replaying", ![j].read = p]
    /\ UNCHANGED <<up, crashes, post, store, forked, room, received>>

ReadNothing(j) ==
    /\ up
    /\ join[j].phase = "reading"
    /\ store[join[j].wk] = {}
    /\ join' = [join EXCEPT ![j].phase = "done"]
    /\ UNCHANGED <<up, crashes, post, store, forked, room, received>>

\* The read throws; the catch logs it and the handler returns.
ReadFails(j) ==
    /\ up
    /\ join[j].phase = "reading"
    /\ join' = [join EXCEPT ![j].phase = "failed"]
    /\ UNCHANGED <<up, crashes, post, store, forked, room, received>>

\* The handler resumes and sends what it read to the whole room.
Replay(j) ==
    LET p == join[j].read IN
    /\ up
    /\ join[j].phase = "replaying"
    /\ IF post[p].action \in ReplayedActions
         THEN EmitTo(Keys, join[j].wk, p)
         ELSE UNCHANGED received
    /\ join' = [join EXCEPT ![j].phase = "done"]
    /\ UNCHANGED <<up, crashes, post, store, forked, room>>

Leave(d, w) ==
    /\ up
    /\ w \in room[d]
    /\ room' = [room EXCEPT ![d] = @ \ {w}]
    /\ UNCHANGED <<up, crashes, post, store, forked, join, received>>

\* The connection is lost; the handlers it started go on.
Disconnect(d) ==
    /\ up
    /\ room[d] # {}
    /\ room' = [room EXCEPT ![d] = {}]
    /\ UNCHANGED <<up, crashes, post, store, forked, join, received>>

-----------------------------------------------------------------------------
(* The database's TTL monitor, and the process *)

\* The TTL index removes a document; how old it is is not modelled here.
Expire(w, p) ==
    /\ p \in store[w]
    /\ store' = [store EXCEPT ![w] = @ \ {p}]
    /\ UNCHANGED <<up, crashes, post, forked, room, join, received>>

\* The process dies: handlers and connections are gone, what the database has
\* accepted stays, and the upserts under way may be applied at any later time.
Crash ==
    /\ up
    /\ crashes < MaxCrashes
    /\ up' = FALSE
    /\ post' = [p \in Posts |->
                  IF post[p].phase \in {"written", "notifying"}
                    THEN [post[p] EXCEPT !.phase = "cut"]
                    ELSE IF post[p].phase \in {"writing", "inserting"}
                      THEN [post[p] EXCEPT !.lost = TRUE]
                      ELSE post[p]]
    /\ room' = [d \in Devices |-> {}]
    /\ join' = [j \in Joins |->
                  IF join[j].phase \in {"reading", "replaying"}
                    THEN [join[j] EXCEPT !.phase = "cut"]
                    ELSE join[j]]
    /\ crashes' = crashes + 1
    /\ UNCHANGED <<store, forked, received>>

\* The process starts.
Restart ==
    /\ ~up
    /\ up' = TRUE
    /\ UNCHANGED <<crashes, post, store, forked, room, join, received>>

-----------------------------------------------------------------------------

DatabaseWrite(p) ==
    \/ \E old \in Posts : WriteUpdate(p, old)
    \/ WriteMiss(p)
    \/ WriteInsert(p)

PostStep(p) ==
    \/ DatabaseWrite(p)
    \/ WriteFails(p)
    \/ Emit(p)
    \/ Answer(p)

JoinStep(j) ==
    \/ \E p \in Posts : ReadFound(j, p)
    \/ ReadNothing(j)
    \/ ReadFails(j)
    \/ Replay(j)

ClientStep ==
    \/ \E p \in Posts, w \in Identities, a \in Actions : Submit(p, w, a)
    \/ \E j \in Joins, d \in Keys, w \in Identities : KeyJoin(j, d, w)
    \/ \E j \in Joins, d \in Wallets, w \in Identities : WalletJoin(j, d, w)
    \/ \E j \in Joins, d \in Devices, w \in Identities : JoinRefused(j, d, w)
    \/ \E d \in Devices, w \in Identities : Leave(d, w)
    \/ \E d \in Devices : Disconnect(d)

Next ==
    \/ ClientStep
    \/ \E p \in Posts : PostStep(p)
    \/ \E j \in Joins : JoinStep(j)
    \/ \E w \in Identities, p \in Posts : Expire(w, p)
    \/ Crash
    \/ Restart

Spec == Init /\ [][Next]_vars

\* Every command the relay awaits is answered in the end, every handler
\* resumes, and a dead process is restarted.  Clients, the TTL monitor,
\* crashes and commands that nobody awaits are under no obligation.
Fairness ==
    /\ \A p \in Posts : WF_vars(~post[p].lost /\ PostStep(p))
    /\ \A j \in Joins : WF_vars(JoinStep(j))
    /\ WF_vars(Restart)

FairSpec == Spec /\ Fairness

-----------------------------------------------------------------------------
(* Correctness *)

\* The join handlers of device d for identity w.
JoinsOf(d, w) == {j \in Joins : join[j].dev = d /\ join[j].wk = w}

\* The handler of p has emitted, or died with the process: whoever is in the
\* room now will not get p from postAction any more.
Settled == {"notifying", "answered", "cut"}

\* What excuses a device of the room for not having the stored action yet:
\* its join handler is about to read it, or has read it and not sent it, or
\* could not read; or the identity once had two documents.
Excused(d, w, p) ==
    \/ w \in forked
    \/ \E j \in JoinsOf(d, w) :
          \/ join[j].phase \in {"reading", "failed"}
          \/ join[j].phase = "replaying" /\ join[j].read = p

\* No key device misses the current request: in every interleaving of a post
\* with the joins of a device, and across a restart, a device in the room of w
\* either got the stored action when it was posted, or got it when it joined,
\* or its join is about to send it.  This rests on socket.join coming before
\* the read, and on the emit coming after the write.
NoMissedAction ==
    \A d \in Keys, w \in Identities, p \in Posts :
        /\ w \in room[d]
        /\ p \in store[w]
        /\ post[p].phase \in Settled
        /\ post[p].action \in ReplayedActions
        => p \in received[d] \/ Excused(d, w, p)

\* What a device gets is a request of its own kind, posted to an identity it
\* joined with an accepted join, and put in the database before it was sent:
\* never one whose write came to nothing.
DeliveryJustified ==
    \A d \in Devices : \A p \in received[d] :
        /\ post[p].phase \in Applied
        /\ \E j \in JoinsOf(d, post[p].wk) : join[j].phase \notin {"idle", "refused"}
        /\ post[p].action \in IF d \in Keys THEN KeyActions ELSE WalletActions

\* A key device that stays in the room gets the request stored for it, even
\* when the process died between storing and emitting it, unless the request
\* is replaced or expires first.  Exempt: the read of its join failed, the
\* identity has had two documents, or the poster was told of a failure or of
\* nothing and the request came to the database after that.
StoredActionReachesKey ==
    \A d \in Keys, w \in Identities, p \in Posts :
        (w \in room[d] /\ p \in store[w] /\ post[p].action \in ReplayedActions)
          ~> \/ p \in received[d]
             \/ w \notin room[d]
             \/ p \notin store[w]
             \/ w \in forked
             \/ post[p].phase = "unconfirmed"
             \/ \E j \in JoinsOf(d, w) : join[j].phase = "failed"

-----------------------------------------------------------------------------
(* The inductive invariant behind the safety properties *)

\* What is stored for an identity was posted to it, and written.
StoreJustified ==
    \A w \in Identities : \A p \in store[w] :
        post[p].phase \in Applied /\ post[p].wk = w

\* Two documents of an identity exist only where two upserts raced.
OneDocument ==
    \A w \in Identities \ forked : \A p, q \in store[w] : p = q

\* What a join handler read was once stored for its identity.
ReadJustified ==
    \A j \in Joins : join[j].phase = "replaying" =>
        /\ post[join[j].read].phase \in Applied
        /\ post[join[j].read].wk = join[j].wk

\* A device is in a room because a join of it was accepted.
RoomJustified ==
    \A d \in Devices : \A w \in room[d] :
        \E j \in JoinsOf(d, w) : join[j].phase \notin {"idle", "refused"}

\* A dead process has neither handlers nor connections.
DeadIsQuiet ==
    ~up => /\ \A p \in Posts : post[p].phase \notin {"written", "notifying"}
           /\ \A j \in Joins : join[j].phase \notin {"reading", "replaying"}
           /\ \A d \in Devices : room[d] = {}

\* The invariant that is inductive: on top of the types and the two safety
\* properties it says where documents, reads and memberships come from.
IInv ==
    /\ TypeOK
    /\ StoreJustified
    /\ OneDocument
    /\ ReadJustified
    /\ RoomJustified
    /\ DeadIsQuiet
    /\ NoMissedAction
    /\ DeliveryJustified

-----------------------------------------------------------------------------
(* The relay implements ActionMailbox *)

\* An action is in the mailbox from the moment the database applied its write.
OwnerOf == [p \in Posts |-> IF post[p].phase \in Applied THEN post[p].wk ELSE None]

Mailbox == INSTANCE ActionMailbox WITH
    Kinds <- {Keys, Wallets}, box <- store, owner <- OwnerOf,
    listening <- room, got <- received

\* Whatever the handlers, the database and the process do between their
\* awaits, devices see a mailbox: an action is stored once, in the mailbox of
\* its identity; nothing is delivered before it is stored, nothing to a device
\* that does not listen at that moment or to the other kind of devices; a
\* death of the process interrupts listening and loses nothing that is stored.
ImplementsMailbox == Mailbox!Spec

=============================================================================
