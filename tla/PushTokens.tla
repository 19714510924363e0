----------------------------- MODULE PushTokens -----------------------------
(***************************************************************************)
(* The push-token registry: the v1token collection, the registrations that *)
(* fill it (syncService.postToken, called by POST /v1/token and at the end *)
(* of POST /v1/sync) and the notifications that read it and remove the     *)
(* tokens the push service no longer knows.                                *)
(*                                                                         *)
(* postToken is five awaited database commands, so registrations overlap   *)
(* between any two of them, with each other and with a notification's      *)
(* clean-up.  A record is a token and the identity it belongs to; a        *)
(* registration may come without a token (a sync of a key without push).   *)
(* The collection is a function from the ids of its documents: two records *)
(* may be equal, and a command that takes one document of several takes    *)
(* any of them, since none of the queries asks for an order.               *)
(*                                                                         *)
(* (The names are distinct from those of SyncStore, the other half of      *)
(* syncService: SyncServiceProofs extends both.)                           *)
(***************************************************************************)
EXTENDS Naturals, Sequences, FiniteSets, Functions

CONSTANTS
    WkIdentities,   \* wallet-key identities
    RecordIds,      \* the _ids of documents: no insert may lack one
    Tokens,         \* push tokens of SSP Key devices
    NoToken,        \* the keyToken of a registration that has none
    Registrars,     \* slots: registrations that can run at the same time
    Notifiers,      \* slots: notifications that can run at the same time
    Limit,          \* the number of records per identity the code names (100)
    MaxStarts,      \* bound: registrations in a behaviour
    MaxSends        \* bound: notifications in a behaviour

ASSUME NoTokenAssumption == NoToken \notin Tokens
ASSUME WkIdentitiesAssumption == WkIdentities # {}
ASSUME RegistrarsAssumption == IsFiniteSet(Registrars)
ASSUME BoundsAssumption == /\ Limit \in Nat
                           /\ MaxStarts \in Nat
                           /\ MaxSends \in Nat
ASSUME RecordIdsAssumption == /\ IsFiniteSet(RecordIds)
                              /\ Cardinality(RecordIds) >= MaxStarts

Record == [wk: WkIdentities, tok: Tokens \cup {NoToken}]

VARIABLES
    records,    \* the collection v1token: records[i] is the document with _id i
    reg,        \* reg[r]: the registration in slot r
    send,       \* send[n]: the notification in slot n
    dead,       \* tokens the push service no longer knows
    raced,      \* history: tokens two registrations of which have raced
    starts,     \* registrations started
    sends       \* notifications started

tokenVars == <<records, reg, send, dead, raced, starts, sends>>

\* looking    before the find by token
\* removing   several records have the token: before their deletion
\* counting   before the find by identity
\* upserting  before the upsert by token
\* inserting  the upsert matched no record and is about to insert one
RegPhases == {"idle", "looking", "removing", "counting", "upserting",
              "inserting"}

\* sending    the records are read, the messages are with the push service
\* cleaning   removing the records of `doomed`, one by one
SendPhases == {"idle", "sending", "cleaning"}

TokenTypeOK ==
    /\ DOMAIN records \subseteq RecordIds
    /\ records \in [DOMAIN records -> Record]
    /\ reg \in [Registrars -> [phase: RegPhases, rec: Record]]
    /\ send \in [Notifiers -> [phase: SendPhases, wk: WkIdentities,
                               syncs: Seq(Record), doomed: SUBSET Nat]]
    /\ \A n \in Notifiers : send[n].doomed \subseteq DOMAIN send[n].syncs
    /\ dead \in SUBSET Tokens
    /\ raced \in SUBSET Tokens
    /\ starts \in 0..MaxStarts
    /\ sends \in 0..MaxSends

IdleReg == [phase |-> "idle",
            rec |-> [wk |-> CHOOSE w \in WkIdentities : TRUE, tok |-> NoToken]]
IdleSend == [phase |-> "idle", wk |-> CHOOSE w \in WkIdentities : TRUE,
             syncs |-> <<>>, doomed |-> {}]

TokenInit ==
    /\ records = [i \in {} |-> IdleReg.rec]
    /\ reg = [r \in Registrars |-> IdleReg]
    /\ send = [n \in Notifiers |-> IdleSend]
    /\ dead = {}
    /\ raced = {}
    /\ starts = 0
    /\ sends = 0

-----------------------------------------------------------------------------
(* The queries *)

\* Records with token t.  The query is by String(keyToken): without a token it
\* asks for the string "undefined", which no record has.
OfToken(t) == {i \in DOMAIN records : t # NoToken /\ records[i].tok = t}

OfIdentity(w) == {i \in DOMAIN records : records[i].wk = w}

Delete(ids) == records' = Restrict(records, DOMAIN records \ ids)

-----------------------------------------------------------------------------
(* syncService.postToken *)

Goto(r, phase) == reg' = [reg EXCEPT ![r].phase = phase]
End(r) == reg' = [reg EXCEPT ![r] = IdleReg]

\* A registration starts.  (`raced` only records that two ran together.)
Register(r, rec) ==
    /\ starts < MaxStarts
    /\ reg[r].phase = "idle"
    /\ reg' = [reg EXCEPT ![r] = [phase |-> "looking", rec |-> rec]]
    /\ starts' = starts + 1
    /\ raced' = raced \cup
          {t \in Tokens : /\ t = rec.tok
                          /\ \E q \in Registrars : /\ reg[q].phase # "idle"
                                                   /\ reg[q].rec.tok = t}
    /\ UNCHANGED <<records, send, dead, sends>>

\* existingTokens: more than one record with the token is one too many.
LookToken(r) ==
    /\ reg[r].phase = "looking"
    /\ Goto(r, IF Cardinality(OfToken(reg[r].rec.tok)) > 1 THEN "removing"
                                                           ELSE "counting")
    /\ UNCHANGED <<records, send, dead, raced, starts, sends>>

\* deleteMany of all of them; a failure is logged and the registration goes on.
RemoveDuplicates(r) ==
    /\ reg[r].phase = "removing"
    /\ \/ Delete(OfToken(reg[r].rec.tok))
       \/ UNCHANGED records
    /\ Goto(r, "counting")
    /\ UNCHANGED <<send, dead, raced, starts, sends>>

\* Mutant: the limit is compared with one more than the code names.
CountRecordsPlusOne(r) ==
    LET rec == reg[r].rec
        known == OfIdentity(rec.wk) \cap OfToken(rec.tok) # {}
        existing == Cardinality(OfIdentity(rec.wk))
    IN
    /\ reg[r].phase = "counting"
    /\ IF known \/ existing > Limit + 1 THEN End(r) ELSE Goto(r, "upserting")
    /\ UNCHANGED <<records, send, dead, raced, starts, sends>>

\* existingRecords: the token may be registered for the identity already, and
\* the identity may have too many records.
CountRecords(r) ==
    LET rec == reg[r].rec
        known == OfIdentity(rec.wk) \cap OfToken(rec.tok) # {}
        existing == Cardinality(OfIdentity(rec.wk))
    IN
    /\ reg[r].phase = "counting"
    /\ IF known \/ existing > Limit THEN End(r) ELSE Goto(r, "upserting")
    /\ UNCHANGED <<records, send, dead, raced, starts, sends>>

\* The upsert finds a record with the token, and gives it to the identity.
UpsertUpdate(r) ==
    /\ reg[r].phase = "upserting"
    /\ \E i \in OfToken(reg[r].rec.tok) :
          records' = [records EXCEPT ![i] = reg[r].rec]
    /\ End(r)
    /\ UNCHANGED <<send, dead, raced, starts, sends>>

\* Mutant: the upsert asks for the token and the identity.
UpsertFindsNoneOfIdentity(r) ==
    /\ reg[r].phase = "upserting"
    /\ \A i \in OfToken(reg[r].rec.tok) : records[i] # reg[r].rec
    /\ Goto(r, "inserting")
    /\ UNCHANGED <<records, send, dead, raced, starts, sends>>

\* It finds none.  No index makes the token unique.
UpsertFindsNone(r) ==
    /\ reg[r].phase = "upserting"
    /\ OfToken(reg[r].rec.tok) = {}
    /\ Goto(r, "inserting")
    /\ UNCHANGED <<records, send, dead, raced, starts, sends>>

UpsertInsert(r) ==
    /\ reg[r].phase = "inserting"
    /\ \E i \in RecordIds \ DOMAIN records :
          records' = [j \in DOMAIN records \cup {i} |->
                        IF j = i THEN reg[r].rec ELSE records[j]]
    /\ End(r)
    /\ UNCHANGED <<send, dead, raced, starts, sends>>

\* A database command throws, or the process dies, and the command was applied
\* or never will be: the registration ends here.  One whose command is still
\* under way keeps its slot, though nobody awaits it any more.
RegistrationFails(r) ==
    /\ reg[r].phase # "idle"
    /\ End(r)
    /\ UNCHANGED <<records, send, dead, raced, starts, sends>>

-----------------------------------------------------------------------------
(* notificationService.sendNotificationKey *)

HasToken(d) == d.tok # NoToken

\* getTokens, whose find returns the records in some order, then one message
\* per record that has a token.
Notify(n, w) ==
    /\ sends < MaxSends
    /\ send[n].phase = "idle"
    /\ \E i \in OfIdentity(w) : HasToken(records[i])
    /\ \E found \in Bijection(1..Cardinality(OfIdentity(w)), OfIdentity(w)) :
          send' = [send EXCEPT
                     ![n] = [phase |-> "sending", wk |-> w,
                             syncs |-> [k \in DOMAIN found |-> records[found[k]]],
                             doomed |-> {}]]
    /\ sends' = sends + 1
    /\ UNCHANGED <<records, reg, dead, raced, starts>>

\* Mutant: the messages are numbered one too high.
MessageOfOneUp(syncs, j) == 1 + Cardinality({h \in 1..j : HasToken(syncs[h])})

\* Messages are numbered as the records that have a token: the number of the
\* message for the j-th record.
MessageOf(syncs, j) == Cardinality({h \in 1..j : HasToken(syncs[h])})

\* The messages whose token is dead.
GoneMessages(syncs) ==
    {MessageOf(syncs, j) : j \in {h \in DOMAIN syncs : syncs[h].tok \in dead}}

\* The push service answers, one response per message.  It reports some of the
\* messages whose token is dead as unregistered; any other failure removes
\* nothing.  Responses are numbered as the messages, and the record to remove
\* is looked up under that number in `syncs`.
SendAnswered(n) ==
    /\ send[n].phase = "sending"
    /\ \E gone \in SUBSET GoneMessages(send[n].syncs) :
          send' = [send EXCEPT
                     ![n] = IF gone = {}
                              THEN IdleSend
                              ELSE [@ EXCEPT !.phase = "cleaning", !.doomed = gone]]
    /\ UNCHANGED <<records, reg, dead, raced, starts, sends>>

\* The clean-up takes the doomed records in the order of their numbers.
Foremost(n, i) == i \in send[n].doomed /\ \A j \in send[n].doomed : i <= j

AfterClean(n, i) ==
    LET rest == send[n].doomed \ {i} IN
    send' = [send EXCEPT ![n] = IF rest = {} THEN IdleSend
                                ELSE [@ EXCEPT !.doomed = rest]]

\* deleteToken takes one of the documents asked for, if there is one.
DeleteOne(ids) == \/ \E i \in ids : Delete({i})
                  \/ ids = {} /\ UNCHANGED records

\* Mutant: the token alone selects the record to delete.
CleanOneByToken(n) ==
    /\ send[n].phase = "cleaning"
    /\ \E i \in DOMAIN send[n].syncs :
          /\ Foremost(n, i)
          /\ DeleteOne(OfToken(send[n].syncs[i].tok))
          /\ AfterClean(n, i)
    /\ UNCHANGED <<reg, dead, raced, starts, sends>>

\* deleteToken: a record with the identity and the token of the doomed one.
CleanOne(n) ==
    /\ send[n].phase = "cleaning"
    /\ \E i \in DOMAIN send[n].syncs :
          /\ Foremost(n, i)
          /\ DeleteOne({j \in DOMAIN records : records[j] = send[n].syncs[i]})
          /\ AfterClean(n, i)
    /\ UNCHANGED <<reg, dead, raced, starts, sends>>

\* A deletion that throws is logged.
CleanFails(n) ==
    /\ send[n].phase = "cleaning"
    /\ \E i \in DOMAIN send[n].syncs : Foremost(n, i) /\ AfterClean(n, i)
    /\ UNCHANGED <<records, reg, dead, raced, starts, sends>>

\* The app is removed from a device: its token is dead.
TokenDies(t) ==
    /\ t \notin dead
    /\ dead' = dead \cup {t}
    /\ UNCHANGED <<records, reg, send, raced, starts, sends>>

-----------------------------------------------------------------------------

RegistrationStep(r) ==
    \/ LookToken(r)
    \/ RemoveDuplicates(r)
    \/ CountRecords(r)
    \/ UpsertUpdate(r)
    \/ UpsertFindsNone(r)
    \/ UpsertInsert(r)
    \/ RegistrationFails(r)

NotificationStep(n) ==
    \/ SendAnswered(n)
    \/ CleanOne(n)
    \/ CleanFails(n)

TokenNext ==
    \/ \E r \in Registrars, rec \in Record : Register(r, rec)
    \/ \E r \in Registrars : RegistrationStep(r)
    \/ \E n \in Notifiers, w \in WkIdentities : Notify(n, w)
    \/ \E n \in Notifiers : NotificationStep(n)
    \/ \E t \in Tokens : TokenDies(t)

TokenSpec == TokenInit /\ [][TokenNext]_tokenVars

-----------------------------------------------------------------------------
(* Correctness *)

\* "a token can be associated ONLY with one wkIdentity": as long as two
\* registrations of a token never raced, there is one record of it, in
\* spite of registrations for another identity, failures half way, and
\* clean-ups in between.  Nothing else keeps tokens unique.
OneRecordPerToken ==
    \A t \in Tokens \ raced : Cardinality(OfToken(t)) <= 1

\* The records of an identity exceed the limit by no more than the number of
\* registrations that ran together: the check and the insert it guards are
\* separate commands, and the check lets one more than the limit pass.
QuotaOverrun ==
    \A w \in WkIdentities :
        Cardinality(OfIdentity(w)) <= Limit + Cardinality(Registrars)

\* A clean-up never takes away a record of another identity, even when the
\* token it was told is dead has been registered elsewhere since it looked.
CleanUpStaysHome ==
    [][\A n \in Notifiers :
          CleanOne(n) => \A i \in DOMAIN records : \/ records[i].wk = send[n].wk
                                                 \/ i \in DOMAIN records']_tokenVars

\* "Remove tokens that are invalid or not registered": a clean-up removes
\* nothing but records of dead tokens.
CleanUpRemovesDead ==
    [][\A n \in Notifiers :
          CleanOne(n) => \A i \in DOMAIN records : \/ records[i].tok \in dead
                                                 \/ i \in DOMAIN records']_tokenVars

=============================================================================
