---------------------------- MODULE RelayProcess ----------------------------
(***************************************************************************)
(* The relay as an operating-system process: its start (index.ts), the     *)
(* requests it serves under the 30 s timeout of server.ts, its graceful    *)
(* shutdown (shutdown.ts) with a 30 s timeout of its own, and its restart. *)
(* The requests are POST /v1/recoverypub: one upsert into a collection     *)
(* without expiry whose unique index is the last thing the start creates.  *)
(*                                                                         *)
(* A timer is the number of clock ticks that are left of it.  A timer that *)
(* is due runs before the clock goes on, and timers of equal duration run  *)
(* in the order in which they were set, as Node.js runs them.              *)
(***************************************************************************)
EXTENDS Naturals, FiniteSets

CONSTANTS
    Requests,         \* the POST /v1/recoverypub requests of a behaviour
    Identities,       \* wallet-key identities
    Clients,          \* Socket.IO clients of either server
    RequestTimeout,   \* timeoutHandler's, in ticks (30 s)
    ShutdownTimeout,  \* gracefulShutdown's, in ticks (30 s)
    None,             \* no value
    MaxRestarts       \* bound: restarts of the process in a behaviour

ASSUME TimeoutAssumption ==
    /\ RequestTimeout \in Nat
    /\ ShutdownTimeout \in Nat
    /\ RequestTimeout <= ShutdownTimeout
ASSUME NoneAssumption ==
    /\ None \notin Identities
    /\ None \notin {"ok", "error", "timeout", "signal", "rejection"}
    /\ None \notin {0, 1}
ASSUME RestartsAssumption == MaxRestarts \in Nat

VARIABLES
    proc,       \* how far the process is, see Stages
    closing,    \* how far its shutdown is, see ClosingStages
    closeLeft,  \* ticks left of the shutdown's timer
    cause,      \* why the shutdown began: None, "signal" or "rejection"
    early,      \* the shutdown began before the HTTP server was registered
    code,       \* exit code of the last process, or None
    restarts,   \* how often it was started again
    sockets,    \* connected Socket.IO clients
    req,        \* req[r]: the request, its handler and its timer
    docs,       \* docs[w]: the v1recoverypub documents of identity w
    unique,     \* the unique index exists
    loaded,     \* doIndexes came to enterpriseHooks.init
    before      \* history: before[q] is what was stored, or gone, when q came in

process == <<proc, closing, closeLeft, cause, early, code>>
database == <<docs, unique>>
vars == <<process, restarts, sockets, req, database, loaded, before>>

\* connecting  awaiting the database connection; nothing is registered yet
\* indexing    awaiting doIndexes; the connection is registered
\* serving     listening; the Socket.IO and the HTTP servers are registered too
Stages == {"connecting", "indexing", "serving", "exited"}

\* http, sockets, db   gracefulShutdown awaits the end of that server
ClosingStages == {"no", "http", "sockets", "db"}

\* new        not sent
\* connected  the connection is open, the request not received
\* writing    the upsert is at the database, which has not matched it yet
\* inserting  the upsert matched no document and is about to insert one
\* written    the database applied it, the handler has not resumed
\* over       nothing of it is left: neither a connection nor a command
Phases == {"new", "connected", "writing", "inserting", "written", "over"}

\* none, runs, ended, and killed with its process.  A command outlives a handler
\* whose await threw, or that was killed: the database may apply it later.
Handlers == {"none", "runs", "ended", "killed"}

Answers == {None, "ok", "error", "timeout"}

TypeOK ==
    /\ proc \in Stages
    /\ closing \in ClosingStages
    /\ closeLeft \in 0..ShutdownTimeout
    /\ cause \in {None, "signal", "rejection"}
    /\ early \in BOOLEAN
    /\ code \in {None, 0, 1}
    /\ restarts \in 0..MaxRestarts
    /\ sockets \in SUBSET Clients
    /\ req \in [Requests -> [phase: Phases, handler: Handlers,
                             wk: Identities \cup {None}, answer: Answers,
                             left: 0..RequestTimeout, during: BOOLEAN]]
    /\ \A r \in Requests : req[r].phase \in {"writing", "inserting", "written"}
                              => req[r].wk \in Identities
    /\ docs \in [Identities -> SUBSET Requests]
    /\ unique \in BOOLEAN
    /\ loaded \in BOOLEAN
    /\ before \in [Requests -> SUBSET Requests]

Init ==
    /\ proc = "connecting"
    /\ closing = "no"
    /\ closeLeft = 0
    /\ cause = None
    /\ early = FALSE
    /\ code = None
    /\ restarts = 0
    /\ sockets = {}
    /\ req = [r \in Requests |-> [phase |-> "new", handler |-> "none", wk |-> None,
                                  answer |-> None, left |-> 0, during |-> FALSE]]
    /\ docs = [w \in Identities |-> {}]
    /\ unique = FALSE
    /\ loaded = FALSE
    /\ before = [r \in Requests |-> {}]

\* The handler runs and nothing has been answered: its timer is running too.
Unanswered(r) == req[r].handler = "runs" /\ req[r].answer = None

Due(r) == Unanswered(r) /\ req[r].left = 0

-----------------------------------------------------------------------------
(* The end of the process *)

\* process.exit: handlers and connections are gone, commands that were sent are not.
Exit(status) ==
    /\ proc' = "exited"
    /\ code' = status
    /\ closing' = "no"
    /\ sockets' = {}
    /\ req' = [r \in Requests |->
                 [req[r] EXCEPT
                    !.phase = IF @ \in {"connected", "written"} THEN "over" ELSE @,
                    !.handler = IF @ = "runs" THEN "killed" ELSE @]]
    /\ UNCHANGED <<closeLeft, cause, early>>

\* Mutant: the second call of gracefulShutdown is not turned away.
ShutdownAgain(why) ==
    /\ closing' = "http"
    /\ closeLeft' = ShutdownTimeout
    /\ cause' = why
    /\ UNCHANGED <<proc, early, code>>

\* gracefulShutdown in a process that serves: the first call starts the timer
\* and asks the HTTP server to close, every other call returns at once.
Shutdown(why) ==
    IF closing = "no"
      THEN /\ closing' = "http"
           /\ closeLeft' = ShutdownTimeout
           /\ cause' = why
           /\ UNCHANGED <<proc, early, code>>
      ELSE UNCHANGED process

\* A signal to a process that serves, its first or another.
Signal ==
    /\ proc = "serving"
    /\ Shutdown("signal")
    /\ UNCHANGED <<restarts, sockets, req, database, loaded, before>>

\* A signal during the start: only what is registered is closed.  The start
\* goes on meanwhile.
SignalAtStart ==
    /\ closing = "no"
    /\ \/ /\ proc = "connecting"
          /\ Exit(0)
       \/ /\ proc = "indexing"
          /\ closing' = "db"
          /\ closeLeft' = ShutdownTimeout
          /\ cause' = "signal"
          /\ early' = TRUE
          /\ UNCHANGED <<proc, code, sockets, req>>
    /\ UNCHANGED <<restarts, database, loaded, before>>

\* Mutant: the HTTP server is not waited for.
HttpClosedAtOnce ==
    /\ closing = "http"
    /\ closing' = "sockets"
    /\ UNCHANGED <<proc, closeLeft, cause, early, code, restarts, sockets, req,
                   database, loaded, before>>

\* httpServer.close calls back when its last connection has ended: those of
\* requests end with the answer, those of sockets when their clients leave.
HttpClosed ==
    /\ closing = "http"
    /\ sockets = {}
    /\ \A r \in Requests : ~Unanswered(r) /\ req[r].phase # "connected"
    /\ closing' = "sockets"
    /\ UNCHANGED <<proc, closeLeft, cause, early, code, restarts, sockets, req,
                   database, loaded, before>>

\* Both Socket.IO servers close; they have no connections any more.
SocketsClosed ==
    /\ closing = "sockets"
    /\ closing' = "db"
    /\ UNCHANGED <<proc, closeLeft, cause, early, code, restarts, sockets, req,
                   database, loaded, before>>

\* The database connection closes and the process exits; with 1 if it throws.
DatabaseClosed ==
    /\ closing = "db"
    /\ \E status \in {0, 1} : Exit(status)
    /\ UNCHANGED <<restarts, database, loaded, before>>

\* The shutdown's timer runs, after those of the requests that were set before.
ForcedExit ==
    /\ closing # "no"
    /\ closeLeft = 0
    /\ \A r \in Requests : Due(r) => req[r].during
    /\ Exit(1)
    /\ UNCHANGED <<restarts, database, loaded, before>>

-----------------------------------------------------------------------------
(* The start: index.ts *)

Connected ==
    /\ proc = "connecting"
    /\ proc' = "indexing"
    /\ UNCHANGED <<closing, closeLeft, cause, early, code, restarts, sockets, req,
                   database, loaded, before>>

ConnectFails ==
    /\ proc = "connecting"
    /\ Exit(1)
    /\ UNCHANGED <<restarts, database, loaded, before>>

\* The rest of startServer has no await the loop could use: the servers are
\* made, the port is bound, everything is registered; or the port is taken.
Serve ==
    \/ /\ proc' = "serving"
       /\ UNCHANGED <<closing, closeLeft, cause, early, code, sockets, req>>
    \/ Exit(1)

Forked == \E w \in Identities : \E p, q \in docs[w] : p # q

\* Mutant: the index is created whatever the collection holds.
IndexesCreatedAnyway ==
    /\ proc = "indexing"
    /\ unique' = TRUE
    /\ loaded' = TRUE
    /\ Serve
    /\ UNCHANGED <<restarts, docs, before>>

\* doIndexes goes through.  A unique index cannot be created over duplicates.
IndexesCreated ==
    /\ proc = "indexing"
    /\ ~Forked
    /\ unique' = TRUE
    /\ loaded' = TRUE
    /\ Serve
    /\ UNCHANGED <<restarts, docs, before>>

\* One of its commands throws: it is logged, the rest is left out, the unique
\* index and the enterprise module with it, and the start goes on.
IndexesFail ==
    /\ proc = "indexing"
    /\ Serve
    /\ UNCHANGED <<restarts, database, loaded, before>>

\* The supervisor starts the next process.
Restart ==
    /\ proc = "exited"
    /\ restarts < MaxRestarts
    /\ restarts' = restarts + 1
    /\ proc' = "connecting"
    /\ code' = None
    /\ cause' = None
    /\ early' = FALSE
    /\ loaded' = FALSE
    /\ UNCHANGED <<closing, closeLeft, sockets, req, database, before>>

-----------------------------------------------------------------------------
(* Connections and requests *)

\* The HTTP server accepts connections until it is asked to close, which a
\* shutdown that began before it was registered never does.
Accepting == proc = "serving" /\ (closing = "no" \/ early)

Connect(c) ==
    /\ Accepting
    /\ c \notin sockets
    /\ sockets' = sockets \cup {c}
    /\ UNCHANGED <<process, restarts, req, database, loaded, before>>

Leave(c) ==
    /\ c \in sockets
    /\ sockets' = sockets \ {c}
    /\ UNCHANGED <<process, restarts, req, database, loaded, before>>

Open(r) ==
    /\ Accepting
    /\ req[r].phase = "new"
    /\ req' = [req EXCEPT ![r].phase = "connected"]
    /\ UNCHANGED <<process, restarts, sockets, database, loaded, before>>

\* The client gives up before it has sent the request.
Abandon(r) ==
    /\ req[r].phase = "connected"
    /\ req' = [req EXCEPT ![r].phase = "over"]
    /\ UNCHANGED <<process, restarts, sockets, database, loaded, before>>

\* The request is received, its timer starts, and after the checks its handler
\* sends the upsert.  A connection that is open outlives the close.
Receive(r, w) ==
    /\ proc = "serving"
    /\ req[r].phase = "connected"
    /\ req' = [req EXCEPT ![r] = [phase |-> "writing", handler |-> "runs", wk |-> w,
                                  answer |-> None, left |-> RequestTimeout,
                                  during |-> closing # "no"]]
    /\ before' = [before EXCEPT ![r] = {p \in Requests : req[p].answer = "ok"
                                                      \/ req[p].phase = "over"}]
    /\ UNCHANGED <<process, restarts, sockets, database, loaded>>

-----------------------------------------------------------------------------
(* The upsert at the database *)

\* The phase after the database applied a write.
AfterWrite(r) == IF req[r].handler = "runs" THEN "written" ELSE "over"

\* It finds a document of the identity and sets its fields.
WriteUpdate(r, old) ==
    LET w == req[r].wk IN
    /\ req[r].phase = "writing"
    /\ old \in docs[w]
    /\ docs' = [docs EXCEPT ![w] = (@ \ {old}) \cup {r}]
    /\ req' = [req EXCEPT ![r].phase = AfterWrite(r)]
    /\ UNCHANGED <<process, restarts, sockets, unique, loaded, before>>

\* It finds none.
WriteMiss(r) ==
    /\ req[r].phase = "writing"
    /\ docs[req[r].wk] = {}
    /\ req' = [req EXCEPT ![r].phase = "inserting"]
    /\ UNCHANGED <<process, restarts, sockets, database, loaded, before>>

\* It inserts, unless the unique index has a document of the identity by now.
WriteInsert(r) ==
    LET w == req[r].wk IN
    /\ req[r].phase = "inserting"
    /\ unique => docs[w] = {}
    /\ docs' = [docs EXCEPT ![w] = @ \cup {r}]
    /\ req' = [req EXCEPT ![r].phase = AfterWrite(r)]
    /\ UNCHANGED <<process, restarts, sockets, unique, loaded, before>>

\* The duplicate key makes the database try the update again.
WriteRetry(r) ==
    /\ req[r].phase = "inserting"
    /\ unique /\ docs[req[r].wk] # {}
    /\ req' = [req EXCEPT ![r].phase = "writing"]
    /\ UNCHANGED <<process, restarts, sockets, database, loaded, before>>

-----------------------------------------------------------------------------
(* The handler's end *)

\* The handler of r has ended with the given answer; a command of it that the
\* database has not applied stays there.
Ended(r, answer) ==
    [req EXCEPT ![r].handler = "ended",
                ![r].phase = IF @ = "written" THEN "over" ELSE @,
                ![r].answer = answer]

\* Mutant: the catch block throws the error again.
FinishRethrowing(r, answer) ==
    IF answer = "ok"
      THEN req' = Ended(r, answer) /\ UNCHANGED process
      ELSE req' = Ended(r, req[r].answer) /\ Shutdown("rejection")

\* The handler answers and finishes.  If the timeout has answered for it, the
\* headers are sent: res.json throws, the catch block's res.sendStatus throws
\* again, and nobody handles the rejected promise of the handler, which the
\* route dropped.  shutdown.ts takes that for a reason to shut down.
Finish(r, answer) ==
    IF req[r].answer = None
      THEN req' = Ended(r, answer) /\ UNCHANGED process
      ELSE req' = Ended(r, req[r].answer) /\ Shutdown("rejection")

\* Mutant: nothing is awaited before the answer.
AnswerUnconfirmed(r) ==
    /\ req[r].handler = "runs"
    /\ Finish(r, "ok")
    /\ UNCHANGED <<restarts, sockets, database, loaded, before>>

\* The await of the upsert returns.
Answer(r) ==
    /\ req[r].handler = "runs"
    /\ req[r].phase = "written"
    /\ Finish(r, "ok")
    /\ UNCHANGED <<restarts, sockets, database, loaded, before>>

\* The await of the upsert throws, after it was applied or before: then it may
\* still be applied at any later time, or never.
Fail(r) ==
    /\ req[r].handler = "runs"
    /\ Finish(r, "error")
    /\ UNCHANGED <<restarts, sockets, database, loaded, before>>

\* Mutant: the timer also ends the handler's command.
TimeOutLost(r) ==
    /\ Due(r)
    /\ req' = [req EXCEPT ![r].left = RequestTimeout]
    /\ UNCHANGED <<process, restarts, sockets, database, loaded, before>>

\* timeoutHandler: 408.  The handler is not told.
TimeOut(r) ==
    /\ Due(r)
    /\ req' = [req EXCEPT ![r].answer = "timeout"]
    /\ UNCHANGED <<process, restarts, sockets, database, loaded, before>>

-----------------------------------------------------------------------------
(* Time *)

Tick ==
    /\ proc # "exited"
    /\ closing # "no" \/ \E r \in Requests : Unanswered(r)
    /\ \A r \in Requests : ~Due(r)
    /\ closing # "no" => closeLeft > 0
    /\ closeLeft' = IF closing = "no" THEN closeLeft ELSE closeLeft - 1
    /\ req' = [r \in Requests |->
                 IF Unanswered(r) THEN [req[r] EXCEPT !.left = @ - 1] ELSE req[r]]
    /\ UNCHANGED <<proc, closing, cause, early, code, restarts, sockets, database,
                   loaded, before>>

-----------------------------------------------------------------------------

StartStep == Connected \/ ConnectFails \/ IndexesCreated \/ IndexesFail \/ Restart

ShutdownStep ==
    \/ HttpClosed
    \/ SocketsClosed
    \/ DatabaseClosed
    \/ ForcedExit

ClientStep ==
    \/ Signal
    \/ SignalAtStart
    \/ \E c \in Clients : Connect(c) \/ Leave(c)
    \/ \E r \in Requests : Open(r) \/ Abandon(r)
    \/ \E r \in Requests, w \in Identities : Receive(r, w)

DatabaseStep(r) ==
    \/ \E old \in Requests : WriteUpdate(r, old)
    \/ WriteMiss(r)
    \/ WriteInsert(r)
    \/ WriteRetry(r)

HandlerStep(r) == Answer(r) \/ Fail(r)

Next ==
    \/ StartStep
    \/ ShutdownStep
    \/ ClientStep
    \/ \E r \in Requests : DatabaseStep(r)
    \/ \E r \in Requests : HandlerStep(r)
    \/ \E r \in Requests : TimeOut(r)
    \/ Tick

Spec == Init /\ [][Next]_vars

\* Time passes and due timers run.  Nothing is assumed of servers that close, of
\* the database, of handlers or of clients: they may hang for ever.
Fairness ==
    /\ WF_vars(Tick)
    /\ \A r \in Requests : WF_vars(TimeOut(r))
    /\ WF_vars(ForcedExit)

FairSpec == Spec /\ Fairness

-----------------------------------------------------------------------------
(* Correctness *)

\* No request that came in is left without an answer by a shutdown: a graceful
\* end waits for all of them, and the forced one comes after the timeouts of
\* those that came in before it began.  Exempt are a request that came in over
\* an open connection while the shutdown was under way, if the end is forced,
\* and a shutdown that began before the HTTP server was registered.
NoRequestAbandoned ==
    [][(proc # "exited" /\ proc' = "exited") =>
          \A r \in Requests : Unanswered(r) =>
              early \/ (code' = 1 /\ closeLeft = 0 /\ req[r].during)]_vars

\* A key that was stored and answered is not undone by an older request: the
\* document found is never one that was confirmed to its client, or of which no
\* command was left, before the newer request came in.  So the key of a request
\* that failed or was answered 408 may come late, but not come back.  The
\* exemption is a collection that got two documents for want of its unique index.
KeyNotUndone ==
    \A w \in Identities : \A p \in docs[w] : \A q \in Requests :
        /\ req[q].wk = w
        /\ req[q].answer = "ok"
        /\ p \in before[q]
        => Forked

\* "one per identity": once the unique index exists no identity has two
\* documents, and without it the enterprise module is never started.
OnePerIdentity ==
    /\ unique => ~Forked
    /\ loaded => unique

\* A process that shuts down unasked does so for a handler that answered, or
\* failed, after its client had been told 408: nothing else that happens to a
\* request ends the process.
UnaskedShutdown ==
    cause = "rejection" =>
        \E r \in Requests : req[r].answer = "timeout" /\ req[r].handler = "ended"

\* A shutdown ends, whatever hangs: also when a Socket.IO client stays
\* connected, which keeps the HTTP server from closing.
ShutdownEnds == (closing # "no") ~> (proc = "exited")

\* Every request is answered, whatever hangs, unless the process ends first.
EveryRequestAnswered ==
    \A r \in Requests : Unanswered(r) ~> (req[r].answer # None \/ proc = "exited")

-----------------------------------------------------------------------------
(* The recovery keys implement UpsertStore *)

\* A key is stored from the moment the database applied its upsert.
StoredKeys == {r \in Requests : req[r].wk # None /\ req[r].phase \in {"written", "over"}}

Register == INSTANCE UpsertStore WITH
    shelf <- docs, asked <- [r \in Requests |-> req[r].wk], done <- StoredKeys,
    confirmed <- {r \in Requests : req[r].answer = "ok"}, sealed <- unique,
    Expiring <- FALSE

\* Whatever timeouts, errors, signals and restarts do to the handlers, a request
\* stores its key once, in one step, in place of at most one other; its client
\* is told so only after that; and once the unique index exists the key is
\* alone.  What is stored never goes away but for a newer key.
ImplementsUpserts == Register!Spec

=============================================================================
