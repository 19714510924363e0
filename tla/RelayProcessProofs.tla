-------------------------- MODULE RelayProcessProofs --------------------------
(***************************************************************************)
(* Proofs about RelayProcess, for every set of requests, identities and    *)
(* clients, every pair of timeouts with RequestTimeout <= ShutdownTimeout, *)
(* and every number of restarts.                                           *)
(***************************************************************************)
EXTENDS RelayProcess, TLAPS

Pending == {"writing", "inserting"}

Req == [phase: Phases, handler: Handlers, wk: Identities \cup {None},
        answer: Answers, left: 0..RequestTimeout, during: BOOLEAN]

\* All that a step may do to request r.
Same(r) == req'[r] = req[r]
Opened(r) ==
    /\ req[r].phase = "new"
    /\ req'[r] = [req[r] EXCEPT !.phase = "connected"]
    /\ Accepting
Abandoned(r) ==
    /\ req[r].phase = "connected"
    /\ req'[r] = [req[r] EXCEPT !.phase = "over"]
WasCut(r) ==
    req'[r] = [req[r] EXCEPT
                 !.phase = IF @ \in {"connected", "written"} THEN "over" ELSE @,
                 !.handler = IF @ = "runs" THEN "killed" ELSE @]
Received(r) ==
    /\ req[r].phase = "connected"
    /\ \E w \in Identities :
          req'[r] = [phase |-> "writing", handler |-> "runs", wk |-> w,
                     answer |-> None, left |-> RequestTimeout,
                     during |-> closing # "no"]
    /\ proc = "serving"
Advanced(r) ==
    /\ req[r].phase \in Pending
    /\ \E phase \in Pending \cup {"written", "over"} :
          /\ req'[r] = [req[r] EXCEPT !.phase = phase]
          /\ phase = "written" => req[r].handler = "runs"
          /\ phase = "over" => req[r].handler # "runs"
Finished(r) ==
    /\ req[r].handler = "runs"
    /\ \E answer \in Answers \ {None} :
          /\ req[r].answer # None => answer = req[r].answer
          /\ answer = "ok" => req[r].phase = "written" \/ req[r].answer = "ok"
          /\ req'[r] = [req[r] EXCEPT
                          !.handler = "ended",
                          !.phase = IF @ = "written" THEN "over" ELSE @,
                          !.answer = answer]
TimedOut(r) ==
    /\ Unanswered(r)
    /\ req'[r] = [req[r] EXCEPT !.answer = "timeout"]
Ticked(r) ==
    /\ Unanswered(r)
    /\ req[r].left > 0
    /\ req'[r] = [req[r] EXCEPT !.left = req[r].left - 1]

Moves(r) ==
    \/ Same(r) \/ Opened(r) \/ Abandoned(r) \/ WasCut(r) \/ Received(r)
    \/ Advanced(r) \/ Finished(r) \/ TimedOut(r) \/ Ticked(r)

LEMMA ReqIsReq == TypeOK => req \in [Requests -> Req]
BY DEF TypeOK, Req

\* An exit cuts requests and touches no other.
LEMMA ExitMoves ==
    ASSUME TypeOK, NEW status, Exit(status)
    PROVE  /\ req' = [q \in Requests |-> req'[q]]
           /\ \A r \in Requests : WasCut(r)
BY DEF Exit, WasCut

\* A change of one request is a function on Requests that leaves the others.
LEMMA OneMoves ==
    ASSUME TypeOK, NEW r \in Requests, NEW new, req' = [req EXCEPT ![r] = new]
    PROVE  /\ req' = [q \in Requests |-> req'[q]]
           /\ req'[r] = new
           /\ \A q \in Requests \ {r} : Same(q)
BY DEF TypeOK, Same

\* Every step does one of these things to each request.
LEMMA StepMoves ==
    ASSUME TypeOK, [Next]_vars
    PROVE  req' = [q \in Requests |-> req'[q]] /\ \A r \in Requests : Moves(r)
<1> DEFINE Goal == req' = [q \in Requests |-> req'[q]] /\ \A r \in Requests : Moves(r)
<1>1. ASSUME NEW status, Exit(status) PROVE Goal
  BY <1>1, ExitMoves DEF Moves
<1>2. CASE req' = req
  BY <1>2 DEF TypeOK, Moves, Same
<1>3. ASSUME NEW r \in Requests, Open(r) PROVE Goal
  BY <1>3, OneMoves DEF Open, Moves, Opened
<1>4. ASSUME NEW r \in Requests, Abandon(r) PROVE Goal
  BY <1>4, OneMoves DEF Abandon, Moves, Abandoned
<1>5. ASSUME NEW r \in Requests, NEW w \in Identities, Receive(r, w) PROVE Goal
  BY <1>5, OneMoves DEF Receive, Moves, Received
<1>6. ASSUME NEW r \in Requests, NEW phase \in Pending \cup {"written", "over"},
             req[r].phase \in Pending,
             phase = "written" => req[r].handler = "runs",
             phase = "over" => req[r].handler # "runs",
             req' = [req EXCEPT ![r].phase = phase]
      PROVE  Goal
  <2>1. /\ req' = [q \in Requests |-> req'[q]]
        /\ req'[r] = [req[r] EXCEPT !.phase = phase]
        /\ \A q \in Requests \ {r} : Same(q)
    BY <1>6, OneMoves
  <2> QED BY <1>6, <2>1 DEF Moves, Advanced
<1>7. ASSUME NEW r \in Requests, DatabaseStep(r) PROVE Goal
  BY <1>6, <1>7
     DEF DatabaseStep, WriteUpdate, WriteMiss, WriteInsert, WriteRetry, AfterWrite,
         Pending
<1>8. ASSUME NEW r \in Requests, HandlerStep(r) PROVE Goal
  <2>1. ASSUME NEW answer \in {"ok", "error"}, Finish(r, answer),
               req[r].handler = "runs", answer = "ok" => req[r].phase = "written"
        PROVE  Goal
    <3>1. PICK given : /\ given = IF req[r].answer = None THEN answer ELSE req[r].answer
                       /\ req' = Ended(r, given)
      BY <2>1 DEF Finish
    <3>2. /\ req' = [q \in Requests |-> req'[q]]
          /\ req'[r] = [req[r] EXCEPT !.handler = "ended",
                          !.phase = IF @ = "written" THEN "over" ELSE @,
                          !.answer = given]
          /\ \A q \in Requests \ {r} : Same(q)
      BY <3>1 DEF TypeOK, Same, Ended
    <3>3. Finished(r)
      BY <2>1, <3>1, <3>2, NoneAssumption DEF Finished, TypeOK, Answers
    <3> QED BY <3>2, <3>3 DEF Moves
  <2>2. CASE Answer(r)
    BY <2>1, <2>2 DEF Answer
  <2>3. CASE Fail(r)
    BY <2>1, <2>3 DEF Fail
  <2> QED BY <1>8, <2>2, <2>3 DEF HandlerStep
<1>9. ASSUME NEW r \in Requests, TimeOut(r) PROVE Goal
  BY <1>9, OneMoves DEF TimeOut, Due, Moves, TimedOut
<1>10. CASE Tick
  <2>1. ASSUME NEW r \in Requests, Unanswered(r) PROVE Ticked(r)
    <3>1. req[r].left \in Nat /\ req[r].left # 0
      BY <1>10, <2>1, TimeoutAssumption DEF Tick, Due, TypeOK
    <3> QED BY <1>10, <2>1, <3>1 DEF Tick, Ticked
  <2>2. ASSUME NEW r \in Requests, ~Unanswered(r) PROVE Same(r)
    BY <1>10, <2>2 DEF Tick, Same
  <2>3. req' = [q \in Requests |-> req'[q]]
    BY <1>10 DEF Tick
  <2> QED BY <2>1, <2>2, <2>3 DEF Moves
<1>11. CASE StartStep \/ ShutdownStep
  BY <1>1, <1>2, <1>11
     DEF StartStep, Restart, ShutdownStep, Connected, ConnectFails, IndexesCreated, IndexesFail,
         Serve, HttpClosed, SocketsClosed, DatabaseClosed, ForcedExit
<1>12. CASE ClientStep
  BY <1>1, <1>2, <1>3, <1>4, <1>5, <1>12
     DEF ClientStep, Signal, SignalAtStart, Connect, Leave
<1>13. CASE UNCHANGED vars
  BY <1>2, <1>13 DEF vars
<1> QED BY <1>7, <1>8, <1>9, <1>10, <1>11, <1>12, <1>13 DEF Next

-----------------------------------------------------------------------------
(* The inductive invariant *)

\* Nothing runs, is answered or is for anyone before it is received, who still runs has had 408
\* or nothing, and who was told "ok" has left nothing at the database.
AnswerOfPhase == \A r \in Requests :
    /\ req[r].phase \in {"new", "connected"} =>
          req[r].answer = None /\ req[r].handler = "none" /\ req[r].wk = None
    /\ req[r].handler = "runs" =>
          /\ req[r].phase \in Pending \cup {"written"}
          /\ req[r].answer \in {None, "timeout"}
    /\ req[r].phase = "written" => req[r].handler = "runs"
    /\ req[r].answer = "ok" => req[r].phase = "over"

\* Only a process that serves has connections and handlers.
ServingOnly == proc # "serving" =>
    \A r \in Requests : req[r].phase # "connected" /\ req[r].handler # "runs"

ExitedClosed == proc = "exited" => closing = "no"

\* Once the HTTP server has closed, nothing is left that it waited for.
HttpQuiet ==
    closing \in {"sockets", "db"} /\ ~early =>
        \A r \in Requests : ~Unanswered(r) /\ req[r].phase # "connected"

\* A request that was there when the shutdown began has its timer run out no
\* later than the shutdown's.
TimersOrdered ==
    closing # "no" /\ ~early =>
        \A r \in Requests :
            (Unanswered(r) /\ ~req[r].during) => req[r].left <= closeLeft

\* A request that was over when another came in stays over.
BeforeOver == \A q \in Requests :
    /\ q \notin before[q]
    /\ \A p \in before[q] : req[p].phase = "over"

\* A document is of a request whose write was applied.
DocsApplied ==
    \A w \in Identities : \A p \in docs[w] : req[p].phase \in {"written", "over"}

\* KeyNotUndone from the moment the database applied the newer request.
AppliedKept ==
    \A w \in Identities : \A p \in docs[w] : \A q \in Requests :
        /\ req[q].wk = w
        /\ req[q].phase = "written" \/ req[q].answer = "ok"
        /\ p \in before[q]
        => Forked

IInv ==
    /\ TypeOK
    /\ AnswerOfPhase
    /\ ServingOnly
    /\ ExitedClosed
    /\ HttpQuiet
    /\ TimersOrdered
    /\ OnePerIdentity
    /\ UnaskedShutdown
    /\ BeforeOver
    /\ DocsApplied
    /\ AppliedKept

LEMMA InitIInv == Init => IInv
<1> SUFFICES ASSUME Init PROVE IInv
  OBVIOUS
<1>1. TypeOK
  <2>1. req \in [Requests -> Req]
    BY TimeoutAssumption DEF Init, Req, Phases, Handlers, Answers
  <2>2. /\ docs \in [Identities -> SUBSET Requests]
        /\ before \in [Requests -> SUBSET Requests]
    BY DEF Init
  <2>3. /\ closeLeft \in 0..ShutdownTimeout
        /\ restarts \in 0..MaxRestarts
    BY TimeoutAssumption, RestartsAssumption DEF Init
  <2>4. \A r \in Requests : req[r].phase = "new"
    BY DEF Init
  <2> QED BY <2>1, <2>2, <2>3, <2>4 DEF Init, TypeOK, Req, Stages, ClosingStages
<1>2. AnswerOfPhase /\ ServingOnly /\ ExitedClosed
  BY NoneAssumption DEF Init, AnswerOfPhase, ServingOnly, ExitedClosed, Pending
<1>3. HttpQuiet /\ TimersOrdered
  BY DEF Init, HttpQuiet, TimersOrdered
<1>4. OnePerIdentity /\ UnaskedShutdown
  BY NoneAssumption DEF Init, OnePerIdentity, UnaskedShutdown
<1>5. BeforeOver /\ DocsApplied /\ AppliedKept
  BY DEF Init, BeforeOver, DocsApplied, AppliedKept
<1> QED BY <1>1, <1>2, <1>3, <1>4, <1>5 DEF IInv

\* A write of request r that the database applies: an update or an insertion.
Wrote(r) ==
    /\ req[r].phase \in Pending
    /\ \/ \E old \in docs[req[r].wk] :
             docs' = [docs EXCEPT ![req[r].wk] = (@ \ {old}) \cup {r}]
       \/ /\ unique => docs[req[r].wk] = {}
          /\ docs' = [docs EXCEPT ![req[r].wk] = @ \cup {r}]
    /\ \E phase \in {"written", "over"} : req' = [req EXCEPT ![r].phase = phase]
    /\ UNCHANGED <<unique, loaded, before>>

NothingWritten ==
    /\ docs' = docs
    /\ \A q \in Requests : req'[q].phase = "written" => req[q].phase = "written"

\* The documents change by such a write alone, and no handler goes on without it.
LEMMA StepWrites ==
    ASSUME TypeOK, [Next]_vars
    PROVE  NothingWritten \/ \E r \in Requests : Wrote(r)
<1> DEFINE Goal == NothingWritten \/ \E r \in Requests : Wrote(r)
<1>1. CASE docs' = docs /\ req' = req
  BY <1>1 DEF NothingWritten
<1>2. ASSUME NEW status, Exit(status), docs' = docs PROVE Goal
  BY <1>2, ReqIsReq DEF Exit, NothingWritten, Req
<1>3. ASSUME docs' = docs, NEW r \in Requests, NEW new, new.phase # "written",
             req' = [req EXCEPT ![r] = new]
      PROVE  Goal
  BY <1>3, OneMoves DEF NothingWritten, Same
<1>4. ASSUME docs' = docs, NEW r \in Requests, NEW phase, phase # "written",
             req' = [req EXCEPT ![r].phase = phase]
      PROVE  Goal
  <2>1. [req[r] EXCEPT !.phase = phase].phase # "written"
    BY <1>4, ReqIsReq DEF Req
  <2> QED BY <1>3, <1>4, <2>1
<1>5. CASE StartStep
  BY <1>1, <1>2, <1>5
     DEF StartStep, Restart, Connected, ConnectFails, IndexesCreated, IndexesFail, Serve,
         database
<1>6. CASE ShutdownStep
  BY <1>1, <1>2, <1>6
     DEF ShutdownStep, HttpClosed, SocketsClosed, DatabaseClosed, ForcedExit, database
<1>7. CASE ClientStep
  <2>1. ASSUME NEW r \in Requests, NEW w \in Identities, Receive(r, w) PROVE Goal
    BY <1>3, <2>1 DEF Receive, database
  <2>2. ASSUME NEW r \in Requests, Open(r) \/ Abandon(r) PROVE Goal
    BY <1>4, <2>2 DEF Open, Abandon, database
  <2>3. CASE Signal \/ SignalAtStart
    BY <1>1, <1>2, <2>3 DEF Signal, SignalAtStart, database
  <2> QED BY <1>1, <1>7, <2>1, <2>2, <2>3 DEF ClientStep, Connect, Leave, database
<1>8. ASSUME NEW r \in Requests, DatabaseStep(r) PROVE Goal
  <2>1. ASSUME NEW old \in Requests, WriteUpdate(r, old) PROVE Wrote(r)
    BY <2>1 DEF WriteUpdate, AfterWrite, Wrote, Pending
  <2>2. ASSUME WriteInsert(r) PROVE Wrote(r)
    BY <2>2 DEF WriteInsert, AfterWrite, Wrote, Pending
  <2>3. CASE WriteMiss(r) \/ WriteRetry(r)
    BY <1>4, <2>3 DEF WriteMiss, WriteRetry, database
  <2> QED BY <1>8, <2>1, <2>2, <2>3 DEF DatabaseStep
<1>9. ASSUME NEW r \in Requests, HandlerStep(r) PROVE Goal
  <2>1. docs' = docs
    BY <1>9 DEF HandlerStep, Answer, Fail, database
  <2>2. PICK given : req' = Ended(r, given)
    BY <1>9 DEF HandlerStep, Answer, Fail, Finish
  <2>3. \A q \in Requests : req'[q].phase = "written" => req[q].phase = "written"
    BY <2>2, ReqIsReq DEF Ended, Req
  <2> QED BY <2>1, <2>3 DEF NothingWritten
<1>10. ASSUME NEW r \in Requests, TimeOut(r) PROVE Goal
  <2>1. docs' = docs
    BY <1>10 DEF TimeOut, database
  <2>2. \A q \in Requests : req'[q].phase = req[q].phase
    BY <1>10, ReqIsReq DEF TimeOut, Req
  <2> QED BY <2>1, <2>2 DEF NothingWritten
<1>11. CASE Tick
  <2>1. docs' = docs
    BY <1>11 DEF Tick, database
  <2>2. \A q \in Requests : req'[q].phase = req[q].phase
    BY <1>11, ReqIsReq DEF Tick, Req
  <2> QED BY <2>1, <2>2 DEF NothingWritten
<1>12. CASE UNCHANGED vars
  BY <1>1, <1>12 DEF vars, database
<1> QED BY <1>5, <1>6, <1>7, <1>8, <1>9, <1>10, <1>11, <1>12 DEF Next

\* What the start, the shutdown and their timers do to the process.
LEMMA StepProcess ==
    ASSUME TypeOK, [Next]_vars
    PROVE  \/ UNCHANGED process
           \/ Tick
           \/ Signal \/ SignalAtStart
           \/ StartStep
           \/ ShutdownStep
           \/ \E r \in Requests : HandlerStep(r) /\ Shutdown("rejection")
BY Zenon
   DEF Next, vars, ClientStep, Connect, Leave, Open, Abandon, Receive, DatabaseStep,
       WriteUpdate, WriteMiss, WriteInsert, WriteRetry, HandlerStep, Answer, Fail,
       Finish, TimeOut

\* Each of the things a step does to a request keeps its type.
LEMMA MovesType ==
    ASSUME TypeOK, NEW r \in Requests, Moves(r)
    PROVE  /\ req'[r] \in Req
           /\ req'[r].phase \in Pending \cup {"written"} => req'[r].wk \in Identities
<1> DEFINE Goal ==
       /\ req'[r] \in Req
       /\ req'[r].phase \in Pending \cup {"written"} => req'[r].wk \in Identities
<1>1. /\ req[r] \in Req
      /\ req[r].phase \in Pending \cup {"written"} => req[r].wk \in Identities
  BY ReqIsReq DEF TypeOK, Pending
<1>2. CASE Same(r)
  BY <1>1, <1>2 DEF Same
<1>3. CASE Opened(r) \/ Abandoned(r)
  BY <1>1, <1>3 DEF Opened, Abandoned, Req, Phases, Pending
<1>4. CASE WasCut(r)
  BY <1>1, <1>4 DEF WasCut, Req, Phases, Handlers, Pending
<1>5. CASE Received(r)
  <2>1. PICK w \in Identities :
            req'[r] = [phase |-> "writing", handler |-> "runs", wk |-> w,
                       answer |-> None, left |-> RequestTimeout,
                       during |-> closing # "no"]
    BY <1>5 DEF Received
  <2>2. RequestTimeout \in 0..RequestTimeout
    BY TimeoutAssumption
  <2> QED BY <2>1, <2>2, TimeoutAssumption DEF Req, Phases, Handlers, Answers
<1>6. CASE Advanced(r)
  BY <1>1, <1>6 DEF Advanced, Req, Phases, Pending
<1>7. CASE Finished(r)
  BY <1>1, <1>7 DEF Finished, Req, Phases, Handlers, Pending
<1>8. CASE TimedOut(r)
  BY <1>1, <1>8 DEF TimedOut, Req, Answers
<1>9. CASE Ticked(r)
  <2>1. req[r].left - 1 \in 0..RequestTimeout
    BY <1>1, <1>9, TimeoutAssumption DEF Ticked, Req
  <2> QED BY <1>1, <1>9, <2>1 DEF Ticked, Req
<1> QED BY <1>2, <1>3, <1>4, <1>5, <1>6, <1>7, <1>8, <1>9 DEF Moves

ProcessType ==
    /\ proc \in Stages
    /\ closing \in ClosingStages
    /\ closeLeft \in 0..ShutdownTimeout
    /\ cause \in {None, "signal", "rejection"}
    /\ early \in BOOLEAN
    /\ code \in {None, 0, 1}

LEMMA ProcessKept == TypeOK /\ [Next]_vars => ProcessType'
<1> SUFFICES ASSUME TypeOK, [Next]_vars PROVE ProcessType'
  OBVIOUS
<1>1. ProcessType
  BY DEF TypeOK, ProcessType
<1>2. CASE UNCHANGED process
  BY <1>1, <1>2 DEF process, ProcessType
<1>3. CASE Tick
  <2>1. closeLeft' \in 0..ShutdownTimeout
    BY <1>1, <1>3, TimeoutAssumption DEF Tick, ProcessType
  <2> QED BY <1>1, <1>3, <2>1 DEF Tick, ProcessType
<1>4. ASSUME NEW status \in {0, 1}, Exit(status) PROVE ProcessType'
  BY <1>1, <1>4 DEF Exit, ProcessType, Stages, ClosingStages
<1>5. ASSUME NEW why \in {"signal", "rejection"}, Shutdown(why) PROVE ProcessType'
  <2>1. ShutdownTimeout \in 0..ShutdownTimeout
    BY TimeoutAssumption
  <2> QED BY <1>1, <1>2, <1>5, <2>1 DEF Shutdown, ProcessType, ClosingStages
<1>6. CASE SignalAtStart
  <2>1. ShutdownTimeout \in 0..ShutdownTimeout
    BY TimeoutAssumption
  <2> QED BY <1>1, <1>4, <1>6, <2>1 DEF SignalAtStart, ProcessType, ClosingStages
<1>7. CASE StartStep
  <2>1. CASE Serve
    BY <1>1, <1>4, <2>1 DEF Serve, ProcessType, Stages
  <2>2. CASE Connected \/ Restart
    BY <1>1, <2>2 DEF Connected, Restart, ProcessType, Stages
  <2> QED BY <1>4, <1>7, <2>1, <2>2 DEF StartStep, ConnectFails, IndexesCreated, IndexesFail
<1>8. CASE ShutdownStep
  <2>1. CASE HttpClosed \/ SocketsClosed
    BY <1>1, <2>1 DEF HttpClosed, SocketsClosed, ProcessType, ClosingStages
  <2> QED BY <1>4, <1>8, <2>1 DEF ShutdownStep, DatabaseClosed, ForcedExit
<1> QED BY <1>2, <1>3, <1>5, <1>6, <1>7, <1>8, StepProcess DEF Signal

\* The variables that are neither the process nor requests or documents.
RestType ==
    /\ restarts \in 0..MaxRestarts
    /\ sockets \in SUBSET Clients
    /\ unique \in BOOLEAN
    /\ loaded \in BOOLEAN
    /\ before \in [Requests -> SUBSET Requests]

LEMMA RestKept == TypeOK /\ [Next]_vars => RestType'
<1> SUFFICES ASSUME TypeOK, [Next]_vars PROVE RestType'
  OBVIOUS
<1>1. RestType
  BY DEF TypeOK, RestType
<1>2. ASSUME NEW status, Exit(status), UNCHANGED <<restarts, database, loaded, before>>
      PROVE  RestType'
  BY <1>1, <1>2 DEF Exit, RestType, database
<1>3. CASE UNCHANGED <<restarts, sockets, unique, loaded, before>>
  BY <1>1, <1>3 DEF RestType
<1>4. CASE StartStep
  <2>1. CASE Restart
    <3>1. restarts' \in 0..MaxRestarts
      BY <1>1, <2>1, RestartsAssumption DEF Restart, RestType
    <3> QED BY <1>1, <2>1, <3>1 DEF Restart, RestType, database
  <2>2. CASE IndexesCreated \/ IndexesFail
    BY <1>1, <2>2 DEF IndexesCreated, IndexesFail, Serve, Exit, RestType, database
  <2> QED BY <1>2, <1>3, <1>4, <2>1, <2>2
          DEF StartStep, Connected, ConnectFails, database
<1>5. CASE ShutdownStep
  BY <1>2, <1>3, <1>5
     DEF ShutdownStep, HttpClosed, SocketsClosed, DatabaseClosed, ForcedExit, database
<1>6. CASE ClientStep
  <2>1. ASSUME NEW r \in Requests, NEW w \in Identities, Receive(r, w) PROVE RestType'
    <3>1. before' \in [Requests -> SUBSET Requests]
      BY <1>1, <2>1 DEF Receive, RestType
    <3> QED BY <1>1, <2>1, <3>1 DEF Receive, RestType, database
  <2>2. ASSUME NEW c \in Clients, Connect(c) \/ Leave(c) PROVE RestType'
    BY <1>1, <2>2 DEF Connect, Leave, RestType, database
  <2>3. CASE Signal \/ SignalAtStart
    BY <1>2, <1>3, <2>3 DEF Signal, SignalAtStart, database
  <2>4. ASSUME NEW r \in Requests, Open(r) \/ Abandon(r) PROVE RestType'
    BY <1>3, <2>4 DEF Open, Abandon, database
  <2> QED BY <1>6, <2>1, <2>2, <2>3, <2>4 DEF ClientStep
<1>7. ASSUME NEW r \in Requests, DatabaseStep(r) \/ HandlerStep(r) \/ TimeOut(r)
      PROVE  RestType'
  BY <1>3, <1>7
     DEF DatabaseStep, WriteUpdate, WriteMiss, WriteInsert, WriteRetry, HandlerStep,
         Answer, Fail, TimeOut, database
<1>8. CASE Tick \/ UNCHANGED vars
  BY <1>3, <1>8 DEF Tick, vars, database
<1> QED BY <1>4, <1>5, <1>6, <1>7, <1>8 DEF Next

LEMMA DocsKept == TypeOK /\ [Next]_vars => docs' \in [Identities -> SUBSET Requests]
<1> SUFFICES ASSUME TypeOK, [Next]_vars
             PROVE  docs' \in [Identities -> SUBSET Requests]
  OBVIOUS
<1>1. docs \in [Identities -> SUBSET Requests]
  BY DEF TypeOK
<1>2. \/ docs' = docs
      \/ \E r \in Requests : \E set \in SUBSET Requests :
            docs' = [docs EXCEPT ![req[r].wk] = set]
  <2>1. ASSUME NEW r \in Requests, Wrote(r) PROVE docs[req[r].wk] \in SUBSET Requests
    BY <2>1 DEF Wrote, TypeOK, Pending
  <2> QED BY <2>1, StepWrites DEF Wrote, NothingWritten
<1> QED BY <1>1, <1>2

LEMMA TypeInvariance == TypeOK /\ [Next]_vars => TypeOK'
<1> SUFFICES ASSUME TypeOK, [Next]_vars PROVE TypeOK'
  OBVIOUS
<1>1. \A r \in Requests :
         /\ req'[r] \in Req
         /\ req'[r].phase \in Pending \cup {"written"} => req'[r].wk \in Identities
  BY StepMoves, MovesType
<1>2. req' \in [Requests -> Req]
  <2>1. req' = [r \in Requests |-> req'[r]]
    BY StepMoves
  <2> QED BY <1>1, <2>1
<1> QED BY <1>1, <1>2, ProcessKept, RestKept, DocsKept
        DEF TypeOK, ProcessType, RestType, Req, Pending

-----------------------------------------------------------------------------
(* The process and its requests *)

\* What a step may do to the process, and to all requests when it does.
Began(why) ==
    /\ closing = "no" /\ closing' = "http"
    /\ closeLeft' = ShutdownTimeout
    /\ cause' = why
    /\ UNCHANGED <<proc, early>>
BeganAtStart ==
    /\ proc = "indexing" /\ closing' = "db" /\ cause' = "signal" /\ early' = TRUE
    /\ UNCHANGED <<proc, req>>
Exits ==
    \E status \in {0, 1} :
        /\ Exit(status)
        /\ \/ proc \in {"connecting", "indexing"}
           \/ closing = "db"
           \/ /\ closing # "no" /\ closeLeft = 0 /\ status = 1
              /\ \A r \in Requests : Due(r) => req[r].during
StartedOn ==
    /\ \/ proc = "connecting" /\ proc' = "indexing"
       \/ proc = "indexing" /\ proc' = "serving"
    /\ UNCHANGED <<closing, closeLeft, cause, early, req>>
Dropped(r) ==
    /\ req[r].handler = "runs"
    /\ req[r].answer # None
    /\ req' = Ended(r, req[r].answer)
Stayed == UNCHANGED <<proc, closing, closeLeft, cause, early>>

ProcessMoves ==
    \/ Stayed
    \/ Tick
    \/ proc = "serving" /\ Began("signal") /\ req' = req
    \/ \E r \in Requests : Began("rejection") /\ Dropped(r)
    \/ BeganAtStart
    \/ Exits
    \/ StartedOn
    \/ Restart
    \/ HttpClosed
    \/ SocketsClosed

LEMMA StepProcessMoves == TypeOK /\ [Next]_vars => ProcessMoves
<1> SUFFICES ASSUME TypeOK, [Next]_vars PROVE ProcessMoves
  OBVIOUS
<1>1. CASE UNCHANGED process
  BY <1>1 DEF process, Stayed, ProcessMoves
<1>2. CASE Signal \/ SignalAtStart
  <2>1. CASE Signal
    BY <2>1 DEF Signal, Shutdown, process, Stayed, Began, ProcessMoves
  <2>2. CASE SignalAtStart
    BY <2>2 DEF SignalAtStart, BeganAtStart, Exits, ProcessMoves
  <2> QED BY <1>2, <2>1, <2>2
<1>3. CASE StartStep
  <2>1. CASE Connected
    BY <2>1 DEF Connected, StartedOn, ProcessMoves
  <2>2. CASE proc = "connecting" /\ Exit(1)
    BY <2>2 DEF Exits, ProcessMoves
  <2>3. CASE proc = "indexing" /\ Serve
    BY <2>3 DEF Serve, Exits, StartedOn, ProcessMoves
  <2> QED BY <1>3, <2>1, <2>2, <2>3
          DEF StartStep, ConnectFails, IndexesCreated, IndexesFail, ProcessMoves
<1>4. CASE ShutdownStep
  BY <1>4 DEF ShutdownStep, DatabaseClosed, ForcedExit, Exits, ProcessMoves
<1>5. ASSUME NEW r \in Requests, HandlerStep(r), Shutdown("rejection") PROVE ProcessMoves
  <2>1. CASE req[r].answer = None
    <3>1. UNCHANGED process
      BY <1>5, <2>1 DEF HandlerStep, Answer, Fail, Finish
    <3> QED BY <1>1, <3>1
  <2>2. CASE req[r].answer # None
    <3>1. Dropped(r)
      BY <1>5, <2>2 DEF HandlerStep, Answer, Fail, Finish, Dropped
    <3>2. UNCHANGED process \/ Began("rejection")
      BY <1>5 DEF Shutdown, Began
    <3> QED BY <1>1, <3>1, <3>2 DEF ProcessMoves
  <2> QED BY <2>1, <2>2
<1>6. CASE Tick
  BY <1>6 DEF ProcessMoves
<1> QED BY <1>1, <1>2, <1>3, <1>4, <1>5, <1>6, StepProcess

LEMMA AnswersKept == TypeOK /\ AnswerOfPhase /\ [Next]_vars => AnswerOfPhase'
<1> DEFINE Fits(rec) ==
       /\ rec.phase \in {"new", "connected"} =>
             rec.answer = None /\ rec.handler = "none" /\ rec.wk = None
       /\ rec.handler = "runs" =>
             rec.phase \in Pending \cup {"written"} /\ rec.answer \in {None, "timeout"}
       /\ rec.phase = "written" => rec.handler = "runs"
       /\ rec.answer = "ok" => rec.phase = "over"
<1> SUFFICES ASSUME TypeOK, AnswerOfPhase, [Next]_vars, NEW r \in Requests
             PROVE  Fits(req'[r])
  BY DEF AnswerOfPhase
<1>1. req[r] \in Req /\ Fits(req[r])
  BY ReqIsReq DEF AnswerOfPhase
<1>2. CASE Same(r) \/ Opened(r) \/ Abandoned(r)
  BY <1>1, <1>2 DEF Same, Opened, Abandoned, Req, Pending
<1>3. CASE WasCut(r)
  BY <1>1, <1>3 DEF WasCut, Req, Pending
<1>4. CASE Received(r)
  BY <1>1, <1>4, NoneAssumption DEF Received, Pending
<1>5. CASE Advanced(r)
  BY <1>1, <1>5, NoneAssumption DEF Advanced, Req, Pending
<1>6. CASE Finished(r)
  BY <1>1, <1>6, NoneAssumption DEF Finished, Req, Pending
<1>7. CASE TimedOut(r) \/ Ticked(r)
  BY <1>1, <1>7 DEF TimedOut, Ticked, Unanswered, Req, Pending
<1> QED BY <1>2, <1>3, <1>4, <1>5, <1>6, <1>7, StepMoves DEF Moves

LEMMA StartsKept ==
    TypeOK /\ AnswerOfPhase /\ ServingOnly /\ ExitedClosed /\ [Next]_vars
        => ServingOnly' /\ ExitedClosed'
<1> SUFFICES ASSUME TypeOK, AnswerOfPhase, ServingOnly, ExitedClosed, [Next]_vars
             PROVE  ServingOnly' /\ ExitedClosed'
  OBVIOUS
<1>1. req \in [Requests -> Req]
  BY ReqIsReq
<1>2. ASSUME proc' = proc, proc # "serving", NEW r \in Requests
      PROVE  req'[r].phase # "connected" /\ req'[r].handler # "runs"
  <2>1. req[r] \in Req /\ req[r].phase # "connected" /\ req[r].handler # "runs"
    BY <1>1, <1>2 DEF ServingOnly
  <2>2. CASE Same(r) \/ Opened(r) \/ Abandoned(r) \/ WasCut(r) \/ Received(r)
    BY <1>2, <2>1, <2>2 DEF Same, Opened, Abandoned, WasCut, Received, Accepting, Req
  <2>3. CASE Advanced(r)
    BY <2>1, <2>3 DEF Advanced, Req, Pending
  <2>4. CASE Finished(r) \/ TimedOut(r) \/ Ticked(r)
    BY <2>1, <2>4 DEF Finished, TimedOut, Ticked, Unanswered
  <2> QED BY <2>2, <2>3, <2>4, StepMoves DEF Moves
<1>3. CASE proc' = proc /\ (closing' = closing \/ proc # "exited")
  BY <1>2, <1>3 DEF ServingOnly, ExitedClosed
<1>4. CASE Exits
  <2>1. \A r \in Requests : req'[r].phase # "connected" /\ req'[r].handler # "runs"
    <3>1. ASSUME NEW r \in Requests, WasCut(r)
          PROVE  req'[r].phase # "connected" /\ req'[r].handler # "runs"
      BY <1>1, <3>1 DEF WasCut, Req
    <3> QED BY <1>4, <3>1, ExitMoves DEF Exits
  <2> QED BY <1>4, <2>1 DEF Exits, Exit, ServingOnly, ExitedClosed
<1>5. CASE StartedOn
  BY <1>5 DEF StartedOn, ServingOnly, ExitedClosed
<1>6. CASE Restart
  BY <1>6 DEF Restart, ServingOnly, ExitedClosed
<1>7. CASE Stayed \/ Tick
  BY <1>3, <1>7 DEF Stayed, Tick
<1>8. CASE BeganAtStart \/ (proc = "serving" /\ Began("signal"))
  BY <1>3, <1>8 DEF BeganAtStart, Began
<1>9. CASE \E r \in Requests : Began("rejection") /\ Dropped(r)
  BY <1>3, <1>9 DEF Began, Dropped, ServingOnly
<1>10. CASE HttpClosed \/ SocketsClosed
  BY <1>3, <1>10 DEF HttpClosed, SocketsClosed, ExitedClosed
<1> QED BY <1>4, <1>5, <1>6, <1>7, <1>8, <1>9, <1>10, StepProcessMoves DEF ProcessMoves

\* Nothing but Open and Receive leaves a request connected or unanswered.
LEMMA MovesUnanswered ==
    ASSUME TypeOK, NEW r \in Requests, Moves(r)
    PROVE  /\ req'[r].phase = "connected" => req[r].phase = "connected" \/ Opened(r)
           /\ Unanswered(r)' =>
                 \/ Received(r)
                 \/ /\ Unanswered(r)
                    /\ req'[r].during = req[r].during
                    /\ req'[r].left <= req[r].left
<1>1. req[r] \in Req /\ req[r].left \in Nat
  BY ReqIsReq, TimeoutAssumption DEF Req
<1>2. CASE Same(r)
  BY <1>1, <1>2 DEF Same, Unanswered
<1>3. CASE Opened(r) \/ Abandoned(r)
  BY <1>1, <1>3 DEF Opened, Abandoned, Unanswered, Req
<1>4. CASE Received(r)
  BY <1>4 DEF Received
<1>5. CASE Advanced(r)
  BY <1>1, <1>5 DEF Advanced, Unanswered, Req, Pending
<1>6. CASE TimedOut(r)
  BY <1>1, <1>6, NoneAssumption DEF TimedOut, Unanswered, Req
<1>7. CASE Ticked(r)
  BY <1>1, <1>7 DEF Ticked, Unanswered, Req
<1>8. CASE WasCut(r) \/ Finished(r)
  BY <1>1, <1>8 DEF WasCut, Finished, Unanswered, Req
<1> QED BY <1>2, <1>3, <1>4, <1>5, <1>6, <1>7, <1>8 DEF Moves

LEMMA HttpKept ==
    TypeOK /\ HttpQuiet /\ ExitedClosed /\ [Next]_vars => HttpQuiet'
<1> SUFFICES ASSUME TypeOK, HttpQuiet, ExitedClosed, [Next]_vars,
                    closing' \in {"sockets", "db"}, ~early', NEW r \in Requests
             PROVE  ~Unanswered(r)' /\ req'[r].phase # "connected"
  BY DEF HttpQuiet, Unanswered
<1>1. CASE closing' = closing /\ early' = early
  BY <1>1, StepMoves, MovesUnanswered DEF HttpQuiet, Opened, Received, Accepting
<1>2. CASE HttpClosed
  BY <1>2 DEF HttpClosed, Unanswered
<1>3. CASE SocketsClosed
  BY <1>3 DEF SocketsClosed, HttpQuiet, Unanswered
<1>4. CASE Stayed \/ Tick \/ StartedOn
  BY <1>1, <1>4 DEF Stayed, Tick, StartedOn
<1>5. CASE Began("signal") \/ Began("rejection") \/ BeganAtStart \/ Exits
  BY <1>5 DEF Began, BeganAtStart, Exits, Exit
<1>6. CASE Restart
  BY <1>6 DEF Restart, ExitedClosed
<1> QED BY <1>2, <1>3, <1>4, <1>5, <1>6, StepProcessMoves DEF ProcessMoves

LEMMA TimersKept ==
    TypeOK /\ TimersOrdered /\ ExitedClosed /\ [Next]_vars => TimersOrdered'
<1> SUFFICES ASSUME TypeOK, TimersOrdered, ExitedClosed, [Next]_vars,
                    closing' # "no", ~early', NEW r \in Requests,
                    Unanswered(r)', ~req'[r].during
             PROVE  req'[r].left <= closeLeft'
  BY DEF TimersOrdered, Unanswered
<1>1. /\ req[r].left \in Nat /\ req'[r].left \in Nat /\ req'[r].left <= RequestTimeout
      /\ closeLeft \in Nat
  <2>1. req'[r] \in Req /\ req[r] \in Req
    BY TypeInvariance, ReqIsReq, StepMoves, MovesType
  <2> QED BY <2>1, TimeoutAssumption DEF Req, TypeOK
<1>2. CASE closing' # "no" /\ closing # "no" /\ early' = early /\ closeLeft' = closeLeft
  <2>1. ~Received(r)
    <3>1. SUFFICES ASSUME NEW w \in Identities, NEW open \in BOOLEAN, open,
                          req'[r] = [phase |-> "writing", handler |-> "runs",
                                     wk |-> w, answer |-> None,
                                     left |-> RequestTimeout, during |-> open]
                   PROVE  FALSE
      <4>1. (closing # "no") \in BOOLEAN /\ (closing # "no")
        BY <1>2
      <4> QED BY Zenon, <4>1 DEF Received
    <3> QED BY <3>1
  <2>2. Unanswered(r) /\ ~req[r].during /\ req'[r].left <= req[r].left
    BY <2>1, StepMoves, MovesUnanswered
  <2> QED BY <1>1, <1>2, <2>2 DEF TimersOrdered
<1>3. CASE Tick
  <2>1. Unanswered(r)
    BY <1>3 DEF Tick, Unanswered
  <2>2. req'[r] = [req[r] EXCEPT !.left = req[r].left - 1] /\ req[r] \in Req
    BY <1>3, <2>1, ReqIsReq DEF Tick
  <2>3. req'[r].left = req[r].left - 1 /\ ~req[r].during
    BY <2>2 DEF Req
  <2>4. closeLeft' = closeLeft - 1 /\ req[r].left <= closeLeft
    BY <1>3, <2>1, <2>3 DEF Tick, TimersOrdered
  <2> QED BY <1>1, <2>3, <2>4
<1>4. CASE Began("signal") \/ Began("rejection")
  BY <1>1, <1>4, TimeoutAssumption DEF Began
<1>5. CASE Stayed \/ HttpClosed \/ SocketsClosed
  BY <1>2, <1>5 DEF Stayed, HttpClosed, SocketsClosed
<1>6. CASE StartedOn
  BY <1>2, <1>6 DEF StartedOn
<1>7. CASE BeganAtStart \/ Exits
  BY <1>7 DEF BeganAtStart, Exits, Exit
<1>8. CASE Restart
  BY <1>8 DEF Restart, ExitedClosed
<1> QED BY <1>3, <1>4, <1>5, <1>6, <1>7, <1>8, StepProcessMoves DEF ProcessMoves

\* An answer stays, and so does the end of a handler and of a request.
LEMMA MovesAnswer ==
    ASSUME TypeOK, AnswerOfPhase, NEW r \in Requests, Moves(r)
    PROVE  /\ req[r].answer # None => req'[r].answer = req[r].answer
           /\ req[r].handler = "ended" => req'[r].handler = "ended"
           /\ req[r].phase = "over" => req'[r].phase = "over"
<1>1. /\ req[r] \in Req
      /\ req[r].phase \in {"new", "connected"} =>
            req[r].answer = None /\ req[r].handler = "none"
      /\ req[r].handler = "runs" => req[r].phase \in Pending \cup {"written"}
  BY ReqIsReq DEF AnswerOfPhase
<1>2. CASE Same(r) \/ Opened(r) \/ Abandoned(r) \/ WasCut(r)
  BY <1>1, <1>2 DEF Same, Opened, Abandoned, WasCut, Req
<1>3. CASE Received(r)
  BY <1>1, <1>3 DEF Received
<1>4. CASE Advanced(r) \/ Finished(r)
  BY <1>1, <1>4 DEF Advanced, Finished, Req, Pending
<1>5. CASE TimedOut(r) \/ Ticked(r)
  BY <1>1, <1>5 DEF TimedOut, Ticked, Unanswered, Req
<1> QED BY <1>2, <1>3, <1>4, <1>5 DEF Moves

LEMMA UnaskedKept ==
    TypeOK /\ AnswerOfPhase /\ UnaskedShutdown /\ [Next]_vars => UnaskedShutdown'
<1> SUFFICES ASSUME TypeOK, AnswerOfPhase, UnaskedShutdown, [Next]_vars,
                    cause' = "rejection"
             PROVE  \E r \in Requests :
                        req'[r].answer = "timeout" /\ req'[r].handler = "ended"
  BY DEF UnaskedShutdown
<1>1. CASE cause' = cause
  <2>1. PICK r \in Requests : req[r].answer = "timeout" /\ req[r].handler = "ended"
    BY <1>1 DEF UnaskedShutdown
  <2>2. req'[r].answer = "timeout" /\ req'[r].handler = "ended"
    BY <2>1, StepMoves, MovesAnswer, NoneAssumption
  <2> QED BY <2>1, <2>2
<1>2. CASE \E r \in Requests : Began("rejection") /\ Dropped(r)
  <2>1. PICK r \in Requests : Dropped(r)
    BY <1>2
  <2>2. req[r].answer = "timeout" /\ req[r] \in Req
    BY <2>1, ReqIsReq DEF Dropped, AnswerOfPhase
  <2>3. req'[r].handler = "ended" /\ req'[r].answer = req[r].answer
    BY <2>1, <2>2 DEF Dropped, Ended, TypeOK, Req
  <2> QED BY <2>2, <2>3
<1>3. CASE Began("signal") \/ BeganAtStart \/ Restart
  BY <1>3, NoneAssumption DEF Began, BeganAtStart, Restart
<1>4. CASE Stayed \/ Tick \/ StartedOn \/ HttpClosed \/ SocketsClosed \/ Exits
  BY <1>1, <1>4 DEF Stayed, Tick, StartedOn, HttpClosed, SocketsClosed, Exits, Exit
<1> QED BY <1>2, <1>3, <1>4, StepProcessMoves DEF ProcessMoves

-----------------------------------------------------------------------------
(* The documents *)

\* The index and the history change in one step of the start and one of a client.
LEMMA StepIndexes ==
    ASSUME TypeOK, [Next]_vars
    PROVE  /\ IndexesCreated \/ (unique' = unique /\ (loaded' => loaded))
           /\ before' = before \/ \E r \in Requests, w \in Identities : Receive(r, w)
<1> DEFINE Goal ==
       /\ IndexesCreated \/ (unique' = unique /\ (loaded' => loaded))
       /\ before' = before \/ \E r \in Requests, w \in Identities : Receive(r, w)
<1>1. CASE UNCHANGED <<unique, loaded, before>>
  BY <1>1
<1>2. CASE StartStep
  BY <1>1, <1>2
     DEF StartStep, Connected, ConnectFails, IndexesCreated, IndexesFail, Restart, database
<1>3. CASE ShutdownStep
  BY <1>1, <1>3
     DEF ShutdownStep, HttpClosed, SocketsClosed, DatabaseClosed, ForcedExit, database
<1>4. CASE ClientStep
  <2>1. ASSUME NEW r \in Requests, NEW w \in Identities, Receive(r, w) PROVE Goal
    BY <2>1 DEF Receive, database
  <2> QED BY <1>1, <1>4, <2>1
          DEF ClientStep, Signal, SignalAtStart, Connect, Leave, Open, Abandon, database
<1>5. ASSUME NEW r \in Requests, DatabaseStep(r) PROVE Goal
  BY <1>1, <1>5 DEF DatabaseStep, WriteUpdate, WriteMiss, WriteInsert, WriteRetry, database
<1>6. ASSUME NEW r \in Requests, HandlerStep(r) \/ TimeOut(r) PROVE Goal
  BY <1>1, <1>6 DEF HandlerStep, Answer, Fail, TimeOut, database
<1>7. CASE Tick \/ UNCHANGED vars
  BY <1>1, <1>7 DEF Tick, vars, database
<1> QED BY <1>2, <1>3, <1>4, <1>5, <1>6, <1>7 DEF Next

\* Two documents of an identity stay two; under the index one stays one.
LEMMA ForkKept ==
    ASSUME TypeOK, DocsApplied, [Next]_vars
    PROVE  /\ Forked => Forked'
           /\ (unique /\ ~Forked) => ~Forked'
<1> DEFINE Goal == (Forked => Forked') /\ ((unique /\ ~Forked) => ~Forked')
<1>1. CASE docs' = docs
  BY <1>1 DEF Forked
<1>2. ASSUME NEW r \in Requests, Wrote(r) PROVE Goal
  <2> DEFINE w == req[r].wk
  <2>1. w \in Identities /\ docs \in [Identities -> SUBSET Requests]
    BY <1>2 DEF Wrote, TypeOK, Pending
  <2>2. ASSUME NEW old \in docs[w], docs' = [docs EXCEPT ![w] = (@ \ {old}) \cup {r}]
        PROVE  \A v \in Identities :
                  /\ v # w => docs'[v] = docs[v]
                  /\ docs'[w] = (docs[w] \ {old}) \cup {r}
    BY <2>1, <2>2
  <2>3. ASSUME docs' = [docs EXCEPT ![w] = @ \cup {r}]
        PROVE  \A v \in Identities :
                  /\ v # w => docs'[v] = docs[v]
                  /\ docs'[w] = docs[w] \cup {r}
    BY <2>1, <2>3
  <2>4. ASSUME Forked PROVE Forked'
    <3>1. PICK v \in Identities : \E p, q \in docs[v] : p # q
      BY <2>4 DEF Forked
    <3>2. PICK p \in docs[v], q \in docs[v] : p # q
      BY <3>1
    <3>3. CASE v # w
      BY <1>2, <2>2, <2>3, <3>2, <3>3 DEF Wrote, Forked
    <3>4. CASE v = w
      <4>1. ASSUME NEW old \in docs[w],
                   docs' = [docs EXCEPT ![w] = (@ \ {old}) \cup {r}]
            PROVE  Forked'
        <5>1. r \notin docs[w]
          BY <1>2, <2>1 DEF Wrote, DocsApplied, Pending
        <5>2. docs'[w] = (docs[w] \ {old}) \cup {r}
          BY <2>1, <2>2, <4>1
        <5>3. \E s \in docs'[w] : s # r /\ r \in docs'[w]
          BY <3>2, <3>4, <5>1, <5>2
        <5> QED BY <2>1, <5>3 DEF Forked
      <4>2. ASSUME docs' = [docs EXCEPT ![w] = @ \cup {r}] PROVE Forked'
        BY <2>1, <2>3, <3>2, <3>4, <4>2 DEF Forked
      <4> QED BY <1>2, <4>1, <4>2 DEF Wrote
    <3> QED BY <3>3, <3>4
  <2>5. ASSUME unique, ~Forked PROVE ~Forked'
    <3>1. CASE \E old \in docs[w] : docs' = [docs EXCEPT ![w] = (@ \ {old}) \cup {r}]
      BY <2>1, <2>2, <2>5, <3>1 DEF Forked
    <3>2. CASE docs[w] = {} /\ docs' = [docs EXCEPT ![w] = @ \cup {r}]
      BY <2>1, <2>3, <2>5, <3>2 DEF Forked
    <3> QED BY <1>2, <2>5, <3>1, <3>2 DEF Wrote
  <2> QED BY <2>4, <2>5
<1> QED BY <1>1, <1>2, StepWrites DEF NothingWritten

LEMMA AppliedDocs ==
    TypeOK /\ AnswerOfPhase /\ DocsApplied /\ [Next]_vars => DocsApplied'
<1> SUFFICES ASSUME TypeOK, AnswerOfPhase, DocsApplied, [Next]_vars,
                    NEW w \in Identities, NEW p \in docs'[w]
             PROVE  req'[p].phase \in {"written", "over"}
  BY DEF DocsApplied
<1>1. p \in Requests /\ req[p] \in Req /\ Moves(p)
  BY DocsKept, ReqIsReq, StepMoves
<1>2. CASE req[p].phase \in {"written", "over"}
  <2>1. CASE Same(p) \/ Opened(p) \/ Abandoned(p) \/ WasCut(p) \/ Received(p)
    BY <1>1, <1>2, <2>1 DEF Same, Opened, Abandoned, WasCut, Received, Req
  <2>2. CASE Advanced(p) \/ Finished(p) \/ TimedOut(p) \/ Ticked(p)
    BY <1>1, <1>2, <2>2 DEF Advanced, Finished, TimedOut, Ticked, Req, Pending
  <2> QED BY <1>1, <2>1, <2>2 DEF Moves
<1>3. CASE p \notin docs[w]
  <2>1. PICK r \in Requests : Wrote(r)
    BY <1>3, StepWrites DEF NothingWritten
  <2>2. p = r
    BY <1>3, <2>1 DEF Wrote, TypeOK, Pending
  <2> QED BY <1>1, <2>1, <2>2 DEF Wrote, TypeOK, Req
<1> QED BY <1>2, <1>3 DEF DocsApplied

LEMMA OneKept ==
    TypeOK /\ DocsApplied /\ OnePerIdentity /\ [Next]_vars => OnePerIdentity'
<1> SUFFICES ASSUME TypeOK, DocsApplied, OnePerIdentity, [Next]_vars PROVE OnePerIdentity'
  OBVIOUS
<1>1. CASE IndexesCreated
  BY <1>1 DEF IndexesCreated, OnePerIdentity, Forked
<1>2. CASE unique' = unique /\ (loaded' => loaded)
  BY <1>2, ForkKept DEF OnePerIdentity
<1> QED BY <1>1, <1>2, StepIndexes

LEMMA BeforeKept ==
    TypeOK /\ AnswerOfPhase /\ BeforeOver /\ [Next]_vars => BeforeOver'
<1> SUFFICES ASSUME TypeOK, AnswerOfPhase, BeforeOver, [Next]_vars,
                    NEW q \in Requests
             PROVE  /\ q \notin before'[q]
                    /\ \A p \in before'[q] : req'[p].phase = "over"
  BY DEF BeforeOver
<1>1. \A p \in Requests : req[p].phase = "over" => req'[p].phase = "over"
  BY StepMoves, MovesAnswer
<1>2. CASE before'[q] = before[q]
  BY <1>1, <1>2 DEF BeforeOver, TypeOK
<1>3. ASSUME NEW w \in Identities, Receive(q, w)
      PROVE  /\ q \notin before'[q]
             /\ \A p \in before'[q] : req'[p].phase = "over"
  <2>1. before'[q] = {p \in Requests : req[p].answer = "ok" \/ req[p].phase = "over"}
    BY <1>3 DEF Receive, TypeOK
  <2>2. req[q].answer # "ok" /\ req[q].phase # "over"
    BY <1>3, NoneAssumption DEF Receive, AnswerOfPhase
  <2>3. \A p \in Requests : req[p].answer = "ok" => req[p].phase = "over"
    BY DEF AnswerOfPhase
  <2> QED BY <1>1, <2>1, <2>2, <2>3
<1>4. ASSUME NEW r \in Requests, r # q, NEW w \in Identities, Receive(r, w)
      PROVE  before'[q] = before[q]
  BY <1>4 DEF Receive, TypeOK
<1> QED BY <1>2, <1>3, <1>4, StepIndexes

LEMMA AppliedOrder ==
    ASSUME TypeOK, BeforeOver, DocsApplied, AppliedKept, [Next]_vars
    PROVE  AppliedKept'
<1> SUFFICES ASSUME NEW w \in Identities, NEW p \in docs'[w], NEW q \in Requests,
                    req'[q].wk = w, p \in before'[q],
                    req'[q].phase = "written" \/ req'[q].answer = "ok",
                    ~Forked'
             PROVE  FALSE
  BY DEF AppliedKept
<1>1. /\ p \in Requests /\ req[p] \in Req /\ req[q] \in Req
      /\ Moves(p) /\ Moves(q)
      /\ ~Forked
  BY DocsKept, ReqIsReq, StepMoves, ForkKept
<1>2. ~Received(q)
  <2>1. ASSUME NEW v \in Identities, NEW during \in BOOLEAN,
               req'[q] = [phase |-> "writing", handler |-> "runs", wk |-> v,
                          answer |-> None, left |-> RequestTimeout,
                          during |-> during]
        PROVE  FALSE
    BY <2>1, NoneAssumption
  <2> QED BY Zenon, <2>1 DEF Received
<1>3. req[q].wk = w
  <2>1. CASE Same(q) \/ Opened(q) \/ Abandoned(q) \/ WasCut(q)
    BY <1>1, <2>1 DEF Same, Opened, Abandoned, WasCut, Req
  <2>2. CASE Advanced(q) \/ Finished(q) \/ TimedOut(q) \/ Ticked(q)
    BY <1>1, <2>2 DEF Advanced, Finished, TimedOut, Ticked, Req
  <2> QED BY <1>1, <1>2, <2>1, <2>2 DEF Moves
<1>4. before'[q] = before[q]
  <2>1. ASSUME NEW r \in Requests, NEW v \in Identities, Receive(r, v)
        PROVE  before'[q] = before[q]
    <3>1. r # q
      BY <1>2, <2>1 DEF Receive, Received, TypeOK
    <3> QED BY <2>1, <3>1 DEF Receive, TypeOK
  <2> QED BY <2>1, StepIndexes
<1>5. p # q /\ req[p].phase = "over"
  BY <1>4 DEF BeforeOver
<1>6. p \in docs[w]
  <2>1. ASSUME NEW r \in Requests, Wrote(r), p \notin docs[w] PROVE p = r
    BY <2>1 DEF Wrote, TypeOK
  <2> QED BY <1>5, <2>1, StepWrites DEF NothingWritten, Wrote, Pending
<1>7. ASSUME Wrote(q) PROVE FALSE
  <2>1. docs \in [Identities -> SUBSET Requests]
    BY DEF TypeOK
  <2>2. q \in docs'[w]
    BY <1>3, <1>7, <2>1 DEF Wrote
  <2> QED BY <1>5, <2>2 DEF Forked
<1>8. CASE req[q].phase = "written" \/ req[q].answer = "ok"
  BY <1>1, <1>3, <1>4, <1>6, <1>8 DEF AppliedKept
<1>9. ASSUME req[q].phase # "written", req[q].answer # "ok" PROVE Wrote(q)
  <2>1. req'[q].phase = "written"
    <3>1. CASE Same(q) \/ Opened(q) \/ Abandoned(q) \/ WasCut(q) \/ Advanced(q)
      BY <1>1, <1>9, <3>1 DEF Same, Opened, Abandoned, WasCut, Advanced, Req
    <3>2. CASE Finished(q) \/ TimedOut(q) \/ Ticked(q)
      BY <1>1, <1>9, <3>2 DEF Finished, TimedOut, Ticked, Req
    <3> QED BY <1>1, <1>2, <3>1, <3>2 DEF Moves
  <2>2. PICK r \in Requests : Wrote(r)
    BY <1>9, <2>1, StepWrites DEF NothingWritten
  <2>3. r = q
    BY <1>9, <2>1, <2>2 DEF Wrote, TypeOK
  <2> QED BY <2>2, <2>3
<1> QED BY <1>7, <1>8, <1>9

-----------------------------------------------------------------------------
(* The recovery keys implement UpsertStore *)

Wks == [r \in Requests |-> req[r].wk]
Told == {r \in Requests : req[r].answer = "ok"}

\* What a move of a request may change that the store sees.
Unseen(r) ==
    /\ req'[r].wk = req[r].wk
    /\ (r \in StoredKeys)' <=> r \in StoredKeys
    /\ req'[r].answer = "ok" <=> req[r].answer = "ok"

\* Only the reception, the write and the first answer of a request are seen.
LEMMA MovesUnseen ==
    ASSUME TypeOK, AnswerOfPhase, NEW r \in Requests,
           \/ Same(r) \/ Opened(r) \/ Abandoned(r) \/ WasCut(r)
           \/ TimedOut(r) \/ Ticked(r)
    PROVE  Unseen(r)
<1>1. /\ req[r] \in Req
      /\ req[r].phase \in {"new", "connected"} => req[r].wk = None
  BY ReqIsReq DEF AnswerOfPhase
<1>2. CASE Same(r)
  BY <1>2 DEF Same, Unseen, StoredKeys
<1>3. CASE Opened(r) \/ Abandoned(r)
  BY <1>1, <1>3 DEF Opened, Abandoned, Unseen, StoredKeys, Req
<1>4. CASE WasCut(r)
  BY <1>1, <1>4 DEF WasCut, Unseen, StoredKeys, Req
<1>5. CASE TimedOut(r) \/ Ticked(r)
  BY <1>1, <1>5, NoneAssumption DEF TimedOut, Ticked, Unanswered, Unseen, StoredKeys, Req
<1> QED BY <1>2, <1>3, <1>4, <1>5

\* Requests that move unseen leave what the store is told of them.
LEMMA UnseenKeeps ==
    ASSUME \A r \in Requests : Unseen(r)
    PROVE  UNCHANGED <<Wks, StoredKeys, Told>>
BY DEF Unseen, Wks, Told, StoredKeys

\* One request that moves unseen, while the others stay.
LEMMA OneUnseen ==
    ASSUME TypeOK, NEW r \in Requests, Unseen(r),
           \A q \in Requests \ {r} : Same(q)
    PROVE  \A q \in Requests : Unseen(q)
BY DEF Same, Unseen, StoredKeys

\* No step but a reception, a write and a confirmation is seen in the requests.
LEMMA StepUnseen ==
    ASSUME TypeOK, AnswerOfPhase, [Next]_vars
    PROVE  \/ \A r \in Requests : Unseen(r)
           \/ \E r \in Requests, w \in Identities : Receive(r, w)
           \/ \E r \in Requests, old \in Requests : WriteUpdate(r, old)
           \/ \E r \in Requests : WriteInsert(r)
           \/ \E r \in Requests : Answer(r) /\ req[r].answer = None
<1> DEFINE Hidden == \A r \in Requests : Unseen(r)
<1>1. ASSUME NEW status, Exit(status) PROVE Hidden
  BY <1>1, ExitMoves, MovesUnseen
<1>2. CASE req' = req
  BY <1>2, MovesUnseen DEF Same
<1>3. ASSUME NEW r \in Requests, Open(r) \/ Abandon(r) \/ TimeOut(r) PROVE Hidden
  <2>1. \A q \in Requests \ {r} : Same(q)
    BY <1>3, OneMoves DEF Open, Abandon, TimeOut
  <2>2. Opened(r) \/ Abandoned(r) \/ TimedOut(r)
    BY <1>3, OneMoves DEF Open, Opened, Abandon, Abandoned, TimeOut, TimedOut, Due
  <2>3. Unseen(r)
    BY <2>2, MovesUnseen
  <2> QED BY <2>1, <2>3, OneUnseen
<1>4. ASSUME NEW r \in Requests, WriteMiss(r) \/ WriteRetry(r) PROVE Hidden
  <2>1. PICK phase \in Pending : req' = [req EXCEPT ![r].phase = phase]
    BY <1>4 DEF WriteMiss, WriteRetry, Pending
  <2>2. \A q \in Requests \ {r} : Same(q)
    BY <2>1, OneMoves
  <2>3. req'[r] = [req[r] EXCEPT !.phase = phase] /\ req[r].phase \in Pending
    BY <1>4, <2>1, ReqIsReq DEF WriteMiss, WriteRetry, Pending
  <2>4. Unseen(r)
    BY <2>3, ReqIsReq DEF Unseen, StoredKeys, Req, Pending
  <2> QED BY <2>2, <2>4, OneUnseen
<1>5. ASSUME NEW r \in Requests, HandlerStep(r), ~(Answer(r) /\ req[r].answer = None)
      PROVE  Hidden
  <2>1. PICK given \in Answers \ {None} :
            /\ req' = Ended(r, given)
            /\ given = "ok" <=> req[r].answer = "ok"
    BY <1>5, ReqIsReq, NoneAssumption
       DEF HandlerStep, Answer, Fail, Finish, Answers, Req
  <2>2. /\ req'[r].wk = req[r].wk
        /\ req'[r].phase = IF req[r].phase = "written" THEN "over" ELSE req[r].phase
        /\ req'[r].answer = given
        /\ \A q \in Requests \ {r} : Same(q)
    BY <2>1, ReqIsReq DEF Ended, Req, Same
  <2>3. Unseen(r)
    BY <2>1, <2>2 DEF Unseen, StoredKeys
  <2> QED BY <2>2, <2>3, OneUnseen
<1>6. CASE Tick
  <2>1. \A r \in Requests : Ticked(r) \/ Same(r)
    <3>1. ASSUME NEW r \in Requests, Unanswered(r) PROVE Ticked(r)
      <4>1. req[r].left \in Nat /\ req[r].left # 0
        BY <1>6, <3>1, TimeoutAssumption DEF Tick, Due, TypeOK
      <4> QED BY <1>6, <3>1, <4>1 DEF Tick, Ticked
    <3>2. ASSUME NEW r \in Requests, ~Unanswered(r) PROVE Same(r)
      BY <1>6, <3>2 DEF Tick, Same
    <3> QED BY <3>1, <3>2
  <2> QED BY <2>1, MovesUnseen
<1>7. CASE StartStep \/ ShutdownStep
  BY <1>1, <1>2, <1>7
     DEF StartStep, Restart, ShutdownStep, Connected, ConnectFails, IndexesCreated, IndexesFail,
         Serve, HttpClosed, SocketsClosed, DatabaseClosed, ForcedExit
<1>8. CASE ClientStep
  BY <1>1, <1>2, <1>3, <1>8
     DEF ClientStep, Signal, SignalAtStart, Connect, Leave
<1>9. CASE UNCHANGED vars
  BY <1>2, <1>9 DEF vars
<1> QED BY <1>3, <1>4, <1>5, <1>6, <1>7, <1>8, <1>9 DEF Next, DatabaseStep

\* A write that the database applies is the moment the store puts the key.
LEMMA WritePuts ==
    ASSUME TypeOK, OnePerIdentity, NEW r \in Requests, Wrote(r)
    PROVE  Register!Put(r, req[r].wk) /\ req[r].wk \in Identities
<1> DEFINE w == req[r].wk
<1>1. /\ w \in Identities /\ w # None
      /\ docs \in [Identities -> SUBSET Requests]
      /\ req \in [Requests -> Req]
      /\ req[r].phase \in Pending
  BY ReqIsReq, NoneAssumption DEF Wrote, TypeOK, Pending
<1>2. r \notin StoredKeys
  BY <1>1 DEF StoredKeys, Pending
<1>3. UNCHANGED <<Wks, Told>> /\ StoredKeys' = StoredKeys \cup {r}
  <2>1. PICK phase \in {"written", "over"} : req' = [req EXCEPT ![r].phase = phase]
    BY DEF Wrote
  <2>2. /\ \A q \in Requests \ {r} : req'[q] = req[q]
        /\ req'[r].phase = phase /\ req'[r].wk = w
        /\ req'[r].answer = req[r].answer
    BY <1>1, <2>1 DEF Req
  <2> QED BY <1>1, <2>2 DEF Wks, Told, StoredKeys
<1>4. ASSUME unique, NEW old \in docs[w] PROVE docs[w] = {old}
  BY <1>1, <1>4 DEF OnePerIdentity, Forked
<1>5. \E old \in SUBSET docs[w] :
         /\ Register!AtMostOne(old)
         /\ unique => old = docs[w]
         /\ docs' = [docs EXCEPT ![w] = (@ \ old) \cup {r}]
  <2>1. ASSUME NEW d \in docs[w], docs' = [docs EXCEPT ![w] = (@ \ {d}) \cup {r}]
        PROVE  /\ {d} \in SUBSET docs[w] /\ Register!AtMostOne({d})
               /\ unique => {d} = docs[w]
    BY <1>4, <2>1 DEF Register!AtMostOne
  <2>2. ASSUME unique => docs[w] = {}, docs' = [docs EXCEPT ![w] = @ \cup {r}]
        PROVE  /\ {} \in SUBSET docs[w] /\ Register!AtMostOne({})
               /\ unique => {} = docs[w]
               /\ docs' = [docs EXCEPT ![w] = (@ \ {}) \cup {r}]
    BY <1>1, <2>2 DEF Register!AtMostOne
  <2> QED BY <2>1, <2>2 DEF Wrote
<1>6. UNCHANGED unique
  BY DEF Wrote
<1>7. [q \in Requests |-> req[q].wk][r] = w
  OBVIOUS
<1> QED BY <1>1, <1>2, <1>3, <1>5, <1>6, <1>7 DEF Register!Put, Wks, Told

\* Every step of the relay is a step of the store or is not seen by it.
LEMMA StepRefines ==
    ASSUME IInv, [Next]_vars
    PROVE  [Register!Next]_(Register!upsertVars)
<1> USE DEF Register!upsertVars
<1>1. TypeOK /\ AnswerOfPhase /\ OnePerIdentity /\ req \in [Requests -> Req]
  BY ReqIsReq DEF IInv
<1>2. CASE \A r \in Requests : Unseen(r)
  <2>1. UNCHANGED <<Wks, StoredKeys, Told>>
    BY <1>2, UnseenKeeps
  <2>2. docs' = docs
    <3>1. ASSUME NEW r \in Requests, Wrote(r) PROVE FALSE
      <4>1. r \in StoredKeys' /\ r \notin StoredKeys
        BY <1>1, <3>1, WritePuts, NoneAssumption DEF Register!Put, StoredKeys
      <4> QED BY <1>2, <4>1 DEF Unseen
    <3> QED BY <1>1, <3>1, StepWrites DEF NothingWritten
  <2>3. CASE IndexesCreated
    <3>1. \A w \in Identities : Register!AtMostOne(docs[w])
      BY <2>3 DEF IndexesCreated, Forked, Register!AtMostOne
    <3>2. Register!Seal
      BY <2>1, <2>2, <2>3, <3>1 DEF Register!Seal, IndexesCreated, Wks, Told
    <3> QED BY <3>2 DEF Register!Next
  <2>4. CASE unique' = unique
    BY <2>1, <2>2, <2>4 DEF Wks, Told
  <2> QED BY <1>1, <2>3, <2>4, StepIndexes
<1>3. ASSUME NEW r \in Requests, NEW w \in Identities, Receive(r, w)
      PROVE  Register!Next
  <2>1. req[r].wk = None /\ req[r].answer = None /\ req[r].phase = "connected"
    BY <1>1, <1>3 DEF Receive, AnswerOfPhase
  <2>2. /\ \A q \in Requests \ {r} : req'[q] = req[q]
        /\ req'[r].wk = w /\ req'[r].answer = None /\ req'[r].phase = "writing"
    BY <1>1, <1>3 DEF Receive
  <2>3. Wks' = [Wks EXCEPT ![r] = w] /\ UNCHANGED <<StoredKeys, Told>>
    BY <2>1, <2>2, NoneAssumption DEF Wks, StoredKeys, Told
  <2>4. UNCHANGED <<docs, unique>> /\ Wks[r] = None
    BY <1>3, <2>1 DEF Receive, database, Wks
  <2>5. Register!Ask(r, w)
    BY <2>3, <2>4 DEF Register!Ask, Wks, Told
  <2> QED BY <2>5 DEF Register!Next
<1>4. ASSUME NEW r \in Requests, Wrote(r) PROVE Register!Next
  BY <1>1, <1>4, WritePuts DEF Register!Next
<1>5. ASSUME NEW r \in Requests, NEW old \in Requests, WriteUpdate(r, old)
      PROVE  Wrote(r)
  BY <1>5 DEF WriteUpdate, AfterWrite, Wrote, Pending
<1>6. ASSUME NEW r \in Requests, WriteInsert(r) PROVE Wrote(r)
  BY <1>6 DEF WriteInsert, AfterWrite, Wrote, Pending
<1>7. ASSUME NEW r \in Requests, Answer(r), req[r].answer = None
      PROVE  Register!Next
  <2>1. req' = Ended(r, "ok") /\ req[r].phase = "written"
    BY <1>7 DEF Answer, Finish
  <2>2. /\ \A q \in Requests \ {r} : req'[q] = req[q]
        /\ req'[r].wk = req[r].wk /\ req'[r].answer = "ok" /\ req'[r].phase = "over"
    BY <1>1, <2>1 DEF Ended, Req
  <2>3. Told' = Told \cup {r} /\ UNCHANGED <<Wks, StoredKeys>>
    BY <2>1, <2>2 DEF Wks, StoredKeys, Told
  <2>4. r \in StoredKeys
    BY <1>1, <2>1, NoneAssumption DEF StoredKeys, TypeOK
  <2>5. UNCHANGED <<docs, unique>>
    BY <1>7 DEF Answer, database
  <2>6. Register!Confirm(r)
    BY <2>3, <2>4, <2>5 DEF Register!Confirm, Wks, Told
  <2> QED BY <2>6 DEF Register!Next
<1> QED BY <1>1, <1>2, <1>3, <1>4, <1>5, <1>6, <1>7, StepUnseen

-----------------------------------------------------------------------------
(* The theorems *)

\* IInv holds of every reachable state.
THEOREM Invariance == Spec => []IInv
<1>1. IInv /\ [Next]_vars => IInv'
  BY TypeInvariance, AnswersKept, StartsKept, HttpKept, TimersKept, OneKept, UnaskedKept,
     BeforeKept, AppliedDocs, AppliedOrder DEF IInv
<1> QED BY <1>1, InitIInv, PTL DEF Spec

\* The variables of the process, its requests and its documents have their types.
THEOREM TypeCorrectness == Spec => []TypeOK
<1>1. IInv => TypeOK
  BY DEF IInv
<1> QED BY <1>1, Invariance, PTL

\* Under the unique index of recovery.ts there is one document per identity,
\* however many upserts race, and the enterprise module starts only with it.
THEOREM OneDocumentEach == Spec => []OnePerIdentity
<1>1. IInv => OnePerIdentity
  BY DEF IInv
<1> QED BY <1>1, Invariance, PTL

\* Only a handler that goes on after its 408 makes the process shut down unasked.
THEOREM ShutdownAsked == Spec => []UnaskedShutdown
<1>1. IInv => UnaskedShutdown
  BY DEF IInv
<1> QED BY <1>1, Invariance, PTL

\* An upsert that was answered is not undone by an older request, with the
\* exemption KeyNotUndone names.
THEOREM KeysKept == Spec => []KeyNotUndone
<1>1. IInv => KeyNotUndone
  BY DEF IInv, AppliedKept, KeyNotUndone
<1> QED BY <1>1, Invariance, PTL

\* No end of the process leaves a request without its answer, with the
\* exemptions NoRequestAbandoned names: the shutdown's timer is set after the
\* timers of the requests it finds, for no shorter a time.
THEOREM NoneAbandoned == Spec => NoRequestAbandoned
<1> DEFINE Abandons ==
       (proc # "exited" /\ proc' = "exited") =>
          \A r \in Requests : Unanswered(r) =>
              early \/ (code' = 1 /\ closeLeft = 0 /\ req[r].during)
<1>1. ASSUME IInv, [Next]_vars PROVE [Abandons]_vars
  <2> SUFFICES ASSUME proc # "exited", proc' = "exited", NEW r \in Requests,
                      Unanswered(r), ~early
               PROVE  code' = 1 /\ closeLeft = 0 /\ req[r].during
    OBVIOUS
  <2>1. Exits
    BY <1>1, StepProcessMoves
       DEF IInv, ProcessMoves, Stayed, Tick, Began, BeganAtStart, StartedOn, Restart,
           HttpClosed, SocketsClosed
  <2>2. PICK status \in {0, 1} :
            /\ Exit(status)
            /\ \/ proc \in {"connecting", "indexing"}
               \/ closing = "db"
               \/ /\ closing # "no" /\ closeLeft = 0 /\ status = 1
                  /\ \A q \in Requests : Due(q) => req[q].during
    BY <2>1 DEF Exits
  <2>3. proc \notin {"connecting", "indexing"}
    BY <1>1 DEF IInv, ServingOnly, Unanswered
  <2>4. closing # "db"
    BY <1>1 DEF IInv, HttpQuiet
  <2>5. ASSUME ~req[r].during, closing # "no", closeLeft = 0 PROVE Due(r)
    <3>1. req[r].left \in Nat /\ req[r].left <= 0
      BY <1>1, <2>5, ReqIsReq, TimeoutAssumption DEF IInv, TimersOrdered, Req
    <3> QED BY <3>1 DEF Due
  <2> QED BY <2>2, <2>3, <2>4, <2>5 DEF Exit
<1> QED BY <1>1, Invariance, PTL DEF Spec, NoRequestAbandoned

\* POST /v1/recoverypub implements UpsertStore: the two steps of the upsert, its
\* retry, the timeout that answers for a handler, commands that outlive their
\* handlers and processes show a client nothing but a key that is stored once,
\* at one moment, and confirmed after it.
THEOREM KeysAreUpserts == Spec => ImplementsUpserts
<1>1. Init => Register!Init
  BY NoneAssumption DEF Init, Register!Init, StoredKeys
<1>2. IInv /\ [Next]_vars => [Register!Next]_(Register!upsertVars)
  BY StepRefines
<1> QED BY <1>1, <1>2, Invariance, PTL DEF Spec, ImplementsUpserts, Register!Spec

=============================================================================
