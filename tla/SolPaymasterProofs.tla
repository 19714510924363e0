------------------------- MODULE SolPaymasterProofs -------------------------
(***************************************************************************)
(* Proofs about SolPaymaster for any number of calls, vaults, proposals    *)
(* and blocks and any size of the pool.  A step of a handler leaves the    *)
(* chain and the network as they are and changes one record of job; a step *)
(* of the chain leaves job as it is and only adds accounts, executions and *)
(* landed transactions.  So the inductive invariant is split into what it  *)
(* says of one call's record, Good, and the rest, ChainGood.               *)
(***************************************************************************)
EXTENDS SolPaymaster, TLAPS

TxIn(r) == [does |-> r.does, of |-> r.of, slot |-> r.slot]

Good(r) ==
    /\ r \in Job
    /\ r.phase # "idle" => r.kind \in Kinds /\ r.of \in Targets
    /\ WellFormed(TxIn(r))
    /\ r.kind = "setup" => r.of \in Vaults
    /\ "multisig" \in r.seen => r.of \in multisig
    /\ "nonce" \in r.seen => r.of \in nonce
    /\ r.kind = "pool" =>
        r.of \in Indices /\ \A k \in Indices : k < r.of => k \in pool
    /\ r.kind = "pool" /\ r.phase \in {"building", "signed", "sent", "ok"} =>
        r.does = {"poolNonce"}
    /\ r.phase = "reading" => r.kind = "setup"
    /\ r.phase = "probing" => r.kind = "pool" /\ r.does = {} /\ r.seen = {}
    /\ r.phase = "confirmed" => r.kind = "setup" /\ TxIn(r) \in succeeded
    /\ r.phase = "exhausted" => pool = Indices
    /\ r.phase = "ok" => TxIn(r) \in succeeded
    /\ r.phase = "landed" => TxIn(r) \in failed
    /\ r.kind = "setup" /\ r.phase \in {"ok", "already"} =>
        r.of \in multisig \cap nonce
    /\ r.phase = "executed" =>
        r.of \in Proposals /\ proposal[r.of] \in {"executed", "closed"}

ChainGood ==
    /\ slot \in Slots
    /\ multisig \in SUBSET Vaults
    /\ nonce \in SUBSET Vaults
    /\ pool \in SUBSET Indices
    /\ proposal \in [Proposals -> {"none", "open", "executed", "closed"}]
    /\ inflight \in SUBSET Tx
    /\ succeeded \in SUBSET Tx
    /\ failed \in SUBSET Tx
    /\ frontRun \in SUBSET failed
    /\ job \in [Jobs -> Job]
    /\ \A t \in inflight : WellFormed(t)
    /\ ChainConsistent
    /\ \A i \in pool : \A k \in Indices : k < i => k \in pool

\* The two parts are the inductive invariant.
LEMMA Parts == IInv <=> ChainGood /\ \A i \in Jobs : Good(job[i])
<1> USE DEF TxOf, TxIn, ChainGood, Good, IInv, TypeOK, TransactionsWellFormed,
            JobsConsistent, PoolHasNoGap, SuccessHasLanded, SetupIsComplete,
            ExecutedIsExecuted
<1>1. IInv => ChainGood
  OBVIOUS
<1>2. ASSUME IInv, NEW j \in Jobs
      PROVE  Good(job[j])
  BY <1>2
<1>3. ASSUME ChainGood, \A i \in Jobs : Good(job[i])
      PROVE  IInv
  BY <1>3
<1>4. QED
  BY <1>1, <1>2, <1>3

-----------------------------------------------------------------------------
(* Steps of one handler *)

\* A step that changes one call's record keeps the invariant if it keeps what
\* the invariant says of that record.
LEMMA HandlerStep ==
    ASSUME IInv, NEW j \in Jobs,
           UNCHANGED <<slot, multisig, nonce, pool, proposal>>,
           UNCHANGED <<inflight, succeeded, failed, frontRun>>,
           job' = [job EXCEPT ![j] = job'[j]],
           Good(job'[j])
    PROVE  IInv'
<1>1. ChainGood /\ \A i \in Jobs : Good(job[i])
  BY Parts
<1>2. ChainGood'
  BY <1>1 DEF ChainGood, Good, WellFormed, ChainConsistent
<1>3. ASSUME NEW i \in Jobs
      PROVE  Good(job[i])'
  <2>1. Good(job'[i])
    BY <1>1 DEF ChainGood
  <2>2. QED
    BY <2>1 DEF Good, WellFormed, TxIn
<1>4. (ChainGood /\ \A i \in Jobs : Good(job[i]))'
  BY <1>2, <1>3
<1>5. QED
  BY <1>4
     DEF TxOf, TxIn, ChainGood, Good, IInv, TypeOK, TransactionsWellFormed,
         JobsConsistent, PoolHasNoGap, SuccessHasLanded, SetupIsComplete,
         ExecutedIsExecuted

\* What a handler reads of an account stays true: setup's steps up to the
\* transaction it builds.
LEMMA SetupGood ==
    ASSUME IInv, NEW j \in Jobs, SetupStep(j)
    PROVE  IInv'
<1>1. Good(job[j]) /\ job \in [Jobs -> Job]
  BY Parts DEF ChainGood
<1>2. CASE ReadMultisig(j)
  <2>1. PICK seen \in {job[j].seen, job[j].seen \cup {"multisig"}} :
          /\ "multisig" \in seen => "multisig" \in job[j].seen \/ job[j].of \in multisig
          /\ job'[j] = [job[j] EXCEPT !.read = job[j].read \cup {"multisig"},
                                      !.seen = seen]
    BY <1>1, <1>2 DEF ReadMultisig, ReadAccount, Handler
  <2>2. /\ job'[j] \in Job
        /\ job'[j].phase = "reading"
        /\ job'[j].kind = job[j].kind
        /\ job'[j].of = job[j].of
        /\ job'[j].does = job[j].does
        /\ job'[j].slot = job[j].slot
    <3>1. /\ job[j] \in Job
          /\ job[j].read \cup {"multisig"} \in SUBSET {"multisig", "nonce"}
          /\ seen \in SUBSET {"multisig", "nonce"}
          /\ job[j].phase = "reading"
      BY <1>1, <1>2 DEF Good, Job, ReadMultisig, ReadAccount
    <3>2. QED
      BY <2>1, <3>1 DEF Job
  <2>3. job'[j].seen = job[j].seen
        \/ /\ job'[j].seen = job[j].seen \cup {"multisig"}
           /\ job[j].of \in multisig
    BY <1>1, <2>1 DEF Good, Job
  <2>4. Good(job'[j])
    <3>1. job[j].phase = "reading" /\ TxIn(job'[j]) = TxIn(job[j])
      BY <1>2, <2>2 DEF TxIn, ReadMultisig, ReadAccount
    <3>2. QED
      BY <1>1, <2>2, <2>3, <3>1 DEF Good
  <2>5. QED
    BY <1>2, <2>4, HandlerStep
       DEF ReadMultisig, ReadAccount, Handler, chain, network, IInv, TypeOK
<1>3. CASE ReadNonce(j)
  <2>1. PICK seen \in {job[j].seen, job[j].seen \cup {"nonce"}} :
          /\ "nonce" \in seen => "nonce" \in job[j].seen \/ job[j].of \in nonce
          /\ job'[j] = [job[j] EXCEPT !.read = job[j].read \cup {"nonce"},
                                      !.seen = seen]
    BY <1>1, <1>3 DEF ReadNonce, ReadAccount, Handler
  <2>2. /\ job'[j] \in Job
        /\ job'[j].phase = "reading"
        /\ job'[j].kind = job[j].kind
        /\ job'[j].of = job[j].of
        /\ job'[j].does = job[j].does
        /\ job'[j].slot = job[j].slot
    <3>1. /\ job[j] \in Job
          /\ job[j].read \cup {"nonce"} \in SUBSET {"multisig", "nonce"}
          /\ seen \in SUBSET {"multisig", "nonce"}
          /\ job[j].phase = "reading"
      BY <1>1, <1>3 DEF Good, Job, ReadNonce, ReadAccount
    <3>2. QED
      BY <2>1, <3>1 DEF Job
  <2>3. job'[j].seen = job[j].seen
        \/ /\ job'[j].seen = job[j].seen \cup {"nonce"}
           /\ job[j].of \in nonce
    BY <1>1, <2>1 DEF Good, Job
  <2>4. Good(job'[j])
    <3>1. job[j].phase = "reading" /\ TxIn(job'[j]) = TxIn(job[j])
      BY <1>3, <2>2 DEF TxIn, ReadNonce, ReadAccount
    <3>2. QED
      BY <1>1, <2>2, <2>3, <3>1 DEF Good
  <2>5. QED
    BY <1>3, <2>4, HandlerStep
       DEF ReadNonce, ReadAccount, Handler, chain, network, IInv, TypeOK
<1>4. CASE FindProvisioned(j)
  <2>1. job'[j] = [job[j] EXCEPT !.phase = "already"] /\ job[j].kind = "setup"
    BY <1>1, <1>4 DEF FindProvisioned, Handler, End, Good
  <2>2. Good(job'[j])
    BY <1>1, <1>4, <2>1
       DEF FindProvisioned, Good, Job, TxIn, WellFormed, Answers
  <2>3. QED
    BY <1>4, <2>2, HandlerStep
       DEF FindProvisioned, Handler, chain, network, IInv, TypeOK
<1>5. CASE RefuseSetup(j)
  <2>1. job'[j] = [job[j] EXCEPT !.phase = "refused"] /\ job[j].kind = "setup"
    BY <1>1, <1>5 DEF RefuseSetup, Handler, End, Good
  <2>2. Good(job'[j])
    BY <1>1, <1>5, <2>1
       DEF RefuseSetup, Good, Job, TxIn, WellFormed, Answers
  <2>3. QED
    BY <1>5, <2>2, HandlerStep
       DEF RefuseSetup, Handler, chain, network, IInv, TypeOK
<1>6. CASE BuildSetup(j)
  <2> DEFINE missing ==
        (IF "multisig" \in job[j].seen THEN {} ELSE {"init"})
        \cup (IF "nonce" \in job[j].seen THEN {} ELSE {"provision"})
  <2>1. /\ job'[j] = [job[j] EXCEPT !.phase = "building", !.does = missing]
        /\ job[j].kind = "setup"
    BY <1>1, <1>6 DEF BuildSetup, Handler, Good
  <2>2. missing \subseteq SetupInstructions
    BY DEF SetupInstructions
  <2> HIDE DEF missing
  <2>3. /\ job'[j] \in Job
        /\ job'[j].phase = "building"
        /\ job'[j].kind = "setup"
        /\ job'[j].of = job[j].of
        /\ job'[j].does = missing
        /\ job'[j].seen = job[j].seen
    <3>1. missing \in SUBSET Instructions
      BY <2>2 DEF Instructions
    <3>2. QED
      BY <1>1, <2>1, <3>1 DEF Good, Job, Running
  <2>4. WellFormed(TxIn(job'[j]))
    <3>1. "poolNonce" \notin missing /\ missing \cap ProposalInstructions = {}
      BY <2>2 DEF SetupInstructions, ProposalInstructions
    <3>2. QED
      BY <1>1, <2>1, <2>3, <3>1 DEF WellFormed, TxIn, Good
  <2>5. Good(job'[j])
    BY <1>1, <1>6, <2>1, <2>3, <2>4 DEF Good, BuildSetup, Kinds
  <2>6. QED
    BY <1>6, <2>5, HandlerStep
       DEF BuildSetup, Handler, chain, network, IInv, TypeOK
<1>7. QED
  BY <1>2, <1>3, <1>4, <1>5, <1>6 DEF SetupStep

\* A call that has read nothing of the chain and names well-formed effects is
\* as the invariant has it: the calls with the client's own transaction.
LEMMA FreshCallGood ==
    ASSUME NEW r, NEW k \in Kinds \ {"setup", "pool"}, NEW x \in Targets,
           NEW d \in SUBSET Instructions, NEW at \in Slots,
           NEW ph \in {"signed", "refused"},
           r = [phase |-> ph, kind |-> k, of |-> x, does |-> d, slot |-> at,
                read |-> {}, seen |-> {}],
           WellFormed([does |-> d, of |-> x, slot |-> at])
    PROVE  Good(r)
<1>1. r \in Job
  BY DEF Job, Running, Answers
<1>2. TxIn(r) = [does |-> d, of |-> x, slot |-> at]
  BY DEF TxIn
<1>3. QED
  BY <1>1, <1>2 DEF Good

\* The instruction lists of clients set up no vault and no pool account.
LEMMA ContentsOfProposals ==
    ASSUME NEW ixs \in Contents, NEW x \in Proposals, NEW at \in Slots
    PROVE  /\ Range(ixs) \in SUBSET Instructions
           /\ WellFormed([does |-> Range(ixs), of |-> x, slot |-> at])
<1>1. ixs \in Seq(Instructions \ (SetupInstructions \cup {"poolNonce"}))
  BY ContentsAssumption
<1>2. Range(ixs) \subseteq Instructions \ (SetupInstructions \cup {"poolNonce"})
  BY <1>1 DEF Range
<1>3. QED
  BY <1>2 DEF WellFormed

\* The calls begin as the invariant has it.
LEMMA ClientGood ==
    ASSUME IInv, NEW j \in Jobs, ClientStep(j)
    PROVE  IInv'
<1>1. Good(job[j]) /\ job \in [Jobs -> Job]
  BY Parts DEF ChainGood
<1>2. 0 \in Slots /\ {} \in SUBSET Instructions
  BY SlotAssumption DEF Slots
<1>3. ASSUME NEW v \in Vaults, StartSetup(j, v)
      PROVE  IInv'
  <2>1. job'[j] = [phase |-> "reading", kind |-> "setup", of |-> v,
                   does |-> {}, slot |-> 0, read |-> {}, seen |-> {}]
    BY <1>1, <1>3 DEF StartSetup, Handler, Call, IdleJob
  <2>2. job'[j] \in Job
    BY <1>2, <2>1 DEF Job, Running, Kinds, Targets
  <2>3. Good(job'[j])
    BY <2>1, <2>2 DEF Good, TxIn, WellFormed, Kinds, Targets
  <2>4. QED
    BY <1>3, <2>3, HandlerStep
       DEF StartSetup, Handler, chain, network, IInv, TypeOK
<1>4. CASE StartPool(j)
  <2>1. job'[j] = [phase |-> "probing", kind |-> "pool", of |-> 0,
                   does |-> {}, slot |-> 0, read |-> {}, seen |-> {}]
    BY <1>1, <1>4 DEF StartPool, Handler, Call, IdleJob
  <2>2. 0 \in Indices /\ \A k \in Indices : ~(k < 0)
    BY <1>4, PoolAssumption DEF StartPool, Indices
  <2>3. job'[j] \in Job
    BY <1>2, <2>1, <2>2 DEF Job, Running, Kinds, Targets
  <2>4. Good(job'[j])
    BY <2>1, <2>2, <2>3 DEF Good, TxIn, WellFormed, Kinds, Targets
  <2>5. QED
    BY <1>4, <2>4, HandlerStep
       DEF StartPool, Handler, chain, network, IInv, TypeOK
<1>5. ASSUME NEW v \in Vaults, NEW at \in Slots, StartSubmitSetup(j, v, at)
      PROVE  IInv'
  <2>1. Range(<<"init", "provision">>) = {"init", "provision"}
    BY DEF Range
  <2>2. job'[j] = [phase |-> "signed", kind |-> "submitSetup", of |-> v,
                   does |-> {"init", "provision"}, slot |-> at,
                   read |-> {}, seen |-> {}]
    BY <1>1, <1>5, <2>1
       DEF StartSubmitSetup, Handler, Signed, Call, IdleJob
  <2>3. /\ {"init", "provision"} \in SUBSET Instructions
        /\ WellFormed([does |-> {"init", "provision"}, of |-> v, slot |-> at])
    BY DEF WellFormed, Instructions, SetupInstructions, ProposalInstructions
  <2>4. "submitSetup" \in Kinds \ {"setup", "pool"} /\ v \in Targets
    BY DEF Kinds, Targets
  <2>5. Good(job'[j])
    BY <2>2, <2>3, <2>4, FreshCallGood
  <2>6. QED
    BY <1>5, <2>5, HandlerStep
       DEF StartSubmitSetup, Handler, chain, network, IInv, TypeOK
<1>6. ASSUME NEW x \in Proposals, NEW ixs \in Contents, NEW at \in Slots,
             NEW k \in Kinds \ {"setup", "pool"},
             \/ job' = [job EXCEPT ![j] = Signed(j, k, x, ixs, at)]
             \/ job' = [job EXCEPT ![j] = [Call(j, k, x) EXCEPT !.phase = "refused"]],
             UNCHANGED <<slot, chain, network>>
      PROVE  IInv'
  <2>1. x \in Targets
    BY DEF Targets
  <2>2. WellFormed([does |-> {}, of |-> x, slot |-> 0])
    BY DEF WellFormed
  <2>3. CASE job' = [job EXCEPT ![j] = Signed(j, k, x, ixs, at)]
    <3>1. job'[j] = [phase |-> "signed", kind |-> k, of |-> x,
                     does |-> Range(ixs), slot |-> at,
                     read |-> {}, seen |-> {}]
      BY <1>1, <2>3 DEF Signed, Call, IdleJob
    <3>2. Good(job'[j])
      BY <3>1, <2>1, ContentsOfProposals, FreshCallGood
    <3>3. QED
      BY <1>6, <2>3, <3>2, HandlerStep DEF chain, network, IInv, TypeOK
  <2>4. CASE job' = [job EXCEPT ![j] = [Call(j, k, x) EXCEPT !.phase = "refused"]]
    <3>1. job'[j] = [phase |-> "refused", kind |-> k, of |-> x,
                     does |-> {}, slot |-> 0, read |-> {}, seen |-> {}]
      BY <1>1, <2>4 DEF Call, IdleJob
    <3>2. Good(job'[j])
      BY <3>1, <1>2, <2>1, <2>2, FreshCallGood
    <3>3. QED
      BY <1>6, <2>4, <3>2, HandlerStep DEF chain, network, IInv, TypeOK
  <2>5. QED
    BY <1>6, <2>3, <2>4
<1>7. ASSUME NEW x \in Proposals, NEW ixs \in Contents, NEW at \in Slots,
             NEW lamports \in Reimbursements,
             \/ \E k \in SplitKinds, signers \in SignerCounts :
                  StartSplit(j, k, x, ixs, lamports, signers, at)
             \/ \E floorMet \in BOOLEAN :
                  StartBroadcast(j, x, ixs, lamports, at, floorMet)
      PROVE  IInv'
  <2>1. ASSUME NEW k \in SplitKinds, NEW signers \in SignerCounts,
               StartSplit(j, k, x, ixs, lamports, signers, at)
        PROVE  IInv'
    <3>1. k \in Kinds \ {"setup", "pool"}
      BY DEF Kinds, SplitKinds
    <3>2. QED
      BY <1>6, <2>1, <3>1 DEF StartSplit, Handler
  <2>2. ASSUME NEW floorMet \in BOOLEAN,
               StartBroadcast(j, x, ixs, lamports, at, floorMet)
        PROVE  IInv'
    <3>1. "broadcast" \in Kinds \ {"setup", "pool"}
      BY DEF Kinds
    <3>2. QED
      BY <1>6, <2>2, <3>1 DEF StartBroadcast, Handler
  <2>3. QED
    BY <1>7, <2>1, <2>2
<1>8. QED
  BY <1>3, <1>4, <1>5, <1>7 DEF ClientStep

\* A handler that ends, or goes on, with no more than another phase.
LEMMA PhaseGood ==
    ASSUME NEW r \in Job, Good(r), r.phase \in Running,
           NEW ph \in {"signed", "sent", "confirmed"} \cup Answers,
           NEW q, q = [r EXCEPT !.phase = ph],
           r.kind = "pool" /\ ph \in {"signed", "sent", "ok"} =>
             r.does = {"poolNonce"},
           ph = "confirmed" => r.kind = "setup" /\ TxIn(r) \in succeeded,
           ph = "exhausted" => pool = Indices,
           ph = "ok" => TxIn(r) \in succeeded,
           ph = "landed" => TxIn(r) \in failed,
           ph \in {"ok", "already"} /\ r.kind = "setup" =>
             r.of \in multisig \cap nonce,
           ph = "executed" =>
             r.of \in Proposals /\ proposal[r.of] \in {"executed", "closed"}
    PROVE  Good(q)
<1>1. q \in Job
  BY DEF Job, Running
<1>2. /\ q.phase = ph /\ q.kind = r.kind /\ q.of = r.of /\ q.seen = r.seen
      /\ q.does = r.does
  BY DEF Job
<1>3. TxIn(q) = TxIn(r)
  BY DEF TxIn, Job
<1>4. r.phase # "idle" /\ ph \notin {"reading", "probing", "building"}
  BY DEF Running, Answers
<1>5. /\ q.phase # "idle" => q.kind \in Kinds /\ q.of \in Targets
      /\ WellFormed(TxIn(q))
  BY <1>2, <1>3, <1>4 DEF Good
<1>6. QED
  BY <1>1, <1>2, <1>3, <1>4, <1>5 DEF Good

\* A round of createPoolNonce's loop: the indices it has passed have their
\* accounts, and still have them.
LEMMA ProbeGood ==
    ASSUME IInv, NEW j \in Jobs, Probe(j)
    PROVE  IInv'
<1> DEFINE i == job[j].of
<1>1. /\ Good(job[j]) /\ job \in [Jobs -> Job] /\ ChainGood
      /\ job[j] \in Job /\ job[j].phase = "probing" /\ job[j].kind = "pool"
      /\ i \in Indices /\ \A k \in Indices : k < i => k \in pool
  BY Parts DEF Probe, ChainGood, Good
<1>2. Good(job'[j])
  <2>1. CASE i \notin pool
    <3>1. job'[j] = [job[j] EXCEPT !.phase = "building", !.does = {"poolNonce"}]
      BY <1>1, <2>1 DEF Probe, Handler
    <3>2. /\ job'[j] \in Job /\ job'[j].phase = "building"
          /\ job'[j].kind = "pool" /\ job'[j].of = i
          /\ job'[j].seen = job[j].seen /\ job'[j].does = {"poolNonce"}
      <4>1. /\ {"poolNonce"} \in SUBSET Instructions
            /\ "building" \in {"idle"} \cup Running \cup Answers
        BY DEF Instructions, Running
      <4>2. QED
        BY <1>1, <3>1, <4>1 DEF Job
    <3>3. WellFormed(TxIn(job'[j]))
      BY <1>1, <3>2
         DEF WellFormed, TxIn, SetupInstructions, ProposalInstructions
    <3>4. QED
      BY <1>1, <3>2, <3>3 DEF Good
  <2>2. CASE i \in pool /\ i + 1 < PoolSize
    <3>1. job'[j] = [job[j] EXCEPT !.of = i + 1]
      BY <1>1, <2>2 DEF Probe, Handler
    <3>2. /\ i + 1 \in Indices
          /\ \A k \in Indices : k < i + 1 => k \in pool
      BY <1>1, <2>2, PoolAssumption DEF Indices
    <3>3. /\ job'[j] \in Job /\ job'[j].phase = "probing"
          /\ job'[j].kind = "pool" /\ job'[j].of = i + 1
          /\ job'[j].seen = job[j].seen /\ job'[j].does = job[j].does
      BY <1>1, <3>1, <3>2 DEF Job, Targets
    <3>4. job[j].does = {} /\ job[j].seen = {}
      BY <1>1 DEF Good
    <3>5. WellFormed(TxIn(job'[j]))
      BY <3>3, <3>4 DEF WellFormed, TxIn
    <3>6. /\ job'[j].of \in Indices
          /\ \A k \in Indices : k < job'[j].of => k \in pool
      BY <3>2, <3>3
    <3>7. job'[j].kind \in Kinds /\ job'[j].of \in Targets
      BY <3>3, <3>6 DEF Kinds, Targets
    <3>8. QED
      BY <3>3, <3>4, <3>5, <3>6, <3>7 DEF Good
  <2>3. CASE i \in pool /\ ~(i + 1 < PoolSize)
    <3>1. job'[j] = [job[j] EXCEPT !.phase = "exhausted"]
      BY <1>1, <2>3 DEF Probe, Handler, End
    <3>2. pool = Indices
      <4>1. pool \subseteq Indices
        BY <1>1 DEF ChainGood
      <4>2. \A k \in Indices : k < i \/ k = i
        BY <1>1, <2>3, PoolAssumption DEF Indices
      <4>3. QED
        BY <1>1, <2>3, <4>1, <4>2
    <3>3. /\ job[j].phase \in Running /\ "exhausted" \in Answers
          /\ job[j] \in Job /\ Good(job[j])
      BY <1>1 DEF Running, Answers
    <3>4. Good([job[j] EXCEPT !.phase = "exhausted"])
      BY <3>2, <3>3, PhaseGood
    <3>5. QED
      BY <3>1, <3>4
  <2>4. QED
    BY <2>1, <2>2, <2>3
<1>3. QED
  BY <1>1, <1>2, HandlerStep
     DEF Probe, Handler, chain, network, IInv, TypeOK

\* The three awaits that all calls end in, and the errors.
LEMMA SendGood ==
    ASSUME IInv, NEW j \in Jobs, SendStep(j)
    PROVE  IInv'
<1>1. /\ Good(job[j]) /\ job \in [Jobs -> Job] /\ ChainGood /\ job[j] \in Job
      /\ TxIn(job[j]) = TxOf(j)
  BY Parts DEF ChainGood, TxIn, TxOf
<1>2. CASE Sign(j)
  <2>1. /\ job'[j] = [job[j] EXCEPT !.phase = "signed", !.slot = slot]
        /\ job[j].phase = "building" /\ slot \in Slots
    BY <1>1, <1>2 DEF Sign, Handler, ChainGood
  <2>2. /\ job'[j] \in Job /\ job'[j].phase = "signed"
        /\ job'[j].kind = job[j].kind /\ job'[j].of = job[j].of
        /\ job'[j].seen = job[j].seen /\ job'[j].does = job[j].does
    <3>1. "signed" \in {"idle"} \cup Running \cup Answers
      BY DEF Running
    <3>2. QED
      BY <1>1, <2>1, <3>1 DEF Job
  <2>3. WellFormed(TxIn(job'[j]))
    BY <1>1, <2>2 DEF Good, WellFormed, TxIn
  <2>4. Good(job'[j])
    BY <1>1, <2>1, <2>2, <2>3 DEF Good
  <2>5. QED
    BY <1>2, <2>4, HandlerStep
       DEF Sign, Handler, chain, network, IInv, TypeOK
<1>3. ASSUME NEW reached \in BOOLEAN, Send(j, reached)
      PROVE  IInv'
  <2>1. /\ TxOf(j) \in Tx
        /\ WellFormed(TxOf(j))
    BY <1>1, <1>3 DEF Good, Send, TxOf, Tx, Job
  <2> DEFINE ph == IF reached THEN "sent" ELSE "error"
  <2>2. /\ job' = [job EXCEPT ![j].phase = ph]
        /\ job'[j] = [job[j] EXCEPT !.phase = ph]
        /\ job[j].phase = "signed" /\ job[j].phase \in Running
    BY <1>1, <1>3 DEF Send, Running
  <2>3. Good(job'[j])
    <3>1. /\ ph \in {"signed", "sent", "confirmed"} \cup Answers
          /\ ph \in {"sent", "error"}
      BY DEF Answers
    <3>2. job[j].kind = "pool" => job[j].does = {"poolNonce"}
      BY <1>1, <2>2 DEF Good
    <3> HIDE DEF ph
    <3>3. QED
      BY <1>1, <2>2, <3>1, <3>2, PhaseGood
  <2>4. /\ inflight' \subseteq inflight \cup {TxOf(j)}
        /\ UNCHANGED <<slot, multisig, nonce, pool, proposal>>
        /\ UNCHANGED <<succeeded, failed, frontRun>>
    BY <1>3 DEF Send, chain
  <2>5. ChainGood'
    <3>1. job' \in [Jobs -> Job]
      BY <1>1, <2>2, <2>3 DEF Good
    <3>2. inflight' \subseteq Tx /\ (\A t \in inflight : WellFormed(t))'
      BY <1>1, <2>1, <2>4 DEF ChainGood, WellFormed
    <3>3. QED
      BY <1>1, <2>4, <3>1, <3>2 DEF ChainGood, ChainConsistent
  <2>6. ASSUME NEW i \in Jobs
        PROVE  Good(job[i])'
    <3>1. Good(job[i])
      BY Parts
    <3>2. Good(job'[i])
      BY <1>1, <2>2, <2>3, <3>1
    <3>3. QED
      BY <2>4, <3>2 DEF Good, WellFormed, TxIn
  <2>7. QED
    BY <2>5, <2>6
       DEF TxOf, TxIn, ChainGood, Good, IInv, TypeOK, TransactionsWellFormed,
           JobsConsistent, PoolHasNoGap, SuccessHasLanded, SetupIsComplete,
           ExecutedIsExecuted
<1>4. ASSUME NEW ph, Handler(j, End(j, ph)),
             Good([job[j] EXCEPT !.phase = ph])
      PROVE  IInv'
  <2>1. Good(job'[j])
    BY <1>1, <1>4 DEF Handler, End
  <2>2. QED
    BY <1>4, <2>1, HandlerStep DEF Handler, chain, network, IInv, TypeOK
<1>5. CASE PreflightExecuted(j)
  <2>1. /\ job[j].phase \in Running /\ "executed" \in Answers
        /\ proposal[job[j].of] = "executed"
        /\ Handler(j, End(j, "executed"))
        /\ job[j].of \in Proposals
    BY <1>1, <1>5
       DEF PreflightExecuted, Running, Answers, Good, WellFormed, TxIn,
           ProposalInstructions
  <2>2. Good([job[j] EXCEPT !.phase = "executed"])
    BY <1>1, <2>1, PhaseGood
  <2>3. QED
    BY <1>4, <2>1, <2>2
<1>6. CASE Throw(j)
  <2>1. /\ job[j].phase \in Running /\ "error" \in Answers
        /\ Handler(j, End(j, "error"))
    BY <1>6 DEF Throw, Answers
  <2>2. Good([job[j] EXCEPT !.phase = "error"])
    BY <1>1, <2>1, PhaseGood
  <2>3. QED
    BY <1>4, <2>1, <2>2
<1>7. CASE Reread(j)
  <2> DEFINE ph == IF job[j].of \in nonce THEN "ok" ELSE "error"
  <2>1. /\ job[j].phase \in Running /\ {"ok", "error"} \subseteq Answers
        /\ Handler(j, End(j, ph))
        /\ job[j].kind = "setup" /\ TxIn(job[j]) \in succeeded
        /\ nonce \subseteq multisig
    BY <1>1, <1>7 DEF Reread, Running, Answers, Good, ChainGood, ChainConsistent
  <2>2. ph = "error" \/ (ph = "ok" /\ job[j].of \in multisig \cap nonce)
    BY <2>1
  <2> HIDE DEF ph
  <2>3. Good([job[j] EXCEPT !.phase = ph])
    <3>1. CASE ph = "error"
      <4>1. Good([job[j] EXCEPT !.phase = "error"])
        BY <1>1, <2>1, PhaseGood
      <4>2. QED
        BY <3>1, <4>1
    <3>2. CASE ph = "ok" /\ job[j].of \in multisig \cap nonce
      <4>1. Good([job[j] EXCEPT !.phase = "ok"])
        BY <1>1, <2>1, <3>2, PhaseGood
      <4>2. QED
        BY <3>2, <4>1
    <3>3. QED
      BY <2>2, <3>1, <3>2
  <2>4. QED
    BY <1>4, <2>1, <2>3
<1>8. CASE Confirm(j)
  <2> DEFINE ph == IF TxOf(j) \in succeeded THEN AfterConfirm(job[j].kind)
                   ELSE OnFailure(j)
  <2>1. /\ job[j].phase = "sent" /\ job[j].phase \in Running
        /\ TxOf(j) \in succeeded \cup failed
        /\ Handler(j, End(j, ph))
    BY <1>8 DEF Confirm, Running, Landed
  <2>2. /\ job[j].kind = "pool" => job[j].does = {"poolNonce"}
        /\ TxOf(j) \in frontRun =>
            /\ job[j].of \in Proposals
            /\ proposal[job[j].of] \in {"executed", "closed"}
    BY <1>1, <2>1 DEF Good, ChainGood, ChainConsistent, TxOf
  <2>3. \/ ph = "confirmed" /\ TxOf(j) \in succeeded /\ job[j].kind = "setup"
        \/ ph = "ok" /\ TxOf(j) \in succeeded /\ job[j].kind # "setup"
        \/ ph = "error"
        \/ ph = "executed" /\ TxOf(j) \in frontRun
        \/ ph = "landed" /\ TxOf(j) \in failed
    BY <2>1 DEF AfterConfirm, OnFailure
  <2>4. {"ok", "error", "executed", "landed"} \subseteq Answers
    BY DEF Answers
  <2> HIDE DEF ph
  <2>5. Good([job[j] EXCEPT !.phase = ph])
    <3>1. CASE ph = "confirmed" /\ TxOf(j) \in succeeded /\ job[j].kind = "setup"
      <4>1. Good([job[j] EXCEPT !.phase = "confirmed"])
        BY <1>1, <2>1, <3>1, PhaseGood
      <4>2. QED
        BY <3>1, <4>1
    <3>2. CASE ph = "ok" /\ TxOf(j) \in succeeded /\ job[j].kind # "setup"
      <4>1. Good([job[j] EXCEPT !.phase = "ok"])
        BY <1>1, <2>1, <2>2, <2>4, <3>2, PhaseGood
      <4>2. QED
        BY <3>2, <4>1
    <3>3. CASE ph = "error"
      <4>1. Good([job[j] EXCEPT !.phase = "error"])
        BY <1>1, <2>1, <2>4, PhaseGood
      <4>2. QED
        BY <3>3, <4>1
    <3>4. CASE ph = "executed" /\ TxOf(j) \in frontRun
      <4>1. Good([job[j] EXCEPT !.phase = "executed"])
        BY <1>1, <2>1, <2>2, <2>4, <3>4, PhaseGood
      <4>2. QED
        BY <3>4, <4>1
    <3>5. CASE ph = "landed" /\ TxOf(j) \in failed
      <4>1. Good([job[j] EXCEPT !.phase = "landed"])
        BY <1>1, <2>1, <2>4, <3>5, PhaseGood
      <4>2. QED
        BY <3>5, <4>1
    <3>6. QED
      BY <2>3, <3>1, <3>2, <3>3, <3>4, <3>5
  <2>6. QED
    BY <1>4, <2>1, <2>5
<1>9. QED
  BY <1>2, <1>3, <1>5, <1>6, <1>7, <1>8 DEF SendStep

-----------------------------------------------------------------------------
(* Steps of the chain *)

\* A step of the chain that only adds, and keeps what the invariant says of
\* the chain, keeps what it says of the calls.
LEMMA ChainStepGood ==
    ASSUME IInv, ChainGood', UNCHANGED job,
           multisig \subseteq multisig', nonce \subseteq nonce',
           pool \subseteq pool', succeeded \subseteq succeeded',
           failed \subseteq failed',
           \A x \in Proposals : proposal[x] \in {"executed", "closed"} =>
                                  proposal'[x] \in {"executed", "closed"}
    PROVE  IInv'
<1>1. ASSUME NEW j \in Jobs
      PROVE  Good(job[j])'
  <2>1. Good(job[j])
    BY Parts
  <2>2. WellFormed(TxIn(job[j]))'
    BY <2>1 DEF Good, WellFormed, TxIn
  <2>3. job[j].phase = "exhausted" => pool' = Indices
    BY <2>1 DEF Good, ChainGood
  <2>4. job[j].phase = "executed" =>
          /\ job[j].of \in Proposals
          /\ proposal'[job[j].of] \in {"executed", "closed"}
    BY <2>1 DEF Good
  <2>5. /\ "multisig" \in job[j].seen => job[j].of \in multisig'
        /\ "nonce" \in job[j].seen => job[j].of \in nonce'
        /\ job[j].kind = "pool" =>
            job[j].of \in Indices /\ \A k \in Indices : k < job[j].of => k \in pool'
        /\ job[j].kind = "setup" /\ job[j].phase \in {"ok", "already"} =>
            job[j].of \in multisig' \cap nonce'
    BY <2>1 DEF Good
  <2>6. /\ job[j].phase = "confirmed" =>
            job[j].kind = "setup" /\ TxIn(job[j]) \in succeeded'
        /\ job[j].phase = "ok" => TxIn(job[j]) \in succeeded'
        /\ job[j].phase = "landed" => TxIn(job[j]) \in failed'
    BY <2>1 DEF Good
  <2>7. QED
    BY <2>1, <2>2, <2>3, <2>4, <2>5, <2>6 DEF Good, TxIn
<1>2. QED
  BY <1>1
     DEF TxOf, TxIn, ChainGood, Good, IInv, TypeOK, TransactionsWellFormed,
         JobsConsistent, PoolHasNoGap, SuccessHasLanded, SetupIsComplete,
         ExecutedIsExecuted

\* A transaction is included and executed: accounts are added, and the pool
\* grows by the index above those it has.
LEMMA ExecuteGood ==
    ASSUME IInv, NEW t \in inflight, Execute(t)
    PROVE  IInv'
<1>1. /\ ChainGood /\ t \in Tx /\ WellFormed(t)
      /\ t.does \in SUBSET Instructions
  BY Parts DEF ChainGood, Tx
<1>2. /\ multisig \subseteq multisig' /\ multisig' \in SUBSET Vaults
      /\ nonce \subseteq nonce' /\ nonce' \in SUBSET Vaults
      /\ nonce' \subseteq multisig'
  <2>1. /\ "init" \in t.does => t.of \in Vaults
        /\ "provision" \in t.does =>
            t.of \in Vaults /\ (t.of \in multisig \/ "init" \in t.does)
    BY <1>1 DEF Execute, Executable, WellFormed, SetupInstructions
  <2>2. QED
    BY <1>1, <2>1 DEF Execute, Created, ChainGood, ChainConsistent
<1>3. /\ pool \subseteq pool' /\ pool' \in SUBSET Indices
      /\ \A i \in pool' : \A k \in Indices : k < i => k \in pool'
  <2>1. "poolNonce" \in t.does =>
          t.of \in Indices /\ \A k \in Indices : k < t.of => k \in pool
    BY <1>1 DEF WellFormed
  <2>2. QED
    BY <1>1, <2>1 DEF Execute, Created, ChainGood
<1>4. /\ proposal' \in [Proposals -> {"none", "open", "executed", "closed"}]
      /\ \A x \in Proposals : proposal[x] \in {"executed", "closed"} =>
                               proposal'[x] \in {"executed", "closed"}
  <2>1. "create" \in t.does => proposal[t.of] = "none"
    BY DEF Execute, Executable
  <2>2. QED
    BY <1>1, <2>1 DEF Execute, ChainGood
<1>5. /\ inflight' \in SUBSET Tx /\ succeeded' \in SUBSET Tx
      /\ succeeded \subseteq succeeded'
      /\ failed' = failed /\ frontRun' = frontRun
      /\ slot' = slot /\ job' = job
      /\ inflight' \subseteq inflight
  BY <1>1 DEF Execute, ChainGood
<1>6. \A u \in inflight' : WellFormed(u)'
  BY <1>1, <1>3, <1>5 DEF ChainGood, WellFormed
<1>7. ChainConsistent'
  <2>1. \A u \in succeeded' : "poolNonce" \in u.does => u.of \in pool'
    BY <1>1, <1>3 DEF Execute, Created, ChainGood, ChainConsistent
  <2>2. \A u \in succeeded : "poolNonce" \in u.does \cap t.does => u.of # t.of
    BY <1>1 DEF Execute, Executable, ChainGood, ChainConsistent
  <2>3. \A u, w \in succeeded' :
          "poolNonce" \in u.does \cap w.does /\ u.of = w.of => u = w
    BY <1>1, <2>2 DEF Execute, ChainGood, ChainConsistent
  <2>4. \A u \in frontRun' :
          u.of \in Proposals /\ proposal'[u.of] \in {"executed", "closed"}
    BY <1>1, <1>4, <1>5 DEF ChainGood, ChainConsistent
  <2>5. QED
    BY <1>2, <2>1, <2>3, <2>4 DEF ChainConsistent
<1>8. ChainGood'
  <2>1. slot' \in Slots /\ frontRun' \in SUBSET failed' /\ failed' \in SUBSET Tx
        /\ job' \in [Jobs -> Job]
    BY <1>1, <1>5 DEF ChainGood
  <2>2. QED
    BY <1>2, <1>3, <1>4, <1>5, <1>6, <1>7, <2>1 DEF ChainGood
<1>9. QED
  BY <1>2, <1>3, <1>4, <1>5, <1>8, ChainStepGood

\* The other steps of the chain.
LEMMA ChainStepKeeps ==
    ASSUME IInv, ChainStep
    PROVE  IInv'
<1>1. ChainGood
  BY Parts
<1>2. ASSUME NEW t \in inflight, FailOnChain(t)
      PROVE  IInv'
  <2>1. /\ t \in Tx /\ WellFormed(t)
        /\ "execute" \in t.does => t.of \in Proposals
    BY <1>1 DEF ChainGood, WellFormed, ProposalInstructions
  <2>2. UNCHANGED <<slot, multisig, nonce, pool, proposal, succeeded, job>>
    BY <1>2 DEF FailOnChain, chain
  <2>3. /\ inflight' \in SUBSET Tx /\ inflight' \subseteq inflight
        /\ failed' \in SUBSET Tx /\ failed \subseteq failed'
        /\ frontRun' \in SUBSET failed'
    BY <1>1, <1>2, <2>1 DEF FailOnChain, ChainGood
  <2>4. \A u \in frontRun' :
          u.of \in Proposals /\ proposal[u.of] \in {"executed", "closed"}
    BY <1>1, <1>2, <2>1 DEF FailOnChain, ChainGood, ChainConsistent
  <2>5. ChainConsistent' /\ (\A u \in inflight : WellFormed(u))'
    BY <1>1, <2>2, <2>3, <2>4 DEF ChainGood, ChainConsistent, WellFormed
  <2>6. ChainGood'
    BY <1>1, <2>2, <2>3, <2>5 DEF ChainGood
  <2>7. QED
    BY <2>2, <2>3, <2>6, ChainStepGood
<1>3. ASSUME NEW t \in inflight, Drop(t)
      PROVE  IInv'
  <2>1. /\ UNCHANGED <<slot, multisig, nonce, pool, proposal, succeeded, job>>
        /\ UNCHANGED <<failed, frontRun>>
        /\ inflight' \subseteq inflight
    BY <1>3 DEF Drop, chain
  <2>2. ChainConsistent' /\ (\A u \in inflight : WellFormed(u))'
    BY <1>1, <2>1 DEF ChainGood, ChainConsistent, WellFormed
  <2>3. ChainGood'
    BY <1>1, <2>1, <2>2 DEF ChainGood
  <2>4. QED
    BY <2>1, <2>3, ChainStepGood
<1>4. CASE NextSlot
  <2>1. /\ UNCHANGED <<multisig, nonce, pool, proposal, succeeded, job>>
        /\ UNCHANGED <<failed, frontRun, inflight>>
    BY <1>4 DEF NextSlot, chain, network
  <2>2. slot' \in Slots
    BY <1>1, <1>4, SlotAssumption DEF NextSlot, ChainGood, Slots
  <2>3. ChainConsistent' /\ (\A u \in inflight : WellFormed(u))'
    BY <1>1, <2>1 DEF ChainGood, ChainConsistent, WellFormed
  <2>4. ChainGood'
    BY <1>1, <2>1, <2>2, <2>3 DEF ChainGood
  <2>5. QED
    BY <2>1, <2>4, ChainStepGood
<1>5. ASSUME NEW x \in Proposals, ThirdPartyExecutes(x)
      PROVE  IInv'
  <2>1. /\ UNCHANGED <<slot, multisig, nonce, pool, succeeded, job>>
        /\ UNCHANGED <<failed, frontRun, inflight>>
    BY <1>5 DEF ThirdPartyExecutes, network
  <2>2. /\ proposal' \in [Proposals -> {"none", "open", "executed", "closed"}]
        /\ \A y \in Proposals : proposal[y] \in {"executed", "closed"} =>
                                 proposal'[y] \in {"executed", "closed"}
    BY <1>1, <1>5 DEF ThirdPartyExecutes, ChainGood
  <2>3. ChainConsistent' /\ (\A u \in inflight : WellFormed(u))'
    BY <1>1, <2>1, <2>2 DEF ChainGood, ChainConsistent, WellFormed
  <2>4. ChainGood'
    BY <1>1, <2>1, <2>2, <2>3 DEF ChainGood
  <2>5. QED
    BY <2>1, <2>2, <2>4, ChainStepGood
<1>6. QED
  BY <1>2, <1>3, <1>4, <1>5, ExecuteGood DEF ChainStep

-----------------------------------------------------------------------------
(* The theorems *)

\* Every state the service starts in satisfies the invariant.
LEMMA InitGood == Init => IInv
<1> SUFFICES ASSUME Init
             PROVE  IInv
  OBVIOUS
<1>1. /\ job = [j \in Jobs |-> IdleJob]
      /\ IdleJob = [phase |-> "idle", kind |-> None, of |-> None, does |-> {},
                    slot |-> 0, read |-> {}, seen |-> {}]
      /\ 0 \in Slots
  BY SlotAssumption DEF Init, IdleJob, Slots
<1>2. IdleJob \in Job
  BY <1>1 DEF Job
<1>3. None \notin {"setup", "pool"}
  BY NoneAssumption DEF Kinds
<1>4. ASSUME NEW j \in Jobs
      PROVE  Good(job[j])
  BY <1>1, <1>2, <1>3 DEF Good, TxIn, WellFormed
<1>5. /\ pool \subseteq Indices
      /\ \A i \in pool : \A k \in Indices : k < i => k \in pool
  <2>1. PICK n \in 0..PoolSize : pool = 0..(n - 1)
    BY DEF Init
  <2>2. QED
    BY <2>1, PoolAssumption DEF Indices
<1>6. ChainGood
  BY <1>1, <1>2, <1>5 DEF Init, ChainGood, ChainConsistent
<1>7. QED
  BY <1>4, <1>6, Parts

\* The inductive invariant holds in every state that Spec reaches, for any
\* number of calls, vaults, proposals and blocks and any size of the pool.
THEOREM Invariance == Spec => []IInv
<1>1. IInv /\ [Next]_vars => IInv'
  <2> SUFFICES ASSUME IInv, [Next]_vars
               PROVE  IInv'
    OBVIOUS
  <2>1. ASSUME NEW j \in Jobs,
               ClientStep(j) \/ SetupStep(j) \/ Probe(j) \/ SendStep(j)
        PROVE  IInv'
    BY <2>1, ClientGood, SetupGood, ProbeGood, SendGood
  <2>2. CASE UNCHANGED vars
    BY <2>2
       DEF vars, TxOf, IInv, TypeOK, TransactionsWellFormed, JobsConsistent,
           PoolHasNoGap, SuccessHasLanded, SetupIsComplete, ExecutedIsExecuted,
           ChainConsistent, WellFormed
  <2>3. QED
    BY <2>1, <2>2, ChainStepKeeps DEF Next
<1>2. QED
  BY <1>1, InitGood, PTL DEF Spec

\* The variables have their types.
THEOREM TypeCorrectness == Spec => []TypeOK
<1>1. IInv => TypeOK
  BY DEF IInv
<1>2. QED
  BY <1>1, Invariance, PTL

\* The accounts of the pool are those of its first indices, and "exhausted" is
\* said of a full pool, for any number of calls that race for the next index.
THEOREM PoolFilledFromBelow == Spec => []PoolHasNoGap
<1>1. IInv => PoolHasNoGap
  BY DEF IInv
<1>2. QED
  BY <1>1, Invariance, PTL

\* A caller told of success has his transaction executed, one told of a landed
\* failure has it in a block.
THEOREM SuccessTrue == Spec => []SuccessHasLanded
<1>1. IInv => SuccessHasLanded
  BY DEF IInv
<1>2. QED
  BY <1>1, Invariance, PTL

\* A setup that returns a nonce value leaves a multisig and its nonce account.
THEOREM SetupsComplete == Spec => []SetupIsComplete
<1>1. IInv => SetupIsComplete
  BY DEF IInv
<1>2. QED
  BY <1>1, Invariance, PTL

\* alreadyExecuted is said only of a proposal that has been executed.
THEOREM ExecutedTrue == Spec => []ExecutedIsExecuted
<1>1. IInv => ExecutedIsExecuted
  BY DEF IInv
<1>2. QED
  BY <1>1, Invariance, PTL

\* Calls that are handed the same account of the pool have signed the same
\* transaction, in the same block.
THEOREM NonceShared == Spec => []NonceSharedOnlyInOneBlock
<1>1. IInv => NonceSharedOnlyInOneBlock
  <2> SUFFICES ASSUME IInv, NEW j \in Jobs, NEW k \in Jobs,
                      job[j].kind = "pool", job[j].phase = "ok",
                      job[k].kind = "pool", job[k].phase = "ok",
                      job[j].of = job[k].of
               PROVE  job[j].slot = job[k].slot
    BY DEF NonceSharedOnlyInOneBlock
  <2>1. /\ TxOf(j) \in succeeded /\ TxOf(k) \in succeeded
        /\ job[j].does = {"poolNonce"} /\ job[k].does = {"poolNonce"}
    BY DEF IInv, SuccessHasLanded, JobsConsistent
  <2>2. /\ TxOf(j).does = {"poolNonce"} /\ TxOf(k).does = {"poolNonce"}
        /\ TxOf(j).of = TxOf(k).of
    BY <2>1 DEF TxOf
  <2>3. "poolNonce" \in TxOf(j).does \cap TxOf(k).does
    BY <2>2
  <2>4. TxOf(j) = TxOf(k)
    BY <2>1, <2>2, <2>3 DEF IInv, ChainConsistent
  <2>5. TxOf(j).slot = job[j].slot /\ TxOf(k).slot = job[k].slot
    BY DEF TxOf
  <2>6. QED
    BY <2>4, <2>5
<1>2. QED
  BY <1>1, Invariance, PTL
=============================================================================
