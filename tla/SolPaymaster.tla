---------------------------- MODULE SolPaymaster ----------------------------
(***************************************************************************)
(* The Solana paymaster: the handlers that read the chain, sign as fee     *)
(* payer, send and confirm.  All of them end in the same three awaits,     *)
(* getLatestBlockhash or a blob signed by the client, sendRawTransaction   *)
(* and confirmTransaction, and differ in what they read before, in the     *)
(* transaction and in what they tell their caller.                         *)
(*                                                                         *)
(*   setup        setupSolMultisig       a vault's multisig and nonce      *)
(*   submitSetup  signAndSubmitSetupTx   the same, built by the client     *)
(*   pool         createPoolNonce        one more nonce account            *)
(*   broadcast    broadcastWithPaymaster a bundled proposal                *)
(*   create, approve, execute: submitSplitTx of the three kinds            *)
(*                                                                         *)
(* A transaction is what it does, what it does it to, and the block hash   *)
(* or nonce it is anchored to.  Its signature is a function of these, so   *)
(* two equal transactions are one: the chain takes it once.                *)
(***************************************************************************)
EXTENDS Integers, Sequences, FiniteSets, Functions

CONSTANTS
    Jobs,               \* the calls of a behaviour
    Vaults,             \* multisigs with their vault and nonce account
    Proposals,          \* proposals of the vaults
    PoolSize,           \* POOL_NONCE_MAX_INDEX
    MinReimbursement,   \* FEE_SCHEDULE.minReimbursementLamports
    SplitPerTx,         \* FEE_SCHEDULE.splitPerTxLamports
    Contents,           \* the instruction lists that clients send
    Reimbursements,     \* what their proposals pay back
    SignerCounts,       \* expectedSignerTxCount of the callers
    None,               \* no target
    MaxSlot             \* bound: the last block

ASSUME PoolAssumption == PoolSize \in Nat
ASSUME SlotAssumption == MaxSlot \in Nat
ASSUME FeeAssumption ==
    /\ MinReimbursement \in Nat
    /\ SplitPerTx \in Nat
    /\ Reimbursements \subseteq Nat
    /\ SignerCounts \subseteq Int

Indices == 0..(PoolSize - 1)
Slots == 0..MaxSlot

\* What the instructions of a transaction do: "poolNonce" stands for the pair
\* createAccountWithSeed and nonceInitialize, "system" for any other of the
\* system program, "foreign" for those of programs the paymaster does not know.
ProposalInstructions == {"create", "approve", "execute", "close"}
SetupInstructions == {"init", "provision"}
Instructions == ProposalInstructions \cup SetupInstructions \cup
                {"poolNonce", "advance", "ata", "system", "foreign"}

\* Clients' proposals set up no vault, and of the nonces of the pool only the
\* paymaster holds the key.
ASSUME ContentsAssumption ==
    Contents \subseteq Seq(Instructions \ (SetupInstructions \cup {"poolNonce"}))

SplitKinds == {"create", "approve", "execute"}
Kinds == SplitKinds \cup {"setup", "submitSetup", "pool", "broadcast"}

ASSUME NoneAssumption == None \notin Kinds

Targets == Vaults \cup Proposals \cup Indices

Tx == [does: SUBSET Instructions, of: Targets, slot: Slots]

VARIABLES
    slot,           \* the newest block
    multisig,       \* vaults whose multisig account exists
    nonce,          \* vaults whose nonce account exists
    pool,           \* indices of the nonce pool whose account exists
    proposal,       \* proposal[x]: how far it is on chain
    inflight,       \* transactions a node has accepted, not in a block yet
    succeeded,      \* transactions in a block, executed
    failed,         \* transactions in a block whose execution failed
    frontRun,       \* those of them that failed with AlreadyExecuted
    job             \* job[j]: the call's handler

chain == <<multisig, nonce, pool, proposal>>
network == <<inflight, succeeded, failed, frontRun>>
vars == <<slot, multisig, nonce, pool, proposal, inflight, succeeded, failed,
          frontRun, job>>

Landed == succeeded \cup failed

\* reading    the two reads of setup are under way
\* probing    createPoolNonce looks at one index after the other
\* building   ready to fetch a block hash
\* signed     the transaction is signed, not sent
\* sent       sendRawTransaction has returned; confirmTransaction runs
\* confirmed  setup reads the nonce again
Running == {"reading", "probing", "building", "signed", "sent", "confirmed"}

\* ok         the signature, or the account, of the caller's transaction
\* already    setup found both accounts
\* landed     error, with landed: true
\* executed   alreadyExecuted: true
\* exhausted  the pool is full
\* refused    a check failed before anything was signed
\* error      something threw, or setup, pool or broadcast failed on chain
Answers == {"ok", "already", "landed", "executed", "exhausted", "refused",
            "error"}

Job == [phase: {"idle"} \cup Running \cup Answers, kind: Kinds \cup {None},
        of: Targets \cup {None}, does: SUBSET Instructions, slot: Slots,
        read: SUBSET {"multisig", "nonce"}, seen: SUBSET {"multisig", "nonce"}]

TxOf(j) == [does |-> job[j].does, of |-> job[j].of, slot |-> job[j].slot]

TypeOK ==
    /\ slot \in Slots
    /\ multisig \in SUBSET Vaults
    /\ nonce \in SUBSET Vaults
    /\ pool \in SUBSET Indices
    /\ proposal \in [Proposals -> {"none", "open", "executed", "closed"}]
    /\ inflight \in SUBSET Tx
    /\ succeeded \in SUBSET Tx
    /\ failed \in SUBSET Tx
    /\ frontRun \in SUBSET failed
    /\ job \in [Jobs -> Job]
    /\ \A j \in Jobs : job[j].phase # "idle" =>
        job[j].kind \in Kinds /\ job[j].of \in Targets

IdleJob == [phase |-> "idle", kind |-> None, of |-> None, does |-> {},
            slot |-> 0, read |-> {}, seen |-> {}]

\* The accounts may be there from before: a multisig without its nonce when
\* it was initialised elsewhere, a pool filled up to any index.
Init ==
    /\ slot = 0
    /\ multisig \in SUBSET Vaults
    /\ nonce \in SUBSET multisig
    /\ \E n \in 0..PoolSize : pool = 0..(n - 1)
    /\ proposal \in [Proposals -> {"none", "open"}]
    /\ inflight = {}
    /\ succeeded = {}
    /\ failed = {}
    /\ frontRun = {}
    /\ job = [j \in Jobs |-> IdleJob]

-----------------------------------------------------------------------------
(* Steps of one handler: the chain is as it was. *)

Handler(j, change) ==
    /\ job' = [job EXCEPT ![j] = change]
    /\ UNCHANGED <<slot, chain, network>>

Call(j, k, x) == [IdleJob EXCEPT !.phase = "signed", !.kind = k, !.of = x]

End(j, answer) == [job[j] EXCEPT !.phase = answer]

-----------------------------------------------------------------------------
(* setupSolMultisig *)

StartSetup(j, v) ==
    /\ job[j].phase = "idle"
    /\ Handler(j, [Call(j, "setup", v) EXCEPT !.phase = "reading"])

\* The two reads of Promise.all, in the order the answers come.
ReadAccount(j, account, exists) ==
    /\ job[j].phase = "reading"
    /\ account \notin job[j].read
    /\ Handler(j, [job[j] EXCEPT
                     !.read = @ \cup {account},
                     !.seen = IF exists THEN @ \cup {account} ELSE @])

ReadMultisig(j) == ReadAccount(j, "multisig", job[j].of \in multisig)

ReadNonce(j) == ReadAccount(j, "nonce", job[j].of \in nonce)

\* Mutant: one of the two accounts is enough.
FindEither(j) ==
    /\ job[j].phase = "reading"
    /\ job[j].read = {"multisig", "nonce"}
    /\ job[j].seen # {}
    /\ Handler(j, End(j, "already"))

\* Both exist: the nonce's value is read and returned, nothing is sent.
FindProvisioned(j) ==
    /\ job[j].phase = "reading"
    /\ job[j].read = {"multisig", "nonce"}
    /\ job[j].seen = {"multisig", "nonce"}
    /\ Handler(j, End(j, "already"))

\* The vault's balance, which its owner changes at will, is not enough.
RefuseSetup(j) ==
    /\ job[j].phase = "reading"
    /\ job[j].read = {"multisig", "nonce"}
    /\ job[j].seen # {"multisig", "nonce"}
    /\ Handler(j, End(j, "refused"))

\* The balance is enough: the instructions for what is missing.
BuildSetup(j) ==
    /\ job[j].phase = "reading"
    /\ job[j].read = {"multisig", "nonce"}
    /\ job[j].seen # {"multisig", "nonce"}
    /\ Handler(j, [job[j] EXCEPT
                     !.phase = "building",
                     !.does = (IF "multisig" \in job[j].seen THEN {} ELSE {"init"})
                         \cup (IF "nonce" \in job[j].seen THEN {} ELSE {"provision"})])

-----------------------------------------------------------------------------
(* createPoolNonce *)

StartPool(j) ==
    /\ job[j].phase = "idle"
    /\ PoolSize > 0
    /\ Handler(j, [Call(j, "pool", 0) EXCEPT !.phase = "probing"])

\* Mutant: the loop takes two indices at a time.
ProbeEverySecond(j) ==
    LET i == job[j].of IN
    /\ job[j].phase = "probing"
    /\ Handler(j, IF i \notin pool
                    THEN [job[j] EXCEPT !.phase = "building", !.does = {"poolNonce"}]
                  ELSE IF i + 2 < PoolSize THEN [job[j] EXCEPT !.of = i + 2]
                  ELSE End(j, "exhausted"))

\* Mutant: the loop runs once too often.
ProbePastEnd(j) ==
    LET i == job[j].of IN
    /\ job[j].phase = "probing"
    /\ Handler(j, IF i \notin pool
                    THEN [job[j] EXCEPT !.phase = "building", !.does = {"poolNonce"}]
                  ELSE IF i + 1 <= PoolSize THEN [job[j] EXCEPT !.of = i + 1]
                  ELSE End(j, "exhausted"))

\* One round of the loop over the seeds: the lowest index without an account.
Probe(j) ==
    LET i == job[j].of IN
    /\ job[j].phase = "probing"
    /\ Handler(j, IF i \notin pool
                    THEN [job[j] EXCEPT !.phase = "building", !.does = {"poolNonce"}]
                  ELSE IF i + 1 < PoolSize THEN [job[j] EXCEPT !.of = i + 1]
                  ELSE End(j, "exhausted"))

-----------------------------------------------------------------------------
(* Transactions built and signed by the client *)

CountOf(ixs, name) == Cardinality({i \in DOMAIN ixs : ixs[i] = name})

\* validateReimbursement: of the system program only AdvanceNonceAccount, a
\* create_transaction, and a proposal that pays enough back.
Reimburses(ixs, lamports) ==
    /\ "system" \notin Range(ixs)
    /\ "create" \in Range(ixs)
    /\ lamports >= MinReimbursement

SplitFloor(signers) ==
    MinReimbursement + SplitPerTx * ((IF signers > 1 THEN signers ELSE 1) + 1)

\* validateSplitTxInstructions
AllowedSplit(kind, ixs, lamports, signers) ==
    CASE kind = "create" ->
            /\ Range(ixs) \subseteq {"advance", "create", "approve"}
            /\ CountOf(ixs, "advance") = 1
            /\ CountOf(ixs, "create") = 1
            /\ CountOf(ixs, "approve") \in 1..2
            /\ lamports >= SplitFloor(signers)
      [] kind = "approve" ->
            /\ Range(ixs) \subseteq {"advance", "approve"}
            /\ CountOf(ixs, "advance") = 1
            /\ CountOf(ixs, "approve") \in 1..2
      [] kind = "execute" ->
            /\ Range(ixs) \subseteq {"ata", "execute", "close"}
            /\ Range(ixs) \cap {"execute", "close"} # {}
            /\ \A name \in {"ata", "execute", "close"} : CountOf(ixs, name) <= 1

Signed(j, k, x, ixs, at) ==
    [Call(j, k, x) EXCEPT !.does = Range(ixs), !.slot = at]

\* submitSplitTx up to partialSign.  The blob may have been anchored to a
\* block hash or a nonce of long ago.
StartSplit(j, kind, x, ixs, lamports, signers, at) ==
    /\ job[j].phase = "idle"
    /\ at <= slot
    /\ Handler(j, IF AllowedSplit(kind, ixs, lamports, signers)
                    THEN Signed(j, kind, x, ixs, at)
                    ELSE [Call(j, kind, x) EXCEPT !.phase = "refused"])

\* broadcastWithPaymaster up to partialSign, with the floor for a recipient's
\* token account, which may or may not be met (enforceSplAtaFloor).
StartBroadcast(j, x, ixs, lamports, at, floorMet) ==
    /\ job[j].phase = "idle"
    /\ at <= slot
    /\ Handler(j, IF Reimburses(ixs, lamports) /\ floorMet
                    THEN Signed(j, "broadcast", x, ixs, at)
                    ELSE [Call(j, "broadcast", x) EXCEPT !.phase = "refused"])

\* signAndSubmitSetupTx up to partialSign: nothing but the fee payer is
\* checked; the callers build setups of both accounts.
StartSubmitSetup(j, v, at) ==
    /\ job[j].phase = "idle"
    /\ at <= slot
    /\ Handler(j, Signed(j, "submitSetup", v, <<"init", "provision">>, at))

-----------------------------------------------------------------------------
(* Sending and confirming *)

\* getLatestBlockhash, and partialSign.
Sign(j) ==
    /\ job[j].phase = "building"
    /\ Handler(j, [job[j] EXCEPT !.phase = "signed", !.slot = slot])

\* A node takes the transaction, unless it has landed already: then there is
\* nothing left to do with it.  The answer may be lost on the way back.
Send(j, reached) ==
    /\ job[j].phase = "signed"
    /\ inflight' = inflight \cup ({TxOf(j)} \ Landed)
    /\ job' = [job EXCEPT ![j].phase = IF reached THEN "sent" ELSE "error"]
    /\ UNCHANGED <<slot, chain, succeeded, failed, frontRun>>

\* The node's simulation finds the proposal executed, and sendRawTransaction
\* throws: thrownErrorIndicatesAlreadyExecuted.
PreflightExecuted(j) ==
    /\ job[j].phase = "signed"
    /\ job[j].kind = "execute"
    /\ "execute" \in job[j].does
    /\ proposal[job[j].of] = "executed"
    /\ Handler(j, End(j, "executed"))

\* Anything the handler awaits may throw: a read, the block hash, the node's
\* simulation, the connection, the time confirmTransaction waits.
Throw(j) ==
    /\ job[j].phase \in Running
    /\ Handler(j, End(j, "error"))

AfterConfirm(k) == IF k = "setup" THEN "confirmed" ELSE "ok"

\* Mutant: createPoolNonce does not look at value.err.
OnFailureButPool(j) ==
    IF job[j].kind = "pool" THEN "ok"
    ELSE IF job[j].kind \notin SplitKinds THEN "error"
    ELSE IF job[j].kind = "execute" /\ TxOf(j) \in frontRun THEN "executed"
    ELSE "landed"

\* What the caller is told when value.err is set.
OnFailure(j) ==
    IF job[j].kind \notin SplitKinds THEN "error"
    ELSE IF job[j].kind = "execute" /\ TxOf(j) \in frontRun THEN "executed"
    ELSE "landed"

\* Mutant: value.err is not looked at.
ConfirmUnchecked(j) ==
    /\ job[j].phase = "sent"
    /\ TxOf(j) \in Landed
    /\ Handler(j, End(j, AfterConfirm(job[j].kind)))

\* Mutant: of an execute, every failure counts as AlreadyExecuted.
ConfirmAnyExecuted(j) ==
    /\ job[j].phase = "sent"
    /\ TxOf(j) \in Landed
    /\ Handler(j, End(j, IF TxOf(j) \in succeeded THEN AfterConfirm(job[j].kind)
                         ELSE IF job[j].kind = "execute" THEN "executed"
                         ELSE OnFailure(j)))

\* confirmTransaction returns; value.err tells a failed execution.
Confirm(j) ==
    /\ job[j].phase = "sent"
    /\ TxOf(j) \in Landed
    /\ Handler(j, End(j, IF TxOf(j) \in succeeded THEN AfterConfirm(job[j].kind)
                         ELSE OnFailure(j)))

\* setupSolMultisig reads the nonce again and returns its value.
Reread(j) ==
    /\ job[j].phase = "confirmed"
    /\ Handler(j, End(j, IF job[j].of \in nonce THEN "ok" ELSE "error"))

-----------------------------------------------------------------------------
(* The chain *)

\* The instructions' own conditions on the accounts.
Executable(t) ==
    /\ "init" \in t.does => t.of \notin multisig
    /\ "provision" \in t.does =>
        t.of \notin nonce /\ (t.of \in multisig \/ "init" \in t.does)
    /\ "poolNonce" \in t.does => t.of \notin pool
    /\ "create" \in t.does => proposal[t.of] = "none"
    /\ "approve" \in t.does => proposal[t.of] = "open" \/ "create" \in t.does
    /\ "execute" \in t.does => proposal[t.of] = "open" \/ "create" \in t.does
    /\ "close" \in t.does => proposal[t.of] = "executed" \/ "execute" \in t.does

Created(t, name, accounts) ==
    IF name \in t.does THEN accounts \cup {t.of} ELSE accounts

\* A transaction is included and all of it is executed.
Execute(t) ==
    /\ t \in inflight \ Landed
    /\ Executable(t)
    /\ multisig' = Created(t, "init", multisig)
    /\ nonce' = Created(t, "provision", nonce)
    /\ pool' = Created(t, "poolNonce", pool)
    /\ proposal' = [x \in Proposals |->
                      IF x # t.of THEN proposal[x]
                      ELSE IF "close" \in t.does THEN "closed"
                      ELSE IF "execute" \in t.does THEN "executed"
                      ELSE IF "create" \in t.does THEN "open"
                      ELSE proposal[x]]
    /\ inflight' = inflight \ {t}
    /\ succeeded' = succeeded \cup {t}
    /\ UNCHANGED <<slot, failed, frontRun, job>>

\* It is included and fails: an account is not as required, approvals are
\* missing, a payment is not covered.
FailOnChain(t) ==
    /\ t \in inflight \ Landed
    /\ inflight' = inflight \ {t}
    /\ failed' = failed \cup {t}
    /\ frontRun' = IF /\ "execute" \in t.does
                      /\ proposal[t.of] = "executed"
                     THEN frontRun \cup {t} ELSE frontRun
    /\ UNCHANGED <<slot, chain, succeeded, job>>

\* It is never included: its block hash has expired, the node has given up.
Drop(t) ==
    /\ t \in inflight
    /\ inflight' = inflight \ {t}
    /\ UNCHANGED <<slot, chain, succeeded, failed, frontRun, job>>

NextSlot ==
    /\ slot < MaxSlot
    /\ slot' = slot + 1
    /\ UNCHANGED <<chain, network, job>>

\* Somebody else executes an open proposal.
ThirdPartyExecutes(x) ==
    /\ proposal[x] = "open"
    /\ proposal' = [proposal EXCEPT ![x] = "executed"]
    /\ UNCHANGED <<slot, multisig, nonce, pool, network, job>>

-----------------------------------------------------------------------------

SetupStep(j) ==
    \/ ReadMultisig(j)
    \/ ReadNonce(j)
    \/ FindProvisioned(j)
    \/ RefuseSetup(j)
    \/ BuildSetup(j)

ClientStep(j) ==
    \/ \E v \in Vaults : StartSetup(j, v)
    \/ StartPool(j)
    \/ \E v \in Vaults, at \in Slots : StartSubmitSetup(j, v, at)
    \/ \E x \in Proposals, ixs \in Contents, lamports \in Reimbursements,
          at \in Slots :
         \/ \E kind \in SplitKinds, signers \in SignerCounts :
              StartSplit(j, kind, x, ixs, lamports, signers, at)
         \/ \E floorMet \in BOOLEAN :
              StartBroadcast(j, x, ixs, lamports, at, floorMet)

SendStep(j) ==
    \/ Sign(j)
    \/ \E reached \in BOOLEAN : Send(j, reached)
    \/ PreflightExecuted(j)
    \/ Confirm(j)
    \/ Reread(j)
    \/ Throw(j)

ChainStep ==
    \/ \E t \in inflight : Execute(t) \/ FailOnChain(t) \/ Drop(t)
    \/ NextSlot
    \/ \E x \in Proposals : ThirdPartyExecutes(x)

Next ==
    \/ \E j \in Jobs : ClientStep(j) \/ SetupStep(j) \/ Probe(j) \/ SendStep(j)
    \/ ChainStep

Spec == Init /\ [][Next]_vars

-----------------------------------------------------------------------------
(* Properties *)

\* The pool is filled from below: the accounts that exist are those of the
\* first indices, whatever calls race for the next one and whatever becomes
\* of their transactions.  With that, "pool exhausted" is said only when all
\* PoolSize accounts exist.
PoolHasNoGap ==
    /\ \A i \in pool : \A k \in Indices : k < i => k \in pool
    /\ \A j \in Jobs : job[j].phase = "exhausted" => pool = Indices

\* Who is told of a success has one: his transaction is in a block and was
\* executed.  Who is told landed: true with an error has a transaction in a
\* block that failed (submitSplitTx: "the durable nonce HAS advanced").
SuccessHasLanded ==
    \A j \in Jobs :
        /\ job[j].phase = "ok" => TxOf(j) \in succeeded
        /\ job[j].phase = "landed" => TxOf(j) \in failed

\* A setup answered with a nonce value is complete, also when another setup
\* of the vault went ahead between its reads or before its transaction.
SetupIsComplete ==
    \A j \in Jobs :
        job[j].kind = "setup" /\ job[j].phase \in {"ok", "already"} =>
            job[j].of \in multisig \cap nonce

\* alreadyExecuted is said only of a proposal that has been executed: the
\* callers go on to close it.
ExecutedIsExecuted ==
    \A j \in Jobs :
        job[j].phase = "executed" =>
            proposal[job[j].of] \in {"executed", "closed"}

\* Two calls that are handed the same account of the pool have signed in the
\* same block, where their transactions are one and the same.
NonceSharedOnlyInOneBlock ==
    \A j, k \in Jobs :
        /\ job[j].kind = "pool" /\ job[j].phase = "ok"
        /\ job[k].kind = "pool" /\ job[k].phase = "ok"
        /\ job[j].of = job[k].of
        => job[j].slot = job[k].slot

\* "Send-level / build errors: the tx demonstrably never landed"
\* (solPaymasterService.ts:1166): a split transaction whose caller got an
\* error without landed is in no block.
ErrorNeverLanded ==
    \A j \in Jobs :
        job[j].kind \in SplitKinds /\ job[j].phase = "error" =>
            TxOf(j) \notin Landed

-----------------------------------------------------------------------------
(* The inductive invariant *)

\* A transaction is about the accounts its instructions are about; one for
\* the pool was built when all lower indices had their accounts.
WellFormed(t) ==
    /\ t.does \cap SetupInstructions # {} => t.of \in Vaults
    /\ t.does \cap ProposalInstructions # {} => t.of \in Proposals
    /\ "poolNonce" \in t.does =>
        /\ t.of \in Indices
        /\ \A k \in Indices : k < t.of => k \in pool

TransactionsWellFormed ==
    /\ \A t \in inflight : WellFormed(t)
    /\ \A j \in Jobs : WellFormed(TxOf(j))

\* What a handler has seen is still so: accounts are never removed.
JobsConsistent ==
    \A j \in Jobs :
        /\ job[j].kind = "setup" => job[j].of \in Vaults
        /\ "multisig" \in job[j].seen => job[j].of \in multisig
        /\ "nonce" \in job[j].seen => job[j].of \in nonce
        /\ job[j].kind = "pool" =>
            /\ job[j].of \in Indices
            /\ \A k \in Indices : k < job[j].of => k \in pool
        /\ job[j].kind = "pool" /\ job[j].phase \in {"building", "signed", "sent", "ok"} =>
            job[j].does = {"poolNonce"}
        /\ job[j].phase = "reading" => job[j].kind = "setup"
        /\ job[j].phase = "probing" =>
            job[j].kind = "pool" /\ job[j].does = {} /\ job[j].seen = {}
        /\ job[j].phase = "confirmed" =>
            job[j].kind = "setup" /\ TxOf(j) \in succeeded
        /\ job[j].phase = "executed" => job[j].of \in Proposals

\* The chain provisions no nonce without its multisig, and takes one
\* transaction for each account of the pool.
ChainConsistent ==
    /\ nonce \subseteq multisig
    /\ \A t \in succeeded : "poolNonce" \in t.does => t.of \in pool
    /\ \A t, u \in succeeded :
        "poolNonce" \in t.does \cap u.does /\ t.of = u.of => t = u
    /\ \A t \in frontRun :
        t.of \in Proposals /\ proposal[t.of] \in {"executed", "closed"}

IInv ==
    /\ TypeOK
    /\ TransactionsWellFormed
    /\ JobsConsistent
    /\ ChainConsistent
    /\ PoolHasNoGap
    /\ SuccessHasLanded
    /\ SetupIsComplete
    /\ ExecutedIsExecuted
=============================================================================
