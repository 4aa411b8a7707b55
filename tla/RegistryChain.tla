--------------------------- MODULE RegistryChain ---------------------------
(***************************************************************************)
(* One node that follows and extends a chain whose headers carry the        *)
(* canonical registry (registry_engine.go, registry_snapshot.go,            *)
(* registry_pool.go and the callers in lqc.go and miner.go):                *)
(*                                                                          *)
(*   - SubmitRegistryOperation checks an operation against the snapshot of  *)
(*     the head it read and adds it to the pool later, when the head may    *)
(*     have moved;                                                          *)
(*   - Prepare builds a block on the current head from the pool, once the   *)
(*     clock has reached the slot of the local account;                     *)
(*   - InsertLocalBlock verifies and inserts it if its parent is still the  *)
(*     head, and drops it otherwise;                                        *)
(*   - ImportBlock accepts a block of another producer, with whatever       *)
(*     signed operations that producer put into it.                         *)
(*                                                                          *)
(* The registry protocol is active from block 1, as on the Rabbit networks, *)
(* and the queue is the one before the V3 liveness fork.  Timestamps and    *)
(* readings of the clock are in seconds after the timestamp of the parent.  *)
(***************************************************************************)
EXTENDS CanonicalRegistry

CONSTANTS
    LocalAccounts,          \* the addresses this node produces for
    BootstrapParticipants,  \* LQCConfig.BootstrapParticipants
    StabilizationBlock,     \* ConsensusStabilizationBlock, 0 when unset
    FairnessBlock,          \* ConsensusFairnessBlock, 0 when unset
    HeartbeatWindow,        \* LQCConfig.HeartbeatWindow
    HeartbeatGrace,         \* LQCConfig.HeartbeatGrace
    BlockTime,              \* targetBlockSeconds, at least 1
    FallbackWindow,         \* fallbackWindowSeconds, at least 1
    RecoveryTimeout,        \* recoveryTimeoutSeconds, 0 when unset
    FutureTolerance,        \* futureBlockTimeTolerance: 30, or 1 hardened
    PoolCapacity,           \* MaxRegistryPoolOperations, 4096 in the code
    MaxOperations,          \* MaxRegistryOperationsPerBlock, 64 in the code
    PreparedLimit,          \* what Prepare takes: 64, or 48 from V3 on
    Signed,                 \* the operations their owners ever sign; anybody
                            \* may offer each of them at any time, repeatedly
    MaxNumber,              \* the bound on the height that TLC explores
    MaxTime,                \* the bound on the seconds between two blocks
    MaxSubmitting,          \* the bound on concurrent submissions
    MaxForeign              \* the bound on the operations of a foreign block

ASSUME ChainAssumption ==
    /\ LocalAccounts \subseteq Address
    /\ BootstrapParticipants \subseteq Address
    /\ StabilizationBlock \in Nat
    /\ FairnessBlock \in Nat
    /\ HeartbeatWindow \in Nat
    /\ HeartbeatGrace \in Nat
    /\ BlockTime \in Nat \ {0}
    /\ FallbackWindow \in Nat \ {0}
    /\ RecoveryTimeout \in Nat
    /\ FutureTolerance \in Nat
    /\ PoolCapacity \in Nat
    /\ MaxOperations \in Nat
    /\ PreparedLimit \in 0 .. MaxOperations
    /\ Signed \subseteq RegistryOperation
    /\ MaxNumber \in Nat
    /\ MaxNumber < MaxUint
    /\ MaxTime \in Nat
    /\ MaxSubmitting \in Nat
    /\ MaxForeign \in Nat

VARIABLES
    number,      \* height of the head
    registry,    \* the registry of the head's snapshot
    rank,        \* the order the head's hash gives the addresses
    byHash,      \* RegistryOperationPool.byHash: the pooled operations
    byAddress,   \* RegistryOperationPool.byAddress
    submitting,  \* the operations validated and not yet added
    candidate,   \* the prepared local block, or NoBlock
    last,        \* history: who produced the head
    log,         \* history: which operation was applied in which block
    era          \* history: how many times the registry was emptied

pool == <<byHash, byAddress>>
chainVars == <<number, registry, rank, last, log, era>>
vars == <<number, registry, rank, byHash, byAddress, submitting, candidate,
          last, log, era>>

NoBlock == [number |-> 0]

Times == 0 .. MaxTime

\* The orders a parent hash can give: HybridSelection sorts by a keccak of
\* seed and address, so every order is possible and no two ranks are equal.
Ranks == {f \in [Address -> 1..Cardinality(Address)] :
            \A a, b \in Address : f[a] = f[b] => a = b}

\* Who produced the head, and whether as an emergency producer.
Production == [author : Address, open : BOOLEAN]

\* One applied operation: its block, its place in the block, and the era.
LogEntry == [op : RegistryOperation, number : Nat, index : Nat, era : Nat]

-----------------------------------------------------------------------------
(* Rules of the engine *)

consensusCommitteeLivenessActive(n) ==
    StabilizationBlock # 0 /\ n > StabilizationBlock

consensusFairnessActive(n) == FairnessBlock # 0 /\ n >= FairnessBlock

\* The genesis block has no timeout.
recoveryOpenAt(n, time) ==
    RecoveryTimeout # 0 /\ n > 1 /\ time >= RecoveryTimeout

openActivationForHeader(n, time) ==
    /\ n # StabilizationBlock
    /\ n # FairnessBlock
    /\ IF n = 1 THEN BootstrapParticipants = {} ELSE recoveryOpenAt(n, time)

IsAuthorAllowed(n, author) == author \in EligibleParticipants(registry, n)

minAllowedTime(pos) == BlockTime + pos * FallbackWindow

-----------------------------------------------------------------------------
(* The operation pool *)

PruneExpired_KeepsAddress(n) ==
    /\ byHash' = {op \in byHash : op.ValidUntil >= n}
    /\ UNCHANGED byAddress

PruneExpired(n) ==
    /\ byHash' = {op \in byHash : op.ValidUntil >= n}
    /\ byAddress' =
         [a \in DOMAIN byAddress \
                  {op.Address : op \in {x \in byHash : x.ValidUntil < n}}
            |-> byAddress[a]]

\* RegistryOperationPool.Pending, before it sorts.
Pending(n) == {op \in byHash : op.ValidUntil >= n}

\* RegistryOperationPool.Add.
Add(op) ==
    IF op \in byHash THEN UNCHANGED pool                 \* known
    ELSE IF op.Address \in DOMAIN byAddress
    THEN LET previous == byAddress[op.Address]
         IN IF op.Sequence <= previous.Sequence THEN UNCHANGED pool  \* pending
            ELSE /\ byHash' = (byHash \ {previous}) \cup {op}
                 /\ byAddress' = SetEntry(byAddress, op.Address, op)
    ELSE IF Cardinality(byHash) >= PoolCapacity THEN UNCHANGED pool  \* full
    ELSE /\ byHash' = byHash \cup {op}
         /\ byAddress' = SetEntry(byAddress, op.Address, op)

\* SubmitRegistryOperation up to the call of Add.
SubmitRegistryOperation(op) ==
    /\ op \notin submitting
    /\ Cardinality(submitting) < MaxSubmitting
    /\ CanApplyOperation(registry, number + 1, op)
    /\ submitting' = submitting \cup {op}
    /\ UNCHANGED <<chainVars, pool, candidate>>

AddSubmitted(op) ==
    /\ op \in submitting
    /\ submitting' = submitting \ {op}
    /\ Add(op)
    /\ UNCHANGED <<chainVars, candidate>>

\* Gossip and RPC ask for the pending operations of the next block.
PendingRegistryOperations ==
    /\ PruneExpired(number + 1)
    /\ UNCHANGED <<chainVars, submitting, candidate>>

-----------------------------------------------------------------------------
(* The producing side *)

\* ResolveLocalParticipant at the clock reading `at`: the account to produce
\* with and its position, the best one where several have a position.
ResolveLocalParticipant(n, at) ==
    IF n = 1 \/ openActivationForHeader(n, at)
    THEN [Address : LocalAccounts, QueuePos : {0}]
    ELSE LET queued == LocalAccounts \cap EligibleParticipants(registry, n)
             Pos(a) == QueuePos(registry, n, rank, a)
         IN {[Address |-> a, QueuePos |-> Pos(a)] :
               a \in {x \in queued : \A y \in queued : Pos(x) <= Pos(y)}}

\* prepareCanonicalRegistryExtra up to its operations.
PreparedRegistry(n, author, time) ==
    IF openActivationForHeader(n, time)
    THEN IF consensusCommitteeLivenessActive(n)
         THEN RecoverPermissionlessProducer(registry, author, n)
         ELSE ActivatePermissionlessProducer(NewCanonicalRegistry, author, n)
    ELSE MarkProducerHeartbeat(ApplyMissedTurns(registry, n, rank, author),
                               author, n)

\* One turn of its loop over the pending operations.
Fill(built, n, op) ==
    IF /\ Len(built.operations) < PreparedLimit
       /\ CanApplyOperation(built.registry, n, op)
    THEN [registry |-> ApplyOperation(built.registry, n, op),
          operations |-> Append(built.operations, op)]
    ELSE built

\* The loop: what it has built after the first k pending operations.
Filled(r, n, pending) ==
    LET built[k \in 0 .. Len(pending)] ==
            IF k = 0 THEN [registry |-> r, operations |-> <<>>]
            ELSE Fill(built[k - 1], n, pending[k])
    IN  built

\* The position whose slot a block must wait for.
queuePosition(n, author, time) ==
    IF n = 1 \/ openActivationForHeader(n, time) THEN 0
    ELSE QueuePos(registry, n, rank, author)

Later(x, y) == IF x < y THEN y ELSE x

\* The block LQC.Prepare makes of a header with the given timestamp.
PreparedBlock(n, author, time, now, pending) ==
    LET built == Filled(PreparedRegistry(n, author, time), n, pending)
                    [Len(pending)]
    IN [number |-> n, author |-> author, now |-> now,
        time |-> Later(time, minAllowedTime(queuePosition(n, author, time))),
        operations |-> built.operations, root |-> built.registry]

Prepare_NoWait(local, now) ==
    LET n == number + 1
        author == local.Address
        time == Later(now, 1)
    IN /\ candidate = NoBlock
       /\ number < MaxNumber
       /\ openActivationForHeader(n, time) \/ IsAuthorAllowed(n, author)
       /\ PruneExpired(n)
       /\ \E pending \in CanonicalRegistryOperations(Pending(n)) :
             candidate' = PreparedBlock(n, author, time, now, pending)
       /\ UNCHANGED <<chainVars, submitting>>

\* A tick of lqcDevnetLoop that finds the slot of its account open at the
\* clock reading `now`, and builds.
Prepare(local, now) ==
    LET n == number + 1
        author == local.Address
        time == Later(now, 1)
    IN /\ candidate = NoBlock
       /\ number < MaxNumber
       /\ now >= minAllowedTime(local.QueuePos)
       /\ openActivationForHeader(n, time) \/ IsAuthorAllowed(n, author)
       /\ PruneExpired(n)
       /\ \E pending \in CanonicalRegistryOperations(Pending(n)) :
             candidate' = PreparedBlock(n, author, time, now, pending)
       /\ UNCHANGED <<chainVars, submitting>>

-----------------------------------------------------------------------------
(* The verifying side *)

\* applyHeaderWithOpenActivation up to the operations of the envelope.
VerifiedRegistry(n, author, time) ==
    LET preserveRegistry == consensusCommitteeLivenessActive(n)
        start == IF preserveRegistry THEN registry ELSE NewCanonicalRegistry
    IN IF ~openActivationForHeader(n, time)
       THEN MarkProducerHeartbeat(ApplyMissedTurns(registry, n, rank, author),
                                  author, n)
       ELSE IF preserveRegistry
            THEN RecoverPermissionlessProducer(start, author, n)
            ELSE ActivatePermissionlessProducer(start, author, n)

validateRegistryHeaderOperations(ops) ==
    /\ Len(ops) <= MaxOperations
    /\ \A k \in 1 .. Len(ops) : ops[k].Sequence # 0
    /\ IsCanonical(ops)

\* The timestamp against the parent and the verifying node's clock.
timestampAllowed(n, time, now) ==
    /\ time <= now + FutureTolerance
    /\ time > 0
    /\ consensusFairnessActive(n) /\ n # FairnessBlock /\ recoveryOpenAt(n, time)
          => recoveryOpenAt(n, now)

\* The timestamp against the producer's slot.
slotReached(n, author, time, now) ==
    LET minTime == minAllowedTime(queuePosition(n, author, time))
    IN /\ consensusFairnessActive(n) => now >= minTime
       /\ time >= minTime

\* verifyHeader and verifyCanonicalRegistryHeader at the clock reading `now`,
\* up to the root.
HeaderValid(n, author, time, ops, now) ==
    /\ n = number + 1
    /\ timestampAllowed(n, time, now)
    /\ validateRegistryHeaderOperations(ops)
    /\ openActivationForHeader(n, time) \/ IsAuthorAllowed(n, author)
    /\ slotReached(n, author, time, now)
    /\ CanApplyOperations(VerifiedRegistry(n, author, time), n, ops)

\* The registry whose root the header must carry.
AppliedHeader(n, author, time, ops) ==
    ApplyOperations(VerifiedRegistry(n, author, time), n, ops)

Accepts(block, now) ==
    /\ HeaderValid(block.number, block.author, block.time, block.operations, now)
    /\ block.root =
         AppliedHeader(block.number, block.author, block.time, block.operations)

\* Recovery before consensus stabilization starts from an empty registry.
Emptied(n, time) ==
    openActivationForHeader(n, time) /\ ~consensusCommitteeLivenessActive(n)

\* A block becomes the head; its registry is the one its root commits to.
Extend(block) ==
    LET n == block.number
        newEra == IF Emptied(n, block.time) THEN era + 1 ELSE era
    IN /\ number' = n
       /\ registry' = block.root
       /\ rank' \in Ranks
       /\ last' = [author |-> block.author,
                   open |-> openActivationForHeader(n, block.time)]
       /\ era' = newEra
       /\ log' = log \cup
            {[op |-> block.operations[k], number |-> n, index |-> k,
              era |-> newEra] : k \in 1 .. Len(block.operations)}

\* insertLQCBlockIfParentCurrent: a candidate on an old head is dropped, one
\* on the current head is verified like any other block.
InsertLocalBlock(now) ==
    /\ candidate # NoBlock
    /\ now >= candidate.now
    /\ candidate' = NoBlock
    /\ IF Accepts(candidate, now) THEN Extend(candidate)
                                  ELSE UNCHANGED chainVars
    /\ UNCHANGED <<pool, submitting>>

\* A block of another producer with the operations that producer chose.  One
\* whose root is not what its operations give is refused.
ImportBlock(author, time, now, ops) ==
    LET n == number + 1
    IN /\ number < MaxNumber
       /\ HeaderValid(n, author, time, ops, now)
       /\ Extend([number |-> n, author |-> author, time |-> time,
                  operations |-> ops,
                  root |-> AppliedHeader(n, author, time, ops)])
       /\ UNCHANGED <<pool, submitting, candidate>>

-----------------------------------------------------------------------------
(* The specification *)

Init ==
    /\ number = 0
    /\ registry = NewBootstrapRegistry(BootstrapParticipants, 0)
    /\ rank \in Ranks
    /\ byHash = {}
    /\ byAddress = NewCanonicalRegistry
    /\ submitting = {}
    /\ candidate = NoBlock
    /\ last = NoBlock
    /\ log = {}
    /\ era = 0

\* The account is resolved at a clock reading not after the one it waits for.
Produce ==
    \E at, now \in Times :
        /\ at <= now
        /\ \E local \in ResolveLocalParticipant(number + 1, at) :
              Prepare(local, now)

\* Lists of at most k operations of S.
ListsOf(S, k) == UNION {[1 .. m -> S] : m \in 0 .. k}

Import ==
    \E author \in Address \ LocalAccounts, time, now \in Times,
       ops \in ListsOf(Signed, MaxForeign) :
          ImportBlock(author, time, now, ops)

Next ==
    \/ \E op \in Signed : SubmitRegistryOperation(op)
    \/ \E op \in submitting : AddSubmitted(op)
    \/ PendingRegistryOperations
    \/ Produce
    \/ \E now \in Times : InsertLocalBlock(now)
    \/ Import

Spec == Init /\ [][Next]_vars

-----------------------------------------------------------------------------
(* Properties *)

\* Type invariant.
TypeOK ==
    /\ number \in 0 .. MaxNumber
    /\ IsRegistry(registry)
    /\ rank \in Ranks
    /\ byHash \subseteq RegistryOperation
    /\ DOMAIN byAddress \subseteq Address
    /\ byAddress \in [DOMAIN byAddress -> RegistryOperation]
    /\ submitting \subseteq RegistryOperation
    /\ candidate = NoBlock \/
          /\ candidate.number \in 1 .. MaxNumber
          /\ candidate.author \in Address
          /\ candidate.time \in Nat
          /\ candidate.now \in Times
          /\ candidate.operations \in Seq(RegistryOperation)
    /\ last = NoBlock \/ last \in Production
    /\ log \subseteq LogEntry
    /\ era \in Nat

\* The two maps of the pool describe the same operations, one per address, and
\* never more than the capacity, whatever replacement, expiry and submission
\* against an old head do (registry_pool.go:58-71, 106-110).
PoolConsistent ==
    /\ \A op \in byHash :
          op.Address \in DOMAIN byAddress /\ byAddress[op.Address] = op
    /\ \A a \in DOMAIN byAddress :
          byAddress[a] \in byHash /\ byAddress[a].Address = a
    /\ IsFiniteSet(byHash)
    /\ Cardinality(byHash) <= PoolCapacity

\* A block that Prepare built on the current head passes verification at any
\* later reading of the clock.  The preparing path skips pooled operations that
\* no longer apply, decides on recovery by the timestamp it was given and may
\* move that timestamp afterwards (registry_engine.go:433-610, lqc.go:710-716);
\* the verifying path decides by the final timestamp and refuses the block at
\* the first operation that does not apply (registry_snapshot.go:122-212).
PreparedBlockVerifies ==
    candidate # NoBlock /\ candidate.number = number + 1 =>
        \A now \in Times : now >= candidate.now => Accepts(candidate, now)

\* A signed operation is applied at most once while the registry is not
\* emptied, although everybody may offer it again, in the same block or in a
\* later one, as long as it has not expired (canonical_registry.go:446-456).
AppliedOncePerEra ==
    \A x, y \in log : x.op = y.op /\ x.era = y.era => x = y

\* x was applied before y.
Before(x, y) ==
    x.number < y.number \/ (x.number = y.number /\ x.index < y.index)

\* "re-entry requires a new sequence"
\* (RABBIT-LQC-PERMISSIONLESS-REGISTRY-SPEC.md:80): an address never registers
\* with a sequence number that an operation of it had used before on the chain.
ReentryNeedsNewSequence ==
    \A x, y \in log :
        /\ x.op.Address = y.op.Address
        /\ y.op.Action = "REGISTER"
        /\ Before(x, y)
        => y.op.Sequence > x.op.Sequence

\* "inactivity beyond heartbeatWindow + heartbeatGrace automatically removes
\* the participant from the queue"
\* (RABBIT-LQC-PERMISSIONLESS-REGISTRY-SPEC.md:78-79).
InactiveLeavesQueue ==
    \A a \in EligibleParticipants(registry, number + 1) :
        number + 1 <= registry[a].LastHeartbeat + HeartbeatWindow
                                                + HeartbeatGrace

\* An address registered by a signed operation in block N produces no ordinary
\* block before N + 1 + ActivationDelay, not even after a heartbeat, an exit
\* and a return, or a recovery block of its own (canonical_registry.go:200-205).
NoEarlyProducer ==
    \A x \in log :
        /\ last # NoBlock
        /\ ~last.open
        /\ x.era = era
        /\ x.op.Action = "REGISTER"
        /\ x.op.Address = last.author
        /\ x.number < number
        => number >= x.number + 1 + ActivationDelay

\* No penalty outlasts JailBlocks blocks, and the missed turns that lead to it
\* start again below the limit (canonical_registry.go:660-684).
PenaltyBounded ==
    \A a \in DOMAIN registry :
        /\ registry[a].JailedUntil <= number + JailBlocks
        /\ registry[a].MissedTurns < MaxMissedTurns

\* A participant of the queue is in the next block's queue too unless the
\* block holds an operation of its own or empties the registry.  Penalized
\* participants "remain in the queue as emergency fallbacks", and liveness is
\* not derived "from elapsed blocks since LastHeartbeat"
\* (canonical_registry.go:186-188, 213-215).
QueuePlaceKept ==
    [][number' # number /\ era' = era =>
         \A a \in EligibleParticipants(registry, number + 1) :
            \/ a \in EligibleParticipants(registry', number' + 1)
            \/ \E x \in log' : x.number = number' /\ x.op.Address = a]_vars

\* A penalty in force is served or lifted, never extended
\* (canonical_registry.go:660-664).
PenaltyNotExtended ==
    [][\A a \in DOMAIN registry \cap DOMAIN registry' :
         /\ registry[a].JailedUntil > number'
         => registry'[a].JailedUntil \in {0, registry[a].JailedUntil}]_vars

-----------------------------------------------------------------------------
(* The strengthening that makes the safety properties inductive *)

\* What the log says of an address, its entry remembers: the entry's sequence
\* is not below any that was applied in this era, and its registration is not
\* before any that was.
LogRemembered ==
    \A x \in log :
        /\ x.era <= era
        /\ x.number <= number
        /\ x.era = era =>
              /\ x.op.Address \in DOMAIN registry
              /\ x.op.Sequence <= registry[x.op.Address].Sequence
              /\ x.op.Sequence # 0
              /\ x.op.Action = "REGISTER" =>
                    x.number <= registry[x.op.Address].RegisteredAt

\* Within an era the operations of an address have growing sequence numbers,
\* and a place in a block holds one operation.
SequencesGrow ==
    \A x, y \in log :
        /\ /\ x.op.Address = y.op.Address
           /\ x.era = y.era
           /\ Before(x, y)
           => x.op.Sequence < y.op.Sequence
        /\ x.number = y.number /\ x.index = y.index => x = y

\* A candidate is for the next block or an older one, and while it is for the
\* next block nothing it was built from has changed.
CandidateCurrent ==
    /\ candidate # NoBlock => candidate.number <= number + 1
    /\ PreparedBlockVerifies

IInv ==
    /\ TypeOK
    /\ PoolConsistent
    /\ LogRemembered
    /\ SequencesGrow
    /\ NoEarlyProducer
    /\ PenaltyBounded
    /\ CandidateCurrent
=============================================================================
