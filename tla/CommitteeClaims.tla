--------------------------- MODULE CommitteeClaims ---------------------------
(***************************************************************************)
(* Committee participation claims, header format V4, as one node sees them. *)
(*                                                                         *)
(* A member of the committee of a block signs its participation.  Its claim *)
(* travels between nodes, waits in a pool, is included in one of the next   *)
(* Window blocks, and is paid by the block that includes it.  Every block   *)
(* carries a ledger of the positions claimed on its branch, and refuses a   *)
(* claim that its parent's ledger already has.                              *)
(*                                                                         *)
(* The node keeps a tree of blocks and a head, and builds blocks of its own *)
(* while other nodes' blocks move the head.  Block 0 is the parent of the   *)
(* first V4 block; claims for blocks before it are left out.                *)
(***************************************************************************)
EXTENDS Integers, FiniteSets

CONSTANTS
    Window,                   \* CommitteeParticipationClaimWindowV1
    MaxParticipations,        \* MaxCommitteeParticipationsV1, per block
    CommitteeSize,            \* positions of a committee of work seats
    MaxOperations,            \* MaxRegistryOperationsPerBlock
    MaxOperationsWithClaims,  \* MaxRegistryOperationsWithCommitteeClaimsV1
    Reward,                   \* blockRewardFor
    Modes,                    \* the kinds of block that occur, see Mode
    OperationCounts,          \* bound: how many registry operations blocks carry
    MaxBlocks,                \* bound: blocks after block 0
    None,                     \* no block being prepared, no block built
    MaxNumber                 \* bound: height of the tree

(* How a block's producer was chosen.                                       *)
(*   seats:    by work seats, with a committee of seats                     *)
(*   solo:     by work seats, too few of them for a committee               *)
(*   recovery: by the recovery timeout, while the work seats still exist    *)
(*   fallback: by the registry, without active work seats                   *)
Mode == {"seats", "solo", "recovery", "fallback"}

ASSUME WindowAssumption == Window \in Nat \ {0}

ASSUME SizeAssumption ==
    /\ CommitteeSize \in Nat \ {0}
    /\ MaxParticipations \in Nat
    /\ CommitteeSize <= MaxParticipations

ASSUME OperationsAssumption ==
    /\ MaxOperations \in Nat
    /\ MaxOperationsWithClaims \in 0 .. MaxOperations
    /\ OperationCounts \subseteq 0 .. MaxOperations

ASSUME RewardAssumption == Reward \in Nat

ASSUME ModesAssumption == Modes \subseteq Mode

ASSUME BoundAssumption == MaxBlocks \in Nat /\ MaxNumber \in Nat

VARIABLES
    blocks,     \* every block the node has verified, by identity
    head,       \* the canonical head
    pool,       \* lqcCommitteeClaimPool.claims
    reserved,   \* the provider's reserved inclusion block, 0 when none
    groups,     \* the provider's reserved claims
    preparing,  \* parent and mode of the block being prepared, or none
    candidate   \* the block built and not yet inserted, or none

vars == <<blocks, head, pool, reserved, groups, preparing, candidate>>

-----------------------------------------------------------------------------
(* Values *)

Position == 0 .. CommitteeSize - 1

(* A signed participation.  The signature binds the parent of the target    *)
(* block: context is that parent, and a signature verifies in no other.     *)
Claim == [target : Nat \ {0}, position : Position, context : Nat]

Key(claim) == <<claim.target, claim.position>>

Keys(claims) == {Key(c) : c \in claims}

Blocks == DOMAIN blocks

Number(b) == blocks[b].number

(* The ancestor of b at height t, or b itself: workV1EngineLabAncestorHeader *)
Ancestor(b, t) == blocks[b].path[t]

-----------------------------------------------------------------------------
(* The claim ledger *)

(* The claims of a block are canonical: targets inside the window before     *)
(* the inclusion block, no position of a target twice, no more than the cap. *)
CanonicalGroups(inclusion, claims) ==
    /\ \A c \in claims : /\ c.target < inclusion
                         /\ inclusion - c.target <= Window
    /\ \A c, d \in claims : Key(c) = Key(d) => c = d
    /\ Cardinality(claims) <= MaxParticipations

(* The windows of a ledger that an inclusion block keeps *)
Kept(ledger, inclusion) ==
    {k \in ledger : k[1] < inclusion /\ inclusion - k[1] <= Window}

(* Bug: the oldest window is dropped before it is consulted *)
CanApply_DropsEarly(ledger, inclusion, claims) ==
    /\ CanonicalGroups(inclusion, claims)
    /\ Keys(claims) \cap Kept(ledger, inclusion + 1) = {}

(* Apply refuses a position that the kept windows have *)
CanApply(ledger, inclusion, claims) ==
    /\ CanonicalGroups(inclusion, claims)
    /\ Keys(claims) \cap Kept(ledger, inclusion) = {}

(* Bug: windows that are over stay in the ledger *)
Apply_KeepsExpired(ledger, inclusion, claims) == ledger \cup Keys(claims)

Apply(ledger, inclusion, claims) == Kept(ledger, inclusion) \cup Keys(claims)

-----------------------------------------------------------------------------
(* Verification against a branch *)

(* The committee of a block.  The selection does not ask whether the block  *)
(* was produced by recovery.                                                *)
Committee(mode) == IF mode \in {"seats", "recovery"} THEN Position ELSE {}

CommitteeAt(b, t) == Committee(blocks[Ancestor(b, t)].mode)

(* The parent hash of the target block, on the branch of b *)
Context(b, t) == Ancestor(b, t - 1)

(* Bug: the signature is not tied to the branch *)
Verified_OnAnyBranch(b, claim) ==
    /\ claim.target \in 1 .. Number(b)
    /\ claim.position \in CommitteeAt(b, claim.target)

(* A claim resolves to a target on the branch of b, a member of the target's *)
(* committee and a signature for the target's parent.                       *)
Verified(b, claim) ==
    /\ claim.target \in 1 .. Number(b)
    /\ claim.position \in CommitteeAt(b, claim.target)
    /\ claim.context = Context(b, claim.target)

Capacity(operations, claims) ==
    claims # {} => operations <= MaxOperationsWithClaims

(* A V4 header on top of parent is accepted *)
ValidHeader(parent, operations, claims) ==
    /\ operations \in 0 .. MaxOperations
    /\ Capacity(operations, claims)
    /\ CanApply(blocks[parent].ledger, Number(parent) + 1, claims)
    /\ \A c \in claims : Verified(parent, c)

(* The block with identity id that extends parent *)
Block(id, parent, mode, operations, claims) ==
    LET number == Number(parent) + 1
    IN  [number     |-> number,
         mode       |-> mode,
         operations |-> operations,
         claims     |-> claims,
         ledger     |-> Apply(blocks[parent].ledger, number, claims),
         path       |-> [t \in 0 .. number |->
                            IF t = number THEN id ELSE Ancestor(parent, t)]]

-----------------------------------------------------------------------------
(* The pool and the provider of a producer *)

(* Bug: the last block of the window is not in it *)
Pruned_OffByOne(inclusion) ==
    {c \in pool : c.target < inclusion /\ inclusion - c.target < Window}

(* pending drops the claims outside the window of the inclusion block ... *)
Pruned(inclusion) ==
    {c \in pool : c.target < inclusion /\ inclusion - c.target <= Window}

Before(c, d) ==
    \/ c.target < d.target
    \/ c.target = d.target /\ c.position < d.position

(* ... and lists the first of the unclaimed rest, by target and position *)
Pending(inclusion, claimed) ==
    LET open == {c \in Pruned(inclusion) : Key(c) \notin claimed}
    IN  {c \in open : Cardinality({d \in open : Before(d, c)}) < MaxParticipations}

(* The positions claimed in the canonical headers of the window *)
CanonicalClaimed(inclusion) ==
    UNION {Keys(blocks[Ancestor(head, n)].claims) :
              n \in {m \in 1 .. Number(head) : m < inclusion /\ inclusion - m <= Window}}

(* The relay verifies a claim against the canonical target it has now *)
RelayVerified(claim) ==
    /\ claim.target <= Number(head)
    /\ Number(head) - claim.target < Window
    /\ Verified(head, claim)

(* The provider's claims: the reservation of this height when it has one *)
Provided(inclusion) ==
    IF reserved = inclusion
    THEN groups
    ELSE {c \in Pending(inclusion, CanonicalClaimed(inclusion)) : RelayVerified(c)}

(* The claims a producer puts into the child of parent *)
Proposed(parent) ==
    {c \in Provided(Number(parent) + 1) : Key(c) \notin blocks[parent].ledger}

(* Preparation outside recovery does not lower its limit for claims *)
PreparedLimit(mode) ==
    IF mode = "recovery" THEN MaxOperationsWithClaims ELSE MaxOperations

-----------------------------------------------------------------------------
(* Rewards *)

ProducerBps == 7000

ProducerShare == (Reward * ProducerBps) \div 10000

Subsidised(mode) == mode \in {"seats", "solo"}

(* Bug: the producer keeps the whole reward although there is a committee *)
ProducerReward_Whole(mode) == IF Subsidised(mode) THEN Reward ELSE 0

(* What the producer of a block of this mode is paid *)
ProducerReward(mode) ==
    IF ~ Subsidised(mode) THEN 0
    ELSE IF Committee(mode) = {} THEN Reward
    ELSE ProducerShare

PerSeat == (Reward - ProducerShare) \div CommitteeSize

(* The claims a block pays *)
Paid(b) == IF Subsidised(blocks[b].mode) THEN blocks[b].claims ELSE {}

(* What the branch of b has issued for its block at height t: to the        *)
(* producer, and to each claim paid by a block of the branch                *)
CommitteeIssued(b, t) ==
    PerSeat * Cardinality({x \in (t + 1 .. Number(b)) \X Position :
                              \E c \in Paid(Ancestor(b, x[1])) : Key(c) = <<t, x[2]>>})

Issued(b, t) ==
    ProducerReward(blocks[Ancestor(b, t)].mode) + CommitteeIssued(b, t)

-----------------------------------------------------------------------------
(* Actions *)

Root == [number     |-> 0,
         mode       |-> "fallback",
         operations |-> 0,
         claims     |-> {},
         ledger     |-> {},
         path       |-> [t \in {0} |-> 0]]

Init ==
    /\ blocks = [b \in {0} |-> Root]
    /\ head = 0
    /\ pool = {}
    /\ reserved = 0
    /\ groups = {}
    /\ preparing = None
    /\ candidate = None

(* Identities for the next block, within the bounds *)
Fresh(parent) ==
    {i \in 1 .. MaxBlocks : i \notin Blocks /\ i - 1 \in Blocks /\ Number(parent) < MaxNumber}

AddBlock(id, parent, mode, operations, claims) ==
    blocks' = [b \in Blocks \cup {id} |->
                 IF b = id THEN Block(id, parent, mode, operations, claims)
                           ELSE blocks[b]]

(* Bug: a pooled claim with another signature does not stop a claim *)
NoConflict_Ignored(claims) == TRUE

(* No position of these claims is pooled with another signature *)
NoConflict(claims) == \A c \in claims, d \in pool : Key(c) = Key(d) => c = d

(* Claims for positions of one target arrive, from the local wallets or from *)
(* a peer.  A position whose pooled claim has another signature blocks all.  *)
AcceptCommitteeClaims(target, positions) ==
    LET claims == {[target   |-> target,
                    position |-> p,
                    context  |-> Context(head, target)] : p \in positions}
    IN  /\ positions # {}
        /\ Cardinality(positions) <= MaxParticipations
        /\ \A c \in claims : RelayVerified(c)
        /\ NoConflict(claims)
        /\ pool' = pool \cup claims
        /\ UNCHANGED <<blocks, head, reserved, groups, preparing, candidate>>

(* A new peer is sent the pending claims *)
SendPending ==
    /\ pool' = Pruned(Number(head) + 1)
    /\ UNCHANGED <<blocks, head, reserved, groups, preparing, candidate>>

(* The miner captures the head as the parent of its next block *)
StartPrepare(mode) ==
    /\ preparing = None
    /\ candidate = None
    /\ preparing' = [parent |-> head, mode |-> mode]
    /\ UNCHANGED <<blocks, head, pool, reserved, groups, candidate>>

(* The header is built: every claim verifies on the parent, and the encoder  *)
(* has room for the operations.                                              *)
Builds(parent, operations, claims) ==
    /\ \A c \in claims : Verified(parent, c)
    /\ CanApply(blocks[parent].ledger, Number(parent) + 1, claims)
    /\ Capacity(operations, claims)

(* The claims are provided, filtered and verified, and the header is built.  *)
(* The head may have moved since the parent was captured.                    *)
FinishPrepare(operations) ==
    LET parent    == preparing.parent
        inclusion == Number(parent) + 1
        claims    == Proposed(parent)
    IN  /\ preparing # None
        /\ operations <= PreparedLimit(preparing.mode)
        /\ pool' = IF reserved = inclusion THEN pool ELSE Pruned(inclusion)
        /\ reserved' = inclusion
        /\ groups' = Provided(inclusion)
        /\ preparing' = None
        /\ \/ /\ ~ Builds(parent, operations, claims)
              /\ candidate' = None
           \/ /\ Builds(parent, operations, claims)
              /\ candidate' = [parent     |-> parent,
                               mode       |-> preparing.mode,
                               operations |-> operations,
                               claims     |-> claims]
        /\ UNCHANGED <<blocks, head>>

(* The node's own block is imported if its parent is still the head, and     *)
(* discarded otherwise.                                                      *)
InsertLocal ==
    /\ candidate # None
    /\ \/ /\ candidate.parent = head
          /\ ValidHeader(head, candidate.operations, candidate.claims)
          /\ \E id \in Fresh(head) :
                /\ AddBlock(id, head, candidate.mode, candidate.operations, candidate.claims)
                /\ head' = id
       \/ /\ candidate.parent # head
          /\ UNCHANGED <<blocks, head>>
    /\ candidate' = None
    /\ UNCHANGED <<pool, reserved, groups, preparing>>

(* A block becomes the head if it is higher, or as high as the head and with *)
(* the smaller hash.  Hashes are arbitrary.                                  *)
ForkChoice(id, number) ==
    \/ number >= Number(head) /\ head' = id
    \/ number <= Number(head) /\ head' = head

(* Another node's block is verified and imported. *)
Import(parent, mode, operations, claims) ==
    /\ ValidHeader(parent, operations, claims)
    /\ \E id \in Fresh(parent) :
          /\ AddBlock(id, parent, mode, operations, claims)
          /\ ForkChoice(id, Number(parent) + 1)
    /\ UNCHANGED <<pool, reserved, groups, preparing, candidate>>

(* The claims that can be signed, for blocks of the tree *)
Signed(parent) ==
    [target : 1 .. Number(parent), position : Position, context : Blocks]

Next ==
    \/ \E target \in 1 .. Number(head), positions \in SUBSET Position :
          AcceptCommitteeClaims(target, positions)
    \/ SendPending
    \/ \E mode \in Modes : StartPrepare(mode)
    \/ \E operations \in OperationCounts : FinishPrepare(operations)
    \/ InsertLocal
    \/ \E parent \in {b \in Blocks : Fresh(b) # {}} :
          \E claims \in SUBSET {c \in Signed(parent) : Verified(parent, c)} :
             \E mode \in Modes, operations \in OperationCounts :
                Import(parent, mode, operations, claims)

Spec == Init /\ [][Next]_vars

-----------------------------------------------------------------------------
(* Properties *)

(* Each block's path leads to it through blocks of ascending height. *)
TreeOK ==
    /\ 0 \in Blocks
    /\ Blocks \subseteq Nat
    /\ \A b \in Blocks :
          /\ blocks[b].number \in Nat
          /\ blocks[b].mode \in Mode
          /\ blocks[b].operations \in 0 .. MaxOperations
          /\ blocks[b].claims \subseteq Claim
          /\ blocks[b].ledger \subseteq (Nat \ {0}) \X Position
          /\ blocks[b].path \in [0 .. Number(b) -> Blocks]
          /\ \A t \in 0 .. Number(b) : Number(Ancestor(b, t)) = t
          /\ Ancestor(b, Number(b)) = b

(* Every variable has its type, and the pool has one claim per target and    *)
(* position.                                                                 *)
TypeOK ==
    /\ TreeOK
    /\ head \in Blocks
    /\ pool \subseteq Claim
    /\ \A c, d \in pool : Key(c) = Key(d) => c = d
    /\ reserved \in Nat
    /\ groups \subseteq Claim
    /\ preparing = None \/ preparing \in [parent : Blocks, mode : Mode]
    /\ candidate = None \/ candidate \in [parent     : Blocks,
                                          mode       : Mode,
                                          operations : 0 .. MaxOperations,
                                          claims     : SUBSET Claim]

(* No position of a target is claimed by two blocks of one branch, whatever  *)
(* pools, reservations and reorganizations do: Apply returns                 *)
(* ErrCommitteeParticipationClaimedV1 against a ledger that forgets.         *)
ClaimedOnce ==
    \A b \in Blocks :
       \A m, n \in 0 .. Number(b) :
          m # n => Keys(blocks[Ancestor(b, m)].claims)
                     \cap Keys(blocks[Ancestor(b, n)].claims) = {}

(* The ledger of a block, computed from its parent's ledger alone, holds     *)
(* exactly the positions claimed on its branch that are still in the window. *)
LedgerIsHistory ==
    \A b \in Blocks :
       blocks[b].ledger =
          {k \in UNION {Keys(blocks[Ancestor(b, n)].claims) : n \in 0 .. Number(b)} :
             Number(b) - k[1] <= Window}

(* Every claim in a block was signed for the branch of the block: a          *)
(* signature for a replaced branch is refused, by the producer that pooled   *)
(* it and by the nodes that verify the block.                                *)
ClaimsOnBranch ==
    \A b \in Blocks :
       \A n \in 0 .. Number(b) :
          \A c \in blocks[Ancestor(b, n)].claims :
             /\ c.target < n
             /\ n - c.target <= Window
             /\ c.context = Context(b, c.target)

(* What a branch issues for one of its blocks, to the producer at once and   *)
(* to the committee over the window, never exceeds the block's reward.       *)
IssuanceBounded ==
    \A b \in Blocks :
       \A t \in 1 .. Number(b) :
          blocks[Ancestor(b, t)].mode \in {"seats", "solo"} => Issued(b, t) <= Reward

(* A claim that was accepted stays in the pool as long as the next block may *)
(* include it, except for a preparation that captured its parent before the  *)
(* target was the head: pending deletes what is outside the window of the    *)
(* block it is called for, which is not always the head's child              *)
(* (lqc_committee_claim_pool.go:91-95).                                      *)
ClaimKeptWhileUsable ==
    [][\A c \in pool \ pool' :
          \/ Number(head) + 1 - c.target > Window
          \/ preparing # None /\ c.target > Number(preparing.parent)]_vars

(* A reorganization cannot make the preparation of the head's child fail     *)
(* with a claim signed for the replaced branch, as the comment on the        *)
(* provider's recheck says.                                                  *)
PreparationNotPoisoned ==
    preparing # None /\ preparing.parent = head =>
       \A c \in Proposed(head) : Verified(head, c)

(* Nothing is issued for a recovery block, as the participation document     *)
(* says.                                                                     *)
RecoveryUnsubsidised ==
    \A b \in Blocks :
       \A t \in 1 .. Number(b) :
          blocks[Ancestor(b, t)].mode = "recovery" => Issued(b, t) = 0

-----------------------------------------------------------------------------
(* Neither a pooled claim nor the parent of a preparation is ahead of the    *)
(* head, which never loses height.                                           *)
BehindHead ==
    /\ \A c \in pool : c.target <= Number(head)
    /\ preparing # None => Number(preparing.parent) <= Number(head)
=============================================================================
