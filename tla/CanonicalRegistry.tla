------------------------- MODULE CanonicalRegistry -------------------------
(***************************************************************************)
(* The canonical permissionless registry of consensus/lqc: the value that   *)
(* every node derives from the header chain, and the operations on it       *)
(* (canonical_registry.go).                                                 *)
(*                                                                          *)
(* A registry is a function from the addresses that have an entry to their  *)
(* entries, as the Go map CanonicalRegistry.entries is.  Its root (a hash   *)
(* of all entries) is taken to be injective, so that a root is the registry *)
(* itself.  Addresses are numbers because the code orders operations by     *)
(* address.  A signed operation is identified by the fields the signature   *)
(* covers; only operations whose signature and LightHash proof are valid    *)
(* occur, the others are refused by the first check of every path and       *)
(* change nothing.                                                          *)
(***************************************************************************)
EXTENDS Naturals, FiniteSets, Sequences

CONSTANTS
    Address,          \* the addresses that may take part
    ActivationDelay,  \* LQCConfig.ActivationDelay
    MaxMissedTurns,   \* LQCConfig.MaxMissedTurns, 3 when unset
    JailBlocks,       \* LQCConfig.JailBlocks, 256 when unset
    Lifetime,         \* MaxRegistryOperationLifetime, 256 in the code
    MaxUint           \* the largest block number, 2^64 - 1 in the code

ASSUME AddressAssumption == Address \subseteq Nat /\ IsFiniteSet(Address)

ASSUME RulesAssumption ==
    /\ ActivationDelay \in Nat
    /\ MaxMissedTurns \in Nat \ {0}
    /\ JailBlocks \in Nat \ {0}
    /\ Lifetime \in Nat
    /\ MaxUint \in Nat

Actions == {"REGISTER", "HEARTBEAT", "EXIT"}

Uint == 0 .. MaxUint

RegistryOperation ==
    [Address : Address, Action : Actions, Sequence : Uint, ValidUntil : Uint]

CanonicalParticipant ==
    [RegisteredAt : Uint, LastHeartbeat : Uint, MissedTurns : Uint,
     JailedUntil : Uint, Sequence : Uint, Active : BOOLEAN]

IsRegistry(r) ==
    /\ DOMAIN r \subseteq Address
    /\ r \in [DOMAIN r -> CanonicalParticipant]

NewCanonicalRegistry == [a \in {} |-> a]

Exists(r, a) == a \in DOMAIN r

SetEntry(r, a, p) == [x \in DOMAIN r \cup {a} |-> IF x = a THEN p ELSE r[x]]

Entry(n, sequence) ==
    [RegisteredAt |-> n, LastHeartbeat |-> n, MissedTurns |-> 0,
     JailedUntil |-> 0, Sequence |-> sequence, Active |-> TRUE]

SaturatingAdd_Unchecked(n, d) == n + d

\* n + d, or the largest number where the 64-bit sum would wrap.
SaturatingAdd(n, d) == IF n + d <= MaxUint THEN n + d ELSE MaxUint

-----------------------------------------------------------------------------
(* Emergency producers, genesis and recovery *)

NewBootstrapRegistry(participants, number) ==
    [a \in participants |-> [Entry(0, 0) EXCEPT !.LastHeartbeat = number]]

ActivatePermissionlessProducer(r, a, n) == SetEntry(r, a, Entry(n, 0))

RecoverPermissionlessProducer(r, a, n) ==
    IF Exists(r, a)
    THEN SetEntry(r, a, [r[a] EXCEPT !.Active = TRUE, !.LastHeartbeat = n,
                                     !.MissedTurns = 0, !.JailedUntil = 0])
    ELSE ActivatePermissionlessProducer(r, a, n)

-----------------------------------------------------------------------------
(* The production queue of block n *)

EligibleParticipants_OffByOne(r, n) ==
    {a \in DOMAIN r :
        r[a].Active /\ (r[a].Sequence # 0 =>
                           n >= r[a].RegisteredAt + ActivationDelay)}

EligibleParticipants_NotJailed(r, n) ==
    {a \in DOMAIN r :
        /\ r[a].Active
        /\ r[a].JailedUntil <= n
        /\ r[a].Sequence # 0 => n >= r[a].RegisteredAt + 1 + ActivationDelay}

EligibleParticipants(r, n) ==
    {a \in DOMAIN r :
        /\ r[a].Active
        /\ r[a].Sequence # 0 =>
              LET eligibleAt == r[a].RegisteredAt + 1 + ActivationDelay
              IN eligibleAt <= MaxUint /\ n >= eligibleAt}

Penalized(r, n, a) == r[a].JailedUntil > n

\* a stands before b in OrderedParticipantsForBlock: ready participants first,
\* then the penalized ones, each group in the order `rank` that the hash of
\* the parent gives the addresses.
Ahead(r, n, rank, a, b) ==
    \/ ~Penalized(r, n, a) /\ Penalized(r, n, b)
    \/ /\ Penalized(r, n, a) <=> Penalized(r, n, b)
       /\ rank[a] < rank[b]

ApplyMissedTurn_KeepsCount(p, n) ==
    IF p.JailedUntil > n THEN p
    ELSE IF p.MissedTurns + 1 >= MaxMissedTurns
         THEN [p EXCEPT !.MissedTurns = p.MissedTurns + 1,
                        !.JailedUntil = SaturatingAdd(n, JailBlocks)]
         ELSE [p EXCEPT !.MissedTurns = p.MissedTurns + 1]

ApplyMissedTurn_Extends(p, n) ==
    IF p.JailedUntil > n
    THEN [p EXCEPT !.JailedUntil = SaturatingAdd(n, JailBlocks)]
    ELSE LET missed == p.MissedTurns + 1
         IN IF missed >= MaxMissedTurns
            THEN [p EXCEPT !.MissedTurns = 0,
                           !.JailedUntil = SaturatingAdd(n, JailBlocks)]
            ELSE [p EXCEPT !.MissedTurns = missed]

ApplyMissedTurn(p, n) ==
    IF p.JailedUntil > n THEN p
    ELSE LET missed == IF p.MissedTurns < MaxUint THEN p.MissedTurns + 1
                                                  ELSE p.MissedTurns
         IN IF missed >= MaxMissedTurns
            THEN [p EXCEPT !.MissedTurns = 0,
                           !.JailedUntil = SaturatingAdd(n, JailBlocks)]
            ELSE [p EXCEPT !.MissedTurns = missed]

\* How many stand before a in the queue: the queuePos of IsAuthorAllowed.
QueuePos(r, n, rank, a) ==
    Cardinality({b \in EligibleParticipants(r, n) : Ahead(r, n, rank, b, a)})

\* The loop over selection.Ordered[0 .. queuePos - 1]: those that the author
\* overtook missed a turn.
ApplyMissedTurns(r, n, rank, author) ==
    [a \in DOMAIN r |->
        IF a \in EligibleParticipants(r, n) /\ Ahead(r, n, rank, a, author)
        THEN ApplyMissedTurn(r[a], n)
        ELSE r[a]]

MarkProducerHeartbeat(r, a, n) ==
    [r EXCEPT ![a] = [@ EXCEPT !.LastHeartbeat = n, !.MissedTurns = 0,
                               !.JailedUntil = 0]]

-----------------------------------------------------------------------------
(* Signed operations *)

ValidateRegistryOperation(n, op) ==
    /\ op.Sequence # 0
    /\ op.ValidUntil >= n
    /\ n + Lifetime <= MaxUint
    /\ op.ValidUntil <= n + Lifetime

WantSequence(r, a) == IF Exists(r, a) THEN r[a].Sequence + 1 ELSE 1

CanApplyOperation_AnySequence(r, n, op) ==
    LET a == op.Address
    IN /\ ValidateRegistryOperation(n, op)
       /\ op.Action = "REGISTER" => ~(Exists(r, a) /\ r[a].Active)
       /\ op.Action = "HEARTBEAT" => Exists(r, a)
       /\ op.Action = "EXIT" => Exists(r, a) /\ r[a].Active

\* ApplyOperation returns no error.
CanApplyOperation(r, n, op) ==
    LET a == op.Address
    IN /\ ValidateRegistryOperation(n, op)
       /\ WantSequence(r, a) <= MaxUint
       /\ op.Sequence = WantSequence(r, a)
       /\ op.Action = "REGISTER" => ~(Exists(r, a) /\ r[a].Active)
       /\ op.Action = "HEARTBEAT" => Exists(r, a)
       /\ op.Action = "EXIT" => Exists(r, a) /\ r[a].Active

\* The entry ApplyOperation writes when it returns no error.
AppliedEntry(r, n, op) ==
    CASE op.Action = "REGISTER" -> Entry(n, op.Sequence)
      [] op.Action = "HEARTBEAT" ->
            [r[op.Address] EXCEPT !.LastHeartbeat = n,
                                  !.Sequence = op.Sequence]
      [] op.Action = "EXIT" ->
            [r[op.Address] EXCEPT !.Sequence = op.Sequence, !.Active = FALSE]

\* ApplyOperation writes the entry, or returns an error before it wrote.
ApplyOperation(r, n, op) ==
    IF CanApplyOperation(r, n, op)
    THEN SetEntry(r, op.Address, AppliedEntry(r, n, op))
    ELSE r

\* The loop over the operations of a block: what the first k of them leave.
Registries(r, n, ops) ==
    LET after[k \in 0 .. Len(ops)] ==
            IF k = 0 THEN r ELSE ApplyOperation(after[k - 1], n, ops[k])
    IN  after

\* Each operation applies to what its predecessors left.
CanApplyOperations(r, n, ops) ==
    \A k \in 1 .. Len(ops) :
        CanApplyOperation(Registries(r, n, ops)[k - 1], n, ops[k])

ApplyOperations(r, n, ops) == Registries(r, n, ops)[Len(ops)]

-----------------------------------------------------------------------------
(* The operations of a header *)

\* The canonical order.  The code breaks ties between operations of one
\* address and sequence, which no header may carry together.
Precedes(x, y) ==
    \/ x.Address < y.Address
    \/ x.Address = y.Address /\ x.Sequence < y.Sequence

\* A list is as CanonicalRegistryOperations sorts it, and no address has a
\* sequence twice in it.
IsCanonical(ops) ==
    \A k \in 1 .. Len(ops) - 1 : Precedes(ops[k], ops[k + 1])

\* The canonical list of a set of operations, in a singleton.
CanonicalRegistryOperations(S) ==
    {ops \in [1 .. Cardinality(S) -> S] : IsCanonical(ops)}
=============================================================================
