----------------------------- MODULE WorkEpochs -----------------------------
(***************************************************************************)
(* The canonical work state of Work V1 along one branch.                    *)
(*                                                                         *)
(* Work of epoch e is mined in chain epoch e, committed in blocks of chain  *)
(* epoch e + 1 and used to select producers from chain epoch e + 2 on.  The *)
(* last block of a commit window closes it: its seats join the persistent   *)
(* seats and the difficulty of epoch e + 2 is scheduled.                    *)
(*                                                                         *)
(* The state is a function of the branch, so one branch stands for all.     *)
(* Tickets stand for their own proof hashes, and roots for what they hash.  *)
(***************************************************************************)
EXTENDS Integers, FiniteSets

CONSTANTS
    Participants,
    Nonces,
    EpochLength,         \* EpochLength, WorkProtocolEpochLengthV1
    MaxTicketsPerBlock,  \* MaxWorkTicketsPerBlockV1
    Target,              \* TargetWorkTicketsPerEpochV1
    InitialDifficulty,
    MaxHeight            \* bound: no block is added at this height

ASSUME EpochsAssumption ==
    /\ EpochLength \in Nat \ {0}
    /\ MaxTicketsPerBlock \in Nat \ {0}
    /\ Target \in Nat \ {0}
    /\ InitialDifficulty \in Nat \ {0}
    /\ MaxHeight \in Nat

VARIABLES
    number,      \* Work.Number
    commit,      \* Work.CommitEpoch, CommitAnchor, CommitDifficulty, CommitSeats
    selection,   \* Work.SelectionEpoch, ..., SelectionSeats
    odd,         \* Difficulty.OddEpoch, OddDifficulty
    even,        \* Difficulty.EvenEpoch, EvenDifficulty
    history      \* the tickets of every block of the branch

vars == <<number, commit, selection, odd, even, history>>

Ticket == [participant : Participants, epoch : Nat, nonce : Nonces]

-----------------------------------------------------------------------------
(* The schedule; epoch 0 means that there is none *)

WorkEpochForBlock(n) == ((n - 1) \div EpochLength) + 1

WorkCommitTargetEpoch(n) == WorkEpochForBlock(n) - 1

(* Bug: the epoch still being committed is selected from *)
WorkSelectionSourceEpoch_Early(n) ==
    IF WorkEpochForBlock(n) <= 1 THEN 0 ELSE WorkEpochForBlock(n) - 1

WorkSelectionSourceEpoch(n) ==
    IF WorkEpochForBlock(n) <= 2 THEN 0 ELSE WorkEpochForBlock(n) - 2

WorkDatasetAnchorBlock(e) == IF e <= 2 THEN 0 ELSE (e - 2) * EpochLength

WorkChallengeAnchorBlock(e) == IF e = 1 THEN 1 ELSE (e - 1) * EpochLength

Closes(n) == WorkCommitTargetEpoch(n) # 0 /\ n % EpochLength = 0

-----------------------------------------------------------------------------
(* Difficulty *)

MaxDecreaseFactor == 2

MaxIncreaseFactor == 4

EffectiveWorkTicketCount(observed) ==
    IF observed < Target \div MaxDecreaseFactor THEN Target \div MaxDecreaseFactor
    ELSE IF observed > Target * MaxIncreaseFactor THEN Target * MaxIncreaseFactor
    ELSE observed

(* Bug: the observed count is not clamped *)
NextWorkDifficulty_Unclamped(current, observed) ==
    LET next == (current * observed + Target \div 2) \div Target
    IN  IF next <= 0 THEN 1 ELSE next

(* Bug: neither the observed count nor the result has a floor *)
NextWorkDifficulty_NoFloor(current, observed) ==
    (current * observed + Target \div 2) \div Target

NextWorkDifficulty(current, observed) ==
    LET next == (current * EffectiveWorkTicketCount(observed) + Target \div 2)
                   \div Target
    IN  IF next <= 0 THEN 1 ELSE next

Scheduled(e) == e \in {odd.epoch, even.epoch}

DifficultyForEpoch(e) ==
    IF e = odd.epoch THEN odd.difficulty ELSE even.difficulty

-----------------------------------------------------------------------------
(* Seats *)

OnePerParticipant(seats) ==
    \A s, t \in seats : s.participant = t.participant => s = t

Seated(seats) == {s.participant : s \in seats}

NoEpoch == [epoch |-> 0, difficulty |-> 0, seats |-> {}]

(* The commit window with a block's tickets *)
Opened(e) ==
    IF commit.epoch = 0
    THEN [epoch |-> e, difficulty |-> DifficultyForEpoch(e), seats |-> {}]
    ELSE commit

(* Bug: a persistent seat does not exclude a second one *)
Admissible_Reseats(e, tickets) ==
    /\ Cardinality(tickets) <= MaxTicketsPerBlock
    /\ \A t \in tickets : t.epoch = e
    /\ OnePerParticipant(Opened(e).seats \cup tickets)
    /\ Opened(e).seats \cap tickets = {}

Admissible(e, tickets) ==
    /\ Cardinality(tickets) <= MaxTicketsPerBlock
    /\ \A t \in tickets : t.epoch = e
    /\ Seated(selection.seats) \cap Seated(tickets) = {}
    /\ OnePerParticipant(Opened(e).seats \cup tickets)
    /\ Opened(e).seats \cap tickets = {}

(* What the branch needs to go on: anchors that exist, a difficulty that is  *)
(* scheduled and that agrees with the open window, and, in the last block of *)
(* a window, seats that can be merged.                                       *)
Consistent(n, e, tickets) ==
    /\ WorkDatasetAnchorBlock(e) <= number
    /\ WorkChallengeAnchorBlock(e) <= number
    /\ Scheduled(e)
    /\ commit.epoch # 0 => /\ commit.epoch = e
                           /\ commit.difficulty = DifficultyForEpoch(e)
    /\ Closes(n) => OnePerParticipant(selection.seats \cup Opened(e).seats \cup tickets)

CanApply(tickets) ==
    LET n == number + 1
        e == WorkCommitTargetEpoch(n)
    IN  IF e = 0
        THEN tickets = {}
        ELSE Admissible(e, tickets) /\ Consistent(n, e, tickets)

Admissions(seats) ==
    {s \in seats : s.participant \notin Seated(selection.seats)}

(* Bug: the other parity is scheduled *)
AdvanceClosedEpoch_OtherParity(e, observed) ==
    LET next == [epoch |-> e + 2,
                 difficulty |-> NextWorkDifficulty(DifficultyForEpoch(e), observed)]
    IN  IF e % 2 = 0
        THEN odd' = next /\ even' = even
        ELSE even' = next /\ odd' = odd

AdvanceClosedEpoch(e, observed) ==
    LET next == [epoch |-> e + 2,
                 difficulty |-> NextWorkDifficulty(DifficultyForEpoch(e), observed)]
    IN  IF e % 2 = 1
        THEN odd' = next /\ even' = even
        ELSE even' = next /\ odd' = odd

-----------------------------------------------------------------------------

Init ==
    /\ number = 0
    /\ commit = NoEpoch
    /\ selection = NoEpoch
    /\ odd = [epoch |-> 1, difficulty |-> InitialDifficulty]
    /\ even = [epoch |-> 2, difficulty |-> InitialDifficulty]
    /\ history = [n \in {} |-> {}]

(* Bug: the seats of the closed window replace the earlier ones *)
Merged_Replaced(seats) == seats

Merged(seats) == selection.seats \cup seats

(* Blocks of the first epoch commit nothing *)
BootstrapBlock ==
    /\ WorkCommitTargetEpoch(number + 1) = 0
    /\ CanApply({})
    /\ UNCHANGED <<commit, selection, odd, even>>

CommitBlock(tickets) ==
    LET e == WorkCommitTargetEpoch(number + 1)
    IN  /\ e # 0
        /\ ~ Closes(number + 1)
        /\ CanApply(tickets)
        /\ commit' = [Opened(e) EXCEPT !.seats = @ \cup tickets]
        /\ UNCHANGED <<selection, odd, even>>

ClosingBlock(tickets) ==
    LET e == WorkCommitTargetEpoch(number + 1)
        closed == Opened(e).seats \cup tickets
    IN  /\ Closes(number + 1)
        /\ CanApply(tickets)
        /\ selection' = [epoch |-> e,
                         difficulty |-> Opened(e).difficulty,
                         seats |-> Merged(closed)]
        /\ commit' = NoEpoch
        /\ AdvanceClosedEpoch(e, Cardinality(Admissions(Merged(closed))))

ApplyVerifiedBlock(tickets) ==
    /\ number < MaxHeight
    /\ \/ tickets = {} /\ BootstrapBlock
       \/ CommitBlock(tickets)
       \/ ClosingBlock(tickets)
    /\ number' = number + 1
    /\ history' = [n \in DOMAIN history \cup {number + 1} |->
                     IF n = number + 1 THEN tickets ELSE history[n]]

(* The tickets a block may be offered: of the committed epoch and of others *)
Offered(e) == [participant : Participants, epoch : {e, e + 1}, nonce : Nonces]

Next ==
    \E tickets \in SUBSET Offered(WorkCommitTargetEpoch(number + 1)) :
       IsFiniteSet(tickets) /\ ApplyVerifiedBlock(tickets)

Spec == Init /\ [][Next]_vars

-----------------------------------------------------------------------------
(* Properties *)

EpochState == [epoch : Nat, difficulty : Nat, seats : SUBSET Ticket]

(* Every variable has its type, and difficulties are positive. *)
TypeOK ==
    /\ number \in 0 .. MaxHeight
    /\ commit \in EpochState
    /\ selection \in EpochState
    /\ odd \in [epoch : Nat, difficulty : Nat \ {0}]
    /\ even \in [epoch : Nat, difficulty : Nat \ {0}]
    /\ history \in [1 .. number -> SUBSET Ticket]

(* The branch can always be extended: whatever has been committed, a block   *)
(* without tickets passes CommitDifficultyV1 and both ApplyVerifiedBlockV1.  *)
AlwaysExtendable == CanApply({})

(* The seats that SelectionSnapshotV1 hands to the next block are those of   *)
(* the epoch that the schedule asks for.                                     *)
SelectionReady == selection.epoch = WorkSelectionSourceEpoch(number + 1)

(* "A participant may own at most one seat for the lifetime of the network." *)
SeatedOnce ==
    \A m, n \in 1 .. number : \A s \in history[m], t \in history[n] :
       s.participant = t.participant => m = n /\ s = t

(* What a replay of the tickets gives: the tickets of an epoch are those in  *)
(* its commit window, and difficulties follow from their number.             *)
Committed(e) ==
    UNION {history[n] : n \in {k \in 1 .. number : WorkCommitTargetEpoch(k) = e}}

ReplayedDifficulty[e \in Nat] ==
    IF e <= 2 THEN InitialDifficulty
    ELSE NextWorkDifficulty(ReplayedDifficulty[e - 2], Cardinality(Committed(e - 2)))

(* The bounded state equals the replay: the open window holds the tickets of *)
(* its epoch, the persistent seats those of all closed epochs, and each      *)
(* parity the difficulty that the closed epochs of that parity determine.    *)
StateIsReplay ==
    /\ commit.epoch # 0 => /\ commit.seats = Committed(commit.epoch)
                           /\ commit.difficulty = ReplayedDifficulty[commit.epoch]
    /\ selection.seats = UNION {Committed(e) : e \in 1 .. selection.epoch}
    /\ odd.difficulty = ReplayedDifficulty[odd.epoch]
    /\ even.difficulty = ReplayedDifficulty[even.epoch]

(* A step of a parity at most halves and at most quadruples the difficulty,  *)
(* up to the rounding of NextWorkDifficultyV1, and moves it by two epochs.   *)
RetargetBounded ==
    [][\A p \in {<<odd, odd'>>, <<even, even'>>} :
          p[1] # p[2] =>
             /\ p[2].epoch = p[1].epoch + 2
             /\ p[1].difficulty <= 2 * p[2].difficulty
             /\ p[2].difficulty <= 4 * p[1].difficulty]_vars

=============================================================================
