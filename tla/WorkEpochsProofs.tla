-------------------------- MODULE WorkEpochsProofs --------------------------
(***************************************************************************)
(* Proofs about WorkEpochs for every epoch length, target and difficulty.   *)
(* The argument is the schedule: the epoch committed by the next block is   *)
(* number \div EpochLength, and the two parities hold exactly the epochs    *)
(* that this block and the next window need.                                *)
(***************************************************************************)
EXTENDS WorkEpochs, FiniteSetTheorems, TLAPS

(* Division with remainder. *)
LEMMA DivMod ==
    ASSUME NEW n \in Nat, NEW d \in Nat \ {0}
    PROVE  /\ n \div d \in Nat
           /\ n % d \in 0 .. d - 1
           /\ n = d * (n \div d) + (n % d)
OBVIOUS

(* Multiples of a period are a period apart. *)
LEMMA Mono ==
    ASSUME NEW d \in Nat \ {0}, NEW p \in Int, NEW q \in Int, p < q
    PROVE d * p + d <= d * q
OBVIOUS

(* The quotient is unique. *)
LEMMA QuotientUnique ==
    ASSUME NEW d \in Nat \ {0}, NEW p \in Int, NEW q \in Int,
           NEW r \in 0 .. d - 1, NEW s \in 0 .. d - 1,
           d * p + r = d * q + s
    PROVE  p = q /\ r = s
<1>1. d * p \in Int /\ d * q \in Int
  OBVIOUS
<1>2. CASE p < q
  BY <1>1, <1>2, Mono
<1>3. CASE q < p
  BY <1>1, <1>3, Mono
<1> QED
  BY <1>1, <1>2, <1>3

(* Counting one up either stays in a period or begins the next. *)
LEMMA DivStep ==
    ASSUME NEW n \in Nat, NEW d \in Nat \ {0}
    PROVE  (n + 1) \div d = IF (n + 1) % d = 0 THEN n \div d + 1 ELSE n \div d
<1> DEFINE q == n \div d
           r == n % d
           p == (n + 1) \div d
           s == (n + 1) % d
<1>1. /\ q \in Nat /\ r \in 0 .. d - 1 /\ n = d * q + r
      /\ p \in Nat /\ s \in 0 .. d - 1 /\ n + 1 = d * p + s
  BY DivMod, n + 1 \in Nat
<1>2. d * p \in Int /\ d * q \in Int
  BY <1>1
<1> HIDE DEF q, r, p, s
<1>3. CASE r < d - 1
  <2>1. d * p + s = d * q + (r + 1) /\ r + 1 \in 0 .. d - 1
    BY <1>1, <1>2, <1>3
  <2>2. p = q /\ s = r + 1
    BY <2>1, <1>1, QuotientUnique
  <2>3. s # 0
    BY <2>2, <1>1
  <2> QED
    BY <2>2, <2>3 DEF p, q, s
<1>4. CASE r = d - 1
  <2>1. d * (q + 1) = d * q + d
    BY <1>1
  <2>2. d * p + s = d * (q + 1) + 0 /\ 0 \in 0 .. d - 1
    BY <2>1, <1>1, <1>2, <1>4
  <2>3. q + 1 \in Int
    BY <1>1
  <2>4. p = q + 1 /\ s = 0
    BY <2>2, <2>3, <1>1, QuotientUnique
  <2> QED
    BY <2>4 DEF p, q, s
<1> QED
  BY <1>1, <1>3, <1>4

-----------------------------------------------------------------------------
(* The epoch committed by the next block *)
Open(n) == n \div EpochLength

(* The schedule in terms of the blocks that exist. *)
LEMMA ScheduleFacts ==
    ASSUME NEW n \in Nat
    PROVE  /\ Open(n) \in Nat
           /\ WorkCommitTargetEpoch(n + 1) = Open(n)
           /\ WorkSelectionSourceEpoch(n + 1) =
                 IF Open(n) <= 1 THEN 0 ELSE Open(n) - 1
           /\ Open(n + 1) = IF (n + 1) % EpochLength = 0 THEN Open(n) + 1 ELSE Open(n)
           /\ EpochLength * Open(n) <= n
<1>1. EpochLength \in Nat \ {0}
  BY EpochsAssumption
<1>2. /\ Open(n) \in Nat
      /\ n % EpochLength \in 0 .. EpochLength - 1
      /\ n = EpochLength * Open(n) + (n % EpochLength)
  BY <1>1, DivMod DEF Open
<1>3. WorkEpochForBlock(n + 1) = Open(n) + 1
  <2>1. (n + 1) - 1 = n
    OBVIOUS
  <2> QED
    BY <2>1 DEF WorkEpochForBlock, Open
<1>4. WorkCommitTargetEpoch(n + 1) = Open(n)
  BY <1>2, <1>3 DEF WorkCommitTargetEpoch
<1>5. WorkSelectionSourceEpoch(n + 1) = IF Open(n) <= 1 THEN 0 ELSE Open(n) - 1
  BY <1>2, <1>3 DEF WorkSelectionSourceEpoch
<1>6. Open(n + 1) = IF (n + 1) % EpochLength = 0 THEN Open(n) + 1 ELSE Open(n)
  BY <1>1, DivStep DEF Open
<1>7. EpochLength * Open(n) <= n
  <2>1. EpochLength * Open(n) \in Int
    BY <1>1, <1>2
  <2> QED
    BY <2>1, <1>2
<1> QED
  BY <1>2, <1>4, <1>5, <1>6, <1>7

(* The anchors of the committed epoch are blocks of the branch. *)
LEMMA AnchorsExist ==
    ASSUME NEW n \in Nat, Open(n) # 0
    PROVE  /\ WorkDatasetAnchorBlock(Open(n)) <= n
           /\ WorkChallengeAnchorBlock(Open(n)) <= n
<1> DEFINE e == Open(n)
<1>1. EpochLength \in Nat \ {0}
  BY EpochsAssumption
<1>2. e \in Nat /\ e >= 1 /\ EpochLength * e <= n
  BY ScheduleFacts
<1> HIDE DEF e
<1>3. (e - 1) * EpochLength = EpochLength * e - EpochLength
  BY <1>1, <1>2
<1>4. (e - 2) * EpochLength = EpochLength * e - 2 * EpochLength
  BY <1>1, <1>2
<1>5. EpochLength * e \in Int
  BY <1>1, <1>2
<1>6. e = 1 => EpochLength * e >= 1
  BY <1>1
<1> QED
  BY <1>1, <1>2, <1>3, <1>4, <1>5, <1>6
     DEF WorkDatasetAnchorBlock, WorkChallengeAnchorBlock, e

(* A retargeted difficulty is positive. *)
LEMMA DifficultyPositive ==
    ASSUME NEW current \in Nat, NEW observed \in Nat
    PROVE  NextWorkDifficulty(current, observed) \in Nat \ {0}
<1>1. Target \in Nat \ {0}
  BY EpochsAssumption
<1>2. Target \div 2 \in Nat
  BY <1>1
<1>3. EffectiveWorkTicketCount(observed) \in Nat
  BY <1>1, <1>2 DEF EffectiveWorkTicketCount, MaxDecreaseFactor, MaxIncreaseFactor
<1>4. current * EffectiveWorkTicketCount(observed) + Target \div 2 \in Nat
  BY <1>2, <1>3
<1>5. (current * EffectiveWorkTicketCount(observed) + Target \div 2) \div Target \in Nat
  BY <1>1, <1>4, DivMod
<1> QED
  BY <1>5 DEF NextWorkDifficulty

-----------------------------------------------------------------------------
(* The parities hold the epochs that the open and the next window need *)
Schedule(e) ==
    /\ commit.epoch # 0 => /\ commit.epoch = e
                           /\ commit.difficulty = DifficultyForEpoch(e)
    /\ selection.epoch = IF e <= 1 THEN 0 ELSE e - 1
    /\ odd.epoch = IF e % 2 = 1 THEN e ELSE e + 1
    /\ even.epoch = IF e = 0 THEN 2 ELSE IF e % 2 = 0 THEN e ELSE e + 1

(* The tickets of the branch are the seats of the state *)
Seats ==
    /\ commit.epoch = 0 => commit.seats = {}
    /\ IsFiniteSet(commit.seats)
    /\ IsFiniteSet(selection.seats)
    /\ OnePerParticipant(selection.seats \cup commit.seats)
    /\ \A n \in 1 .. number : history[n] \subseteq selection.seats \cup commit.seats

Inv == TypeOK /\ Schedule(Open(number)) /\ Seats /\ SeatedOnce

(* The invariant holds at genesis. *)
LEMMA InitInv == Init => Inv
<1> SUFFICES ASSUME Init PROVE Inv
  OBVIOUS
<1>1. number = 0 /\ Open(0) = 0
  BY EpochsAssumption, DivMod DEF Init, Open
<1>2. NoEpoch \in EpochState
  BY DEF NoEpoch, EpochState
<1>3. history \in [1 .. number -> SUBSET Ticket]
  BY <1>1 DEF Init
<1>4. TypeOK
  BY <1>1, <1>2, <1>3, EpochsAssumption DEF Init, TypeOK
<1>5. Schedule(0)
  BY DEF Init, Schedule, NoEpoch
<1>6. Seats
  BY <1>1, FS_EmptySet DEF Init, Seats, NoEpoch, OnePerParticipant
<1>7. SeatedOnce
  BY <1>1 DEF SeatedOnce
<1> QED
  BY <1>1, <1>4, <1>5, <1>6, <1>7 DEF Inv

(* The window that the next block adds to, whether or not it is open yet. *)
LEMMA OpenedWindow ==
    ASSUME Inv, Open(number) # 0
    PROVE  /\ Scheduled(Open(number))
           /\ DifficultyForEpoch(Open(number)) \in Nat \ {0}
           /\ Opened(Open(number)) \in EpochState
           /\ Opened(Open(number)).epoch = Open(number)
           /\ Opened(Open(number)).difficulty = DifficultyForEpoch(Open(number))
           /\ Opened(Open(number)).seats = commit.seats
<1> DEFINE e == Open(number)
<1>1. e \in Nat /\ e # 0
  BY ScheduleFacts DEF Inv, TypeOK
<1>2. TypeOK /\ Schedule(e) /\ Seats
  BY DEF Inv
<1> HIDE DEF e
<1>3. Scheduled(e)
  BY <1>1, <1>2 DEF Schedule, Scheduled
<1>4. DifficultyForEpoch(e) \in Nat \ {0}
  BY <1>2 DEF TypeOK, DifficultyForEpoch
<1>5. /\ Opened(e) \in EpochState
      /\ Opened(e).epoch = e
      /\ Opened(e).difficulty = DifficultyForEpoch(e)
      /\ Opened(e).seats = commit.seats
  BY <1>1, <1>2, <1>4 DEF TypeOK, Schedule, Seats, Opened, EpochState
<1> QED
  BY <1>3, <1>4, <1>5 DEF e

(* A block without tickets can always be applied. *)
LEMMA InvExtendable == Inv => AlwaysExtendable
<1> SUFFICES ASSUME Inv PROVE CanApply({})
  BY DEF AlwaysExtendable
<1> DEFINE e == Open(number)
<1>1. number \in Nat /\ e \in Nat /\ WorkCommitTargetEpoch(number + 1) = e
  BY ScheduleFacts DEF Inv, TypeOK
<1>2. CASE e = 0
  BY <1>1, <1>2 DEF CanApply
<1>3. CASE e # 0
  <2>1. /\ Scheduled(e)
        /\ Opened(e).seats = commit.seats
    BY <1>3, OpenedWindow
  <2>2. /\ WorkDatasetAnchorBlock(e) <= number
        /\ WorkChallengeAnchorBlock(e) <= number
    BY <1>1, <1>3, AnchorsExist
  <2> HIDE DEF e
  <2>3. commit.epoch # 0 => /\ commit.epoch = e
                            /\ commit.difficulty = DifficultyForEpoch(e)
    BY DEF Inv, Schedule, e
  <2>4. OnePerParticipant(selection.seats \cup commit.seats)
    BY DEF Inv, Seats
  <2>5. Consistent(number + 1, e, {})
    <3>1. selection.seats \cup Opened(e).seats \cup {} = selection.seats \cup commit.seats
      BY <2>1
    <3> QED
      BY <2>1, <2>2, <2>3, <2>4, <3>1 DEF Consistent
  <2>6. Admissible(e, {})
    <3>1. Cardinality({}) <= MaxTicketsPerBlock
      BY FS_EmptySet, EpochsAssumption
    <3>2. OnePerParticipant(Opened(e).seats \cup {})
      BY <2>1, <2>4 DEF OnePerParticipant
    <3> QED
      BY <3>1, <3>2 DEF Admissible, Seated
  <2> QED
    BY <1>1, <1>3, <2>5, <2>6 DEF CanApply
<1> QED
  BY <1>2, <1>3

-----------------------------------------------------------------------------
(* What an admissible block adds to the seats of the branch. *)
LEMMA AdmittedSeats ==
    ASSUME Inv, NEW tickets \in SUBSET Ticket, Open(number) # 0,
           Admissible(Open(number), tickets)
    PROVE  /\ OnePerParticipant(selection.seats \cup commit.seats \cup tickets)
           /\ \A t \in tickets : \A s \in selection.seats \cup commit.seats :
                 s.participant # t.participant
<1>1. Opened(Open(number)).seats = commit.seats
  BY OpenedWindow
<1>2. OnePerParticipant(selection.seats \cup commit.seats)
  BY DEF Inv, Seats
<1>3. /\ Seated(selection.seats) \cap Seated(tickets) = {}
      /\ OnePerParticipant(commit.seats \cup tickets)
      /\ commit.seats \cap tickets = {}
  BY <1>1 DEF Admissible
<1>4. \A t \in tickets : \A s \in selection.seats : s.participant # t.participant
  BY <1>3 DEF Seated
<1>5. \A t \in tickets : \A s \in commit.seats : s.participant # t.participant
  BY <1>3 DEF OnePerParticipant
<1> QED
  BY <1>2, <1>3, <1>4, <1>5 DEF OnePerParticipant

(* The history after a block whose tickets are new seats. *)
LEMMA HistoryStep ==
    ASSUME Inv, NEW tickets \in SUBSET Ticket,
           number < MaxHeight,
           number' = number + 1,
           history' = [n \in DOMAIN history \cup {number + 1} |->
                         IF n = number + 1 THEN tickets ELSE history[n]],
           OnePerParticipant(selection.seats \cup commit.seats \cup tickets),
           \A t \in tickets : \A s \in selection.seats \cup commit.seats :
              s.participant # t.participant
    PROVE  /\ number' \in 0 .. MaxHeight
           /\ history' \in [1 .. number' -> SUBSET Ticket]
           /\ \A n \in 1 .. number' :
                 history'[n] \subseteq selection.seats \cup commit.seats \cup tickets
           /\ SeatedOnce'
<1>1. /\ number \in Nat
      /\ MaxHeight \in Nat
      /\ history \in [1 .. number -> SUBSET Ticket]
      /\ \A n \in 1 .. number : history[n] \subseteq selection.seats \cup commit.seats
      /\ SeatedOnce
  BY EpochsAssumption DEF Inv, TypeOK, Seats
<1>2. DOMAIN history \cup {number + 1} = 1 .. number'
  BY <1>1
<1>3. /\ \A n \in 1 .. number : history'[n] = history[n]
      /\ history'[number + 1] = tickets
  BY <1>1, <1>2
<1>4. history' \in [1 .. number' -> SUBSET Ticket]
  BY <1>1, <1>2
<1>5. \A n \in 1 .. number' : n \in 1 .. number \/ n = number + 1
  BY <1>1
<1>6. SeatedOnce'
  <2> SUFFICES ASSUME NEW m \in 1 .. number', NEW n \in 1 .. number',
                      NEW s \in history'[m], NEW t \in history'[n],
                      s.participant = t.participant
               PROVE  m = n /\ s = t
    BY DEF SeatedOnce
  <2>1. CASE m \in 1 .. number /\ n \in 1 .. number
    BY <1>1, <1>3, <2>1 DEF SeatedOnce
  <2>2. CASE m \in 1 .. number /\ n = number + 1
    BY <1>1, <1>3, <2>2
  <2>3. CASE m = number + 1 /\ n \in 1 .. number
    BY <1>1, <1>3, <2>3
  <2>4. CASE m = number + 1 /\ n = number + 1
    BY <1>3, <2>4 DEF OnePerParticipant
  <2> QED
    BY <1>5, <2>1, <2>2, <2>3, <2>4
<1>7. \A n \in 1 .. number' :
         history'[n] \subseteq selection.seats \cup commit.seats \cup tickets
  BY <1>1, <1>3, <1>5
<1> QED
  BY <1>1, <1>4, <1>6, <1>7

(* The part of a block's step that is the same for every kind of block *)
Appended(tickets) ==
    /\ number < MaxHeight
    /\ number' = number + 1
    /\ history' = [n \in DOMAIN history \cup {number + 1} |->
                     IF n = number + 1 THEN tickets ELSE history[n]]

(* A block of the first epoch preserves the invariant. *)
LEMMA BootstrapInv ==
    ASSUME Inv, Appended({}), BootstrapBlock
    PROVE  Inv'
<1>1. /\ number \in Nat
      /\ Open(number) = 0
      /\ Open(number + 1) \in {0, 1}
  BY ScheduleFacts DEF Inv, TypeOK, BootstrapBlock
<1>2. commit.epoch = 0
  BY <1>1 DEF Inv, Schedule
<1>3. UNCHANGED <<commit, selection, odd, even>>
  BY DEF BootstrapBlock
<1>4. /\ number' \in 0 .. MaxHeight
      /\ history' \in [1 .. number' -> SUBSET Ticket]
      /\ \A n \in 1 .. number' :
            history'[n] \subseteq selection.seats \cup commit.seats \cup {}
      /\ SeatedOnce'
  <2> DEFINE none == {}
  <2>1. OnePerParticipant(selection.seats \cup commit.seats \cup none)
    BY DEF Inv, Seats, OnePerParticipant
  <2>2. /\ none \in SUBSET Ticket
        /\ Appended(none)
        /\ \A t \in none : \A s \in selection.seats \cup commit.seats :
              s.participant # t.participant
    OBVIOUS
  <2> HIDE DEF none
  <2>3. /\ number' \in 0 .. MaxHeight
        /\ history' \in [1 .. number' -> SUBSET Ticket]
        /\ \A n \in 1 .. number' :
              history'[n] \subseteq selection.seats \cup commit.seats \cup none
        /\ SeatedOnce'
    BY <2>1, <2>2, HistoryStep DEF Appended
  <2> QED
    BY <2>3 DEF none
<1>5. TypeOK'
  BY <1>3, <1>4 DEF Inv, TypeOK
<1>6. Schedule(Open(number))'
  <2>1. Schedule(0)
    BY <1>1 DEF Inv
  <2>2. Open(number)' = Open(number + 1)
    BY DEF Appended, Open
  <2>3. Open(number)' = 0 \/ Open(number)' = 1
    BY <1>1, <2>2
  <2>4. Schedule(0)' /\ Schedule(1)'
    BY <1>2, <1>3, <2>1 DEF Schedule
  <2> QED
    BY <2>3, <2>4 DEF Schedule
<1>7. Seats'
  BY <1>3, <1>4 DEF Inv, Seats, OnePerParticipant
<1> QED
  BY <1>4, <1>5, <1>6, <1>7 DEF Inv

(* A block inside a commit window preserves the invariant. *)
LEMMA CommitInv ==
    ASSUME Inv, NEW tickets \in SUBSET Ticket, IsFiniteSet(tickets),
           Appended(tickets), CommitBlock(tickets)
    PROVE  Inv'
<1> DEFINE e == Open(number)
<1>1. /\ number \in Nat
      /\ e \in Nat
      /\ WorkCommitTargetEpoch(number + 1) = e
      /\ Open(number + 1) = IF (number + 1) % EpochLength = 0 THEN e + 1 ELSE e
  BY ScheduleFacts DEF Inv, TypeOK
<1>2. /\ e # 0
      /\ (number + 1) % EpochLength # 0
      /\ Admissible(e, tickets)
      /\ commit' = [Opened(e) EXCEPT !.seats = @ \cup tickets]
      /\ UNCHANGED <<selection, odd, even>>
  BY <1>1 DEF CommitBlock, CanApply, Closes
<1>3. /\ Opened(e) \in EpochState
      /\ Opened(e).epoch = e
      /\ Opened(e).difficulty = DifficultyForEpoch(e)
      /\ Opened(e).seats = commit.seats
  BY <1>2, OpenedWindow
<1>4. Open(number)' = e
  BY <1>1, <1>2 DEF Appended, Open
<1>5. /\ OnePerParticipant(selection.seats \cup commit.seats \cup tickets)
      /\ \A t \in tickets : \A s \in selection.seats \cup commit.seats :
            s.participant # t.participant
  BY <1>2, AdmittedSeats
<1>6. /\ number' \in 0 .. MaxHeight
      /\ history' \in [1 .. number' -> SUBSET Ticket]
      /\ \A n \in 1 .. number' :
            history'[n] \subseteq selection.seats \cup commit.seats \cup tickets
      /\ SeatedOnce'
  BY <1>5, HistoryStep DEF Appended
<1> HIDE DEF e
<1>7. /\ commit' \in EpochState
      /\ commit'.epoch = e
      /\ commit'.difficulty = DifficultyForEpoch(e)
      /\ commit'.seats = commit.seats \cup tickets
  BY <1>2, <1>3 DEF EpochState
<1>8. TypeOK'
  BY <1>2, <1>6, <1>7 DEF Inv, TypeOK
<1>9. Schedule(e)'
  <2>1. Schedule(e)
    BY DEF Inv, e
  <2>2. e' = e
    BY <1>4 DEF e
  <2>3. DifficultyForEpoch(e)' = DifficultyForEpoch(e)
    BY <1>2, <2>2 DEF DifficultyForEpoch
  <2> QED
    BY <1>2, <1>7, <2>1, <2>2, <2>3 DEF Schedule
<1>10. Seats'
  <2>1. IsFiniteSet(commit'.seats)
    BY <1>7, FS_Union DEF Inv, Seats
  <2>2. (selection.seats \cup commit.seats)' = selection.seats \cup commit.seats \cup tickets
    BY <1>2, <1>7
  <2>3. IsFiniteSet(selection'.seats)
    BY <1>2 DEF Inv, Seats
  <2>4. OnePerParticipant((selection.seats \cup commit.seats)')
    BY <1>5, <2>2
  <2> QED
    BY <1>2, <1>6, <1>7, <2>1, <2>2, <2>3, <2>4 DEF Seats, OnePerParticipant
<1> QED
  BY <1>6, <1>8, <1>9, <1>10 DEF Inv, e

(* The last block of a commit window preserves the invariant. *)
LEMMA ClosingInv ==
    ASSUME Inv, NEW tickets \in SUBSET Ticket, IsFiniteSet(tickets),
           Appended(tickets), ClosingBlock(tickets)
    PROVE  Inv'
<1> DEFINE e == Open(number)
           closed == Opened(e).seats \cup tickets
           observed == Cardinality(Admissions(Merged(closed)))
<1>1. /\ number \in Nat
      /\ e \in Nat
      /\ WorkCommitTargetEpoch(number + 1) = e
      /\ Open(number + 1) = IF (number + 1) % EpochLength = 0 THEN e + 1 ELSE e
  BY ScheduleFacts DEF Inv, TypeOK
<1>2. /\ e # 0
      /\ (number + 1) % EpochLength = 0
      /\ Admissible(e, tickets)
      /\ selection' = [epoch |-> e, difficulty |-> Opened(e).difficulty,
                       seats |-> Merged(closed)]
      /\ commit' = NoEpoch
      /\ AdvanceClosedEpoch(e, observed)
  BY <1>1 DEF ClosingBlock, CanApply, Closes
<1>3. /\ Opened(e) \in EpochState
      /\ Opened(e).seats = commit.seats
      /\ DifficultyForEpoch(e) \in Nat \ {0}
  BY <1>2, OpenedWindow
<1>4. Open(number)' = e + 1
  BY <1>1, <1>2 DEF Appended, Open
<1>5. /\ OnePerParticipant(selection.seats \cup commit.seats \cup tickets)
      /\ \A t \in tickets : \A s \in selection.seats \cup commit.seats :
            s.participant # t.participant
  BY <1>2, AdmittedSeats
<1>6. /\ number' \in 0 .. MaxHeight
      /\ history' \in [1 .. number' -> SUBSET Ticket]
      /\ \A n \in 1 .. number' :
            history'[n] \subseteq selection.seats \cup commit.seats \cup tickets
      /\ SeatedOnce'
  BY <1>5, HistoryStep DEF Appended
<1>7. /\ IsFiniteSet(Merged(closed))
      /\ Merged(closed) = selection.seats \cup commit.seats \cup tickets
      /\ Merged(closed) \in SUBSET Ticket
  <2>1. Merged(closed) = selection.seats \cup commit.seats \cup tickets
    BY <1>3 DEF Merged
  <2>2. IsFiniteSet(selection.seats \cup commit.seats)
    BY FS_Union DEF Inv, Seats
  <2>3. IsFiniteSet((selection.seats \cup commit.seats) \cup tickets)
    BY <2>2, FS_Union
  <2>4. selection.seats \in SUBSET Ticket /\ commit.seats \in SUBSET Ticket
    BY DEF Inv, TypeOK, EpochState
  <2> QED
    BY <2>1, <2>3, <2>4
<1>8. observed \in Nat
  <2>1. IsFiniteSet(Admissions(Merged(closed)))
    BY <1>7, FS_Subset DEF Admissions
  <2> QED
    BY <2>1, FS_CardinalityType
<1>9. NextWorkDifficulty(DifficultyForEpoch(e), observed) \in Nat \ {0}
  BY <1>3, <1>8, DifficultyPositive
<1> DEFINE next == [epoch |-> e + 2,
                    difficulty |-> NextWorkDifficulty(DifficultyForEpoch(e), observed)]
<1>10. /\ e % 2 = 1 => odd' = next /\ even' = even
       /\ e % 2 # 1 => even' = next /\ odd' = odd
  BY <1>2 DEF AdvanceClosedEpoch
<1>11. next \in [epoch : Nat, difficulty : Nat \ {0}] /\ next.epoch = e + 2
  BY <1>1, <1>9
<1> HIDE DEF e, closed, observed, next
<1>12. /\ commit' \in EpochState /\ commit'.epoch = 0 /\ commit'.seats = {}
       /\ selection' \in EpochState /\ selection'.epoch = e
       /\ selection'.seats = selection.seats \cup commit.seats \cup tickets
  BY <1>1, <1>2, <1>3, <1>7 DEF EpochState, NoEpoch
<1>13. TypeOK'
  BY <1>6, <1>10, <1>11, <1>12 DEF Inv, TypeOK
<1>14. Schedule(Open(number))'
  <2>1. Schedule(e)
    BY DEF Inv, e
  <2>2. /\ odd'.epoch = IF (e + 1) % 2 = 1 THEN e + 1 ELSE e + 2
        /\ even'.epoch = IF (e + 1) % 2 = 0 THEN e + 1 ELSE e + 2
    BY <1>1, <1>2, <1>10, <1>11, <2>1 DEF Schedule
  <2> QED
    BY <1>1, <1>2, <1>4, <1>12, <2>2 DEF Schedule
<1>15. Seats'
  <2>1. IsFiniteSet(selection'.seats)
    BY <1>2, <1>7
  <2>2. (selection.seats \cup commit.seats)' = selection.seats \cup commit.seats \cup tickets
    BY <1>12
  <2>3. IsFiniteSet(commit'.seats)
    BY <1>12, FS_EmptySet
  <2>4. OnePerParticipant((selection.seats \cup commit.seats)')
    BY <1>5, <2>2
  <2> QED
    BY <1>6, <1>12, <2>1, <2>2, <2>3, <2>4 DEF Seats, OnePerParticipant
<1> QED
  BY <1>6, <1>13, <1>14, <1>15 DEF Inv

-----------------------------------------------------------------------------
(* Every block preserves the invariant. *)
LEMMA NextInv == Inv /\ [Next]_vars => Inv'
<1> SUFFICES ASSUME Inv, [Next]_vars PROVE Inv'
  OBVIOUS
<1>1. CASE UNCHANGED vars
  <2>1. /\ TypeOK' /\ Seats' /\ SeatedOnce'
    BY <1>1 DEF Inv, vars, TypeOK, Seats, SeatedOnce, OnePerParticipant
  <2>2. Schedule(Open(number))'
    BY <1>1 DEF Inv, vars, Schedule, Open, DifficultyForEpoch
  <2> QED
    BY <2>1, <2>2 DEF Inv
<1>2. CASE Next
  <2>1. PICK tickets \in SUBSET Offered(WorkCommitTargetEpoch(number + 1)) :
           IsFiniteSet(tickets) /\ ApplyVerifiedBlock(tickets)
    BY <1>2 DEF Next
  <2>2. WorkCommitTargetEpoch(number + 1) \in Nat
    BY ScheduleFacts DEF Inv, TypeOK
  <2>3. tickets \in SUBSET Ticket
    BY <2>2 DEF Offered, Ticket
  <2>4. Appended(tickets)
    BY <2>1 DEF ApplyVerifiedBlock, Appended
  <2>5. \/ tickets = {} /\ BootstrapBlock
        \/ CommitBlock(tickets)
        \/ ClosingBlock(tickets)
    BY <2>1 DEF ApplyVerifiedBlock
  <2>6. CASE tickets = {} /\ BootstrapBlock
    BY <2>4, <2>6, BootstrapInv
  <2>7. CASE CommitBlock(tickets)
    BY <2>1, <2>3, <2>4, <2>7, CommitInv
  <2>8. CASE ClosingBlock(tickets)
    BY <2>1, <2>3, <2>4, <2>8, ClosingInv
  <2> QED
    BY <2>5, <2>6, <2>7, <2>8
<1> QED
  BY <1>1, <1>2

(* The invariant holds at every height of every branch. *)
THEOREM Invariance == Spec => []Inv
<1>1. Init => Inv
  BY InitInv
<1>2. Inv /\ [Next]_vars => Inv'
  BY NextInv
<1> QED
  BY <1>1, <1>2, PTL DEF Spec

(* Every variable keeps its type; no retargeting makes a difficulty zero. *)
THEOREM TypeCorrect == Spec => []TypeOK
<1>1. Inv => TypeOK
  BY DEF Inv
<1> QED
  BY <1>1, Invariance, PTL

(* No sequence of accepted blocks leads to a work state that refuses every   *)
(* further block: anchors exist, the difficulty is scheduled, seats merge.   *)
THEOREM BranchNeverStuck == Spec => []AlwaysExtendable
<1>1. Inv => AlwaysExtendable
  BY InvExtendable
<1> QED
  BY <1>1, Invariance, PTL

(* The seats handed to a block are those of the scheduled source epoch. *)
THEOREM SelectionSourceReady == Spec => []SelectionReady
<1>1. Inv => SelectionReady
  <2> SUFFICES ASSUME Inv PROVE SelectionReady
    OBVIOUS
  <2>1. WorkSelectionSourceEpoch(number + 1) =
           IF Open(number) <= 1 THEN 0 ELSE Open(number) - 1
    BY ScheduleFacts DEF Inv, TypeOK
  <2> QED
    BY <2>1 DEF Inv, Schedule, SelectionReady
<1> QED
  BY <1>1, Invariance, PTL

(* A participant is admitted at most once on a branch, in any epoch. *)
THEOREM OneSeatForLife == Spec => []SeatedOnce
<1>1. Inv => SeatedOnce
  BY DEF Inv
<1> QED
  BY <1>1, Invariance, PTL

=============================================================================
