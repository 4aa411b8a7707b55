--------------------------- MODULE WorkPoolProofs ---------------------------
(***************************************************************************)
(* Proofs about WorkPool: whatever stores fail and whenever the process     *)
(* stops, the journal can be restored and holds every pooled candidate that *)
(* was never canonical.                                                     *)
(*                                                                         *)
(* The invariant is stated for a state s of the node, so that each operator *)
(* the actions are composed of gets a lemma of its own: it takes sound      *)
(* states to sound states.                                                  *)
(***************************************************************************)
EXTENDS WorkPool, FiniteSetTheorems, TLAPS

(* What buildWorkCommitPoolStateV1 asks of a pool or a journal *)
WellFormed(c) ==
    /\ \A t \in c.tickets : t.epoch = c.epoch
    /\ OnePerParticipant(c.tickets)
    /\ Cardinality(c.tickets) <= Capacity

Durable(s) == s.pool.tickets \ seen \subseteq Load(s.journal, s.pool.epoch)

Sound(s) ==
    /\ s \in NodeState
    /\ WellFormed(s.pool)
    /\ WellFormed(s.journal)
    /\ Durable(s)
    /\ TicketsOf(s.removed) \subseteq seen

History ==
    /\ chain \in Seq(SUBSET Tickets)
    /\ Len(chain) >= EpochLength
    /\ seen \subseteq Tickets
    /\ Committed(chain) \subseteq seen

Inv ==
    /\ Sound(node)
    /\ History
    /\ verifying \in [Peers -> Tickets \cup {None}]

-----------------------------------------------------------------------------

(* Sets of tickets are finite, so their cardinalities are numbers and grow   *)
(* with the set.                                                             *)
LEMMA Finite ==
    ASSUME NEW T \in SUBSET Tickets
    PROVE  /\ IsFiniteSet(T)
           /\ Cardinality(T) \in Nat
           /\ \A U \in SUBSET T : Cardinality(U) <= Cardinality(T)
  <1>1. IsFiniteSet(T)
    BY FS_Subset, PoolAssumption
  <1>2. Cardinality(T) \in Nat
    BY <1>1, FS_CardinalityType
  <1>3. ASSUME NEW U \in SUBSET T
        PROVE  Cardinality(U) <= Cardinality(T)
    BY <1>1, FS_Subset
  <1> QED
    BY <1>1, <1>2, <1>3

(* A part of a well-formed pool is well-formed. *)
LEMMA PartWellFormed ==
    ASSUME NEW c \in Content, WellFormed(c), NEW T \in SUBSET c.tickets
    PROVE  WellFormed([epoch |-> c.epoch, tickets |-> T])
  <1> DEFINE d == [epoch |-> c.epoch, tickets |-> T]
  <1>1. d.epoch = c.epoch /\ d.tickets = T
    OBVIOUS
  <1>2. Cardinality(T) <= Capacity
    <2>1. c.tickets \in SUBSET Tickets /\ T \in SUBSET Tickets
      BY DEF Content
    <2>2. Cardinality(T) <= Cardinality(c.tickets)
      BY <2>1, Finite
    <2>3. Cardinality(T) \in Nat /\ Cardinality(c.tickets) \in Nat
      BY <2>1, Finite
    <2> QED
      BY <2>2, <2>3, PoolAssumption DEF WellFormed
  <1> QED
    BY <1>1, <1>2 DEF WellFormed, OnePerParticipant

(* A candidate that can be added leaves the pool well-formed. *)
LEMMA AddWellFormed ==
    ASSUME NEW c \in Content, WellFormed(c), NEW t \in Tickets, CanAdd(c, t)
    PROVE  WellFormed([epoch |-> c.epoch, tickets |-> c.tickets \cup {t}])
  <1> DEFINE d == [epoch |-> c.epoch, tickets |-> c.tickets \cup {t}]
  <1>1. d.epoch = c.epoch /\ d.tickets = c.tickets \cup {t}
    OBVIOUS
  <1>2. \A u \in c.tickets : u.participant # t.participant
    BY DEF CanAdd, Participants
  <1>3. OnePerParticipant(d.tickets)
    BY <1>1, <1>2 DEF WellFormed, OnePerParticipant
  <1>4. Cardinality(c.tickets \cup {t}) <= Capacity
    <2>1. IsFiniteSet(c.tickets) /\ Cardinality(c.tickets) \in Nat
      BY Finite DEF Content
    <2>2. Cardinality(c.tickets \cup {t}) <= Cardinality(c.tickets) + 1
      BY <2>1, FS_AddElement
    <2>3. IsFiniteSet(c.tickets \cup {t}) /\ Cardinality(c.tickets \cup {t}) \in Nat
      BY <2>1, FS_AddElement, FS_CardinalityType
    <2> QED
      BY <2>1, <2>2, <2>3, PoolAssumption DEF CanAdd
  <1>5. \A u \in d.tickets : u.epoch = d.epoch
    BY <1>1 DEF CanAdd, WellFormed
  <1> QED
    BY <1>1, <1>3, <1>4, <1>5 DEF WellFormed

(* Loading keeps the pool and the journal as they were: what an epoch's      *)
(* journal holds becomes its pool.                                           *)
LEMMA ResetSound ==
    ASSUME NEW s, Sound(s), NEW e \in Nat
    PROVE  /\ Sound(ResetCommitEpoch(s, e))
           /\ ResetCommitEpoch(s, e).pool.epoch = e
           /\ ResetCommitEpoch(s, e).removed = s.removed
  <1> DEFINE p == [epoch |-> e, tickets |-> Load(s.journal, e)]
             r == [s EXCEPT !.pool = p, !.acked = {}]
  <1>1. CASE s.pool.epoch = e
    BY <1>1 DEF ResetCommitEpoch
  <1>2. CASE s.pool.epoch # e
    <2>1. ResetCommitEpoch(s, e) = r
      BY <1>2 DEF ResetCommitEpoch
    <2>2. s \in NodeState /\ s.journal \in Content
      BY DEF Sound, NodeState
    <2>3. p \in Content
      BY <2>2 DEF Content, Load
    <2>4. /\ r \in NodeState
          /\ r.pool = p /\ r.journal = s.journal /\ r.removed = s.removed
      BY <2>2, <2>3 DEF NodeState
    <2>5. WellFormed(p)
      <3>1. CASE s.journal.epoch = e
        <4>1. p.epoch = s.journal.epoch /\ p.tickets = s.journal.tickets
          BY <3>1 DEF Load
        <4> QED
          BY <4>1 DEF Sound, WellFormed
      <3>2. CASE s.journal.epoch # e
        <4>1. p.tickets = {}
          BY <3>2 DEF Load
        <4> QED
          BY <4>1, FS_EmptySet, PoolAssumption DEF WellFormed, OnePerParticipant
      <3> QED
        BY <3>1, <3>2
    <2>6. Durable(r)
      BY <2>4 DEF Durable
    <2> QED
      BY <2>1, <2>4, <2>5, <2>6 DEF Sound
  <1> QED
    BY <1>1, <1>2

(* A store that succeeds, fails, or fails after writing keeps a node sound   *)
(* when what it stores is well-formed and leaves out no pooled candidate     *)
(* that was never canonical.                                                 *)
LEMMA StoredSound ==
    ASSUME NEW s, Sound(s), NEW T \in SUBSET Tickets, NEW o,
           WellFormed([epoch |-> s.pool.epoch, tickets |-> T]),
           s.pool.tickets \ T \subseteq seen
    PROVE  /\ Sound(Stored(s, T, o))
           /\ Stored(s, T, o).removed = s.removed
           /\ Stored(s, T, o).pool.epoch = s.pool.epoch
  <1> DEFINE r == Stored(s, T, o)
             c == [epoch |-> s.pool.epoch, tickets |-> T]
  <1>1. s \in NodeState /\ s.pool \in Content /\ s.journal \in Content
    BY DEF Sound, NodeState
  <1>2. c \in Content
    BY <1>1 DEF Content
  <1> DEFINE p == IF o = "stored" THEN c ELSE s.pool
             j == IF o = "put failed" THEN s.journal ELSE c
  <1>3. p \in Content /\ j \in Content
    BY <1>1, <1>2
  <1>4. [s.pool EXCEPT !.tickets = IF o = "stored" THEN T ELSE @] = p
    BY <1>1 DEF Content
  <1>5. r = [s EXCEPT !.pool = p, !.journal = j]
    BY <1>1, <1>4 DEF Stored, NodeState
  <1> HIDE DEF p, j, c
  <1>6. /\ r \in NodeState
        /\ r.pool = p
        /\ r.journal = j
        /\ r.removed = s.removed
    BY <1>1, <1>3, <1>5 DEF NodeState
  <1> USE DEF p, j, c
  <1>7. WellFormed(r.pool) /\ WellFormed(r.journal)
    BY <1>6 DEF Sound
  <1> HIDE DEF r
  <1>8. \/ r.pool = c
        \/ r.pool = s.pool
    BY <1>6
  <1>9. r.pool.epoch = s.pool.epoch
    BY <1>8
  <1>10. Durable(r)
    <2>1. CASE o = "put failed"
      BY <2>1, <1>6 DEF Sound, Durable
    <2>2. CASE o # "put failed"
      <3>1. r.pool.tickets = T \/ r.pool.tickets = s.pool.tickets
        BY <1>8
      <3>2. r.journal = c
        BY <1>6, <2>2
      <3>3. Load(r.journal, r.pool.epoch) = T
        BY <3>2, <1>9 DEF Load
      <3> QED
        BY <3>1, <3>3 DEF Durable
    <2> QED
      BY <2>1, <2>2
  <1>11. Sound(r)
    BY <1>6, <1>7, <1>10 DEF Sound
  <1> QED
    BY <1>6, <1>9, <1>11 DEF r

(* Taking canonical tickets out of the pool keeps a node sound. *)
LEMMA RemoveSound ==
    ASSUME NEW s, Sound(s), NEW T, T \cap s.pool.tickets \subseteq seen, NEW o,
           NEW r \in RemoveIncluded(s, T, o)
    PROVE  Sound(r) /\ r.removed = s.removed
  <1> DEFINE hits == T \cap s.pool.tickets
  <1>1. s.pool \in Content /\ WellFormed(s.pool)
    BY DEF Sound, NodeState
  <1>2. ASSUME NEW U \in SUBSET hits
        PROVE  /\ Sound(Stored(s, s.pool.tickets \ U, o))
               /\ Stored(s, s.pool.tickets \ U, o).removed = s.removed
    <2>1. WellFormed([epoch |-> s.pool.epoch, tickets |-> s.pool.tickets \ U])
      BY <1>1, PartWellFormed
    <2>2. s.pool.tickets \ U \in SUBSET Tickets
      BY <1>1 DEF Content
    <2>3. s.pool.tickets \ (s.pool.tickets \ U) \subseteq seen
      OBVIOUS
    <2> HIDE DEF hits
    <2> QED
      BY <2>1, <2>2, <2>3, StoredSound
  <1>3. CASE hits = {}
    BY <1>3 DEF RemoveIncluded
  <1>4. CASE hits # {} /\ o = "stored"
    <2>1. r = Stored(s, s.pool.tickets \ hits, o)
      BY <1>4 DEF RemoveIncluded
    <2> QED
      BY <2>1, <1>2
  <1>5. CASE hits # {} /\ o # "stored"
    <2>1. PICK t \in hits : r = Stored(s, s.pool.tickets \ {t}, o)
      BY <1>5 DEF RemoveIncluded
    <2> QED
      BY <2>1, <1>2
  <1> QED
    BY <1>3, <1>4, <1>5

(* Keeping removed tickets that were found in the chain keeps a node sound. *)
LEMMA RetainSound ==
    ASSUME NEW s, Sound(s), NEW before, NEW hits \in SUBSET Removal,
           TicketsOf(hits) \subseteq seen
    PROVE  Sound(Retain(s, before, hits))
  <1> DEFINE kept == s.removed \cup {h \in hits : h.ticket \in before.pool.tickets \ s.pool.tickets}
             r == [s EXCEPT !.removed = kept]
  <1>1. Retain(s, before, hits) = r
    BY DEF Retain
  <1>2. s \in NodeState /\ kept \in SUBSET Removal
    BY DEF Sound, NodeState
  <1>3. TicketsOf(kept) \subseteq seen
    BY DEF TicketsOf, Sound
  <1> HIDE DEF kept
  <1>4. r \in NodeState /\ r.removed = kept /\ r.pool = s.pool /\ r.journal = s.journal
    BY <1>2 DEF NodeState
  <1> QED
    BY <1>1, <1>3, <1>4 DEF Sound, Durable

(* What is in a canonical block has been seen. *)
LEMMA IncludedSeen ==
    ASSUME History, NEW n
    PROVE  IncludedAt(n) \subseteq seen /\ IncludedAt(n) \subseteq Tickets
  BY DEF History, IncludedAt, Committed

(* Tickets of a block, tagged with its number *)
LEMMA TaggedSeen ==
    ASSUME History, NEW n \in Nat, NEW T, T \subseteq IncludedAt(n)
    PROVE  /\ Tagged(T, n) \in SUBSET Removal
           /\ TicketsOf(Tagged(T, n)) \subseteq seen
           /\ \A h \in Tagged(T, n) : h.ticket \in seen
  <1>1. T \subseteq seen /\ T \subseteq Tickets
    BY IncludedSeen
  <1> QED
    BY <1>1 DEF Tagged, TicketsOf, Removal

(* Candidates that left the chain can be added again. *)
LEMMA ReadmittedSound ==
    ASSUME NEW s, Sound(s), NEW D \in SUBSET Tickets, NEW o,
           NEW r \in Readmitted(s, D, o)
    PROVE  Sound(r) /\ r.removed = s.removed
  <1> DEFINE addable == {t \in D : CanAdd(s.pool, t)}
  <1>1. s.pool \in Content /\ WellFormed(s.pool)
    BY DEF Sound, NodeState
  <1>2. CASE addable = {}
    BY <1>2 DEF Readmitted
  <1>3. CASE addable # {} /\ o = "stored"
    <2>1. PICK A \in SUBSET addable :
             /\ OnePerParticipant(A)
             /\ Cardinality(s.pool.tickets \cup A) <= Capacity
             /\ r = Stored(s, s.pool.tickets \cup A, o)
      BY <1>3 DEF Readmitted
    <2> DEFINE T == s.pool.tickets \cup A
               c == [epoch |-> s.pool.epoch, tickets |-> T]
    <2>2. T \in SUBSET Tickets
      BY <1>1 DEF Content
    <2>3. \A t \in A : t.epoch = s.pool.epoch
      BY DEF CanAdd
    <2>4. \A t \in A, u \in s.pool.tickets : t.participant # u.participant
      BY DEF CanAdd, Participants
    <2>5. OnePerParticipant(T)
      BY <1>1, <2>1, <2>4 DEF OnePerParticipant, WellFormed
    <2>6. WellFormed(c)
      <3>1. c.epoch = s.pool.epoch /\ c.tickets = T
        OBVIOUS
      <3>2. \A t \in T : t.epoch = s.pool.epoch
        BY <1>1, <2>3 DEF WellFormed
      <3> HIDE DEF T, c
      <3> QED
        BY <2>1, <2>5, <3>1, <3>2 DEF WellFormed, T
    <2>7. s.pool.tickets \ T \subseteq seen
      OBVIOUS
    <2> HIDE DEF T
    <2> QED
      BY <2>1, <2>2, <2>6, <2>7, StoredSound DEF T
  <1>4. CASE addable # {} /\ o # "stored"
    <2>1. PICK t \in addable : r = Stored(s, s.pool.tickets \cup {t}, o)
      BY <1>4 DEF Readmitted
    <2>2. WellFormed([epoch |-> s.pool.epoch, tickets |-> s.pool.tickets \cup {t}])
      BY <1>1, AddWellFormed
    <2>3. s.pool.tickets \cup {t} \in SUBSET Tickets
      BY <1>1 DEF Content
    <2>4. s.pool.tickets \ (s.pool.tickets \cup {t}) \subseteq seen
      OBVIOUS
    <2> HIDE DEF addable
    <2> QED
      BY <2>1, <2>2, <2>3, <2>4, StoredSound
  <1> QED
    BY <1>2, <1>3, <1>4

(* Forgetting removals keeps a node sound. *)
LEMMA ForgetSound ==
    ASSUME NEW s, Sound(s), NEW R \in SUBSET Removal, TicketsOf(R) \subseteq seen
    PROVE  Sound([s EXCEPT !.removed = R])
  <1> DEFINE r == [s EXCEPT !.removed = R]
  <1>1. s \in NodeState
    BY DEF Sound
  <1>2. r \in NodeState /\ r.removed = R /\ r.pool = s.pool /\ r.journal = s.journal
    BY <1>1 DEF NodeState
  <1> HIDE DEF r
  <1>3. Sound(r)
    BY <1>2 DEF Sound, Durable
  <1> QED
    BY <1>3 DEF r

(* Block numbers and epochs are natural numbers. *)
LEMMA Numbers ==
    ASSUME History
    PROVE  /\ NextBlock \in Nat /\ NextBlock > 1 /\ NextBlock - 1 \in Nat
           /\ \A n \in Nat \ {0} : CommitEpoch(n) \in Nat
           /\ \A e \in Nat : WindowStart(e) \in Nat /\ WindowStart(e) >= 1
  <1>1. EpochLength \in Nat /\ EpochLength > 0
    BY PoolAssumption
  <1>2. Len(chain) \in Nat
    BY DEF History
  <1>3. NextBlock \in Nat /\ NextBlock > 1 /\ NextBlock - 1 \in Nat
    BY <1>1, <1>2 DEF NextBlock, History
  <1>4. ASSUME NEW n \in Nat \ {0}
        PROVE  CommitEpoch(n) \in Nat
    BY <1>1 DEF CommitEpoch
  <1>5. ASSUME NEW e \in Nat
        PROVE  WindowStart(e) \in Nat /\ WindowStart(e) >= 1
    BY <1>1 DEF WindowStart
  <1> QED
    BY <1>3, <1>4, <1>5

(* Readmission after a reorganization keeps a node sound, also when it moves *)
(* the pool to another epoch.                                                *)
LEMMA ReconcileRemovedSound ==
    ASSUME NEW s, Sound(s), History, NEW e, NEW o,
           NEW r \in ReconcileRemoved(s, e, o)
    PROVE  Sound(r)
  <1> DEFINE current == {x \in s.removed : x.ticket.epoch = e}
             stale == {x \in current : x.ticket \notin IncludedAt(x.block)}
             h == CommitEpoch(NextBlock)
             reset == ResetCommitEpoch(s, h)
  <1>1. s.removed \in SUBSET Removal /\ TicketsOf(s.removed) \subseteq seen
    BY DEF Sound, NodeState
  <1>2. ASSUME NEW R \in SUBSET current
        PROVE  R \in SUBSET Removal /\ TicketsOf(R) \subseteq seen
    BY <1>1 DEF TicketsOf
  <1>3. h \in Nat
    BY Numbers
  <1>4. Sound(reset)
    <2> HIDE DEF h
    <2> QED
      BY <1>3, ResetSound
  <1>5. CASE stale = {}
    <2>1. r = [s EXCEPT !.removed = current]
      BY <1>5 DEF ReconcileRemoved
    <2> HIDE DEF current
    <2> QED
      BY <2>1, <1>2, ForgetSound
  <1>6. CASE stale # {} /\ h # e
    <2>1. r = [reset EXCEPT !.removed = current]
      BY <1>6 DEF ReconcileRemoved
    <2> HIDE DEF current, reset
    <2> QED
      BY <2>1, <1>2, <1>4, ForgetSound
  <1>7. CASE stale # {} /\ h = e
    <2>1. PICK q \in Readmitted(reset, TicketsOf(stale), o) :
             r = [q EXCEPT !.removed = {x \in current : x \in stale => ~ Contains(q.pool, x.ticket)}]
      BY <1>7 DEF ReconcileRemoved
    <2>2. TicketsOf(stale) \in SUBSET Tickets
      BY <1>1 DEF TicketsOf, Removal
    <2>3. Sound(q)
      <3> HIDE DEF reset, stale
      <3> QED
        BY <1>4, <2>2, ReadmittedSound
    <2> DEFINE R == {x \in current : x \in stale => ~ Contains(q.pool, x.ticket)}
    <2>4. R \in SUBSET current
      OBVIOUS
    <2> HIDE DEF R, current, stale
    <2> QED
      BY <2>1, <2>3, <2>4, <1>2, ForgetSound DEF R
  <1> QED
    BY <1>5, <1>6, <1>7

(* The scan of the window keeps a node sound. *)
LEMMA ScanSound ==
    ASSUME NEW s, Sound(s), History, NEW n \in Nat, NEW e \in Nat, NEW o,
           NEW r \in ReconcileCanonicalPending(s, n, e, o)
    PROVE  Sound(r)
  <1> DEFINE first == IF \/ s.scanned.epoch # e
                         \/ s.scanned.through < WindowStart(e) - 1
                         \/ s.scanned.through >= n
                      THEN WindowStart(e)
                      ELSE s.scanned.through + 1
             batch == {t \in Pending(s.pool) : t.epoch = e}
             hits == UNION {Tagged(batch \cap IncludedAt(k), k) : k \in first .. n - 1}
             scan == [epoch |-> e, through |-> n - 1]
  <1>1. WindowStart(e) \in Nat /\ WindowStart(e) >= 1
    BY Numbers
  <1>2. first \in Nat
    <2>1. s.scanned.through \in Nat
      BY DEF Sound, NodeState
    <2> QED
      BY <1>1, <2>1
  <1>3. CASE n <= WindowStart(e)
    BY <1>3 DEF ReconcileCanonicalPending
  <1>4. CASE ~ (n <= WindowStart(e))
    <2>1. PICK q \in RemoveIncluded(s, TicketsOf(hits), o) :
             r = [Retain(q, s, hits) EXCEPT !.scanned = scan]
      BY <1>4 DEF ReconcileCanonicalPending
    <2> HIDE DEF first, batch
    <2>2. \A k \in first .. n - 1 :
             /\ Tagged(batch \cap IncludedAt(k), k) \in SUBSET Removal
             /\ \A x \in Tagged(batch \cap IncludedAt(k), k) : x.ticket \in seen
      <3>1. TAKE k \in first .. n - 1
      <3>2. k \in Nat
        BY <1>2
      <3>3. batch \cap IncludedAt(k) \subseteq IncludedAt(k)
        OBVIOUS
      <3> QED
        BY <3>2, <3>3, TaggedSeen
    <2>3. hits \in SUBSET Removal /\ TicketsOf(hits) \subseteq seen
      BY <2>2 DEF TicketsOf
    <2> HIDE DEF hits
    <2>4. Sound(q)
      <3>1. TicketsOf(hits) \cap s.pool.tickets \subseteq seen
        BY <2>3
      <3> QED
        BY <3>1, RemoveSound
    <2> DEFINE u == Retain(q, s, hits)
    <2>5. Sound(u)
      BY <2>3, <2>4, RetainSound
    <2>6. scan \in [epoch : Nat, through : Nat]
      BY <1>1, <1>4
    <2> HIDE DEF u, scan
    <2>7. u \in NodeState
      BY <2>5 DEF Sound
    <2>8. r = [u EXCEPT !.scanned = scan]
      BY <2>1 DEF u
    <2>9. /\ r \in NodeState
          /\ r.pool = u.pool /\ r.journal = u.journal /\ r.removed = u.removed
      BY <2>6, <2>7, <2>8 DEF NodeState
    <2> QED
      BY <2>5, <2>9 DEF Sound, Durable
  <1> QED
    BY <1>3, <1>4

(* Everything that precedes an arrival or a reservation keeps a node sound. *)
LEMMA ReconciledSound ==
    ASSUME NEW s, Sound(s), History, NEW n \in Nat, NEW e \in Nat, NEW o,
           NEW r \in Reconciled(s, n, e, o)
    PROVE  Sound(r)
  <1>1. PICK q \in ReconcileRemoved(ResetCommitEpoch(s, e), e, o) :
           r \in ReconcileCanonicalPending(q, n, e, o)
    BY DEF Reconciled
  <1>2. Sound(ResetCommitEpoch(s, e))
    BY ResetSound
  <1>3. Sound(q)
    BY <1>1, <1>2, ReconcileRemovedSound
  <1> QED
    BY <1>1, <1>3, ScanSound

(* Another reservation keeps a node sound. *)
LEMMA ReserveSound ==
    ASSUME NEW s, Sound(s), NEW v \in [block : Nat, tickets : SUBSET Tickets]
    PROVE  Sound([s EXCEPT !.reserved = v])
  <1> DEFINE r == [s EXCEPT !.reserved = v]
  <1>1. s \in NodeState
    BY DEF Sound
  <1>2. r \in NodeState /\ r.removed = s.removed /\ r.pool = s.pool /\ r.journal = s.journal
    BY <1>1 DEF NodeState
  <1> HIDE DEF r
  <1>3. Sound(r)
    BY <1>2 DEF Sound, Durable
  <1> QED
    BY <1>3 DEF r

(* Settling a reservation keeps a node sound. *)
LEMMA ReservationSound ==
    ASSUME NEW s, Sound(s), History, NEW o, NEW r \in ReconcileReservation(s, o)
    PROVE  Sound(r)
  <1> DEFINE n == s.reserved.block
             T == s.reserved.tickets \cap IncludedAt(n)
             hits == Tagged(T, n)
  <1>1. n \in Nat
    BY DEF Sound, NodeState
  <1>2. PICK q \in RemoveIncluded(s, TicketsOf(hits), o) :
           r = [Retain(q, s, hits) EXCEPT !.reserved = NoReservation]
    BY DEF ReconcileReservation
  <1>3. T \subseteq IncludedAt(n)
    OBVIOUS
  <1> HIDE DEF T, n
  <1>4. hits \in SUBSET Removal /\ TicketsOf(hits) \subseteq seen
    BY <1>1, <1>3, TaggedSeen
  <1> HIDE DEF hits
  <1>5. Sound(q)
    <2>1. TicketsOf(hits) \cap s.pool.tickets \subseteq seen
      BY <1>4
    <2> QED
      BY <2>1, RemoveSound
  <1>6. Sound(Retain(q, s, hits))
    BY <1>4, <1>5, RetainSound
  <1>7. NoReservation \in [block : Nat, tickets : SUBSET Tickets]
    BY DEF NoReservation
  <1> QED
    BY <1>2, <1>6, <1>7, ReserveSound

-----------------------------------------------------------------------------

(* A process that starts with a well-formed journal is sound. *)
LEMMA StartedSound ==
    ASSUME NEW j \in Content, WellFormed(j)
    PROVE  Sound(Started(j))
  <1> DEFINE r == Started(j)
             none == [epoch |-> 0, tickets |-> {}]
  <1>1. none \in Content /\ none.tickets = {}
    BY DEF Content
  <1>2. WellFormed(none)
    BY <1>1, FS_EmptySet, PoolAssumption DEF WellFormed, OnePerParticipant
  <1>3. NoReservation \in [block : Nat, tickets : SUBSET Tickets]
    BY DEF NoReservation
  <1>4. r.pool = none /\ r.journal = j /\ r.removed = {}
    BY DEF Started
  <1> HIDE DEF none
  <1>5. r \in NodeState
    BY <1>1, <1>3 DEF Started, NodeState, none
  <1> HIDE DEF r
  <1>6. Sound(r)
    BY <1>1, <1>2, <1>4, <1>5 DEF Sound, Durable, TicketsOf
  <1> QED
    BY <1>6 DEF r

(* The invariant holds at the start. *)
LEMMA InitInv == Init => Inv
  <1> SUFFICES ASSUME Init PROVE Inv
    OBVIOUS
  <1> DEFINE none == [epoch |-> 0, tickets |-> {}]
  <1>1. none \in Content /\ none.tickets = {}
    BY DEF Content
  <1>2. WellFormed(none)
    BY <1>1, FS_EmptySet, PoolAssumption DEF WellFormed, OnePerParticipant
  <1>3. node = Started(none)
    BY DEF Init
  <1> HIDE DEF none
  <1>4. Sound(node)
    BY <1>1, <1>2, <1>3, StartedSound
  <1>5. EpochLength \in Nat
    BY PoolAssumption
  <1>6. /\ chain \in Seq(SUBSET Tickets) /\ Len(chain) = EpochLength
        /\ \A n \in 1 .. Len(chain) : chain[n] = {}
    BY <1>5 DEF Init
  <1>7. History
    BY <1>5, <1>6 DEF History, Committed, Init
  <1> QED
    BY <1>4, <1>7 DEF Inv, Init

(* A longer history keeps a node sound. *)
LEMMA SoundLater ==
    ASSUME Sound(node), UNCHANGED node, seen \subseteq seen'
    PROVE  Sound(node)'
  BY DEF Sound, Durable, NodeState, TicketsOf, WellFormed, OnePerParticipant, Load

(* Steps of the node leave the history alone. *)
LEMMA HistoryUnchanged ==
    ASSUME History, UNCHANGED <<chain, seen>>
    PROVE  History'
  BY DEF History, Committed

(* With the same history a state is as sound as before. *)
LEMMA SoundNow ==
    ASSUME Sound(node'), UNCHANGED seen
    PROVE  Sound(node)'
  BY DEF Sound, Durable

(* Refresh keeps the invariant. *)
LEMMA RefreshInv ==
    ASSUME Inv, NEW o, Refresh(o)
    PROVE  Inv'
  <1>1. NextBlock \in Nat /\ CommitEpoch(NextBlock) \in Nat
    BY Numbers DEF Inv
  <1>2. Sound(node')
    BY <1>1, ReconciledSound DEF Inv, Refresh
  <1> QED
    BY <1>2, SoundNow, HistoryUnchanged DEF Inv, Refresh

(* An arrival keeps the invariant. *)
LEMMA ArriveInv ==
    ASSUME Inv, NEW p \in Peers, NEW t \in Tickets, NEW o, Arrive(p, t, o)
    PROVE  Inv'
  <1>1. NextBlock \in Nat /\ CommitEpoch(NextBlock) \in Nat
    BY Numbers DEF Inv
  <1>2. Sound(node')
    BY <1>1, ReconciledSound DEF Inv, Arrive
  <1>3. verifying' \in [Peers -> Tickets \cup {None}]
    BY DEF Inv, Arrive
  <1> QED
    BY <1>2, <1>3, SoundNow, HistoryUnchanged DEF Inv, Arrive

(* An admission keeps the invariant. *)
LEMMA AdmitInv ==
    ASSUME Inv, NEW p \in Peers, NEW o, Admit(p, o)
    PROVE  Inv'
  <1> DEFINE t == verifying[p]
             added == AddVerified(node, t, o)
             acked == added.acked \cup ({t} \cap (added.pool.tickets \ node.pool.tickets))
  <1>1. t \in Tickets
    BY DEF Inv, Admit
  <1>2. Sound(added)
    <2>1. CASE CanAdd(node.pool, t)
      <3>1. added = Stored(node, node.pool.tickets \cup {t}, o)
        BY <2>1 DEF AddVerified
      <3>2. node.pool \in Content /\ WellFormed(node.pool) /\ Sound(node)
        BY DEF Inv, Sound, NodeState
      <3> HIDE DEF t, added
      <3>3. WellFormed([epoch |-> node.pool.epoch, tickets |-> node.pool.tickets \cup {t}])
        BY <1>1, <2>1, <3>2, AddWellFormed
      <3>4. node.pool.tickets \cup {t} \in SUBSET Tickets
        BY <1>1, <3>2 DEF Content
      <3>5. node.pool.tickets \ (node.pool.tickets \cup {t}) \subseteq seen
        OBVIOUS
      <3> QED
        BY <3>1, <3>2, <3>3, <3>4, <3>5, StoredSound
    <2>2. CASE ~ CanAdd(node.pool, t)
      BY <2>2 DEF AddVerified, Inv
    <2> QED
      BY <2>1, <2>2
  <1>3. node' = [added EXCEPT !.acked = acked]
    BY DEF Admit
  <1>4. verifying' \in [Peers -> Tickets \cup {None}]
    BY DEF Inv, Admit
  <1> HIDE DEF added, t
  <1>5. added \in NodeState /\ acked \in SUBSET Tickets
    BY <1>1, <1>2 DEF Sound, NodeState
  <1> HIDE DEF acked
  <1>6. /\ node' \in NodeState /\ node'.removed = added.removed
        /\ node'.pool = added.pool /\ node'.journal = added.journal
    BY <1>3, <1>5 DEF NodeState
  <1>7. Sound(node')
    BY <1>2, <1>6 DEF Sound, Durable
  <1> QED
    BY <1>4, <1>7, SoundNow, HistoryUnchanged DEF Inv, Admit

(* Providing tickets for a block keeps the invariant. *)
LEMMA ProvideInv ==
    ASSUME Inv, NEW n \in {NextBlock - 1, NextBlock}, NEW o, Provide(n, o)
    PROVE  Inv'
  <1> DEFINE e == CommitEpoch(n)
             settled(s) == IF s.reserved.block # 0 /\ n > s.reserved.block
                           THEN ReconcileReservation(s, o) ELSE {s}
             usable(s) == {t \in Pending(s.pool) : t.epoch = e}
  <1>1. n \in Nat /\ e \in Nat /\ Sound(node) /\ History
    BY Numbers DEF Inv
  <1>2. PICK s \in Reconciled(node, n, e, o) :
           \/ s.reserved.block = n /\ node' = s
           \/ /\ s.reserved.block # n
              /\ \E r \in settled(s) :
                    node' = [r EXCEPT !.reserved = [block |-> n, tickets |-> usable(r)]]
    BY DEF Provide
  <1> HIDE DEF e
  <1>3. Sound(s)
    BY <1>1, ReconciledSound
  <1>4. Sound(node')
    <2>1. CASE node' = s
      BY <2>1, <1>3
    <2>2. CASE \E r \in settled(s) :
                  node' = [r EXCEPT !.reserved = [block |-> n, tickets |-> usable(r)]]
      <3>1. PICK r \in settled(s) :
               node' = [r EXCEPT !.reserved = [block |-> n, tickets |-> usable(r)]]
        BY <2>2
      <3>2. Sound(r)
        BY <1>1, <1>3, ReservationSound
      <3>3. r.pool.tickets \in SUBSET Tickets
        BY <3>2 DEF Sound, NodeState, Content
      <3>4. [block |-> n, tickets |-> usable(r)] \in [block : Nat, tickets : SUBSET Tickets]
        BY <1>1, <3>3 DEF Pending
      <3> HIDE DEF usable
      <3> QED
        BY <3>1, <3>2, <3>4, ReserveSound
    <2> QED
      BY <1>2, <2>1, <2>2
  <1> QED
    BY <1>4, SoundNow, HistoryUnchanged DEF Inv, Provide

(* A new block keeps the invariant. *)
LEMMA ExtendInv ==
    ASSUME Inv, NEW T \in SUBSET Tickets, Extend(T)
    PROVE  Inv'
  <1>1. Sound(node)'
    BY SoundLater DEF Inv, Extend
  <1>2. chain' = Append(chain, T) /\ seen' = seen \cup T
    BY DEF Extend
  <1>3. chain \in Seq(SUBSET Tickets) /\ Len(chain) \in Nat /\ EpochLength \in Nat
    BY PoolAssumption DEF Inv, History
  <1>4. /\ chain' \in Seq(SUBSET Tickets) /\ Len(chain') = Len(chain) + 1
        /\ \A n \in 1 .. Len(chain) : chain'[n] = chain[n]
        /\ chain'[Len(chain) + 1] = T
    BY <1>2, <1>3
  <1>5. Committed(chain') \subseteq seen'
    <2>1. \A n \in 1 .. Len(chain') : n \in 1 .. Len(chain) \/ n = Len(chain) + 1
      BY <1>3, <1>4
    <2>2. \A n \in 1 .. Len(chain) : chain[n] \subseteq seen
      BY DEF Inv, History, Committed
    <2> QED
      BY <1>2, <1>4, <2>1, <2>2 DEF Committed
  <1>6. History'
    BY <1>2, <1>3, <1>4, <1>5 DEF Inv, History, Committed
  <1> QED
    BY <1>1, <1>6 DEF Inv, Extend

(* A reorganization keeps the invariant. *)
LEMMA ReorgInv ==
    ASSUME Inv, NEW d \in 1 .. MaxDepth, NEW k \in {d, d + 1}, Reorg(d, k)
    PROVE  Inv'
  <1> DEFINE l == Len(chain) - d
             base == SubSeq(chain, 1, l)
  <1>1. PICK b \in Extensions(base, k) :
           chain' = base \o b /\ seen' = seen \cup Committed(b)
    BY DEF Reorg
  <1>2. Sound(node)'
    BY <1>1, SoundLater DEF Inv, Reorg
  <1>3. /\ chain \in Seq(SUBSET Tickets) /\ Len(chain) \in Nat /\ EpochLength \in Nat
        /\ d \in Nat /\ d >= 1 /\ k \in Nat /\ l >= EpochLength /\ l \in Nat /\ l <= Len(chain)
    <2>1. chain \in Seq(SUBSET Tickets)
      BY DEF Inv, History
    <2>2. Len(chain) - d >= EpochLength
      BY DEF Reorg
    <2>3. EpochLength \in Nat /\ MaxDepth \in Nat
      BY PoolAssumption
    <2>4. d \in Nat /\ d >= 1 /\ k \in Nat
      BY <2>3
    <2>5. Len(chain) \in Nat
      BY <2>1
    <2> QED
      BY <2>1, <2>2, <2>3, <2>4, <2>5
  <1>4. b \in [1 .. k -> SUBSET Tickets]
    BY DEF Extensions
  <1>5. b \in Seq(SUBSET Tickets) /\ Len(b) = k
    BY <1>3, <1>4
  <1>6. /\ base \in Seq(SUBSET Tickets) /\ Len(base) = l
        /\ \A n \in 1 .. l : base[n] = chain[n]
    BY <1>3
  <1> HIDE DEF base, l
  <1>7. /\ chain' \in Seq(SUBSET Tickets) /\ Len(chain') = l + k
        /\ \A n \in 1 .. l : chain'[n] = base[n]
        /\ \A n \in l + 1 .. l + k : chain'[n] = b[n - l]
    <2> DEFINE c == base \o b
    <2>1. c \in Seq(SUBSET Tickets) /\ Len(c) = Len(base) + Len(b)
      BY <1>5, <1>6
    <2>2. \A n \in 1 .. Len(base) + Len(b) :
             c[n] = IF n <= Len(base) THEN base[n] ELSE b[n - Len(base)]
      BY <1>5, <1>6
    <2> HIDE DEF c
    <2>3. chain' = c
      BY <1>1 DEF c
    <2> QED
      BY <1>3, <1>5, <1>6, <2>1, <2>2, <2>3
  <1>8. ASSUME NEW n \in 1 .. Len(chain')
        PROVE  chain'[n] \subseteq seen'
    <2>1. CASE n \in 1 .. l
      <3>1. chain'[n] = chain[n] /\ n \in 1 .. Len(chain)
        BY <1>3, <1>6, <1>7, <2>1
      <3>2. chain[n] \subseteq seen
        BY <3>1 DEF Inv, History, Committed
      <3> QED
        BY <1>1, <3>1, <3>2
    <2>2. CASE n \in l + 1 .. l + k
      <3>1. chain'[n] = b[n - l] /\ n - l \in 1 .. Len(b)
        BY <1>3, <1>5, <1>7, <2>2
      <3> QED
        BY <1>1, <3>1 DEF Committed
    <2> QED
      BY <1>3, <1>7, <2>1, <2>2
  <1>9. Committed(b) \subseteq Tickets
    BY <1>5 DEF Committed
  <1>10. History'
    <2>1. Len(chain') >= EpochLength
      BY <1>3, <1>7
    <2>2. seen' \subseteq Tickets
      BY <1>1, <1>9 DEF Inv, History
    <2>3. Committed(chain') \subseteq seen'
      BY <1>8 DEF Committed
    <2> QED
      BY <1>7, <2>1, <2>2, <2>3 DEF History, Committed
  <1> QED
    BY <1>2, <1>10 DEF Inv, Reorg

(* A restart keeps the invariant. *)
LEMMA RestartInv ==
    ASSUME Inv, Restart
    PROVE  Inv'
  <1>1. node.journal \in Content /\ WellFormed(node.journal)
    BY DEF Inv, Sound, NodeState
  <1>2. Sound(node')
    BY <1>1, StartedSound DEF Restart
  <1>3. verifying' \in [Peers -> Tickets \cup {None}]
    BY DEF Restart
  <1> QED
    BY <1>2, <1>3, SoundNow, HistoryUnchanged DEF Inv, Restart

(* Every step keeps the invariant. *)
LEMMA NextInv == Inv /\ [Next]_vars => Inv'
  <1> SUFFICES ASSUME Inv, [Next]_vars PROVE Inv'
    OBVIOUS
  <1>1. CASE \E o \in Outcomes : Refresh(o)
    BY <1>1, RefreshInv
  <1>2. CASE \E o \in Outcomes : \E p \in Peers, t \in Tickets : Arrive(p, t, o)
    BY <1>2, ArriveInv
  <1>3. CASE \E o \in Outcomes : \E p \in Peers : Admit(p, o)
    BY <1>3, AdmitInv
  <1>4. CASE \E o \in Outcomes : \E n \in {NextBlock - 1, NextBlock} : Provide(n, o)
    BY <1>4, ProvideInv
  <1>5. CASE \E T \in SUBSET Tickets : Extend(T)
    BY <1>5, ExtendInv
  <1>6. CASE \E d \in 1 .. MaxDepth : \E k \in {d, d + 1} : Reorg(d, k)
    BY <1>6, ReorgInv
  <1>7. CASE Restart
    BY <1>7, RestartInv
  <1>8. CASE UNCHANGED vars
    <2>1. UNCHANGED <<chain, seen>> /\ UNCHANGED node /\ UNCHANGED verifying
      BY <1>8 DEF vars
    <2>2. Sound(node)'
      BY <2>1, SoundLater DEF Inv
    <2> QED
      BY <2>1, <2>2, HistoryUnchanged DEF Inv
  <1> QED
    BY <1>1, <1>2, <1>3, <1>4, <1>5, <1>6, <1>7, <1>8 DEF Next

(* The invariant holds in every reachable state. *)
THEOREM Invariance == Spec => []Inv
  BY InitInv, NextInv, PTL DEF Spec

(* Whatever stores fail and whenever the process stops, the journal can be   *)
(* restored: buildWorkCommitPoolStateV1 accepts what it holds.               *)
THEOREM AlwaysRestorable == Spec => []JournalRestorable
  <1>1. Inv => JournalRestorable
    BY DEF Inv, Sound, WellFormed, JournalRestorable
  <1> QED
    BY <1>1, Invariance, PTL

(* A pooled candidate that was never canonical is in the journal of its      *)
(* epoch, so that ResetCommitEpochV1 finds it again after a restart.         *)
THEOREM NothingLost == Spec => []PoolDurable
  <1>1. Inv => PoolDurable
    BY DEF Inv, Sound, Durable, PoolDurable
  <1> QED
    BY <1>1, Invariance, PTL

=============================================================================
