------------------------------ MODULE WorkPool ------------------------------
(***************************************************************************)
(* The pool of verified work candidates of one node, its journal on disk,   *)
(* and the provider that offers candidates to the engine when the node      *)
(* prepares a block and takes them out of the pool once they are canonical. *)
(*                                                                         *)
(* The chain grows and is reorganized by others while the node verifies     *)
(* candidates for several peers; the process may stop at any time and the   *)
(* journal may fail.  A ticket is identified by its record: the signature   *)
(* and the proof hash are functions of participant, epoch and nonce, and    *)
(* the priority is derived from the proof hash.                             *)
(***************************************************************************)
EXTENDS Integers, Sequences, FiniteSets

CONSTANTS
    Tickets,       \* records with participant, epoch, priority
    Peers,         \* who delivers candidates, local submission included
    EpochLength,   \* WorkProtocolEpochLengthV1
    MaxPerBlock,   \* MaxWorkTicketsPerBlockV1
    Capacity,      \* DefaultWorkCommitPoolCapacityV1
    Outcomes,      \* the outcomes of a store that occur, see Outcome
    None,          \* no ticket
    MaxHeight,     \* bound: height of the chain
    MaxDepth,      \* bound: blocks replaced by one reorganization
    MaxReorgs,     \* bound: number of reorganizations
    MaxRestarts    \* bound: number of restarts

(* A store of the journal succeeds, fails before it writes, or writes and    *)
(* then fails to synchronize.                                                *)
Outcome == {"stored", "put failed", "sync failed"}

ASSUME PoolAssumption ==
    /\ EpochLength \in Nat \ {0}
    /\ MaxPerBlock \in Nat \ {0}
    /\ Capacity \in Nat \ {0}
    /\ Outcomes \subseteq Outcome
    /\ IsFiniteSet(Tickets) /\ None \notin Tickets
    /\ \A t \in Tickets : t.epoch \in Nat \ {0} /\ t.priority \in Nat
    /\ \A t, u \in Tickets : t.priority = u.priority => t = u
    /\ MaxHeight \in Nat /\ MaxDepth \in Nat /\ MaxReorgs \in Nat /\ MaxRestarts \in Nat

VARIABLES
    chain,      \* the tickets of each canonical block
    node,       \* pool, journal and provider, and the ghost acked: the tickets
                \* accepted since the pool was last reset
    verifying,  \* the candidate each peer's verification works on
    seen,       \* ghost: every ticket that was ever canonical
    reorgs,
    restarts

vars == <<chain, node, verifying, seen, reorgs, restarts>>

-----------------------------------------------------------------------------
(* The chain *)

CommitEpoch(n) == (n - 1) \div EpochLength

WindowStart(e) == e * EpochLength + 1

NextBlock == Len(chain) + 1

IncludedAt(n) == IF n \in 1 .. Len(chain) THEN chain[n] ELSE {}

Committed(c) == UNION {c[n] : n \in 1 .. Len(c)}

Participants(tickets) == {t.participant : t \in tickets}

OnePerParticipant(tickets) ==
    \A t, u \in tickets : t.participant = u.participant => t = u

(* A block may follow: see Admissible in WorkEpochs *)
Valid(c, tickets) ==
    /\ Cardinality(tickets) <= MaxPerBlock
    /\ \A t \in tickets : t.epoch = CommitEpoch(Len(c) + 1)
    /\ OnePerParticipant(tickets)
    /\ Participants(tickets) \cap Participants(Committed(c)) = {}

Extensions(c, k) ==
    {b \in [1 .. k -> {T \in SUBSET Tickets : Cardinality(T) <= MaxPerBlock}] :
       \A i \in 1 .. k : Valid(c \o SubSeq(b, 1, i - 1), b[i])}

-----------------------------------------------------------------------------
(* The pool and its journal *)

Load(journal, e) == IF journal.epoch = e THEN journal.tickets ELSE {}

ResetCommitEpoch(s, e) ==
    IF s.pool.epoch = e THEN s
    ELSE [s EXCEPT !.pool = [epoch |-> e, tickets |-> Load(s.journal, e)],
                   !.acked = {}]

(* Bug: the pool keeps a change whose store failed *)
Stored_NoRollback(s, tickets, outcome) ==
    [s EXCEPT !.pool.tickets = tickets,
              !.journal = IF outcome = "put failed" THEN @
                          ELSE [epoch |-> s.pool.epoch, tickets |-> tickets]]

(* A change of the pool is stored or rolled back *)
Stored(s, tickets, outcome) ==
    [s EXCEPT !.pool.tickets = IF outcome = "stored" THEN tickets ELSE @,
              !.journal = IF outcome = "put failed" THEN @
                          ELSE [epoch |-> s.pool.epoch, tickets |-> tickets]]

Contains(pool, t) ==
    \E u \in pool.tickets : u.epoch = t.epoch /\ u.participant = t.participant

(* Bug: only the exact ticket counts as a duplicate *)
CanAdd_SameTicketOnly(pool, t) ==
    /\ t.epoch = pool.epoch
    /\ t \notin pool.tickets
    /\ Cardinality(pool.tickets) < Capacity

CanAdd(pool, t) ==
    /\ t.epoch = pool.epoch
    /\ t.participant \notin Participants(pool.tickets)
    /\ Cardinality(pool.tickets) < Capacity

AddVerified(s, t, outcome) ==
    IF CanAdd(s.pool, t) THEN Stored(s, s.pool.tickets \cup {t}, outcome) ELSE s

(* RemoveIncludedV1 is called for one ticket after the other *)
RemoveIncluded(s, tickets, outcome) ==
    LET hits == tickets \cap s.pool.tickets
    IN  IF hits = {} THEN {s}
        ELSE IF outcome = "stored" THEN {Stored(s, s.pool.tickets \ hits, outcome)}
        ELSE {Stored(s, s.pool.tickets \ {t}, outcome) : t \in hits}

(* Bug: one candidate too many *)
Pending_OneMore(pool) ==
    {t \in pool.tickets :
       Cardinality({u \in pool.tickets : u.priority < t.priority}) <= MaxPerBlock}

(* The first MaxPerBlock candidates in canonical order *)
Pending(pool) ==
    {t \in pool.tickets :
       Cardinality({u \in pool.tickets : u.priority < t.priority}) < MaxPerBlock}

-----------------------------------------------------------------------------
(* The provider *)

Tagged(tickets, n) == {[block |-> n, ticket |-> t] : t \in tickets}

TicketsOf(removals) == {r.ticket : r \in removals}

(* What readmission can leave in the pool: the candidates are tried one      *)
(* after the other, in an order that is not determined.                      *)
Readmitted(s, tickets, outcome) ==
    LET addable == {t \in tickets : CanAdd(s.pool, t)}
        fits(A) == /\ OnePerParticipant(A)
                   /\ Cardinality(s.pool.tickets \cup A) <= Capacity
    IN  IF addable = {} THEN {s}
        ELSE IF outcome = "stored"
             THEN {Stored(s, s.pool.tickets \cup A, outcome) :
                     A \in {B \in SUBSET addable :
                              /\ fits(B)
                              /\ \A t \in addable \ B : ~ fits(B \cup {t})}}
             ELSE {Stored(s, s.pool.tickets \cup {t}, outcome) : t \in addable}

(* Bug: a ticket whose block was replaced is dropped, not readmitted *)
ReconcileRemoved_Drops(s, e, outcome) ==
    {[s EXCEPT !.removed = {r \in @ : r.ticket.epoch = e /\ r.ticket \in IncludedAt(r.block)}]}

(* Removed candidates that are no longer canonical go back into the pool,    *)
(* which currentContextRaw first moves to the epoch of the head.             *)
ReconcileRemoved(s, e, outcome) ==
    LET current == {r \in s.removed : r.ticket.epoch = e}
        stale == {r \in current : r.ticket \notin IncludedAt(r.block)}
        reset == ResetCommitEpoch(s, CommitEpoch(NextBlock))
    IN  IF stale = {} THEN {[s EXCEPT !.removed = current]}
        ELSE IF CommitEpoch(NextBlock) # e THEN {[reset EXCEPT !.removed = current]}
        ELSE {[r EXCEPT !.removed = {x \in current : x \in stale => ~ Contains(r.pool, x.ticket)}] :
                r \in Readmitted(reset, TicketsOf(stale), outcome)}

(* Removed candidates are kept with the block they were found in *)
Retain(s, before, hits) ==
    [s EXCEPT !.removed =
       @ \cup {h \in hits : h.ticket \in before.pool.tickets \ s.pool.tickets}]

(* The scan of the commit window, which looks for the pending batch only *)
ReconcileCanonicalPending(s, n, e, outcome) ==
    LET first == IF \/ s.scanned.epoch # e
                    \/ s.scanned.through < WindowStart(e) - 1
                    \/ s.scanned.through >= n
                 THEN WindowStart(e)
                 ELSE s.scanned.through + 1
        batch == {t \in Pending(s.pool) : t.epoch = e}
        hits == UNION {Tagged(batch \cap IncludedAt(k), k) : k \in first .. n - 1}
    IN  IF n <= WindowStart(e) THEN {s}
        ELSE {[Retain(r, s, hits) EXCEPT !.scanned = [epoch |-> e, through |-> n - 1]] :
                r \in RemoveIncluded(s, TicketsOf(hits), outcome)}

NoReservation == [block |-> 0, tickets |-> {}]

(* Bug: the reserved tickets are removed without looking at the block *)
ReconcileReservation_Blind(s, outcome) ==
    LET hits == Tagged(s.reserved.tickets, s.reserved.block)
    IN  {[Retain(r, s, hits) EXCEPT !.reserved = NoReservation] :
           r \in RemoveIncluded(s, TicketsOf(hits), outcome)}

ReconcileReservation(s, outcome) ==
    LET hits == Tagged(s.reserved.tickets \cap IncludedAt(s.reserved.block),
                       s.reserved.block)
    IN  {[Retain(r, s, hits) EXCEPT !.reserved = NoReservation] :
           r \in RemoveIncluded(s, TicketsOf(hits), outcome)}

(* currentContext and, without the reservation, the start of provide *)
Reconciled(s, n, e, outcome) ==
    UNION {ReconcileCanonicalPending(r, n, e, outcome) :
             r \in ReconcileRemoved(ResetCommitEpoch(s, e), e, outcome)}

CanonicalIncludes(t, e) ==
    \E k \in WindowStart(e) .. Len(chain) :
       \E u \in chain[k] : u.epoch = e /\ u.participant = t.participant

Seated(p, e) ==
    \E k \in 1 .. WindowStart(e) - 1 : p \in Participants(IncludedAt(k))

-----------------------------------------------------------------------------

Started(journal) ==
    [pool |-> [epoch |-> 0, tickets |-> {}],
     journal |-> journal,
     removed |-> {},
     reserved |-> NoReservation,
     scanned |-> [epoch |-> 0, through |-> 0],
     acked |-> {}]

(* The first epoch has no commit window, so the chain starts after it *)
Init ==
    /\ chain = [n \in 1 .. EpochLength |-> {}]
    /\ node = Started([epoch |-> 0, tickets |-> {}])
    /\ verifying = [p \in Peers |-> None]
    /\ seen = {}
    /\ reorgs = 0
    /\ restarts = 0

(* A peer connects, or the pending candidates are listed *)
Refresh(outcome) ==
    /\ node' \in Reconciled(node, NextBlock, CommitEpoch(NextBlock), outcome)
    /\ UNCHANGED <<chain, verifying, seen, reorgs, restarts>>

(* A candidate passes the checks that precede its verification *)
Arrive(p, t, outcome) ==
    LET e == CommitEpoch(NextBlock)
    IN  /\ verifying[p] = None
        /\ t.epoch = e
        /\ ~ CanonicalIncludes(t, e)
        /\ ~ Seated(t.participant, e)
        /\ node' \in Reconciled(node, NextBlock, e, outcome)
        /\ ~ Contains(node'.pool, t)
        /\ verifying' = [verifying EXCEPT ![p] = t]
        /\ UNCHANGED <<chain, seen, reorgs, restarts>>

(* Its verification ends and it is added *)
Admit(p, outcome) ==
    LET t == verifying[p]
        added == AddVerified(node, t, outcome)
    IN  /\ t # None
        /\ node' = [added EXCEPT !.acked = @ \cup ({t} \cap (added.pool.tickets \ node.pool.tickets))]
        /\ verifying' = [verifying EXCEPT ![p] = None]
        /\ UNCHANGED <<chain, seen, reorgs, restarts>>

(* The engine asks for tickets for block n; the head may have moved on since *)
(* the parent was chosen.                                                    *)
Provide(n, outcome) ==
    LET e == CommitEpoch(n)
        settled(s) == IF s.reserved.block # 0 /\ n > s.reserved.block
                      THEN ReconcileReservation(s, outcome)
                      ELSE {s}
        usable(s) == {t \in Pending(s.pool) : t.epoch = e}
    IN  /\ e # 0
        /\ \E s \in Reconciled(node, n, e, outcome) :
              \/ s.reserved.block = n /\ node' = s
              \/ /\ s.reserved.block # n
                 /\ \E r \in settled(s) :
                       node' = [r EXCEPT !.reserved = [block |-> n, tickets |-> usable(r)]]
        /\ UNCHANGED <<chain, verifying, seen, reorgs, restarts>>

Extend(tickets) ==
    /\ Len(chain) < MaxHeight
    /\ Valid(chain, tickets)
    /\ chain' = Append(chain, tickets)
    /\ seen' = seen \cup tickets
    /\ UNCHANGED <<node, verifying, reorgs, restarts>>

(* The last d blocks are replaced by d or d + 1 others *)
Reorg(d, k) ==
    LET base == SubSeq(chain, 1, Len(chain) - d)
    IN  /\ reorgs < MaxReorgs
        /\ Len(chain) - d >= EpochLength
        /\ Len(base) + k <= MaxHeight
        /\ \E b \in Extensions(base, k) :
              /\ b[1] # chain[Len(base) + 1]
              /\ chain' = base \o b
              /\ seen' = seen \cup Committed(b)
        /\ reorgs' = reorgs + 1
        /\ UNCHANGED <<node, verifying, restarts>>

(* The process stops and starts again with the journal *)
Restart ==
    /\ restarts < MaxRestarts
    /\ node' = Started(node.journal)
    /\ verifying' = [p \in Peers |-> None]
    /\ restarts' = restarts + 1
    /\ UNCHANGED <<chain, seen, reorgs>>

Next ==
    \/ \E outcome \in Outcomes :
          \/ Refresh(outcome)
          \/ \E p \in Peers, t \in Tickets : Arrive(p, t, outcome)
          \/ \E p \in Peers : Admit(p, outcome)
          \/ \E n \in {NextBlock - 1, NextBlock} : Provide(n, outcome)
    \/ \E tickets \in SUBSET Tickets : Extend(tickets)
    \/ \E d \in 1 .. MaxDepth : \E k \in {d, d + 1} : Reorg(d, k)
    \/ Restart

Spec == Init /\ [][Next]_vars

-----------------------------------------------------------------------------
(* Properties *)

Content == [epoch : Nat, tickets : SUBSET Tickets]

Removal == [block : Nat, ticket : Tickets]

NodeState ==
    [pool : Content, journal : Content, removed : SUBSET Removal,
     reserved : [block : Nat, tickets : SUBSET Tickets],
     scanned : [epoch : Nat, through : Nat],
     acked : SUBSET Tickets]

(* Every variable has its type, and a reservation fits into a block. *)
TypeOK ==
    /\ chain \in Seq(SUBSET Tickets)
    /\ node \in NodeState
    /\ Cardinality(node.reserved.tickets) <= MaxPerBlock
    /\ verifying \in [Peers -> Tickets \cup {None}]
    /\ seen \subseteq Tickets
    /\ reorgs \in 0 .. MaxReorgs
    /\ restarts \in 0 .. MaxRestarts

(* What the journal holds can be loaded: buildWorkCommitPoolStateV1 accepts   *)
(* it, whatever stores failed, so no restart leaves the node without a pool. *)
JournalRestorable ==
    /\ \A t \in node.journal.tickets : t.epoch = node.journal.epoch
    /\ OnePerParticipant(node.journal.tickets)
    /\ Cardinality(node.journal.tickets) <= Capacity

(* A candidate in the pool that was never canonical is in the journal, so a  *)
(* restart in its window does not lose it.                                   *)
PoolDurable ==
    node.pool.tickets \ seen \subseteq Load(node.journal, node.pool.epoch)

(* As long as the pool is not reset, the participant of an accepted          *)
(* candidate has one in the pool or among the removed ones, which a          *)
(* reorganization brings back.                                               *)
AcceptedKept ==
    Participants(node.acked) \subseteq
       Participants(node.pool.tickets \cup TicketsOf(node.removed))

(* "Do not remove anything without canonical proof": a candidate leaves the  *)
(* pool only when it is in a canonical block or the pool is reset.           *)
RemovedOnlyIncluded ==
    [][node'.pool.epoch = node.pool.epoch =>
          node.pool.tickets \ node'.pool.tickets \subseteq Committed(chain)]_vars

(* Removed candidates stay out "while their exact signed tickets remain in   *)
(* the canonical Header V3": no ticket of the chain is offered for the block *)
(* that follows it.                                                          *)
CommittedNotOffered ==
    node.reserved.block = NextBlock =>
       node.reserved.tickets \cap Committed(chain) = {}

=============================================================================
