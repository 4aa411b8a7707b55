------------------------ MODULE RegistryChainProofs ------------------------
(***************************************************************************)
(* Proofs about RegistryChain for every set of addresses, every choice of   *)
(* the protocol's parameters, every set of signed operations and every      *)
(* height.                                                                  *)
(***************************************************************************)
EXTENDS RegistryChain, CanonicalRegistryProofs, FiniteSetTheorems, TLAPS

-----------------------------------------------------------------------------
(* What a block does to the registry *)

\* The producer's effect keeps every registration unless the registry is
\* emptied, bounds every penalty and extends none.
LEMMA VerifiedRegistryEffect ==
    ASSUME IsRegistry(registry), NEW n \in Uint, NEW author \in Address,
           NEW time
    PROVE  LET r == VerifiedRegistry(n, author, time)
           IN /\ IsRegistry(r)
              /\ ~Emptied(n, time) =>
                    /\ DOMAIN registry \subseteq DOMAIN r
                    /\ \A a \in DOMAIN registry :
                          SameRegistration(registry[a], r[a])
              /\ \A a \in DOMAIN registry \cap DOMAIN r :
                    registry[a].JailedUntil > n =>
                       r[a].JailedUntil \in {0, registry[a].JailedUntil}
              /\ (\A a \in DOMAIN registry : Penalty(registry[a], n)) =>
                    \A a \in DOMAIN r : Penalty(r[a], n)
  <1>1. CASE ~openActivationForHeader(n, time)
    <2>1. VerifiedRegistry(n, author, time)
            = MarkProducerHeartbeat(ApplyMissedTurns(registry, n, rank, author),
                                    author, n)
      BY <1>1 DEF VerifiedRegistry
    <2> QED BY <2>1, <1>1, TurnEffect
  <1>2. CASE /\ openActivationForHeader(n, time)
             /\ consensusCommitteeLivenessActive(n)
    <2>1. VerifiedRegistry(n, author, time)
            = RecoverPermissionlessProducer(registry, author, n)
      BY <1>2 DEF VerifiedRegistry
    <2> QED BY <2>1, <1>2, RecoverEffect
  <1>3. CASE /\ openActivationForHeader(n, time)
             /\ ~consensusCommitteeLivenessActive(n)
    <2>1. VerifiedRegistry(n, author, time)
            = ActivatePermissionlessProducer(NewCanonicalRegistry, author, n)
      BY <1>3 DEF VerifiedRegistry
    <2>2. Emptied(n, time)
      BY <1>3 DEF Emptied
    <2> QED BY <2>1, <2>2, ActivateEffect
  <1> QED BY <1>1, <1>2, <1>3

\* What is assumed of a block that verification has let through.
AcceptedBlock(block) ==
    /\ block.number \in 1 .. MaxNumber
    /\ block.author \in Address
    /\ block.operations \in Seq(RegistryOperation)
    /\ \E now : Accepts(block, now)

\* From the parent's registry to the registry of an accepted block.
LEMMA BlockEffect ==
    ASSUME IsRegistry(registry), number \in Nat, NEW block,
           AcceptedBlock(block)
    PROVE  LET n == block.number
               t == block.root
               ops == block.operations
           IN /\ IsRegistry(t)
              /\ n \in Uint
              /\ ~Emptied(n, block.time) =>
                    \A a \in DOMAIN registry :
                       /\ a \in DOMAIN t
                       /\ registry[a].Sequence <= t[a].Sequence
                       /\ t[a].RegisteredAt \in {registry[a].RegisteredAt, n}
              /\ \A k \in 1 .. Len(ops) :
                    /\ ops[k].Address \in DOMAIN t
                    /\ ops[k].Sequence <= t[ops[k].Address].Sequence
                    /\ ops[k].Sequence # 0
                    /\ ops[k].Action = "REGISTER" =>
                          t[ops[k].Address].RegisteredAt = n
                    /\ ~Emptied(n, block.time)
                          /\ ops[k].Address \in DOMAIN registry =>
                             registry[ops[k].Address].Sequence
                                < ops[k].Sequence
              /\ \A j, k \in 1 .. Len(ops) :
                    j < k /\ ops[j].Address = ops[k].Address =>
                       ops[j].Sequence < ops[k].Sequence
              /\ (\A a \in DOMAIN registry : Penalty(registry[a], n)) =>
                    \A a \in DOMAIN t : Penalty(t[a], n)
              /\ \A a \in DOMAIN registry \cap DOMAIN t :
                    registry[a].JailedUntil > n =>
                       t[a].JailedUntil \in {0, registry[a].JailedUntil}
              /\ ~Emptied(n, block.time) =>
                    \A a \in EligibleParticipants(registry, n) :
                       \/ a \in EligibleParticipants(t, n + 1)
                       \/ \E k \in 1 .. Len(ops) : ops[k].Address = a
  <1> DEFINE n == block.number
             ops == block.operations
             emptied == Emptied(n, block.time)
             r == VerifiedRegistry(n, block.author, block.time)
             t == ApplyOperations(r, n, ops)
             K == 1 .. Len(ops)
  <1>1. n \in Uint /\ n \in Nat
    BY ChainAssumption, RulesAssumption DEF AcceptedBlock, Uint
  <1>2. /\ block.author \in Address
        /\ ops \in Seq(RegistryOperation)
        /\ CanApplyOperations(r, n, ops)
        /\ block.root = t
    BY DEF AcceptedBlock, Accepts, HeaderValid, AppliedHeader
  <1>3. /\ IsRegistry(r)
        /\ ~emptied =>
              /\ DOMAIN registry \subseteq DOMAIN r
              /\ \A a \in DOMAIN registry : SameRegistration(registry[a], r[a])
        /\ \A a \in DOMAIN registry \cap DOMAIN r :
              registry[a].JailedUntil > n =>
                 r[a].JailedUntil \in {0, registry[a].JailedUntil}
        /\ (\A a \in DOMAIN registry : Penalty(registry[a], n)) =>
              \A a \in DOMAIN r : Penalty(r[a], n)
    BY <1>1, <1>2, VerifiedRegistryEffect
  <1> HIDE DEF r, n, ops, emptied
  <1>4. /\ IsRegistry(t)
        /\ Evolves(r, t, n)
        /\ \A k \in K :
              /\ ops[k].Address \in DOMAIN t
              /\ ops[k].Sequence <= t[ops[k].Address].Sequence
              /\ ops[k].Sequence # 0
              /\ ops[k].Action = "REGISTER" =>
                    t[ops[k].Address].RegisteredAt = n
              /\ ops[k].Address \in DOMAIN r =>
                    r[ops[k].Address].Sequence < ops[k].Sequence
        /\ \A j, k \in K :
              j < k /\ ops[j].Address = ops[k].Address =>
                 ops[j].Sequence < ops[k].Sequence
        /\ \A a \in DOMAIN r :
              (\A k \in K : ops[k].Address # a) => a \in DOMAIN t /\ t[a] = r[a]
    BY <1>1, <1>2, <1>3, ApplyOperationsEffect
  <1> HIDE DEF t, K
  <1>5. ASSUME ~emptied, NEW a \in DOMAIN registry
        PROVE  /\ a \in DOMAIN t
               /\ registry[a].Sequence <= t[a].Sequence
               /\ t[a].RegisteredAt \in {registry[a].RegisteredAt, n}
    BY <1>3, <1>4, <1>5 DEF Evolves, SameRegistration
  <1>6. ASSUME ~emptied, NEW k \in K, ops[k].Address \in DOMAIN registry
        PROVE  registry[ops[k].Address].Sequence < ops[k].Sequence
    BY <1>3, <1>4, <1>6 DEF SameRegistration
  <1>7. (\A a \in DOMAIN registry : Penalty(registry[a], n)) =>
            \A a \in DOMAIN t : Penalty(t[a], n)
    BY <1>3, <1>4 DEF Evolves
  <1>8. ASSUME NEW a \in DOMAIN registry \cap DOMAIN t,
                registry[a].JailedUntil > n
         PROVE  t[a].JailedUntil \in {0, registry[a].JailedUntil}
    BY <1>3, <1>4, <1>8 DEF Evolves
  <1>9. ASSUME ~emptied, NEW a \in EligibleParticipants(registry, n),
               \A k \in K : ops[k].Address # a
        PROVE  a \in EligibleParticipants(t, n + 1)
    <2>1. a \in DOMAIN registry /\ registry[a].Active
      BY DEF EligibleParticipants
    <2>2. a \in DOMAIN r /\ SameRegistration(registry[a], r[a]) /\ t[a] = r[a]
          /\ a \in DOMAIN t
      BY <1>3, <1>4, <1>9, <2>1
    <2>3. registry[a].RegisteredAt \in Nat
      BY <2>1, SequenceType
    <2> QED
      BY <1>1, <2>1, <2>2, <2>3, RulesAssumption
      DEF EligibleParticipants, SameRegistration
  <1> QED
    BY <1>1, <1>2, <1>4, <1>5, <1>6, <1>7, <1>8, <1>9
    DEF n, ops, K, emptied

-----------------------------------------------------------------------------
(* A block becomes the head *)

\* The part of the invariant that speaks of the chain.
ChainInv ==
    /\ number \in 0 .. MaxNumber
    /\ IsRegistry(registry)
    /\ rank \in Ranks
    /\ last = NoBlock \/ last \in Production
    /\ log \subseteq LogEntry
    /\ era \in Nat
    /\ LogRemembered
    /\ SequencesGrow
    /\ NoEarlyProducer
    /\ PenaltyBounded

\* The numbers in a log entry.
LEMMA LogEntryType ==
    ASSUME NEW x \in LogEntry
    PROVE  /\ x.op \in RegistryOperation
           /\ x.op.Sequence \in Nat
           /\ x.number \in Nat /\ x.index \in Nat /\ x.era \in Nat
  <1>1. /\ x.op \in RegistryOperation
        /\ x.number \in Nat /\ x.index \in Nat /\ x.era \in Nat
    BY DEF LogEntry
  <1>2. \A op \in RegistryOperation : op.Sequence \in Nat
    BY RulesAssumption DEF RegistryOperation, Uint
  <1> QED BY <1>1, <1>2

\* Extending the chain by an accepted block keeps the invariant and has the
\* effects that the action properties state.
LEMMA ExtendStep ==
    ASSUME ChainInv, NEW block, AcceptedBlock(block), Extend(block)
    PROVE  /\ ChainInv'
           /\ number' = number + 1
           /\ \A k \in 1 .. Len(block.operations) :
                 \E x \in log' : /\ x.number = number'
                                 /\ x.op = block.operations[k]
           /\ era' = era => ~Emptied(block.number, block.time)
  <1> DEFINE n == block.number
             t == block.root
             ops == block.operations
             K == 1 .. Len(ops)
             emptied == Emptied(n, block.time)
             e == IF emptied THEN era + 1 ELSE era
             item(k) == [op |-> ops[k], number |-> n, index |-> k, era |-> e]
             new == {item(k) : k \in K}
  <1>1. /\ n = number + 1
        /\ n \in 1 .. MaxNumber
        /\ number \in Nat
        /\ IsRegistry(registry)
        /\ block.author \in Address
    BY ChainAssumption DEF AcceptedBlock, Accepts, HeaderValid, ChainInv
  <1>2. /\ IsRegistry(t)
        /\ n \in Uint
        /\ K \subseteq Nat
        /\ \A k \in K : ops[k] \in RegistryOperation
    BY <1>1, BlockEffect, ListType DEF AcceptedBlock
  <1>3. ~emptied =>
           \A a \in DOMAIN registry :
              /\ a \in DOMAIN t
              /\ registry[a].Sequence <= t[a].Sequence
              /\ t[a].RegisteredAt \in {registry[a].RegisteredAt, n}
    BY <1>1, BlockEffect
  <1>4. \A k \in K :
           /\ ops[k].Address \in DOMAIN t
           /\ ops[k].Sequence <= t[ops[k].Address].Sequence
           /\ ops[k].Sequence # 0
           /\ ops[k].Action = "REGISTER" => t[ops[k].Address].RegisteredAt = n
           /\ ~emptied /\ ops[k].Address \in DOMAIN registry =>
                 registry[ops[k].Address].Sequence < ops[k].Sequence
    BY <1>1, BlockEffect
  <1>5. \A j, k \in K : j < k /\ ops[j].Address = ops[k].Address =>
                           ops[j].Sequence < ops[k].Sequence
    BY <1>1, BlockEffect
  <1>6. (\A a \in DOMAIN registry : Penalty(registry[a], n)) =>
           \A a \in DOMAIN t : Penalty(t[a], n)
    BY <1>1, BlockEffect
  <1>7. /\ number' = n
        /\ registry' = t
        /\ rank' \in Ranks
        /\ last' = [author |-> block.author,
                    open |-> openActivationForHeader(n, block.time)]
        /\ era' = e
        /\ log' = log \cup new
    BY DEF Extend
  <1>8. /\ e \in Nat /\ era \in Nat
        /\ era <= e
        /\ e = era <=> ~emptied
        /\ emptied => e > era
    BY DEF ChainInv
  <1>9. /\ log \subseteq LogEntry
        /\ \A x \in log : x.number \in Nat /\ x.era \in Nat /\ x.index \in Nat
                          /\ x.op.Sequence \in Nat
    BY LogEntryType DEF ChainInv
  <1>10. \A a \in DOMAIN registry :
           registry[a].Sequence \in Nat /\ registry[a].RegisteredAt \in Nat
    BY <1>1, SequenceType
  <1>11. \A a \in DOMAIN t :
            t[a].Sequence \in Nat /\ t[a].RegisteredAt \in Nat
    BY <1>2, SequenceType
  <1>12. \A k \in K : item(k) \in new /\ item(k) \in LogEntry
    BY <1>1, <1>2, <1>8 DEF LogEntry
  <1>13. /\ \A x \in new : x.index \in K /\ x = item(x.index)
         /\ \A k \in K : /\ item(k).op = ops[k] /\ item(k).number = n
                         /\ item(k).index = k /\ item(k).era = e
    OBVIOUS
  <1> HIDE DEF new, item, e, emptied, K, ops, t, n
  <1>14. \A x \in new : /\ x.index \in K /\ x.op = ops[x.index]
                        /\ x.number = n /\ x.era = e
                        /\ x.op.Sequence \in Nat
    <2>1. \A x \in new : /\ x.index \in K /\ x.op = ops[x.index]
                         /\ x.number = n /\ x.era = e
      BY <1>13
    <2>2. \A x \in new : x.op.Sequence \in Nat
      BY <1>12, <1>13, LogEntryType
    <2> QED BY <2>1, <2>2
  <1>15. LogRemembered'
    <2> SUFFICES ASSUME NEW x \in log \cup new
                 PROVE  /\ x.era <= e
                        /\ x.number <= n
                        /\ x.era = e =>
                              /\ x.op.Address \in DOMAIN t
                              /\ x.op.Sequence <= t[x.op.Address].Sequence
                              /\ x.op.Sequence # 0
                              /\ x.op.Action = "REGISTER" =>
                                    x.number <= t[x.op.Address].RegisteredAt
      BY <1>7 DEF LogRemembered
    <2>1. CASE x \in new
      BY <2>1, <1>1, <1>4, <1>8, <1>14
    <2>2. CASE x \in log
      <3>1. /\ x.era <= era
            /\ x.number <= number
            /\ x.era = era =>
                  /\ x.op.Address \in DOMAIN registry
                  /\ x.op.Sequence <= registry[x.op.Address].Sequence
                  /\ x.op.Sequence # 0
                  /\ x.op.Action = "REGISTER" =>
                        x.number <= registry[x.op.Address].RegisteredAt
        BY <2>2 DEF ChainInv, LogRemembered
      <3>2. x.era <= e /\ x.number <= n
        BY <3>1, <2>2, <1>1, <1>8, <1>9
      <3>3. ASSUME x.era = e
            PROVE  /\ x.op.Address \in DOMAIN t
                   /\ x.op.Sequence <= t[x.op.Address].Sequence
                   /\ x.op.Sequence # 0
                   /\ x.op.Action = "REGISTER" =>
                         x.number <= t[x.op.Address].RegisteredAt
        <4>1. x.era = era /\ ~emptied
          BY <3>1, <3>3, <2>2, <1>8, <1>9
        <4>2. /\ x.op.Address \in DOMAIN registry
              /\ x.op.Address \in DOMAIN t
              /\ registry[x.op.Address].Sequence <= t[x.op.Address].Sequence
              /\ t[x.op.Address].RegisteredAt
                    \in {registry[x.op.Address].RegisteredAt, n}
          BY <4>1, <3>1, <1>3
        <4> QED
          BY <4>1, <4>2, <3>1, <3>2, <2>2, <1>1, <1>9, <1>10, <1>11
      <3> QED BY <3>2, <3>3
    <2> QED BY <2>1, <2>2
  <1>16. SequencesGrow'
    <2> SUFFICES ASSUME NEW x \in log \cup new, NEW y \in log \cup new
                 PROVE  /\ /\ x.op.Address = y.op.Address
                           /\ x.era = y.era
                           /\ Before(x, y)
                           => x.op.Sequence < y.op.Sequence
                        /\ x.number = y.number /\ x.index = y.index => x = y
      BY <1>7 DEF SequencesGrow, Before
    <2>1. CASE x \in log /\ y \in log
      BY <2>1 DEF ChainInv, SequencesGrow
    <2>2. \A z \in log : z.number < n /\ z.number # n
      BY <1>1, <1>9 DEF ChainInv, LogRemembered
    <2>3. CASE x \in log /\ y \in new
      <3>1. x.number # y.number
        BY <2>2, <2>3, <1>14
      <3>2. ASSUME x.op.Address = y.op.Address, x.era = y.era
            PROVE  x.op.Sequence < y.op.Sequence
        <4>1. x.era <= era /\ x.era = e
          BY <2>3, <3>2, <1>14 DEF ChainInv, LogRemembered
        <4>2. x.era = era /\ ~emptied
          BY <4>1, <2>3, <1>8, <1>9
        <4>3. /\ x.op.Address \in DOMAIN registry
              /\ x.op.Sequence <= registry[x.op.Address].Sequence
          BY <4>2, <2>3 DEF ChainInv, LogRemembered
        <4>4. registry[x.op.Address].Sequence < y.op.Sequence
          BY <4>2, <4>3, <3>2, <2>3, <1>4, <1>14
        <4> QED BY <4>3, <4>4, <2>3, <1>9, <1>10, <1>14
      <3> QED BY <3>1, <3>2
    <2>4. CASE x \in new /\ y \in log
      <3>1. y.number < x.number /\ y.number \in Nat /\ x.number \in Nat
        BY <2>2, <2>4, <1>1, <1>9, <1>14
      <3> QED BY <3>1 DEF Before
    <2>5. CASE x \in new /\ y \in new
      <3>1. /\ x.index \in K /\ y.index \in K
            /\ x.op = ops[x.index] /\ y.op = ops[y.index]
            /\ x.number = n /\ y.number = n
        BY <2>5, <1>14
      <3>2. Before(x, y) => x.index < y.index
        BY <3>1, <1>1 DEF Before
      <3>3. x.index = y.index => x = y
        BY <2>5, <1>13
      <3> QED BY <3>1, <3>2, <3>3, <1>5
    <2> QED BY <2>1, <2>3, <2>4, <2>5
  <1>17. NoEarlyProducer'
    <2> SUFFICES ASSUME NEW x \in log \cup new,
                        ~openActivationForHeader(n, block.time),
                        x.era = e, x.op.Action = "REGISTER",
                        x.op.Address = block.author, x.number < n
                 PROVE  n >= x.number + 1 + ActivationDelay
      BY <1>7 DEF NoEarlyProducer
    <2>1. x \in log
      BY <1>1, <1>14
    <2>2. x.era = era
      BY <1>8 DEF Emptied, emptied
    <2>3. /\ x.op.Address \in DOMAIN registry
          /\ x.op.Sequence <= registry[x.op.Address].Sequence
          /\ x.op.Sequence # 0
          /\ x.number <= registry[x.op.Address].RegisteredAt
      BY <2>1, <2>2 DEF ChainInv, LogRemembered
    <2>4. block.author \in EligibleParticipants(registry, n)
      BY DEF AcceptedBlock, Accepts, HeaderValid, IsAuthorAllowed, n
    <2>5. registry[block.author].Sequence # 0
      BY <2>1, <2>3, <1>9, <1>10
    <2>6. n >= registry[block.author].RegisteredAt + 1 + ActivationDelay
      BY <2>4, <2>5 DEF EligibleParticipants
    <2> QED
      BY <2>1, <2>3, <2>6, <1>1, <1>9, <1>10, RulesAssumption
  <1>18. PenaltyBounded'
    <2>1. ASSUME NEW a \in DOMAIN registry
          PROVE  Penalty(registry[a], n)
      <3>1. registry[a] \in CanonicalParticipant
        BY <1>1 DEF IsRegistry
      <3>2. registry[a].JailedUntil \in Nat
        BY <3>1 DEF CanonicalParticipant, Uint
      <3> QED
        BY <3>2, <1>1, RulesAssumption DEF ChainInv, PenaltyBounded, Penalty
    <2> QED BY <2>1, <1>6, <1>7 DEF PenaltyBounded, Penalty
  <1>19. last' \in Production
    BY <1>1, <1>7 DEF Production, openActivationForHeader, recoveryOpenAt
  <1>20. ChainInv'
    <2>1. number' \in 0 .. MaxNumber
      BY <1>1, <1>7, ChainAssumption
    <2>2. IsRegistry(registry)'
      BY <1>2, <1>7 DEF IsRegistry
    <2>3. log' \subseteq LogEntry
      BY <1>7, <1>9, <1>12, <1>13
    <2> QED
      BY <1>7, <1>8, <1>15, <1>16, <1>17, <1>18, <1>19, <2>1, <2>2, <2>3
      DEF ChainInv
  <1>21. ASSUME NEW k \in K
         PROVE  \E x \in log' : x.number = number' /\ x.op = ops[k]
    BY <1>7, <1>12, <1>13
  <1>22. era' = era => ~emptied
    BY <1>7, <1>8
  <1> QED
    BY <1>1, <1>7, <1>20, <1>21, <1>22 DEF n, ops, K, emptied

-----------------------------------------------------------------------------
(* The pool *)

\* The part of the invariant that speaks of the pool.
PoolInv ==
    /\ byHash \subseteq RegistryOperation
    /\ DOMAIN byAddress \subseteq Address
    /\ byAddress \in [DOMAIN byAddress -> RegistryOperation]
    /\ PoolConsistent

\* Expiry removes an operation from both maps.
LEMMA PruneStep ==
    ASSUME PoolInv, NEW n \in Nat, PruneExpired(n)
    PROVE  PoolInv'
  <1> DEFINE expired == {op.Address : op \in {x \in byHash : x.ValidUntil < n}}
             D == DOMAIN byAddress \ expired
  <1>1. byHash' = {op \in byHash : op.ValidUntil >= n}
        /\ byAddress' = [a \in D |-> byAddress[a]]
    BY DEF PruneExpired
  <1>2. \A op \in byHash : op.ValidUntil \in Nat /\ op.Address \in Address
    BY DEF PoolInv, RegistryOperation, Uint
  <1>3. IsFiniteSet(byHash') /\ Cardinality(byHash') <= Cardinality(byHash)
    BY <1>1, FS_Subset DEF PoolInv, PoolConsistent
  <1>4. Cardinality(byHash') <= PoolCapacity
    <2>1. IsFiniteSet(byHash) /\ Cardinality(byHash) <= PoolCapacity
          /\ PoolCapacity \in Nat
      BY ChainAssumption DEF PoolInv, PoolConsistent
    <2>2. Cardinality(byHash) \in Nat /\ Cardinality(byHash') \in Nat
      BY <1>3, <2>1, FS_CardinalityType
    <2> QED BY <1>3, <2>1, <2>2
  <1>5. ASSUME NEW a \in D
        PROVE  byAddress[a] \in byHash' /\ byAddress[a].Address = a
    <2>1. byAddress[a] \in byHash /\ byAddress[a].Address = a
      BY DEF PoolInv, PoolConsistent
    <2>2. ~(byAddress[a].ValidUntil < n)
      BY <2>1
    <2> QED BY <1>1, <1>2, <2>1, <2>2
  <1>6. ASSUME NEW op \in byHash'
        PROVE  op.Address \in D /\ byAddress[op.Address] = op
    <2>1. op \in byHash /\ op.ValidUntil >= n
      BY <1>1
    <2>2. op.Address \in DOMAIN byAddress /\ byAddress[op.Address] = op
      BY <2>1 DEF PoolInv, PoolConsistent
    <2>3. op.Address \notin expired
      <3> SUFFICES ASSUME NEW y \in byHash, y.ValidUntil < n,
                          y.Address = op.Address
                   PROVE  FALSE
        OBVIOUS
      <3>1. byAddress[y.Address] = y
        BY DEF PoolInv, PoolConsistent
      <3> QED BY <3>1, <2>1, <2>2, <1>2
    <2> QED BY <2>2, <2>3
  <1>7. byHash' \subseteq RegistryOperation /\ D \subseteq Address
        /\ byAddress' \in [D -> RegistryOperation] /\ DOMAIN byAddress' = D
    BY <1>1 DEF PoolInv
  <1> HIDE DEF D
  <1>8. \A a \in D : byAddress'[a] = byAddress[a]
    BY <1>1
  <1> QED
    BY <1>3, <1>4, <1>5, <1>6, <1>7, <1>8 DEF PoolInv, PoolConsistent

\* Adding, replacing and refusing an operation keep the maps in step.
LEMMA AddStep ==
    ASSUME PoolInv, NEW op \in RegistryOperation, Add(op)
    PROVE  PoolInv'
  <1>1. CASE UNCHANGED pool
    BY <1>1 DEF pool, PoolInv, PoolConsistent
  <1>2. op.Address \in Address
    BY DEF RegistryOperation
  <1>3. Cardinality(byHash) \in Nat /\ IsFiniteSet(byHash)
    BY FS_CardinalityType DEF PoolInv, PoolConsistent
  <1> DEFINE D == DOMAIN byAddress \cup {op.Address}
  <1>4. ASSUME byAddress' = SetEntry(byAddress, op.Address, op)
        PROVE  /\ DOMAIN byAddress' = D
               /\ byAddress' \in [D -> RegistryOperation]
               /\ D \subseteq Address
               /\ byAddress'[op.Address] = op
               /\ \A a \in DOMAIN byAddress :
                     a # op.Address => byAddress'[a] = byAddress[a]
    BY <1>2, <1>4 DEF SetEntry, PoolInv
  <1>5. CASE /\ op \notin byHash
             /\ op.Address \in DOMAIN byAddress
             /\ byHash' = (byHash \ {byAddress[op.Address]}) \cup {op}
             /\ byAddress' = SetEntry(byAddress, op.Address, op)
    <2> DEFINE previous == byAddress[op.Address]
    <2>1. previous \in byHash /\ previous.Address = op.Address
      BY <1>5 DEF PoolInv, PoolConsistent
    <2>2. IsFiniteSet(byHash \ {previous})
          /\ Cardinality(byHash \ {previous}) = Cardinality(byHash) - 1
      BY <1>3, <2>1, FS_RemoveElement
    <2>3. IsFiniteSet(byHash') /\ Cardinality(byHash') = Cardinality(byHash)
      <3> DEFINE rest == byHash \ {previous}
      <3>1. op \notin rest /\ byHash' = rest \cup {op}
        BY <1>5
      <3>2. /\ IsFiniteSet(rest \cup {op})
            /\ Cardinality(rest \cup {op}) = Cardinality(rest) + 1
        <4> HIDE DEF rest
        <4>1. IsFiniteSet(rest)
          BY <2>2 DEF rest
        <4> QED BY <3>1, <4>1, FS_AddElement
      <3> QED BY <1>3, <2>2, <3>1, <3>2
    <2>4. ASSUME NEW x \in byHash'
          PROVE  x.Address \in D /\ byAddress'[x.Address] = x
      <3>1. CASE x = op
        BY <3>1, <1>4, <1>5
      <3>2. CASE x \in byHash /\ x # previous
        <4>1. x.Address \in DOMAIN byAddress /\ byAddress[x.Address] = x
          BY <3>2 DEF PoolInv, PoolConsistent
        <4>2. x.Address # op.Address
          BY <4>1, <3>2
        <4> QED BY <4>1, <4>2, <1>4, <1>5
      <3> QED BY <3>1, <3>2, <1>5
    <2>5. ASSUME NEW a \in D
          PROVE  byAddress'[a] \in byHash' /\ byAddress'[a].Address = a
      <3>1. CASE a = op.Address
        BY <3>1, <1>4, <1>5
      <3>2. CASE a # op.Address
        <4>1. byAddress[a] \in byHash /\ byAddress[a].Address = a
          BY <3>2 DEF PoolInv, PoolConsistent
        <4> QED BY <4>1, <3>2, <2>1, <1>4, <1>5
      <3> QED BY <3>1, <3>2
    <2>6. byHash' \subseteq RegistryOperation
      BY <1>5 DEF PoolInv
    <2> QED
      BY <1>4, <1>5, <2>3, <2>4, <2>5, <2>6 DEF PoolInv, PoolConsistent
  <1>6. CASE /\ op \notin byHash
             /\ op.Address \notin DOMAIN byAddress
             /\ ~(Cardinality(byHash) >= PoolCapacity)
             /\ byHash' = byHash \cup {op}
             /\ byAddress' = SetEntry(byAddress, op.Address, op)
    <2>1. IsFiniteSet(byHash') /\ Cardinality(byHash') <= PoolCapacity
      <3>1. /\ IsFiniteSet(byHash \cup {op})
            /\ Cardinality(byHash \cup {op}) = Cardinality(byHash) + 1
        BY <1>3, <1>6, FS_AddElement
      <3> QED BY <1>3, <1>6, <3>1, ChainAssumption
    <2>2. ASSUME NEW x \in byHash'
          PROVE  x.Address \in D /\ byAddress'[x.Address] = x
      BY <1>4, <1>6 DEF PoolInv, PoolConsistent
    <2>3. ASSUME NEW a \in D
          PROVE  byAddress'[a] \in byHash' /\ byAddress'[a].Address = a
      BY <1>4, <1>6 DEF PoolInv, PoolConsistent
    <2>4. byHash' \subseteq RegistryOperation
      BY <1>6 DEF PoolInv
    <2> QED
      BY <1>4, <1>6, <2>1, <2>2, <2>3, <2>4 DEF PoolInv, PoolConsistent
  <1> QED
    BY <1>1, <1>5, <1>6 DEF Add

-----------------------------------------------------------------------------
(* The loop that fills a prepared block *)

\* f holds what the loop has built after each of its first m turns.
Fills(r, n, pending, m, f) ==
    /\ f[0] = [registry |-> r, operations |-> <<>>]
    /\ \A k \in 1 .. m : f[k] = Fill(f[k - 1], n, pending[k])

\* Such a function exists for any number of turns.
LEMMA FillsUpTo ==
    ASSUME NEW r, NEW n, NEW pending, NEW m \in Nat
    PROVE  \E f : Fills(r, n, pending, m, f)
  <1> DEFINE T == {k \in Nat : ~\E f : Fills(r, n, pending, k, f)}
             start == [registry |-> r, operations |-> <<>>]
  <1> SUFFICES ASSUME T # {} PROVE FALSE
    OBVIOUS
  <1>1. PICK x \in T : \A y \in T : x <= y
    BY LeastNumber, ZenonT(60)
  <1>2. x \in Nat /\ ~\E f : Fills(r, n, pending, x, f)
    OBVIOUS
  <1>3. \A y \in Nat : y < x => \E f : Fills(r, n, pending, y, f)
    BY <1>1, <1>2
  <1> HIDE DEF T
  <1>4. CASE x = 0
    <2>1. Fills(r, n, pending, x, [k \in {0} |-> start])
      BY <1>4 DEF Fills
    <2> QED BY <1>2, <2>1
  <1>5. CASE x > 0
    <2>1. x - 1 \in Nat /\ x - 1 < x
      BY <1>2, <1>5
    <2>2. PICK f : Fills(r, n, pending, x - 1, f)
      BY <1>3, <2>1
    <2> DEFINE s == Fill(f[x - 1], n, pending[x])
               g == [k \in 0 .. x |-> IF k = x THEN s ELSE f[k]]
    <2>3. /\ \A k \in 0 .. x : k # x => g[k] = f[k]
          /\ g[x] = s
      BY <1>2
    <2> HIDE DEF g
    <2>4. g[0] = start
      BY <1>2, <1>5, <2>2, <2>3 DEF Fills
    <2>5. ASSUME NEW k \in 1 .. x
          PROVE  g[k] = Fill(g[k - 1], n, pending[k])
      <3>1. k - 1 \in 0 .. x /\ k - 1 # x
        BY <1>2
      <3>2. g[k - 1] = f[k - 1]
        BY <2>3, <3>1
      <3>3. CASE k = x
        BY <2>3, <3>2, <3>3
      <3>4. CASE k # x
        <4>1. k \in 1 .. x - 1 /\ k \in 0 .. x
          BY <1>2, <3>4
        <4> QED BY <2>2, <2>3, <3>2, <3>4, <4>1 DEF Fills
      <3> QED BY <3>3, <3>4
    <2>6. Fills(r, n, pending, x, g)
      BY <2>4, <2>5 DEF Fills
    <2> QED BY <1>2, <2>6
  <1> QED BY <1>2, <1>4, <1>5

\* Filled is such a function.
LEMMA FilledFills ==
    ASSUME NEW r, NEW n, NEW pending, Len(pending) \in Nat
    PROVE  Fills(r, n, pending, Len(pending), Filled(r, n, pending))
  <1> DEFINE m == Len(pending)
             G == Filled(r, n, pending)
             start == [registry |-> r, operations |-> <<>>]
  <1>1. PICK f : Fills(r, n, pending, m, f)
    BY FillsUpTo
  <1> DEFINE h == [k \in 0 .. m |-> f[k]]
  <1>2. h = [k \in 0 .. m |-> IF k = 0 THEN start
                              ELSE Fill(h[k - 1], n, pending[k])]
    <2>1. ASSUME NEW k \in 0 .. m
          PROVE  f[k] = IF k = 0 THEN start
                        ELSE Fill(h[k - 1], n, pending[k])
      <3>1. CASE k = 0
        BY <1>1, <3>1 DEF Fills
      <3>2. CASE k # 0
        <4>1. k \in 1 .. m /\ k - 1 \in 0 .. m
          BY <3>2
        <4>2. h[k - 1] = f[k - 1]
          BY <4>1
        <4>3. f[k] = Fill(f[k - 1], n, pending[k])
          BY <1>1, <4>1 DEF Fills
        <4> HIDE DEF h
        <4> QED BY <3>2, <4>2, <4>3
      <3> QED BY <3>1, <3>2
    <2> QED BY <2>1
  <1>3. \E g : g = [k \in 0 .. m |-> IF k = 0 THEN start
                                     ELSE Fill(g[k - 1], n, pending[k])]
    <2> HIDE DEF h
    <2> QED BY <1>2
  <1>4. G = [k \in 0 .. m |-> IF k = 0 THEN start
                              ELSE Fill(G[k - 1], n, pending[k])]
    BY <1>3 DEF Filled
  <1> HIDE DEF G
  <1>5. ASSUME NEW k \in 0 .. m
        PROVE  G[k] = IF k = 0 THEN start ELSE Fill(G[k - 1], n, pending[k])
    BY <1>4
  <1>6. G[0] = start
    BY <1>5
  <1>7. ASSUME NEW k \in 1 .. m
        PROVE  G[k] = Fill(G[k - 1], n, pending[k])
    BY <1>5
  <1> QED BY <1>6, <1>7 DEF Fills, G

\* What the loop has built after k turns: operations that verification applies
\* one after the other with the same result, in the canonical order, the last
\* of them from the k it has seen.
Sound(b, r, n, pending, k) ==
    /\ b.operations \in Seq(RegistryOperation)
    /\ Len(b.operations) <= PreparedLimit
    /\ CanApplyOperations(r, n, b.operations)
    /\ b.registry = ApplyOperations(r, n, b.operations)
    /\ IsCanonical(b.operations)
    /\ \A i \in 1 .. Len(b.operations) : b.operations[i].Sequence # 0
    /\ Len(b.operations) # 0 =>
          \E q \in 1 .. k : b.operations[Len(b.operations)] = pending[q]

\* One turn of the loop keeps it so.
LEMMA FillSound ==
    ASSUME NEW r, NEW n, NEW pending, NEW k \in Nat \ {0},
           pending[k] \in RegistryOperation,
           \A q \in 1 .. k - 1 : Precedes(pending[q], pending[k]),
           NEW b, Sound(b, r, n, pending, k - 1)
    PROVE  Sound(Fill(b, n, pending[k]), r, n, pending, k)
  <1> DEFINE op == pending[k]
             ops == b.operations
             c == Fill(b, n, op)
  <1>1. CASE c = b
    <2>1. \A q \in 1 .. k - 1 : q \in 1 .. k
      OBVIOUS
    <2> QED BY <1>1, <2>1 DEF Sound
  <1>2. CASE /\ Len(ops) < PreparedLimit
             /\ CanApplyOperation(b.registry, n, op)
             /\ c = [registry |-> ApplyOperation(b.registry, n, op),
                     operations |-> Append(ops, op)]
    <2> DEFINE longer == Append(ops, op)
    <2>1. /\ ops \in Seq(RegistryOperation)
          /\ op \in RegistryOperation
          /\ CanApplyOperations(r, n, ops)
          /\ CanApplyOperation(ApplyOperations(r, n, ops), n, op)
          /\ b.registry = ApplyOperations(r, n, ops)
          /\ IsCanonical(ops)
          /\ \A i \in 1 .. Len(ops) : ops[i].Sequence # 0
          /\ Len(ops) # 0 =>
                \E q \in 1 .. k - 1 : ops[Len(ops)] = pending[q]
      BY <1>2 DEF Sound
    <2>2. Len(ops) # 0 => Precedes(ops[Len(ops)], op)
      BY <2>1
    <2>3. op.Sequence # 0
      BY <2>1 DEF CanApplyOperation, ValidateRegistryOperation
    <2>4. PreparedLimit \in Nat
      BY ChainAssumption
    <2> HIDE DEF op, ops
    <2>5. /\ longer \in Seq(RegistryOperation)
          /\ Len(longer) = Len(ops) + 1
          /\ Len(ops) \in Nat
          /\ longer[Len(longer)] = op
          /\ \A i \in 1 .. Len(ops) : longer[i] = ops[i]
      BY <2>1
    <2>6. /\ CanApplyOperations(r, n, longer)
          /\ ApplyOperations(r, n, longer)
               = ApplyOperation(ApplyOperations(r, n, ops), n, op)
      BY <2>1, AppendOperation
    <2>7. IsCanonical(longer)
      BY <2>1, <2>2, AppendCanonical
    <2> HIDE DEF longer
    <2>8. \A i \in 1 .. Len(longer) : longer[i].Sequence # 0
      BY <2>1, <2>3, <2>5
    <2>9. k \in 1 .. k /\ longer[Len(longer)] = pending[k]
      BY <2>5 DEF op
    <2>10. Len(longer) <= PreparedLimit
      BY <1>2, <2>4, <2>5
    <2>11. c.operations = longer
           /\ c.registry = ApplyOperation(b.registry, n, op)
      BY <1>2 DEF longer
    <2> HIDE DEF c
    <2>12. Sound(c, r, n, pending, k)
      BY <2>1, <2>5, <2>6, <2>7, <2>8, <2>9, <2>10, <2>11 DEF Sound
    <2> QED BY <2>12 DEF c, op
  <1> QED BY <1>1, <1>2 DEF Fill

\* The loop over a canonical list of pending operations is sound throughout.
LEMMA FilledSound ==
    ASSUME NEW r, NEW n, NEW pending \in Seq(RegistryOperation),
           IsCanonical(pending)
    PROVE  Sound(Filled(r, n, pending)[Len(pending)], r, n, pending,
                 Len(pending))
  <1> DEFINE m == Len(pending)
             G == Filled(r, n, pending)
             T == {k \in 0 .. m : ~Sound(G[k], r, n, pending, k)}
  <1>1. /\ m \in Nat
        /\ \A k \in 1 .. m : pending[k] \in RegistryOperation
        /\ \A k \in 1 .. m - 1 : Precedes(pending[k], pending[k + 1])
    BY ListType DEF IsCanonical
  <1>2. Fills(r, n, pending, m, G)
    BY <1>1, FilledFills
  <1> HIDE DEF G, m
  <1> SUFFICES ASSUME T # {} PROVE FALSE
    BY <1>1 DEF G, m
  <1>3. T \subseteq Nat
    BY <1>1
  <1>4. PICK x \in T : \A y \in T : x <= y
    BY <1>3, LeastNumber, ZenonT(60)
  <1>5. x \in 0 .. m /\ ~Sound(G[x], r, n, pending, x)
    OBVIOUS
  <1>6. \A y \in 0 .. m : y < x => Sound(G[y], r, n, pending, y)
    BY <1>4, <1>5
  <1> HIDE DEF T
  <1>7. CASE x = 0
    <2> DEFINE none == << >>
    <2>1. G[0].operations = none /\ G[0].registry = r
      BY <1>2 DEF Fills
    <2>2. none \in Seq(RegistryOperation) /\ Len(none) = 0
      OBVIOUS
    <2>3. CanApplyOperations(r, n, none) /\ ApplyOperations(r, n, none) = r
      BY NoOperation
    <2> HIDE DEF none
    <2>4. IsCanonical(none) /\ Len(none) <= PreparedLimit
      BY <2>2, ChainAssumption DEF IsCanonical
    <2>5. Sound(G[0], r, n, pending, 0)
      BY <2>1, <2>2, <2>3, <2>4 DEF Sound
    <2> QED BY <1>5, <1>7, <2>5
  <1>8. CASE x # 0
    <2>1. x \in 1 .. m /\ x - 1 \in 0 .. m /\ x - 1 < x /\ x \in Nat \ {0}
      BY <1>1, <1>5, <1>8
    <2>2. Sound(G[x - 1], r, n, pending, x - 1)
      BY <1>6, <2>1
    <2>3. G[x] = Fill(G[x - 1], n, pending[x])
      BY <1>2, <2>1 DEF Fills
    <2>4. ASSUME NEW q \in 1 .. x - 1
          PROVE  Precedes(pending[q], pending[x])
      <3>1. q \in 1 .. m /\ x \in q + 1 .. m
        BY <1>1, <2>1
      <3>2. \A j \in q + 1 .. m : Precedes(pending[q], pending[j])
        BY <1>1, <3>1, CanonicalOrder
      <3> QED BY <3>1, <3>2
    <2>5. pending[x] \in RegistryOperation
      BY <1>1, <2>1
    <2>6. Sound(Fill(G[x - 1], n, pending[x]), r, n, pending, x)
      BY <2>1, <2>2, <2>4, <2>5, FillSound
    <2> QED BY <1>5, <2>3, <2>6
  <1> QED BY <1>7, <1>8

-----------------------------------------------------------------------------
(* A prepared block *)

\* The preparing and the verifying path compute the producer's effect in
\* different ways, with the same result for the same timestamp.
LEMMA SameRegistry ==
    ASSUME NEW n, NEW author, NEW time
    PROVE  PreparedRegistry(n, author, time) = VerifiedRegistry(n, author, time)
BY DEF PreparedRegistry, VerifiedRegistry

\* A position in the queue is a number.
LEMMA QueuePosType ==
    ASSUME IsRegistry(registry), NEW n, NEW a
    PROVE  QueuePos(registry, n, rank, a) \in Nat
  <1> DEFINE S == {b \in EligibleParticipants(registry, n) :
                      Ahead(registry, n, rank, b, a)}
  <1>1. S \subseteq Address
    BY DEF IsRegistry, EligibleParticipants
  <1>2. QueuePos(registry, n, rank, a) = Cardinality(S)
    BY DEF QueuePos
  <1> HIDE DEF S
  <1>3. IsFiniteSet(S)
    BY <1>1, AddressAssumption, FS_Subset
  <1> QED BY <1>2, <1>3, FS_CardinalityType

\* The slot of a later position does not open earlier, and no slot opens with
\* the parent.
LEMMA SlotOrder ==
    ASSUME NEW p \in Nat
    PROVE  /\ minAllowedTime(p) \in Nat
           /\ minAllowedTime(0) <= minAllowedTime(p)
           /\ minAllowedTime(p) >= 1
  <1>1. p * FallbackWindow \in Nat /\ 0 * FallbackWindow = 0
        /\ BlockTime \in Nat /\ BlockTime >= 1
    BY ChainAssumption
  <1> QED BY <1>1 DEF minAllowedTime

\* Recovery that is open stays open.
LEMMA RecoveryStays ==
    ASSUME NEW n \in Nat, NEW x \in Nat, NEW y \in Nat, x <= y,
           recoveryOpenAt(n, x)
    PROVE  recoveryOpenAt(n, y)
BY ChainAssumption DEF recoveryOpenAt

\* The account was resolved at `at` and the slot of its position has opened at
\* `now`: then the slot that the header is held to has opened too, although
\* recovery may have opened in between.
LEMMA SlotOfPrepared ==
    ASSUME IsRegistry(registry), NEW n \in Nat, NEW at \in Nat, NEW now \in Nat,
           at <= now, NEW local \in ResolveLocalParticipant(n, at),
           now >= minAllowedTime(local.QueuePos)
    PROVE  /\ local.Address \in LocalAccounts
           /\ now >= 1
           /\ now >= minAllowedTime(queuePosition(n, local.Address, now))
           /\ minAllowedTime(queuePosition(n, local.Address, now)) \in Nat
  <1> DEFINE author == local.Address
             pos == queuePosition(n, author, now)
  <1>1. CASE n = 1 \/ openActivationForHeader(n, at)
    <2>1. local.Address \in LocalAccounts /\ local.QueuePos = 0
      BY <1>1 DEF ResolveLocalParticipant
    <2>2. n = 1 \/ openActivationForHeader(n, now)
      BY <1>1, RecoveryStays DEF openActivationForHeader
    <2>3. pos = 0
      BY <2>2 DEF queuePosition
    <2>4. minAllowedTime(0) \in Nat /\ minAllowedTime(0) >= 1
      BY SlotOrder
    <2> QED BY <2>1, <2>3, <2>4
  <1>2. CASE ~(n = 1 \/ openActivationForHeader(n, at))
    <2>1. /\ local.Address \in LocalAccounts
          /\ local.QueuePos = QueuePos(registry, n, rank, author)
      BY <1>2 DEF ResolveLocalParticipant
    <2>2. local.QueuePos \in Nat
      BY <2>1, QueuePosType
    <2>3. pos \in {0, local.QueuePos}
      BY <2>1 DEF queuePosition
    <2> HIDE DEF pos
    <2>4. /\ minAllowedTime(local.QueuePos) \in Nat
          /\ minAllowedTime(0) \in Nat
          /\ minAllowedTime(0) <= minAllowedTime(local.QueuePos)
          /\ minAllowedTime(local.QueuePos) >= 1
      BY <2>2, SlotOrder
    <2>5. now >= 1 /\ now >= minAllowedTime(pos) /\ minAllowedTime(pos) \in Nat
      BY <2>3, <2>4
    <2> QED BY <2>1, <2>5 DEF pos
  <1> QED BY <1>1, <1>2

\* The list of a consistent pool's pending operations is a list.
LEMMA PendingList ==
    ASSUME PoolInv, NEW n,
           NEW pending \in CanonicalRegistryOperations(Pending(n))
    PROVE  pending \in Seq(RegistryOperation) /\ IsCanonical(pending)
  <1> DEFINE S == Pending(n)
  <1>1. S \subseteq byHash /\ IsFiniteSet(byHash)
        /\ byHash \subseteq RegistryOperation
    BY DEF Pending, PoolInv, PoolConsistent
  <1> HIDE DEF S
  <1>2. IsFiniteSet(S)
    BY <1>1, FS_Subset
  <1>3. Cardinality(S) \in Nat
    BY <1>2, FS_CardinalityType
  <1>4. pending \in [1 .. Cardinality(S) -> S] /\ IsCanonical(pending)
    BY DEF CanonicalRegistryOperations, S
  <1>5. pending \in [1 .. Cardinality(S) -> RegistryOperation]
    BY <1>1, <1>4
  <1> QED BY <1>3, <1>4, <1>5

\* What the loop prepares from a consistent pool, verification accepts then and
\* later.
LEMMA PreparedAccepted ==
    ASSUME PoolInv, IsRegistry(registry), number \in Nat,
           NEW at \in Nat, NEW now \in Nat, at <= now,
           NEW local \in ResolveLocalParticipant(number + 1, at),
           now >= minAllowedTime(local.QueuePos),
           \/ openActivationForHeader(number + 1, Later(now, 1))
           \/ IsAuthorAllowed(number + 1, local.Address),
           NEW pending \in CanonicalRegistryOperations(Pending(number + 1))
    PROVE  LET block == PreparedBlock(number + 1, local.Address, Later(now, 1),
                                      now, pending)
           IN /\ block.number = number + 1
              /\ block.author = local.Address
              /\ block.time = now
              /\ block.now = now
              /\ block.operations \in Seq(RegistryOperation)
              /\ \A v \in Nat : v >= now => Accepts(block, v)
  <1> DEFINE n == number + 1
             author == local.Address
             minTime == minAllowedTime(queuePosition(n, author, now))
             r == VerifiedRegistry(n, author, now)
             built == Filled(r, n, pending)[Len(pending)]
             ops == built.operations
             block == PreparedBlock(n, author, Later(now, 1), now, pending)
  <1>1. n \in Nat
    OBVIOUS
  <1>2. now >= 1 /\ now >= minTime /\ minTime \in Nat
    BY <1>1, SlotOfPrepared
  <1>3. Later(now, 1) = now /\ Later(now, minTime) = now
    <2> HIDE DEF minTime
    <2> QED BY <1>2 DEF Later
  <1>4. block = [number |-> n, author |-> author, now |-> now, time |-> now,
                 operations |-> ops, root |-> built.registry]
    BY <1>3, SameRegistry DEF PreparedBlock
  <1>5. pending \in Seq(RegistryOperation) /\ IsCanonical(pending)
    BY PendingList
  <1>6. Sound(built, r, n, pending, Len(pending))
    BY <1>5, FilledSound
  <1>7. openActivationForHeader(n, now) \/ IsAuthorAllowed(n, author)
    BY <1>3
  <1> HIDE DEF built, r, n, author, block
  <1>8. /\ ops \in Seq(RegistryOperation)
        /\ Len(ops) \in Nat
        /\ Len(ops) <= PreparedLimit
        /\ CanApplyOperations(r, n, ops)
        /\ built.registry = ApplyOperations(r, n, ops)
        /\ IsCanonical(ops)
        /\ \A i \in 1 .. Len(ops) : ops[i].Sequence # 0
    BY <1>6, ListType DEF Sound
  <1>9. Len(ops) <= MaxOperations
    BY <1>8, ChainAssumption
  <1>10. /\ block.number = n /\ block.author = author /\ block.time = now
         /\ block.now = now /\ block.operations = ops
         /\ block.root = built.registry
    BY <1>4
  <1> HIDE DEF ops
  <1>11. validateRegistryHeaderOperations(ops)
    BY <1>8, <1>9 DEF validateRegistryHeaderOperations
  <1>12. ASSUME NEW v \in Nat, v >= now
         PROVE  Accepts(block, v)
    <2>1. timestampAllowed(n, now, v)
      <3>1. now <= v + FutureTolerance /\ now > 0
        BY <1>2, <1>12, ChainAssumption
      <3>2. recoveryOpenAt(n, now) => recoveryOpenAt(n, v)
        BY <1>1, <1>12, RecoveryStays DEF n
      <3> QED BY <3>1, <3>2 DEF timestampAllowed
    <2>2. slotReached(n, author, now, v)
      <3>1. v >= minTime
        BY <1>2, <1>12
      <3> QED BY <1>2, <3>1 DEF slotReached
    <2>3. HeaderValid(n, author, now, ops, v)
      BY <1>7, <1>8, <1>11, <2>1, <2>2 DEF HeaderValid, n, r
    <2>4. block.root = AppliedHeader(n, author, now, ops)
      BY <1>8, <1>10 DEF AppliedHeader, r
    <2> QED BY <1>10, <2>3, <2>4 DEF Accepts
  <1> QED BY <1>8, <1>10, <1>12 DEF block, n, author

-----------------------------------------------------------------------------
(* The invariant *)

\* The rest of the type invariant.
LocalInv ==
    /\ submitting \subseteq RegistryOperation
    /\ candidate = NoBlock \/
          /\ candidate.number \in 1 .. MaxNumber
          /\ candidate.author \in Address
          /\ candidate.time \in Nat
          /\ candidate.now \in Times
          /\ candidate.operations \in Seq(RegistryOperation)

\* The invariant in the parts that the actions touch.
LEMMA Parts ==
    IInv <=> ChainInv /\ PoolInv /\ LocalInv /\ CandidateCurrent
BY DEF IInv, TypeOK, ChainInv, PoolInv, LocalInv

\* A step that leaves the chain alone keeps what is said of it.
LEMMA ChainUnchanged ==
    ASSUME UNCHANGED chainVars
    PROVE  /\ ChainInv => ChainInv'
           /\ CandidateCurrent /\ UNCHANGED candidate => CandidateCurrent'
  <1>1. ChainInv => ChainInv'
    BY DEF chainVars, ChainInv, IsRegistry, LogRemembered, SequencesGrow,
           NoEarlyProducer, PenaltyBounded
  <1>2. ASSUME CandidateCurrent, UNCHANGED candidate
        PROVE  CandidateCurrent'
    <2>1. candidate' = candidate /\ number' = number
      BY <1>2 DEF chainVars
    <2>2. \A v \in Times : Accepts(candidate, v) => Accepts(candidate, v)'
      BY <1>2
      DEF chainVars, Accepts, HeaderValid, AppliedHeader, VerifiedRegistry,
          IsAuthorAllowed, slotReached, queuePosition
    <2> QED
      BY <1>2, <2>1, <2>2 DEF CandidateCurrent, PreparedBlockVerifies
  <1> QED
    BY <1>1, <1>2

\* The initial state satisfies the inductive invariant.
LEMMA InitInv == Init => IInv
  <1> SUFFICES ASSUME Init PROVE IInv
    OBVIOUS
  <1>1. 0 \in Uint /\ 0 \in 0 .. MaxNumber /\ 0 < MaxMissedTurns
        /\ 0 <= 0 + JailBlocks
    BY RulesAssumption, ChainAssumption DEF Uint
  <1>2. registry = [a \in BootstrapParticipants |->
                      [Entry(0, 0) EXCEPT !.LastHeartbeat = 0]]
    BY DEF Init, NewBootstrapRegistry
  <1>3. /\ [Entry(0, 0) EXCEPT !.LastHeartbeat = 0] \in CanonicalParticipant
        /\ [Entry(0, 0) EXCEPT !.LastHeartbeat = 0].JailedUntil = 0
        /\ [Entry(0, 0) EXCEPT !.LastHeartbeat = 0].MissedTurns = 0
    BY <1>1, EntryType DEF CanonicalParticipant, Entry
  <1>4. IsRegistry(registry) /\ PenaltyBounded
    BY <1>1, <1>2, <1>3, ChainAssumption DEF IsRegistry, PenaltyBounded, Init
  <1>5. ChainInv
    BY <1>1, <1>4 DEF Init, ChainInv, LogRemembered, SequencesGrow,
                      NoEarlyProducer
  <1>6. PoolInv
    <2>1. DOMAIN byAddress = {} /\ byAddress \in [{} -> RegistryOperation]
      BY DEF Init, NewCanonicalRegistry
    <2>2. IsFiniteSet(byHash) /\ Cardinality(byHash) = 0
      BY FS_EmptySet DEF Init
    <2> QED
      BY <2>1, <2>2, ChainAssumption DEF Init, PoolInv, PoolConsistent
  <1>7. LocalInv /\ CandidateCurrent
    BY DEF Init, LocalInv, CandidateCurrent, PreparedBlockVerifies
  <1> QED BY <1>5, <1>6, <1>7, Parts

\* A step either leaves the chain alone or extends it by an accepted block.
LEMMA StepCases ==
    ASSUME IInv, [Next]_vars
    PROVE  \/ UNCHANGED chainVars
           \/ \E block : AcceptedBlock(block) /\ Extend(block)
  <1>1. ASSUME NEW now \in Times, InsertLocalBlock(now)
        PROVE  \/ UNCHANGED chainVars
               \/ \E block : AcceptedBlock(block) /\ Extend(block)
    <2>1. CASE Accepts(candidate, now)
      <3>1. AcceptedBlock(candidate)
        BY <1>1, <2>1, Parts DEF InsertLocalBlock, LocalInv, AcceptedBlock
      <3> QED BY <1>1, <2>1, <3>1 DEF InsertLocalBlock
    <2>2. CASE ~Accepts(candidate, now)
      BY <1>1, <2>2 DEF InsertLocalBlock
    <2> QED BY <2>1, <2>2
  <1>2. ASSUME NEW author \in Address \ LocalAccounts, NEW time, NEW now,
               NEW ops \in ListsOf(Signed, MaxForeign),
               ImportBlock(author, time, now, ops)
        PROVE  \E block : AcceptedBlock(block) /\ Extend(block)
    <2> DEFINE n == number + 1
               block == [number |-> n, author |-> author, time |-> time,
                         operations |-> ops,
                         root |-> AppliedHeader(n, author, time, ops)]
    <2>1. n \in 1 .. MaxNumber
      BY <1>2, Parts, ChainAssumption DEF ImportBlock, ChainInv
    <2>2. ops \in Seq(RegistryOperation)
      <3>1. PICK m \in 0 .. MaxForeign : ops \in [1 .. m -> Signed]
        BY DEF ListsOf
      <3>2. m \in Nat /\ ops \in [1 .. m -> RegistryOperation]
        BY <3>1, ChainAssumption
      <3> QED BY <3>2
    <2>3. HeaderValid(n, author, time, ops, now) /\ Extend(block)
      BY <1>2 DEF ImportBlock
    <2>4. /\ block.number = n /\ block.author = author /\ block.time = time
          /\ block.operations = ops
          /\ block.root = AppliedHeader(n, author, time, ops)
      OBVIOUS
    <2> HIDE DEF block, n
    <2>5. Accepts(block, now)
      BY <2>3, <2>4 DEF Accepts
    <2>6. AcceptedBlock(block)
      BY <2>1, <2>2, <2>4, <2>5 DEF AcceptedBlock
    <2> QED BY <2>3, <2>6
  <1>3. CASE UNCHANGED vars
    BY <1>3 DEF vars, chainVars
  <1>4. ASSUME NEW op, SubmitRegistryOperation(op) \/ AddSubmitted(op)
        PROVE  UNCHANGED chainVars
    BY <1>4 DEF SubmitRegistryOperation, AddSubmitted
  <1>5. CASE PendingRegistryOperations
    BY <1>5 DEF PendingRegistryOperations
  <1>6. CASE Produce
    BY <1>6 DEF Produce, Prepare
  <1> QED
    BY <1>1, <1>2, <1>3, <1>4, <1>5, <1>6 DEF Next, Import

\* A block of the local account is prepared.
LEMMA PrepareStep ==
    ASSUME ChainInv, PoolInv, LocalInv, NEW at \in Times, NEW now \in Times,
           at <= now, NEW local \in ResolveLocalParticipant(number + 1, at),
           Prepare(local, now)
    PROVE  ChainInv' /\ PoolInv' /\ LocalInv' /\ CandidateCurrent'
  <1> DEFINE n == number + 1
             author == local.Address
  <1>1. /\ number \in Nat /\ n \in Nat
        /\ at \in Nat /\ now \in Nat
        /\ IsRegistry(registry)
    BY ChainAssumption DEF ChainInv, Times
  <1>2. /\ number < MaxNumber
        /\ now >= minAllowedTime(local.QueuePos)
        /\ \/ openActivationForHeader(n, Later(now, 1))
           \/ IsAuthorAllowed(n, author)
        /\ PruneExpired(n)
        /\ UNCHANGED chainVars
        /\ UNCHANGED submitting
    BY DEF Prepare
  <1>3. PICK pending \in CanonicalRegistryOperations(Pending(n)) :
           candidate' = PreparedBlock(n, author, Later(now, 1), now, pending)
    BY DEF Prepare
  <1>4. author \in Address
    BY <1>1, <1>2, SlotOfPrepared, ChainAssumption
  <1> DEFINE block == PreparedBlock(n, author, Later(now, 1), now, pending)
  <1>5. /\ block.number = n
        /\ block.author = author
        /\ block.time = now
        /\ block.now = now
        /\ block.operations \in Seq(RegistryOperation)
        /\ \A v \in Nat : v >= now => Accepts(block, v)
    BY <1>1, <1>2, <1>3, PreparedAccepted
  <1>6. n \in 1 .. MaxNumber
    BY <1>1, <1>2, ChainAssumption
  <1>7. PoolInv'
    BY <1>1, <1>2, PruneStep
  <1>8. ChainInv'
    BY <1>2, ChainUnchanged
  <1> HIDE DEF block
  <1>9. candidate' = block /\ number' = number
    BY <1>2, <1>3 DEF block, chainVars
  <1>10. LocalInv'
    BY <1>1, <1>2, <1>4, <1>5, <1>6, <1>9 DEF LocalInv
  <1>11. \A v \in Times : v >= now => Accepts(block, v)
    BY <1>5, ChainAssumption DEF Times
  <1>12. \A v \in Times : Accepts(block, v) => Accepts(candidate, v)'
    BY <1>2, <1>9
    DEF chainVars, Accepts, HeaderValid, AppliedHeader, VerifiedRegistry,
        IsAuthorAllowed, slotReached, queuePosition
  <1>13. CandidateCurrent'
    <2>1. candidate'.number = n /\ number' + 1 = n
      BY <1>5, <1>9
    <2>2. candidate'.now = now
      BY <1>5, <1>9
    <2>3. ASSUME NEW v \in Times, v >= candidate'.now
          PROVE  Accepts(candidate, v)'
      BY <1>11, <1>12, <2>2, <2>3
    <2>4. PreparedBlockVerifies'
      BY <2>3 DEF PreparedBlockVerifies
    <2>5. candidate'.number <= number' + 1
      <3>1. n <= n
        BY <1>1
      <3> QED BY <2>1, <3>1, Zenon
    <2> QED BY <2>4, <2>5 DEF CandidateCurrent
  <1> QED BY <1>7, <1>8, <1>10, <1>13

\* Every step keeps the inductive invariant.
LEMMA NextInv ==
    ASSUME IInv, [Next]_vars
    PROVE  IInv'
  <1>1. ChainInv /\ PoolInv /\ LocalInv /\ CandidateCurrent
    BY Parts
  <1>2. number \in Nat /\ number + 1 \in Nat
    BY <1>1, ChainAssumption DEF ChainInv
  <1>3. ASSUME NEW op \in Signed, SubmitRegistryOperation(op) PROVE IInv'
    <2>1. op \in RegistryOperation
      BY ChainAssumption
    <2>2. UNCHANGED chainVars /\ UNCHANGED candidate /\ UNCHANGED pool
      BY <1>3 DEF SubmitRegistryOperation
    <2>3. PoolInv'
      BY <1>1, <2>2 DEF pool, PoolInv, PoolConsistent
    <2>4. LocalInv'
      BY <1>1, <1>3, <2>1, <2>2 DEF LocalInv, SubmitRegistryOperation
    <2>5. ChainInv' /\ CandidateCurrent'
      BY <1>1, <2>2, ChainUnchanged
    <2> QED BY <2>3, <2>4, <2>5, Parts, PTL
  <1>4. ASSUME NEW op \in submitting, AddSubmitted(op) PROVE IInv'
    <2>1. op \in RegistryOperation
      BY <1>1 DEF LocalInv
    <2>2. PoolInv'
      BY <1>1, <1>4, <2>1, AddStep DEF AddSubmitted
    <2>3. UNCHANGED chainVars /\ UNCHANGED candidate
      BY <1>4 DEF AddSubmitted
    <2>4. LocalInv'
      BY <1>1, <1>4, <2>3 DEF LocalInv, AddSubmitted
    <2>5. ChainInv' /\ CandidateCurrent'
      BY <1>1, <2>3, ChainUnchanged
    <2> QED BY <2>2, <2>4, <2>5, Parts, PTL
  <1>5. CASE PendingRegistryOperations
    <2>1. PoolInv'
      BY <1>1, <1>2, <1>5, PruneStep DEF PendingRegistryOperations
    <2>2. UNCHANGED chainVars /\ UNCHANGED candidate /\ UNCHANGED submitting
      BY <1>5 DEF PendingRegistryOperations
    <2>3. LocalInv'
      BY <1>1, <2>2 DEF LocalInv
    <2>4. ChainInv' /\ CandidateCurrent'
      BY <1>1, <2>2, ChainUnchanged
    <2> QED BY <2>1, <2>3, <2>4, Parts, PTL
  <1>6. CASE Produce
    <2>1. PICK at \in Times, now \in Times :
             /\ at <= now
             /\ \E local \in ResolveLocalParticipant(number + 1, at) :
                   Prepare(local, now)
      BY <1>6 DEF Produce
    <2>2. PICK local \in ResolveLocalParticipant(number + 1, at) :
             Prepare(local, now)
      BY <2>1
    <2>3. ChainInv' /\ PoolInv' /\ LocalInv' /\ CandidateCurrent'
      BY <1>1, <2>1, <2>2, PrepareStep
    <2> QED BY <2>3, Parts, PTL
  <1>7. ASSUME NEW block, AcceptedBlock(block), Extend(block),
               UNCHANGED <<pool, submitting>>,
               UNCHANGED candidate \/ candidate' = NoBlock
        PROVE  IInv'
    <2>1. ChainInv' /\ number' = number + 1
      BY <1>1, <1>7, ExtendStep
    <2>2. PoolInv'
      BY <1>1, <1>7 DEF pool, PoolInv, PoolConsistent
    <2>3. LocalInv'
      BY <1>1, <1>7 DEF LocalInv
    <2>4. CandidateCurrent'
      <3> SUFFICES ASSUME candidate' # NoBlock
                   PROVE  /\ candidate'.number <= number' + 1
                          /\ candidate'.number # number' + 1
        BY DEF CandidateCurrent, PreparedBlockVerifies
      <3>1. /\ candidate' = candidate
            /\ candidate.number <= number + 1
            /\ candidate.number \in 1 .. MaxNumber
        BY <1>1, <1>7 DEF CandidateCurrent, LocalInv
      <3> QED BY <1>2, <2>1, <3>1, ChainAssumption
    <2> QED BY <2>1, <2>2, <2>3, <2>4, Parts, PTL
  <1>8. ASSUME UNCHANGED chainVars, UNCHANGED <<pool, submitting>>,
               UNCHANGED candidate \/ candidate' = NoBlock
        PROVE  IInv'
    <2>1. ChainInv'
      BY <1>1, <1>8, ChainUnchanged
    <2>2. PoolInv'
      BY <1>1, <1>8 DEF pool, PoolInv, PoolConsistent
    <2>3. LocalInv'
      BY <1>1, <1>8 DEF LocalInv
    <2>4. CandidateCurrent'
      <3>1. CASE UNCHANGED candidate
        BY <1>1, <1>8, <3>1, ChainUnchanged
      <3>2. CASE candidate' = NoBlock
        BY <3>2 DEF CandidateCurrent, PreparedBlockVerifies
      <3> QED BY <1>8, <3>1, <3>2
    <2> QED BY <2>1, <2>2, <2>3, <2>4, Parts, PTL
  <1>9. CASE (\E now \in Times : InsertLocalBlock(now)) \/ Import
    <2>1. UNCHANGED <<pool, submitting>>
          /\ (UNCHANGED candidate \/ candidate' = NoBlock)
      BY <1>9 DEF InsertLocalBlock, Import, ImportBlock
    <2> QED BY <1>7, <1>8, <2>1, StepCases
  <1>10. CASE UNCHANGED vars
    <2>1. UNCHANGED chainVars /\ UNCHANGED <<pool, submitting>>
          /\ UNCHANGED candidate
      BY <1>10 DEF vars, chainVars, pool
    <2> QED BY <1>8, <2>1
  <1> QED
    BY <1>3, <1>4, <1>5, <1>6, <1>9, <1>10 DEF Next

-----------------------------------------------------------------------------
(* The theorems *)

\* The inductive invariant holds in every reachable state.
THEOREM Invariance == Spec => []IInv
  <1>1. Init => IInv
    BY InitInv
  <1>2. IInv /\ [Next]_vars => IInv'
    BY NextInv
  <1> QED BY <1>1, <1>2, PTL DEF Spec

\* Every variable keeps its type, block numbers and jail ends within 64 bits.
THEOREM TypeCorrect == Spec => []TypeOK
  <1>1. IInv => TypeOK
    BY DEF IInv
  <1> QED BY <1>1, Invariance, PTL

\* The pool's two maps agree and respect the capacity (registry_pool.go).
THEOREM PoolSafe == Spec => []PoolConsistent
  <1>1. IInv => PoolConsistent
    BY DEF IInv
  <1> QED BY <1>1, Invariance, PTL

\* What the producing loop prepares for the current head, from whatever the
\* pool holds and although recovery may open between the readings of the
\* clock, verification accepts at that reading and at every later one.
THEOREM PreparedSafe == Spec => []PreparedBlockVerifies
  <1>1. IInv => PreparedBlockVerifies
    BY DEF IInv, CandidateCurrent
  <1> QED BY <1>1, Invariance, PTL

\* However often an operation is offered, in one block or in several, no era
\* applies it twice.
THEOREM NoReplay == Spec => []AppliedOncePerEra
  <1>1. IInv => AppliedOncePerEra
    <2> SUFFICES ASSUME IInv, NEW x \in log, NEW y \in log,
                        x.op = y.op, x.era = y.era
                 PROVE  x = y
      BY DEF AppliedOncePerEra
    <2>1. x \in LogEntry /\ y \in LogEntry /\ SequencesGrow
      BY DEF IInv, TypeOK
    <2>2. /\ x.op.Sequence \in Nat
          /\ x.number \in Nat /\ x.index \in Nat
          /\ y.number \in Nat /\ y.index \in Nat
      BY <2>1, LogEntryType
    <2>3. ~Before(x, y) /\ ~Before(y, x)
      BY <2>1, <2>2 DEF SequencesGrow
    <2>4. x.number = y.number /\ x.index = y.index
      BY <2>2, <2>3 DEF Before
    <2> QED BY <2>1, <2>4 DEF SequencesGrow
  <1> QED BY <1>1, Invariance, PTL

\* A registration is followed by its activation delay before its address
\* produces an ordinary block.
THEOREM ActivationDelayed == Spec => []NoEarlyProducer
  <1>1. IInv => NoEarlyProducer
    BY DEF IInv
  <1> QED BY <1>1, Invariance, PTL

\* Penalties and missed turns stay within their limits.
THEOREM PenaltiesBounded == Spec => []PenaltyBounded
  <1>1. IInv => PenaltyBounded
    BY DEF IInv
  <1> QED BY <1>1, Invariance, PTL

\* Nobody loses a place in the queue except by an operation of its own or when
\* the registry is emptied.
THEOREM QueueKept == Spec => QueuePlaceKept
  <1> DEFINE Kept == number' # number /\ era' = era =>
         \A a \in EligibleParticipants(registry, number + 1) :
            \/ a \in EligibleParticipants(registry', number' + 1)
            \/ \E x \in log' : x.number = number' /\ x.op.Address = a
  <1>1. IInv /\ [Next]_vars => [Kept]_vars
    <2> SUFFICES ASSUME IInv, [Next]_vars, number' # number, era' = era,
                        NEW a \in EligibleParticipants(registry, number + 1),
                        ~\E x \in log' : x.number = number' /\ x.op.Address = a
                 PROVE  a \in EligibleParticipants(registry', number' + 1)
      OBVIOUS
    <2>1. PICK block : AcceptedBlock(block) /\ Extend(block)
      BY StepCases DEF chainVars
    <2>2. ChainInv /\ IsRegistry(registry) /\ number \in Nat
      BY Parts DEF ChainInv
    <2>3. /\ number' = number + 1
          /\ ~Emptied(block.number, block.time)
          /\ \A k \in 1 .. Len(block.operations) :
                \E x \in log' : /\ x.number = number'
                                /\ x.op = block.operations[k]
      BY <2>1, <2>2, ExtendStep
    <2>4. block.number = number + 1 /\ registry' = block.root
      BY <2>1 DEF AcceptedBlock, Accepts, HeaderValid, Extend
    <2>5. ~\E k \in 1 .. Len(block.operations) :
              block.operations[k].Address = a
      BY <2>3
    <2>6. a \in EligibleParticipants(block.root, block.number + 1)
      BY <2>1, <2>2, <2>3, <2>4, <2>5, BlockEffect
    <2> QED BY <2>3, <2>4, <2>6
  <1> QED BY <1>1, Invariance, PTL DEF Spec, QueuePlaceKept

\* A penalty in force is never extended.
THEOREM PenaltyKept == Spec => PenaltyNotExtended
  <1> DEFINE Kept == \A a \in DOMAIN registry \cap DOMAIN registry' :
         /\ registry[a].JailedUntil > number'
         => registry'[a].JailedUntil \in {0, registry[a].JailedUntil}
  <1>1. IInv /\ [Next]_vars => [Kept]_vars
    <2> SUFFICES ASSUME IInv, [Next]_vars,
                        NEW a \in DOMAIN registry \cap DOMAIN registry',
                        registry[a].JailedUntil > number'
                 PROVE  registry'[a].JailedUntil
                           \in {0, registry[a].JailedUntil}
      OBVIOUS
    <2>1. CASE UNCHANGED chainVars
      BY <2>1 DEF chainVars
    <2>2. CASE \E block : AcceptedBlock(block) /\ Extend(block)
      <3>1. PICK block : AcceptedBlock(block) /\ Extend(block)
        BY <2>2
      <3>2. ChainInv /\ IsRegistry(registry) /\ number \in Nat
        BY Parts DEF ChainInv
      <3>3. block.number = number' /\ registry' = block.root
        BY <3>1 DEF Extend
      <3> QED BY <3>1, <3>2, <3>3, BlockEffect
    <2> QED BY <2>1, <2>2, StepCases
  <1> QED BY <1>1, Invariance, PTL DEF Spec, PenaltyNotExtended
=============================================================================
