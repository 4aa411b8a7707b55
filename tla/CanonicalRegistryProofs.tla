----------------------- MODULE CanonicalRegistryProofs -----------------------
(***************************************************************************)
(* What the operators of CanonicalRegistry return, for every registry, every *)
(* block number and every list of operations.                               *)
(***************************************************************************)
EXTENDS CanonicalRegistry, WellFoundedInduction, TLAPS

-----------------------------------------------------------------------------
(* Entries *)

\* A new entry is well typed.
LEMMA EntryType ==
    ASSUME NEW n \in Uint, NEW s \in Uint
    PROVE  Entry(n, s) \in CanonicalParticipant
BY RulesAssumption DEF Entry, CanonicalParticipant, Uint

\* checkedRegistryBlockAdd with its saturation stays a 64-bit number.
LEMMA SaturatingAddType ==
    ASSUME NEW n \in Uint, NEW d \in Nat
    PROVE  /\ SaturatingAdd(n, d) \in Uint
           /\ SaturatingAdd(n, d) <= n + d
BY RulesAssumption DEF SaturatingAdd, Uint

\* Writing an entry gives a registry.
LEMMA SetEntryType ==
    ASSUME NEW r, IsRegistry(r), NEW a \in Address,
           NEW p \in CanonicalParticipant
    PROVE  /\ IsRegistry(SetEntry(r, a, p))
           /\ DOMAIN SetEntry(r, a, p) = DOMAIN r \cup {a}
           /\ SetEntry(r, a, p)[a] = p
           /\ \A b \in DOMAIN r : b # a => SetEntry(r, a, p)[b] = r[b]
BY DEF IsRegistry, SetEntry

\* A missed turn changes only the penalty, and keeps it bounded.
LEMMA ApplyMissedTurnEffect ==
    ASSUME NEW p \in CanonicalParticipant, NEW n \in Uint
    PROVE  LET q == ApplyMissedTurn(p, n)
           IN /\ q \in CanonicalParticipant
              /\ q.Active = p.Active
              /\ q.Sequence = p.Sequence
              /\ q.RegisteredAt = p.RegisteredAt
              /\ p.MissedTurns < MaxMissedTurns =>
                    q.MissedTurns < MaxMissedTurns
              /\ p.JailedUntil <= n + JailBlocks =>
                    q.JailedUntil <= n + JailBlocks
              /\ p.JailedUntil > n => q = p
  <1>1. CASE p.JailedUntil > n
    BY <1>1 DEF ApplyMissedTurn
  <1>2. CASE ~(p.JailedUntil > n)
    <2> DEFINE missed == IF p.MissedTurns < MaxUint THEN p.MissedTurns + 1
                                                    ELSE p.MissedTurns
    <2>1. missed \in Uint
      BY RulesAssumption DEF CanonicalParticipant, Uint
    <2>2. JailBlocks \in Nat /\ SaturatingAdd(n, JailBlocks) \in Uint
          /\ SaturatingAdd(n, JailBlocks) <= n + JailBlocks
      BY SaturatingAddType, RulesAssumption
    <2>3. CASE missed >= MaxMissedTurns
      <3>1. ApplyMissedTurn(p, n) =
              [p EXCEPT !.MissedTurns = 0,
                        !.JailedUntil = SaturatingAdd(n, JailBlocks)]
        BY <1>2, <2>3 DEF ApplyMissedTurn
      <3>2. 0 \in Uint /\ 0 < MaxMissedTurns
        BY RulesAssumption DEF Uint
      <3> HIDE DEF missed
      <3> QED
        BY <3>1, <3>2, <1>2, <2>2, RulesAssumption DEF CanonicalParticipant
    <2>4. CASE ~(missed >= MaxMissedTurns)
      <3>1. ApplyMissedTurn(p, n) = [p EXCEPT !.MissedTurns = missed]
        BY <1>2, <2>4 DEF ApplyMissedTurn
      <3>2. missed < MaxMissedTurns
        BY <2>1, <2>4, RulesAssumption DEF Uint
      <3> HIDE DEF missed
      <3> QED
        BY <3>1, <3>2, <1>2, <2>1, RulesAssumption DEF CanonicalParticipant
    <2> QED BY <2>3, <2>4
  <1> QED BY <1>1, <1>2

\* What a penalty may be at height n.
Penalty(p, n) ==
    p.JailedUntil <= n + JailBlocks /\ p.MissedTurns < MaxMissedTurns

\* Entry p became q through a producer's turn: q has the same registration.
SameRegistration(p, q) ==
    /\ q.Sequence = p.Sequence
    /\ q.RegisteredAt = p.RegisteredAt
    /\ p.Active => q.Active

\* The producer's turn keeps every registration (ApplyMissedTurn and
\* MarkProducerHeartbeat write only the liveness fields).
LEMMA TurnEffect ==
    ASSUME NEW r, IsRegistry(r), NEW n \in Uint, NEW k, NEW author
    PROVE  LET t == MarkProducerHeartbeat(ApplyMissedTurns(r, n, k, author),
                                          author, n)
           IN /\ IsRegistry(t)
              /\ DOMAIN t = DOMAIN r
              /\ \A a \in DOMAIN r :
                    /\ SameRegistration(r[a], t[a])
                    /\ Penalty(r[a], n) => Penalty(t[a], n)
                    /\ r[a].JailedUntil > n =>
                          t[a].JailedUntil \in {0, r[a].JailedUntil}
  <1> DEFINE s == ApplyMissedTurns(r, n, k, author)
             t == MarkProducerHeartbeat(s, author, n)
  <1>1. DOMAIN s = DOMAIN r
    BY DEF ApplyMissedTurns
  <1>2. ASSUME NEW a \in DOMAIN r
        PROVE  /\ s[a] \in CanonicalParticipant
               /\ SameRegistration(r[a], s[a])
               /\ Penalty(r[a], n) => Penalty(s[a], n)
               /\ r[a].JailedUntil > n => s[a] = r[a]
    <2>1. r[a] \in CanonicalParticipant
      BY DEF IsRegistry
    <2>2. CASE s[a] = ApplyMissedTurn(r[a], n)
      BY <2>1, <2>2, ApplyMissedTurnEffect DEF SameRegistration, Penalty
    <2>3. CASE s[a] = r[a]
      BY <2>1, <2>3 DEF SameRegistration
    <2> QED BY <2>2, <2>3 DEF ApplyMissedTurns
  <1> HIDE DEF s
  <1>3. DOMAIN t = DOMAIN r /\ \A a \in DOMAIN r : a # author => t[a] = s[a]
    BY <1>1 DEF MarkProducerHeartbeat
  <1>4. author \in DOMAIN r =>
           t[author] = [s[author] EXCEPT !.LastHeartbeat = n, !.MissedTurns = 0,
                                         !.JailedUntil = 0]
    BY <1>1 DEF MarkProducerHeartbeat
  <1>5. t = [a \in DOMAIN r |-> t[a]]
    BY <1>1 DEF MarkProducerHeartbeat
  <1> HIDE DEF t
  <1>6. ASSUME NEW a \in DOMAIN r
        PROVE  /\ t[a] \in CanonicalParticipant
               /\ SameRegistration(r[a], t[a])
               /\ Penalty(r[a], n) => Penalty(t[a], n)
               /\ r[a].JailedUntil > n =>
                     t[a].JailedUntil \in {0, r[a].JailedUntil}
    <2>1. CASE a # author
      BY <1>2, <1>3, <2>1
    <2>2. CASE a = author
      <3>1. 0 \in Uint /\ 0 < MaxMissedTurns /\ 0 <= n + JailBlocks
        BY RulesAssumption DEF Uint
      <3>2. /\ s[a] \in CanonicalParticipant
            /\ SameRegistration(r[a], s[a])
            /\ t[a] = [s[a] EXCEPT !.LastHeartbeat = n, !.MissedTurns = 0,
                                   !.JailedUntil = 0]
        BY <1>2, <1>4, <2>2
      <3> QED
        BY <3>1, <3>2 DEF CanonicalParticipant, SameRegistration, Penalty
    <2> QED BY <2>1, <2>2
  <1>7. IsRegistry(t)
    BY <1>3, <1>5, <1>6 DEF IsRegistry
  <1> QED BY <1>3, <1>6, <1>7 DEF s, t

\* The effect of an emergency producer that keeps the registry.
LEMMA RecoverEffect ==
    ASSUME NEW r, IsRegistry(r), NEW n \in Uint, NEW author \in Address
    PROVE  LET t == RecoverPermissionlessProducer(r, author, n)
           IN /\ IsRegistry(t)
              /\ DOMAIN r \subseteq DOMAIN t
              /\ \A a \in DOMAIN r :
                    /\ SameRegistration(r[a], t[a])
                    /\ r[a].JailedUntil > n =>
                          t[a].JailedUntil \in {0, r[a].JailedUntil}
              /\ (\A a \in DOMAIN r : Penalty(r[a], n)) =>
                    \A a \in DOMAIN t : Penalty(t[a], n)
  <1>1. 0 \in Uint /\ 0 < MaxMissedTurns /\ 0 <= n + JailBlocks
    BY RulesAssumption DEF Uint
  <1>2. CASE author \in DOMAIN r
    <2> DEFINE p == [r[author] EXCEPT !.Active = TRUE, !.LastHeartbeat = n,
                                      !.MissedTurns = 0, !.JailedUntil = 0]
    <2>1. r[author] \in CanonicalParticipant
      BY <1>2 DEF IsRegistry
    <2>2. /\ p \in CanonicalParticipant
          /\ SameRegistration(r[author], p)
          /\ Penalty(p, n)
          /\ p.JailedUntil = 0
      BY <1>1, <2>1 DEF CanonicalParticipant, SameRegistration, Penalty
    <2>3. RecoverPermissionlessProducer(r, author, n) = SetEntry(r, author, p)
      BY <1>2 DEF RecoverPermissionlessProducer, Exists
    <2> HIDE DEF p
    <2>4. \A a \in DOMAIN r : SameRegistration(r[a], r[a])
      BY DEF SameRegistration
    <2>5. /\ IsRegistry(SetEntry(r, author, p))
          /\ DOMAIN SetEntry(r, author, p) = DOMAIN r \cup {author}
          /\ SetEntry(r, author, p)[author] = p
          /\ \A b \in DOMAIN r :
                b # author => SetEntry(r, author, p)[b] = r[b]
      BY <2>2, SetEntryType
    <2> QED
      BY <1>2, <2>2, <2>3, <2>4, <2>5
  <1>3. CASE author \notin DOMAIN r
    <2>1. /\ Entry(n, 0) \in CanonicalParticipant
          /\ Penalty(Entry(n, 0), n)
      BY <1>1, EntryType DEF Entry, Penalty
    <2>2. RecoverPermissionlessProducer(r, author, n)
            = SetEntry(r, author, Entry(n, 0))
      BY <1>3 DEF RecoverPermissionlessProducer, Exists,
                  ActivatePermissionlessProducer
    <2>3. \A a \in DOMAIN r : SameRegistration(r[a], r[a])
      BY DEF SameRegistration
    <2>4. /\ IsRegistry(SetEntry(r, author, Entry(n, 0)))
          /\ DOMAIN SetEntry(r, author, Entry(n, 0)) = DOMAIN r \cup {author}
          /\ SetEntry(r, author, Entry(n, 0))[author] = Entry(n, 0)
          /\ \A b \in DOMAIN r :
                b # author => SetEntry(r, author, Entry(n, 0))[b] = r[b]
      BY <2>1, SetEntryType
    <2> QED
      BY <1>3, <2>1, <2>2, <2>3, <2>4
  <1> QED BY <1>2, <1>3

\* The registry of an emergency producer that starts afresh.
LEMMA ActivateEffect ==
    ASSUME NEW n \in Uint, NEW author \in Address
    PROVE  LET t == ActivatePermissionlessProducer(NewCanonicalRegistry,
                                                   author, n)
           IN /\ IsRegistry(t)
              /\ DOMAIN t = {author}
              /\ \A a \in DOMAIN t : Penalty(t[a], n) /\ t[a].JailedUntil = 0
  <1>1. 0 \in Uint /\ 0 < MaxMissedTurns /\ 0 <= n + JailBlocks
    BY RulesAssumption DEF Uint
  <1>2. /\ Entry(n, 0) \in CanonicalParticipant
        /\ Penalty(Entry(n, 0), n)
        /\ Entry(n, 0).JailedUntil = 0
    BY <1>1, EntryType DEF Entry, Penalty
  <1>3. DOMAIN NewCanonicalRegistry = {}
    BY DEF NewCanonicalRegistry
  <1>4. SetEntry(NewCanonicalRegistry, author, Entry(n, 0))
          = [x \in {author} |-> Entry(n, 0)]
    BY <1>3 DEF SetEntry
  <1> QED
    BY <1>2, <1>4 DEF ActivatePermissionlessProducer, IsRegistry

\* One applied operation: it has the next sequence number, and the entry it
\* writes carries that number.
LEMMA AppliedEntryEffect ==
    ASSUME NEW r, IsRegistry(r), NEW n \in Uint,
           NEW op \in RegistryOperation, CanApplyOperation(r, n, op)
    PROVE  LET q == AppliedEntry(r, n, op)
           IN /\ q \in CanonicalParticipant
              /\ q.Sequence = op.Sequence
              /\ op.Sequence # 0
              /\ op.Address \in DOMAIN r =>
                    op.Sequence = r[op.Address].Sequence + 1
              /\ op.Action = "REGISTER" => q.RegisteredAt = n
              /\ op.Action # "REGISTER" =>
                    /\ op.Address \in DOMAIN r
                    /\ q.RegisteredAt = r[op.Address].RegisteredAt
              /\ Penalty(q, n) \/ op.Address \in DOMAIN r
              /\ op.Address \in DOMAIN r /\ Penalty(r[op.Address], n) =>
                    Penalty(q, n)
              /\ op.Address \in DOMAIN r =>
                    q.JailedUntil \in {0, r[op.Address].JailedUntil}
  <1> DEFINE a == op.Address
  <1>1. 0 \in Uint /\ 0 < MaxMissedTurns /\ 0 <= n + JailBlocks
    BY RulesAssumption DEF Uint
  <1>2. op.Sequence = WantSequence(r, a)
    BY DEF CanApplyOperation
  <1>3. op.Sequence \in Uint \ {0} /\ op.Action \in Actions
    BY DEF CanApplyOperation, ValidateRegistryOperation, RegistryOperation
  <1>4. a \in DOMAIN r => op.Sequence = r[a].Sequence + 1
    BY <1>2 DEF WantSequence, Exists
  <1>5. a \in DOMAIN r => r[a] \in CanonicalParticipant
    BY DEF IsRegistry
  <1>6. CASE op.Action = "REGISTER"
    <2>1. AppliedEntry(r, n, op) = Entry(n, op.Sequence)
      BY <1>6 DEF AppliedEntry
    <2>2. Entry(n, op.Sequence) \in CanonicalParticipant
      BY <1>3, EntryType
    <2> QED
      BY <1>1, <1>3, <1>4, <1>6, <2>1, <2>2 DEF Entry, Penalty
  <1>7. CASE op.Action = "HEARTBEAT"
    <2>1. a \in DOMAIN r
      BY <1>7 DEF CanApplyOperation, Exists
    <2>2. AppliedEntry(r, n, op) =
            [r[a] EXCEPT !.LastHeartbeat = n, !.Sequence = op.Sequence]
      BY <1>7 DEF AppliedEntry
    <2> QED
      BY <1>3, <1>4, <1>5, <1>7, <2>1, <2>2 DEF CanonicalParticipant, Penalty
  <1>8. CASE op.Action = "EXIT"
    <2>1. a \in DOMAIN r
      BY <1>8 DEF CanApplyOperation, Exists
    <2>2. AppliedEntry(r, n, op) =
            [r[a] EXCEPT !.Sequence = op.Sequence, !.Active = FALSE]
      BY <1>8 DEF AppliedEntry
    <2> QED
      BY <1>3, <1>4, <1>5, <1>8, <2>1, <2>2 DEF CanonicalParticipant, Penalty
  <1> QED BY <1>3, <1>6, <1>7, <1>8 DEF Actions

-----------------------------------------------------------------------------
(* The loop over the operations of a block *)

\* A nonempty set of numbers has a least one.
LEMMA LeastNumber ==
    ASSUME NEW T, T \subseteq Nat, T # {}
    PROVE  \E x \in T : \A y \in T : x <= y
  <1> DEFINE R == OpToRel(<, Nat)
  <1>1. IsWellFoundedOn(R, Nat)
    BY NatLessThanWellFounded, ZenonT(60)
  <1>2. \A y, x \in Nat : y < x => <<y, x>> \in R
    BY DEF OpToRel
  <1> HIDE DEF R
  <1>3. PICK x \in T : \A y \in T : ~ (<<y, x>> \in R)
    BY <1>1, WFMin, ZenonT(60)
  <1>4. ASSUME NEW y \in T PROVE x <= y
    <2>1. ~ (y < x)
      BY <1>2, <1>3, ZenonT(60)
    <2> QED
      BY <2>1
  <1> QED
    BY <1>4

\* f holds what the loop over ops leaves after each of its first m turns.
Loops(r, n, ops, m, f) ==
    /\ f[0] = r
    /\ \A k \in 1 .. m : f[k] = ApplyOperation(f[k - 1], n, ops[k])

\* Such a function exists for any number of turns.
LEMMA LoopsUpTo ==
    ASSUME NEW r, NEW n, NEW ops, NEW m \in Nat
    PROVE  \E f : Loops(r, n, ops, m, f)
  <1> DEFINE T == {k \in Nat : ~\E f : Loops(r, n, ops, k, f)}
  <1> SUFFICES ASSUME T # {} PROVE FALSE
    OBVIOUS
  <1>1. PICK x \in T : \A y \in T : x <= y
    BY LeastNumber, ZenonT(60)
  <1>2. x \in Nat /\ ~\E f : Loops(r, n, ops, x, f)
    OBVIOUS
  <1>3. \A y \in Nat : y < x => \E f : Loops(r, n, ops, y, f)
    BY <1>1, <1>2
  <1> HIDE DEF T
  <1>4. CASE x = 0
    <2>1. Loops(r, n, ops, x, [k \in {0} |-> r])
      BY <1>4 DEF Loops
    <2> QED BY <1>2, <2>1
  <1>5. CASE x > 0
    <2>1. x - 1 \in Nat /\ x - 1 < x
      BY <1>2, <1>5
    <2>2. PICK f : Loops(r, n, ops, x - 1, f)
      BY <1>3, <2>1
    <2> DEFINE s == ApplyOperation(f[x - 1], n, ops[x])
               g == [k \in 0 .. x |-> IF k = x THEN s ELSE f[k]]
    <2>3. /\ \A k \in 0 .. x : k # x => g[k] = f[k]
          /\ g[x] = s
      BY <1>2
    <2> HIDE DEF g
    <2>4. g[0] = r
      BY <1>2, <1>5, <2>2, <2>3 DEF Loops
    <2>5. ASSUME NEW k \in 1 .. x
          PROVE  g[k] = ApplyOperation(g[k - 1], n, ops[k])
      <3>1. k - 1 \in 0 .. x /\ k - 1 # x
        BY <1>2
      <3>2. g[k - 1] = f[k - 1]
        BY <2>3, <3>1
      <3>3. CASE k = x
        BY <2>3, <3>2, <3>3
      <3>4. CASE k # x
        <4>1. k \in 1 .. x - 1 /\ k \in 0 .. x
          BY <1>2, <3>4
        <4> QED BY <2>2, <2>3, <3>2, <3>4, <4>1 DEF Loops
      <3> QED BY <3>3, <3>4
    <2>6. Loops(r, n, ops, x, g)
      BY <2>4, <2>5 DEF Loops
    <2> QED BY <1>2, <2>6
  <1> QED BY <1>2, <1>4, <1>5

\* Registries is such a function.
LEMMA RegistriesLoop ==
    ASSUME NEW r, NEW n, NEW ops, Len(ops) \in Nat
    PROVE  Loops(r, n, ops, Len(ops), Registries(r, n, ops))
  <1> DEFINE m == Len(ops)
             G == Registries(r, n, ops)
  <1>1. PICK f : Loops(r, n, ops, m, f)
    BY LoopsUpTo
  <1> DEFINE h == [k \in 0 .. m |-> f[k]]
  <1>2. h = [k \in 0 .. m |-> IF k = 0 THEN r
                              ELSE ApplyOperation(h[k - 1], n, ops[k])]
    <2>1. ASSUME NEW k \in 0 .. m
          PROVE  f[k] = IF k = 0 THEN r
                        ELSE ApplyOperation(h[k - 1], n, ops[k])
      <3>1. CASE k = 0
        BY <1>1, <3>1 DEF Loops
      <3>2. CASE k # 0
        <4>1. k \in 1 .. m /\ k - 1 \in 0 .. m
          BY <3>2
        <4>2. h[k - 1] = f[k - 1]
          BY <4>1
        <4>3. f[k] = ApplyOperation(f[k - 1], n, ops[k])
          BY <1>1, <4>1 DEF Loops
        <4> HIDE DEF h
        <4> QED BY <3>2, <4>2, <4>3
      <3> QED BY <3>1, <3>2
    <2> QED BY <2>1
  <1>3. \E g : g = [k \in 0 .. m |-> IF k = 0 THEN r
                                     ELSE ApplyOperation(g[k - 1], n, ops[k])]
    <2> HIDE DEF h
    <2> QED BY <1>2
  <1>4. G = [k \in 0 .. m |-> IF k = 0 THEN r
                              ELSE ApplyOperation(G[k - 1], n, ops[k])]
    BY <1>3 DEF Registries
  <1> HIDE DEF G
  <1>5. ASSUME NEW k \in 0 .. m
        PROVE  G[k] = IF k = 0 THEN r ELSE ApplyOperation(G[k - 1], n, ops[k])
    BY <1>4
  <1>6. G[0] = r
    BY <1>5
  <1>7. ASSUME NEW k \in 1 .. m
        PROVE  G[k] = ApplyOperation(G[k - 1], n, ops[k])
    BY <1>5
  <1> QED BY <1>6, <1>7 DEF Loops, G

\* The loop sees only the operations it has come to.
LEMMA LoopsAgree ==
    ASSUME NEW r, NEW n, NEW p, NEW q, NEW m \in Nat, NEW f, NEW g,
           Loops(r, n, p, m, f), Loops(r, n, q, m, g),
           \A k \in 1 .. m : p[k] = q[k]
    PROVE  \A k \in 0 .. m : f[k] = g[k]
  <1> DEFINE T == {k \in 0 .. m : f[k] # g[k]}
  <1> SUFFICES ASSUME T # {} PROVE FALSE
    OBVIOUS
  <1>1. T \subseteq Nat
    OBVIOUS
  <1>2. PICK x \in T : \A y \in T : x <= y
    BY <1>1, LeastNumber, ZenonT(60)
  <1>3. x \in 0 .. m /\ f[x] # g[x]
    OBVIOUS
  <1>4. \A y \in 0 .. m : y < x => f[y] = g[y]
    BY <1>2, <1>3
  <1> HIDE DEF T
  <1>5. x # 0
    BY <1>3 DEF Loops
  <1>6. x \in 1 .. m /\ x - 1 \in 0 .. m /\ x - 1 < x
    BY <1>3, <1>5
  <1>7. f[x] = ApplyOperation(f[x - 1], n, p[x])
        /\ g[x] = ApplyOperation(g[x - 1], n, q[x])
    BY <1>6 DEF Loops
  <1> QED BY <1>3, <1>4, <1>6, <1>7

\* What the operations of block n may make of registry r.
Evolves(r, s, n) ==
    /\ \A a \in DOMAIN r :
          /\ a \in DOMAIN s
          /\ r[a].Sequence <= s[a].Sequence
          /\ s[a].RegisteredAt \in {r[a].RegisteredAt, n}
          /\ s[a].JailedUntil \in {0, r[a].JailedUntil}
          /\ Penalty(r[a], n) => Penalty(s[a], n)
    /\ \A a \in DOMAIN s \ DOMAIN r : s[a].JailedUntil = 0 /\ Penalty(s[a], n)

\* The sequence numbers of a registry are numbers.
LEMMA SequenceType ==
    ASSUME NEW r, IsRegistry(r), NEW a \in DOMAIN r
    PROVE  r[a].Sequence \in Nat /\ r[a].RegisteredAt \in Nat
           /\ r[a] \in CanonicalParticipant
BY RulesAssumption DEF IsRegistry, CanonicalParticipant, Uint

\* Nothing is an evolution ...
LEMMA EvolvesReflexive ==
    ASSUME NEW r, IsRegistry(r), NEW n
    PROVE  Evolves(r, r, n)
BY SequenceType DEF Evolves

\* ... and two in a row are one.
LEMMA EvolvesTransitive ==
    ASSUME NEW r, NEW s, NEW t, IsRegistry(r), IsRegistry(s), IsRegistry(t),
           NEW n, Evolves(r, s, n), Evolves(s, t, n)
    PROVE  Evolves(r, t, n)
  <1>1. ASSUME NEW a \in DOMAIN r
        PROVE  /\ a \in DOMAIN t
               /\ r[a].Sequence <= t[a].Sequence
               /\ t[a].RegisteredAt \in {r[a].RegisteredAt, n}
               /\ t[a].JailedUntil \in {0, r[a].JailedUntil}
               /\ Penalty(r[a], n) => Penalty(t[a], n)
    <2>1. /\ a \in DOMAIN s
          /\ r[a].Sequence <= s[a].Sequence
          /\ s[a].RegisteredAt \in {r[a].RegisteredAt, n}
          /\ s[a].JailedUntil \in {0, r[a].JailedUntil}
          /\ Penalty(r[a], n) => Penalty(s[a], n)
      BY DEF Evolves
    <2>2. /\ a \in DOMAIN t
          /\ s[a].Sequence <= t[a].Sequence
          /\ t[a].RegisteredAt \in {s[a].RegisteredAt, n}
          /\ t[a].JailedUntil \in {0, s[a].JailedUntil}
          /\ Penalty(s[a], n) => Penalty(t[a], n)
      BY <2>1 DEF Evolves
    <2>3. r[a].Sequence \in Nat /\ s[a].Sequence \in Nat
          /\ t[a].Sequence \in Nat
      BY <2>1, <2>2, SequenceType
    <2> QED BY <2>1, <2>2, <2>3
  <1>2. ASSUME NEW a \in DOMAIN t \ DOMAIN r
        PROVE  t[a].JailedUntil = 0 /\ Penalty(t[a], n)
    BY DEF Evolves
  <1> QED BY <1>1, <1>2 DEF Evolves

\* One call of ApplyOperation.
LEMMA OperationEffect ==
    ASSUME NEW r, IsRegistry(r), NEW n \in Uint, NEW op \in RegistryOperation
    PROVE  LET s == ApplyOperation(r, n, op)
           IN /\ IsRegistry(s)
              /\ Evolves(r, s, n)
              /\ \A a \in DOMAIN r :
                    a # op.Address => a \in DOMAIN s /\ s[a] = r[a]
              /\ CanApplyOperation(r, n, op) =>
                    /\ op.Address \in DOMAIN s
                    /\ s[op.Address].Sequence = op.Sequence
                    /\ op.Sequence # 0
                    /\ op.Action = "REGISTER" => s[op.Address].RegisteredAt = n
                    /\ op.Address \in DOMAIN r =>
                          r[op.Address].Sequence < op.Sequence
  <1> DEFINE s == ApplyOperation(r, n, op)
             a == op.Address
             q == AppliedEntry(r, n, op)
  <1>1. CASE ~CanApplyOperation(r, n, op)
    <2>1. s = r
      BY <1>1 DEF ApplyOperation
    <2> QED BY <1>1, <2>1, EvolvesReflexive
  <1>2. CASE CanApplyOperation(r, n, op)
    <2>1. s = SetEntry(r, a, q) /\ a \in Address
      BY <1>2 DEF ApplyOperation, RegistryOperation
    <2>2. /\ q \in CanonicalParticipant
          /\ q.Sequence = op.Sequence
          /\ op.Sequence # 0
          /\ a \in DOMAIN r => op.Sequence = r[a].Sequence + 1
          /\ op.Action = "REGISTER" => q.RegisteredAt = n
          /\ op.Action # "REGISTER" =>
                a \in DOMAIN r /\ q.RegisteredAt = r[a].RegisteredAt
          /\ Penalty(q, n) \/ a \in DOMAIN r
          /\ a \in DOMAIN r /\ Penalty(r[a], n) => Penalty(q, n)
          /\ a \in DOMAIN r => q.JailedUntil \in {0, r[a].JailedUntil}
      BY <1>2, AppliedEntryEffect
    <2>3. a \notin DOMAIN r => q.JailedUntil = 0
      <3> SUFFICES ASSUME a \notin DOMAIN r PROVE q.JailedUntil = 0
        OBVIOUS
      <3>1. q = Entry(n, op.Sequence)
        BY <2>2 DEF AppliedEntry
      <3> HIDE DEF q
      <3> QED BY <3>1 DEF Entry
    <2>4. a \in DOMAIN r => r[a].Sequence \in Nat
      BY SequenceType
    <2> HIDE DEF q, a, s
    <2>5. /\ IsRegistry(s)
          /\ DOMAIN s = DOMAIN r \cup {a}
          /\ s[a] = q
          /\ \A b \in DOMAIN r : b # a => s[b] = r[b]
      <3>1. a \in Address /\ q \in CanonicalParticipant
        BY <2>1, <2>2
      <3>2. /\ IsRegistry(SetEntry(r, a, q))
            /\ DOMAIN SetEntry(r, a, q) = DOMAIN r \cup {a}
            /\ SetEntry(r, a, q)[a] = q
            /\ \A b \in DOMAIN r : b # a => SetEntry(r, a, q)[b] = r[b]
        BY <3>1, SetEntryType
      <3> QED BY <2>1, <3>2
    <2>6. \A b \in DOMAIN r : r[b].Sequence \in Nat
      BY SequenceType
    <2>7. a \in DOMAIN r => r[a].Sequence < op.Sequence
      BY <2>2, <2>4
    <2>8. Evolves(r, s, n)
      <3>1. ASSUME NEW b \in DOMAIN r
            PROVE  /\ b \in DOMAIN s
                   /\ r[b].Sequence <= s[b].Sequence
                   /\ s[b].RegisteredAt \in {r[b].RegisteredAt, n}
                   /\ s[b].JailedUntil \in {0, r[b].JailedUntil}
                   /\ Penalty(r[b], n) => Penalty(s[b], n)
        <4>1. CASE b = a
          BY <4>1, <2>2, <2>4, <2>5
        <4>2. CASE b # a
          BY <4>2, <2>5, <2>6
        <4> QED BY <4>1, <4>2
      <3>2. ASSUME NEW b \in DOMAIN s \ DOMAIN r
            PROVE  s[b].JailedUntil = 0 /\ Penalty(s[b], n)
        BY <2>2, <2>3, <2>5
      <3> QED BY <3>1, <3>2 DEF Evolves
    <2> QED BY <2>2, <2>5, <2>7, <2>8 DEF a, s
  <1> QED BY <1>1, <1>2

\* Facts about a list of operations.
LEMMA ListType ==
    ASSUME NEW S, NEW ops \in Seq(S)
    PROVE  Len(ops) \in Nat /\ \A k \in 1 .. Len(ops) : ops[k] \in S
OBVIOUS

\* The loop goes from registry to registry.
LEMMA RegistriesType ==
    ASSUME NEW r, IsRegistry(r), NEW n \in Uint,
           NEW ops \in Seq(RegistryOperation)
    PROVE  \A k \in 0 .. Len(ops) : IsRegistry(Registries(r, n, ops)[k])
  <1> DEFINE m == Len(ops)
             G == Registries(r, n, ops)
             T == {k \in 0 .. m : ~IsRegistry(G[k])}
  <1>0. m \in Nat /\ \A k \in 1 .. m : ops[k] \in RegistryOperation
    BY ListType
  <1>1. Loops(r, n, ops, m, G)
    BY <1>0, RegistriesLoop
  <1> HIDE DEF G, m
  <1> SUFFICES ASSUME T # {} PROVE FALSE
    BY DEF G, m
  <1>2. T \subseteq Nat
    BY <1>0
  <1>3. PICK x \in T : \A y \in T : x <= y
    BY <1>2, LeastNumber, ZenonT(60)
  <1>4. x \in 0 .. m /\ ~IsRegistry(G[x])
    OBVIOUS
  <1>5. \A y \in 0 .. m : y < x => IsRegistry(G[y])
    BY <1>0, <1>3, <1>4
  <1> HIDE DEF T
  <1>6. x # 0
    BY <1>1, <1>4 DEF Loops
  <1>7. x \in 1 .. m /\ x - 1 \in 0 .. m /\ x - 1 < x
    BY <1>0, <1>4, <1>6
  <1>8. G[x] = ApplyOperation(G[x - 1], n, ops[x])
    BY <1>1, <1>7 DEF Loops
  <1>9. IsRegistry(G[x - 1]) /\ ops[x] \in RegistryOperation
    BY <1>0, <1>5, <1>7
  <1> QED BY <1>4, <1>8, <1>9, OperationEffect

\* From any turn of the loop to any later one the registry evolves.
LEMMA RegistriesEvolve ==
    ASSUME NEW r, IsRegistry(r), NEW n \in Uint,
           NEW ops \in Seq(RegistryOperation),
           NEW j \in 0 .. Len(ops), NEW k \in j .. Len(ops)
    PROVE  Evolves(Registries(r, n, ops)[j], Registries(r, n, ops)[k], n)
  <1> DEFINE m == Len(ops)
             G == Registries(r, n, ops)
             T == {i \in j .. m : ~Evolves(G[j], G[i], n)}
  <1>0. m \in Nat /\ (\A i \in 1 .. m : ops[i] \in RegistryOperation)
        /\ j \in 0 .. m /\ k \in j .. m
    BY ListType
  <1>1. Loops(r, n, ops, m, G)
    BY <1>0, RegistriesLoop
  <1>2. \A i \in 0 .. m : IsRegistry(G[i])
    BY RegistriesType
  <1> HIDE DEF G, m
  <1> SUFFICES ASSUME T # {} PROVE FALSE
    BY <1>0 DEF G, m
  <1>3. T \subseteq Nat
    BY <1>0
  <1>4. PICK x \in T : \A y \in T : x <= y
    BY <1>3, LeastNumber, ZenonT(60)
  <1>5. x \in j .. m /\ ~Evolves(G[j], G[x], n)
    OBVIOUS
  <1>6. \A y \in j .. m : y < x => Evolves(G[j], G[y], n)
    BY <1>0, <1>4, <1>5
  <1> HIDE DEF T
  <1>7. x # j
    BY <1>0, <1>2, <1>5, EvolvesReflexive
  <1>8. x \in 1 .. m /\ x \in 0 .. m /\ x - 1 \in j .. m /\ x - 1 \in 0 .. m
        /\ x - 1 < x
    BY <1>0, <1>5, <1>7
  <1>9. G[x] = ApplyOperation(G[x - 1], n, ops[x])
    BY <1>1, <1>8 DEF Loops
  <1>10. IsRegistry(G[j]) /\ IsRegistry(G[x - 1]) /\ IsRegistry(G[x])
         /\ ops[x] \in RegistryOperation
    BY <1>0, <1>2, <1>8
  <1>11. Evolves(G[x - 1], G[x], n)
    BY <1>9, <1>10, OperationEffect
  <1>12. Evolves(G[j], G[x - 1], n)
    BY <1>6, <1>8
  <1> QED BY <1>5, <1>10, <1>11, <1>12, EvolvesTransitive

\* Who has no operation in the list keeps the entry.
LEMMA RegistriesUntouched ==
    ASSUME NEW r, IsRegistry(r), NEW n \in Uint,
           NEW ops \in Seq(RegistryOperation), NEW a \in DOMAIN r,
           \A k \in 1 .. Len(ops) : ops[k].Address # a
    PROVE  \A k \in 0 .. Len(ops) :
              /\ a \in DOMAIN Registries(r, n, ops)[k]
              /\ Registries(r, n, ops)[k][a] = r[a]
  <1> DEFINE m == Len(ops)
             G == Registries(r, n, ops)
             T == {k \in 0 .. m : ~(a \in DOMAIN G[k] /\ G[k][a] = r[a])}
  <1>0. /\ m \in Nat
        /\ \A k \in 1 .. m : ops[k] \in RegistryOperation /\ ops[k].Address # a
    BY ListType
  <1>1. Loops(r, n, ops, m, G)
    BY <1>0, RegistriesLoop
  <1>2. \A k \in 0 .. m : IsRegistry(G[k])
    BY RegistriesType
  <1> HIDE DEF G, m
  <1> SUFFICES ASSUME T # {} PROVE FALSE
    BY DEF G, m
  <1>3. T \subseteq Nat
    BY <1>0
  <1>4. PICK x \in T : \A y \in T : x <= y
    BY <1>3, LeastNumber, ZenonT(60)
  <1>5. x \in 0 .. m /\ ~(a \in DOMAIN G[x] /\ G[x][a] = r[a])
    OBVIOUS
  <1>6. \A y \in 0 .. m : y < x => a \in DOMAIN G[y] /\ G[y][a] = r[a]
    BY <1>0, <1>4, <1>5
  <1> HIDE DEF T
  <1>7. x # 0
    BY <1>1, <1>5 DEF Loops
  <1>8. x \in 1 .. m /\ x - 1 \in 0 .. m /\ x - 1 < x
    BY <1>0, <1>5, <1>7
  <1>9. G[x] = ApplyOperation(G[x - 1], n, ops[x])
    BY <1>1, <1>8 DEF Loops
  <1>10. /\ IsRegistry(G[x - 1]) /\ ops[x] \in RegistryOperation
         /\ ops[x].Address # a
         /\ a \in DOMAIN G[x - 1] /\ G[x - 1][a] = r[a]
    BY <1>0, <1>2, <1>6, <1>8
  <1> QED BY <1>5, <1>9, <1>10, OperationEffect

\* All operations of a block: what each of them leaves in the final registry,
\* and that those of one address have growing sequence numbers.
LEMMA ApplyOperationsEffect ==
    ASSUME NEW r, IsRegistry(r), NEW n \in Uint,
           NEW ops \in Seq(RegistryOperation), CanApplyOperations(r, n, ops)
    PROVE  LET t == ApplyOperations(r, n, ops)
           IN /\ IsRegistry(t)
              /\ Evolves(r, t, n)
              /\ \A k \in 1 .. Len(ops) :
                    /\ ops[k].Address \in DOMAIN t
                    /\ ops[k].Sequence <= t[ops[k].Address].Sequence
                    /\ ops[k].Sequence # 0
                    /\ ops[k].Action = "REGISTER" =>
                          t[ops[k].Address].RegisteredAt = n
                    /\ ops[k].Address \in DOMAIN r =>
                          r[ops[k].Address].Sequence < ops[k].Sequence
              /\ \A j, k \in 1 .. Len(ops) :
                    j < k /\ ops[j].Address = ops[k].Address =>
                       ops[j].Sequence < ops[k].Sequence
              /\ \A a \in DOMAIN r :
                    (\A k \in 1 .. Len(ops) : ops[k].Address # a) =>
                       a \in DOMAIN t /\ t[a] = r[a]
  <1> DEFINE m == Len(ops)
             G == Registries(r, n, ops)
             t == ApplyOperations(r, n, ops)
  <1>0. /\ m \in Nat
        /\ \A k \in 1 .. m : /\ ops[k] \in RegistryOperation
                             /\ ops[k].Sequence \in Nat
    <2>1. m \in Nat /\ \A k \in 1 .. m : ops[k] \in RegistryOperation
      BY ListType
    <2>2. \A op \in RegistryOperation : op.Sequence \in Nat
      BY RulesAssumption DEF RegistryOperation, Uint
    <2> QED BY <2>1, <2>2
  <1>1. Loops(r, n, ops, m, G)
    BY <1>0, RegistriesLoop
  <1>2. \A k \in 0 .. m : IsRegistry(G[k])
    BY RegistriesType
  <1>3. \A j \in 0 .. m : \A k \in j .. m : Evolves(G[j], G[k], n)
    BY RegistriesEvolve
  <1>4. \A k \in 1 .. m : CanApplyOperation(G[k - 1], n, ops[k])
    BY DEF CanApplyOperations
  <1>5. \A a \in DOMAIN r :
           (\A k \in 1 .. m : ops[k].Address # a) =>
              \A k \in 0 .. m : a \in DOMAIN G[k] /\ G[k][a] = r[a]
    BY RegistriesUntouched
  <1>6. t = G[m]
    BY DEF ApplyOperations
  <1> HIDE DEF G, m, t
  <1>7. /\ 0 \in 0 .. m /\ m \in 0 .. m
        /\ G[0] = r
        /\ IsRegistry(t)
        /\ Evolves(r, t, n)
    BY <1>0, <1>1, <1>2, <1>3, <1>6 DEF Loops
  <1>8. ASSUME NEW k \in 1 .. m
        PROVE  LET a == ops[k].Address
               IN /\ a \in DOMAIN G[k]
                  /\ G[k][a].Sequence = ops[k].Sequence
                  /\ ops[k].Sequence # 0
                  /\ ops[k].Action = "REGISTER" => G[k][a].RegisteredAt = n
                  /\ a \in DOMAIN G[k - 1] =>
                        G[k - 1][a].Sequence < ops[k].Sequence
    <2>1. k - 1 \in 0 .. m
      BY <1>0
    <2>2. G[k] = ApplyOperation(G[k - 1], n, ops[k])
      BY <1>1 DEF Loops
    <2>3. IsRegistry(G[k - 1]) /\ ops[k] \in RegistryOperation
          /\ CanApplyOperation(G[k - 1], n, ops[k])
      BY <1>0, <1>2, <1>4, <2>1
    <2> QED BY <2>2, <2>3, OperationEffect
  <1>9. ASSUME NEW k \in 1 .. m
        PROVE  /\ ops[k].Address \in DOMAIN t
               /\ ops[k].Sequence <= t[ops[k].Address].Sequence
               /\ ops[k].Action = "REGISTER" =>
                     t[ops[k].Address].RegisteredAt = n
               /\ ops[k].Address \in DOMAIN r =>
                     r[ops[k].Address].Sequence < ops[k].Sequence
    <2> DEFINE a == ops[k].Address
    <2>1. k \in 0 .. m /\ k - 1 \in 0 .. m /\ m \in k .. m /\ k - 1 \in 0 .. m
      BY <1>0
    <2>2. Evolves(G[k], t, n) /\ Evolves(r, G[k - 1], n)
          /\ IsRegistry(G[k - 1])
      BY <1>2, <1>3, <1>6, <1>7, <2>1
    <2>3. /\ a \in DOMAIN G[k]
          /\ G[k][a].Sequence = ops[k].Sequence
          /\ ops[k].Action = "REGISTER" => G[k][a].RegisteredAt = n
          /\ a \in DOMAIN G[k - 1] => G[k - 1][a].Sequence < ops[k].Sequence
      BY <1>8
    <2>4. a \in DOMAIN r => /\ a \in DOMAIN G[k - 1]
                            /\ r[a].Sequence <= G[k - 1][a].Sequence
                            /\ r[a].Sequence \in Nat
                            /\ G[k - 1][a].Sequence \in Nat
      BY <2>2, SequenceType DEF Evolves
    <2>5. /\ a \in DOMAIN t
          /\ G[k][a].Sequence <= t[a].Sequence
          /\ t[a].RegisteredAt \in {G[k][a].RegisteredAt, n}
      BY <2>2, <2>3 DEF Evolves
    <2> QED BY <1>0, <2>3, <2>4, <2>5
  <1>10. ASSUME NEW j \in 1 .. m, NEW k \in 1 .. m, j < k,
                ops[j].Address = ops[k].Address
         PROVE  ops[j].Sequence < ops[k].Sequence
    <2> DEFINE a == ops[k].Address
    <2>1. j \in 0 .. m /\ k - 1 \in j .. m /\ k - 1 \in 0 .. m
      BY <1>0, <1>10
    <2>2. Evolves(G[j], G[k - 1], n) /\ IsRegistry(G[k - 1])
      BY <1>2, <1>3, <2>1
    <2>3. a \in DOMAIN G[j] /\ G[j][a].Sequence = ops[j].Sequence
      BY <1>8, <1>10
    <2>4. /\ a \in DOMAIN G[k - 1]
          /\ ops[j].Sequence <= G[k - 1][a].Sequence
          /\ G[k - 1][a].Sequence \in Nat
      BY <2>2, <2>3, SequenceType DEF Evolves
    <2>5. G[k - 1][a].Sequence < ops[k].Sequence
      BY <1>8, <2>4
    <2> QED BY <1>0, <2>4, <2>5
  <1>11. ASSUME NEW a \in DOMAIN r, \A k \in 1 .. m : ops[k].Address # a
         PROVE  a \in DOMAIN t /\ t[a] = r[a]
    BY <1>5, <1>6, <1>7, <1>11
  <1> QED BY <1>7, <1>8, <1>9, <1>10, <1>11 DEF m, t

\* One more operation, if it applies to what the others left.
LEMMA AppendOperation ==
    ASSUME NEW r, NEW n, NEW ops \in Seq(RegistryOperation),
           NEW op \in RegistryOperation, CanApplyOperations(r, n, ops),
           CanApplyOperation(ApplyOperations(r, n, ops), n, op)
    PROVE  /\ CanApplyOperations(r, n, Append(ops, op))
           /\ ApplyOperations(r, n, Append(ops, op))
                = ApplyOperation(ApplyOperations(r, n, ops), n, op)
  <1> DEFINE m == Len(ops)
             longer == Append(ops, op)
             F == Registries(r, n, ops)
             G == Registries(r, n, longer)
  <1>1. /\ m \in Nat /\ Len(longer) = m + 1
        /\ \A k \in 1 .. m : longer[k] = ops[k]
        /\ longer[m + 1] = op
    OBVIOUS
  <1>2. Loops(r, n, ops, m, F)
    BY <1>1, RegistriesLoop
  <1>3. Loops(r, n, longer, m + 1, G)
    <2>1. Len(longer) \in Nat /\ Len(longer) = m + 1
      BY <1>1
    <2> HIDE DEF longer
    <2>2. Loops(r, n, longer, Len(longer), Registries(r, n, longer))
      BY <2>1, RegistriesLoop
    <2> QED BY <2>1, <2>2
  <1>4. /\ ApplyOperations(r, n, ops) = F[m]
        /\ ApplyOperations(r, n, longer) = G[m + 1]
        /\ \A k \in 1 .. m : CanApplyOperation(F[k - 1], n, ops[k])
    BY <1>1 DEF ApplyOperations, CanApplyOperations
  <1>5. CanApplyOperations(r, n, longer) <=>
           \A k \in 1 .. m + 1 : CanApplyOperation(G[k - 1], n, longer[k])
    BY <1>1 DEF CanApplyOperations
  <1> HIDE DEF m, longer, F, G
  <1>6. Loops(r, n, longer, m, G)
    BY <1>1, <1>3 DEF Loops
  <1>7. \A k \in 0 .. m : F[k] = G[k]
    <2>1. \A k \in 1 .. m : ops[k] = longer[k]
      BY <1>1
    <2>2. m \in Nat
      BY <1>1
    <2> QED BY <1>2, <1>6, <2>1, <2>2, LoopsAgree
  <1>8. G[m + 1] = ApplyOperation(G[m], n, op)
    BY <1>1, <1>3 DEF Loops
  <1>9. F[m] = G[m]
    BY <1>1, <1>7
  <1>10. ASSUME NEW k \in 1 .. m + 1
         PROVE  CanApplyOperation(G[k - 1], n, longer[k])
    <2>1. CASE k = m + 1
      BY <1>1, <1>4, <1>9, <2>1
    <2>2. CASE k # m + 1
      <3>1. k \in 1 .. m /\ k - 1 \in 0 .. m
        BY <1>1, <2>2
      <3>2. F[k - 1] = G[k - 1] /\ longer[k] = ops[k]
        BY <1>1, <1>7, <3>1
      <3> QED BY <1>4, <3>1, <3>2
    <2> QED BY <2>1, <2>2
  <1> QED BY <1>4, <1>5, <1>8, <1>9, <1>10 DEF longer

\* No operation, no change.
LEMMA NoOperation ==
    ASSUME NEW r, NEW n
    PROVE  CanApplyOperations(r, n, <<>>) /\ ApplyOperations(r, n, <<>>) = r
  <1> DEFINE none == << >>
  <1>1. Len(none) = 0
    OBVIOUS
  <1> HIDE DEF none
  <1>2. Loops(r, n, none, 0, Registries(r, n, none))
    BY <1>1, RegistriesLoop
  <1> QED BY <1>1, <1>2 DEF Loops, CanApplyOperations, ApplyOperations, none

-----------------------------------------------------------------------------
(* The canonical order *)

\* The order of two operations passes on to a third.
LEMMA PrecedesTransitive ==
    ASSUME NEW x \in RegistryOperation, NEW y \in RegistryOperation,
           NEW z \in RegistryOperation, Precedes(x, y), Precedes(y, z)
    PROVE  Precedes(x, z)
  <1>1. \A op \in RegistryOperation : op.Address \in Nat /\ op.Sequence \in Nat
    <2>1. \A op \in RegistryOperation : op.Address \in Address
                                        /\ op.Sequence \in Uint
      BY DEF RegistryOperation
    <2>2. Address \subseteq Nat /\ Uint \subseteq Nat
      BY AddressAssumption, RulesAssumption DEF Uint
    <2> QED BY <2>1, <2>2
  <1> QED BY <1>1 DEF Precedes

\* In a canonical list every operation precedes all the later ones.
LEMMA CanonicalOrder ==
    ASSUME NEW m \in Nat, NEW ops,
           \A k \in 1 .. m : ops[k] \in RegistryOperation,
           \A k \in 1 .. m - 1 : Precedes(ops[k], ops[k + 1]),
           NEW i \in 1 .. m
    PROVE  \A j \in i + 1 .. m : Precedes(ops[i], ops[j])
  <1> DEFINE T == {j \in i + 1 .. m : ~Precedes(ops[i], ops[j])}
  <1> SUFFICES ASSUME T # {} PROVE FALSE
    OBVIOUS
  <1>1. T \subseteq Nat
    OBVIOUS
  <1>2. PICK x \in T : \A y \in T : x <= y
    BY <1>1, LeastNumber, ZenonT(60)
  <1>3. x \in i + 1 .. m /\ ~Precedes(ops[i], ops[x])
    OBVIOUS
  <1>4. \A y \in i + 1 .. m : y < x => Precedes(ops[i], ops[y])
    BY <1>2, <1>3
  <1> HIDE DEF T
  <1>5. x - 1 \in 1 .. m - 1 /\ (x - 1) + 1 = x /\ x - 1 \in 1 .. m
        /\ x \in 1 .. m
    BY <1>3
  <1>6. Precedes(ops[x - 1], ops[x])
    BY <1>5
  <1>7. CASE x - 1 = i
    BY <1>3, <1>6, <1>7
  <1>8. CASE x - 1 # i
    <2>1. x - 1 \in i + 1 .. m /\ x - 1 < x
      BY <1>3, <1>8
    <2>2. Precedes(ops[i], ops[x - 1])
      BY <1>4, <2>1
    <2>3. ops[i] \in RegistryOperation /\ ops[x - 1] \in RegistryOperation
          /\ ops[x] \in RegistryOperation
      BY <1>5
    <2> QED BY <1>3, <1>6, <2>2, <2>3, PrecedesTransitive
  <1> QED BY <1>7, <1>8

\* A canonical list stays one when an operation is appended that its last one
\* precedes.
LEMMA AppendCanonical ==
    ASSUME NEW ops \in Seq(RegistryOperation), NEW op \in RegistryOperation,
           IsCanonical(ops), Len(ops) # 0 => Precedes(ops[Len(ops)], op)
    PROVE  IsCanonical(Append(ops, op))
  <1> DEFINE m == Len(ops)
             longer == Append(ops, op)
  <1>1. /\ m \in Nat /\ Len(longer) = m + 1
        /\ \A k \in 1 .. m : longer[k] = ops[k]
        /\ longer[m + 1] = op
    OBVIOUS
  <1>2. \A k \in 1 .. m - 1 : Precedes(ops[k], ops[k + 1])
    BY DEF IsCanonical
  <1> HIDE DEF longer
  <1>3. ASSUME NEW k \in 1 .. (m + 1) - 1
        PROVE  Precedes(longer[k], longer[k + 1])
    <2>1. CASE k = m
      BY <1>1, <2>1
    <2>2. CASE k # m
      <3>1. k \in 1 .. m - 1 /\ k \in 1 .. m /\ k + 1 \in 1 .. m
        BY <1>1, <2>2
      <3> QED BY <1>1, <1>2, <3>1
    <2> QED BY <2>1, <2>2
  <1> QED BY <1>1, <1>3 DEF IsCanonical, longer
=============================================================================
