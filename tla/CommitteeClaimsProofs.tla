------------------------ MODULE CommitteeClaimsProofs ------------------------
(***************************************************************************)
(* Proofs about CommitteeClaims, for every window, committee size, reward   *)
(* and tree.  The inductive invariant is about the tree of blocks: what     *)
(* pools and reservations hold does not matter to it, because a block       *)
(* enters the tree only through ValidHeader.  A last part says that neither *)
(* pooled claims nor captured parents are ahead of the head.                *)
(***************************************************************************)
EXTENDS CommitteeClaims, TLAPS

(* The inductive invariant of the tree *)
TreeInv == TreeOK /\ ClaimsOnBranch /\ LedgerIsHistory /\ ClaimedOnce

(* A block with a fresh identity and a valid header is added *)
Grows ==
    \E id \in Nat : \E parent \in Blocks :
       \E mode \in Mode : \E operations \in 0 .. MaxOperations :
          \E claims \in SUBSET Claim :
             /\ id \notin Blocks
             /\ ValidHeader(parent, operations, claims)
             /\ AddBlock(id, parent, mode, operations, claims)

-----------------------------------------------------------------------------
(* What AddBlock does to the accessors of the tree: the old blocks keep      *)
(* their fields, the new block's path extends its parent's.                  *)
LEMMA AddBlockEffect ==
    ASSUME NEW id \in Nat, NEW parent \in Blocks, NEW mode \in Mode,
           NEW operations \in 0 .. MaxOperations, NEW claims \in SUBSET Claim,
           TreeOK, id \notin Blocks,
           AddBlock(id, parent, mode, operations, claims)
    PROVE  /\ Blocks' = Blocks \cup {id}
           /\ \A b \in Blocks : blocks'[b] = blocks[b]
           /\ blocks'[id].number = blocks[parent].number + 1
           /\ blocks'[id].mode = mode
           /\ blocks'[id].operations = operations
           /\ blocks'[id].claims = claims
           /\ blocks'[id].ledger =
                 Apply(blocks[parent].ledger, blocks[parent].number + 1, claims)
           /\ blocks'[id].path \in [0 .. blocks[parent].number + 1 -> Blocks \cup {id}]
           /\ blocks'[id].path[blocks[parent].number + 1] = id
           /\ \A t \in 0 .. blocks[parent].number :
                 blocks'[id].path[t] = blocks[parent].path[t]
<1>1. Blocks' = Blocks \cup {id}
  BY DEF AddBlock, Blocks
<1>2. \A b \in Blocks : blocks'[b] = blocks[b]
  BY DEF AddBlock
<1>3. blocks'[id] = Block(id, parent, mode, operations, claims)
  BY DEF AddBlock
<1>4. blocks[parent].number \in Nat
  BY DEF TreeOK
<1>5. blocks[parent].path \in [0 .. blocks[parent].number -> Blocks]
  BY DEF TreeOK, Number
<1>6. blocks'[id].path = [t \in 0 .. blocks[parent].number + 1 |->
                            IF t = blocks[parent].number + 1 THEN id
                                                             ELSE blocks[parent].path[t]]
  BY <1>3 DEF Block, Number, Ancestor
<1>7. \A t \in 0 .. blocks[parent].number : blocks'[id].path[t] = blocks[parent].path[t]
  BY <1>4, <1>6
<1>8. blocks'[id].path[blocks[parent].number + 1] = id
  BY <1>4, <1>6
<1>9. blocks'[id].path \in [0 .. blocks[parent].number + 1 -> Blocks \cup {id}]
  BY <1>4, <1>5, <1>6
<1> QED
  BY <1>1, <1>2, <1>3, <1>7, <1>8, <1>9 DEF Block, Number

(* A tree stays a tree when a block is added. *)
LEMMA AddBlockTree ==
    ASSUME NEW id \in Nat, NEW parent \in Blocks, NEW mode \in Mode,
           NEW operations \in 0 .. MaxOperations, NEW claims \in SUBSET Claim,
           TreeOK, id \notin Blocks,
           AddBlock(id, parent, mode, operations, claims)
    PROVE  TreeOK'
<1> DEFINE num == blocks[parent].number + 1
<1>1. blocks[parent].number \in Nat
  BY DEF TreeOK
<1>2. /\ Blocks' = Blocks \cup {id}
      /\ \A b \in Blocks : blocks'[b] = blocks[b]
      /\ blocks'[id].number = num
      /\ blocks'[id].mode = mode
      /\ blocks'[id].operations = operations
      /\ blocks'[id].claims = claims
      /\ blocks'[id].ledger = Apply(blocks[parent].ledger, num, claims)
      /\ blocks'[id].path \in [0 .. num -> Blocks \cup {id}]
      /\ blocks'[id].path[num] = id
      /\ \A t \in 0 .. blocks[parent].number : blocks'[id].path[t] = blocks[parent].path[t]
  BY AddBlockEffect
<1>3. num \in Nat /\ 0 .. num = (0 .. blocks[parent].number) \cup {num}
  BY <1>1
<1>4. \A c \in claims : c.target \in Nat \ {0} /\ c.position \in Position
  BY DEF Claim
<1>5. Keys(claims) \subseteq (Nat \ {0}) \X Position
  BY <1>4 DEF Keys, Key
<1>6. blocks'[id].ledger \subseteq (Nat \ {0}) \X Position
  BY <1>2, <1>5 DEF Apply, Kept, TreeOK
<1>7. ASSUME NEW t \in 0 .. num
      PROVE  blocks'[blocks'[id].path[t]].number = t
  <2>1. CASE t = num
    BY <2>1, <1>2
  <2>2. CASE t \in 0 .. blocks[parent].number
    <3>1. blocks'[id].path[t] = blocks[parent].path[t] /\ blocks[parent].path[t] \in Blocks
      BY <2>2, <1>2 DEF TreeOK, Number
    <3>2. blocks[blocks[parent].path[t]].number = t
      BY <2>2 DEF TreeOK, Number, Ancestor
    <3> QED
      BY <3>1, <3>2, <1>2
  <2> QED
    BY <1>3, <2>1, <2>2
<1>8. ASSUME NEW b \in Blocks
       PROVE  /\ blocks'[b].number \in Nat
              /\ blocks'[b].mode \in Mode
              /\ blocks'[b].operations \in 0 .. MaxOperations
              /\ blocks'[b].claims \subseteq Claim
              /\ blocks'[b].ledger \subseteq (Nat \ {0}) \X Position
              /\ blocks'[b].path \in [0 .. blocks'[b].number -> Blocks']
              /\ \A t \in 0 .. blocks'[b].number : blocks'[blocks'[b].path[t]].number = t
              /\ blocks'[b].path[blocks'[b].number] = b
  <2>1. blocks'[b] = blocks[b]
    BY <1>2
  <2>2. blocks[b].path \in [0 .. blocks[b].number -> Blocks]
    BY DEF TreeOK, Number
  <2>3. \A t \in 0 .. blocks[b].number : blocks[blocks[b].path[t]].number = t
    BY DEF TreeOK, Number, Ancestor
  <2>4. \A t \in 0 .. blocks[b].number : blocks'[blocks[b].path[t]].number = t
    BY <2>2, <2>3, <1>2
  <2>5. blocks[b].path \in [0 .. blocks[b].number -> Blocks']
    BY <2>2, <1>2
  <2> QED
    BY <2>1, <2>4, <2>5 DEF TreeOK, Number, Ancestor
<1>9. \A b \in Blocks' :
          /\ blocks'[b].number \in Nat
          /\ blocks'[b].mode \in Mode
          /\ blocks'[b].operations \in 0 .. MaxOperations
          /\ blocks'[b].claims \subseteq Claim
          /\ blocks'[b].ledger \subseteq (Nat \ {0}) \X Position
          /\ blocks'[b].path \in [0 .. blocks'[b].number -> Blocks']
          /\ \A t \in 0 .. blocks'[b].number : blocks'[blocks'[b].path[t]].number = t
          /\ blocks'[b].path[blocks'[b].number] = b
  <2>1. blocks'[id].claims \subseteq Claim
    BY <1>2
  <2> HIDE DEF num
  <2> QED
    BY <1>2, <1>3, <1>6, <1>7, <1>8, <2>1
<1>10. 0 \in Blocks' /\ Blocks' \subseteq Nat
  BY <1>2 DEF TreeOK
<1> QED
  BY <1>9, <1>10 DEF TreeOK, Number, Ancestor

(* The claims of every branch stay signed for it and inside their windows. *)
LEMMA AddBlockBranch ==
    ASSUME NEW id \in Nat, NEW parent \in Blocks, NEW mode \in Mode,
           NEW operations \in 0 .. MaxOperations, NEW claims \in SUBSET Claim,
           TreeOK, ClaimsOnBranch, id \notin Blocks,
           ValidHeader(parent, operations, claims),
           AddBlock(id, parent, mode, operations, claims)
    PROVE  ClaimsOnBranch'
<1> DEFINE num == blocks[parent].number + 1
<1>1. blocks[parent].number \in Nat
  BY DEF TreeOK
<1>2. /\ Blocks' = Blocks \cup {id}
      /\ \A b \in Blocks : blocks'[b] = blocks[b]
      /\ blocks'[id].number = num
      /\ blocks'[id].claims = claims
      /\ blocks'[id].path[num] = id
      /\ \A t \in 0 .. blocks[parent].number : blocks'[id].path[t] = blocks[parent].path[t]
  BY AddBlockEffect
<1>3. \A b \in Blocks : \A t \in 0 .. blocks[b].number : blocks[b].path[t] \in Blocks
  BY DEF TreeOK, Number
<1>4. \A b \in Blocks : \A n \in 0 .. blocks[b].number :
         \A c \in blocks[blocks[b].path[n]].claims :
            c.target < n /\ n - c.target <= Window /\ c.context = blocks[b].path[c.target - 1]
  BY DEF ClaimsOnBranch, Number, Ancestor, Context
<1>5. \A b \in Blocks : blocks[b].claims \subseteq Claim /\ blocks[b].number \in Nat
  BY DEF TreeOK
<1>6. \A c \in Claim : c.target \in Nat /\ c.target # 0
  BY DEF Claim
<1>7. ASSUME NEW b \in Blocks, NEW n \in 0 .. blocks'[b].number,
             NEW c \in blocks'[blocks'[b].path[n]].claims
      PROVE  c.target < n /\ n - c.target <= Window /\ c.context = blocks'[b].path[c.target - 1]
  BY <1>2, <1>3, <1>4
<1>8. ASSUME NEW n \in 0 .. num, NEW c \in blocks'[blocks'[id].path[n]].claims
      PROVE  c.target < n /\ n - c.target <= Window /\ c.context = blocks'[id].path[c.target - 1]
  <2>1. CASE n = num
    <3>1. c \in claims /\ c.target \in Nat \ {0}
      BY <2>1, <1>2, <1>6
    <3>2. c.target < num /\ num - c.target <= Window
      BY <3>1 DEF ValidHeader, CanApply, CanonicalGroups, Number
    <3>3. c.context = blocks[parent].path[c.target - 1]
      BY <3>1 DEF ValidHeader, Verified, Context, Ancestor
    <3>4. c.target - 1 \in 0 .. blocks[parent].number
      BY <3>1, <3>2, <1>1
    <3> QED
      BY <2>1, <3>2, <3>3, <3>4, <1>2
  <2>2. CASE n \in 0 .. blocks[parent].number
    <3>1. blocks'[id].path[n] = blocks[parent].path[n] /\ blocks[parent].path[n] \in Blocks
      BY <2>2, <1>2, <1>3
    <3>2. c \in blocks[blocks[parent].path[n]].claims
      BY <3>1, <1>2
    <3>3. c.target < n /\ n - c.target <= Window /\ c.context = blocks[parent].path[c.target - 1]
      BY <2>2, <3>2, <1>4
    <3>4. c.target \in Nat /\ c.target # 0
      BY <3>1, <3>2, <1>5, <1>6
    <3>5. c.target - 1 \in 0 .. blocks[parent].number
      BY <2>2, <3>3, <3>4, <1>1
    <3> QED
      BY <3>3, <3>5, <1>2
  <2> QED
    BY <2>1, <2>2, <1>1
<1>9. \A b \in Blocks' : \A n \in 0 .. blocks'[b].number :
         \A c \in blocks'[blocks'[b].path[n]].claims :
            c.target < n /\ n - c.target <= Window /\ c.context = blocks'[b].path[c.target - 1]
  <2> HIDE DEF num
  <2> QED
    BY <1>2, <1>7, <1>8
<1> QED
  BY <1>9 DEF ClaimsOnBranch, Number, Ancestor, Context

(* The target of a key is a number. *)
LEMMA KeyTarget ==
    ASSUME NEW claims \in SUBSET Claim, NEW k \in Keys(claims)
    PROVE  k[1] \in Nat
<1>1. PICK c \in claims : k = <<c.target, c.position>>
  BY DEF Keys, Key
<1> QED
  BY <1>1 DEF Claim

(* What an ancestor of parent claimed, and the window of parent's child      *)
(* still holds, is in the part of parent's ledger that the child keeps.      *)
LEMMA ClaimedIsKept ==
    ASSUME NEW parent \in Blocks, NEW n \in 0 .. blocks[parent].number,
           NEW k \in Keys(blocks[blocks[parent].path[n]].claims),
           TreeOK, ClaimsOnBranch, LedgerIsHistory,
           blocks[parent].number + 1 - k[1] <= Window
    PROVE  k \in Kept(blocks[parent].ledger, blocks[parent].number + 1)
<1>1. blocks[parent].number \in Nat /\ blocks[parent].path[n] \in Blocks
  BY DEF TreeOK, Number
<1>2. PICK c \in blocks[blocks[parent].path[n]].claims : k = <<c.target, c.position>>
  BY DEF Keys, Key
<1>3. c.target \in Nat /\ k[1] = c.target
  BY <1>1, <1>2 DEF TreeOK, Claim
<1>4. c.target < n
  BY <1>2 DEF ClaimsOnBranch, Number, Ancestor
<1>5. Window \in Nat
  BY WindowAssumption
<1>6. k[1] < blocks[parent].number + 1 /\ blocks[parent].number - k[1] <= Window
  BY <1>1, <1>3, <1>4, <1>5
<1>7. k \in UNION {Keys(blocks[Ancestor(parent, i)].claims) : i \in 0 .. Number(parent)}
  BY DEF Ancestor, Number
<1>8. k \in blocks[parent].ledger
  BY <1>6, <1>7 DEF LedgerIsHistory, Number
<1> QED
  BY <1>1, <1>3, <1>5, <1>6, <1>8 DEF Kept

(* The ledger of every block stays the history of its branch. *)
LEMMA AddBlockLedger ==
    ASSUME NEW id \in Nat, NEW parent \in Blocks, NEW mode \in Mode,
           NEW operations \in 0 .. MaxOperations, NEW claims \in SUBSET Claim,
           TreeOK, ClaimsOnBranch, LedgerIsHistory, id \notin Blocks,
           ValidHeader(parent, operations, claims),
           AddBlock(id, parent, mode, operations, claims)
    PROVE  LedgerIsHistory'
<1> DEFINE num == blocks[parent].number + 1
           ledger == blocks[parent].ledger
<1>1. blocks[parent].number \in Nat /\ Window \in Nat
  BY WindowAssumption DEF TreeOK
<1>2. /\ Blocks' = Blocks \cup {id}
      /\ \A b \in Blocks : blocks'[b] = blocks[b]
      /\ blocks'[id].number = num
      /\ blocks'[id].claims = claims
      /\ blocks'[id].ledger = Kept(ledger, num) \cup Keys(claims)
      /\ blocks'[id].path[num] = id
      /\ \A t \in 0 .. blocks[parent].number : blocks'[id].path[t] = blocks[parent].path[t]
  BY AddBlockEffect DEF Apply
<1>3. \A b \in Blocks : \A t \in 0 .. blocks[b].number : blocks[b].path[t] \in Blocks
  BY DEF TreeOK, Number
<1>4. \A b \in Blocks : \A k :
         k \in blocks[b].ledger <=>
            /\ blocks[b].number - k[1] <= Window
            /\ \E n \in 0 .. blocks[b].number : k \in Keys(blocks[blocks[b].path[n]].claims)
  BY DEF LedgerIsHistory, Number, Ancestor
<1>5. ASSUME NEW b \in Blocks, NEW k
      PROVE  k \in blocks'[b].ledger <=>
                /\ blocks'[b].number - k[1] <= Window
                /\ \E n \in 0 .. blocks'[b].number :
                      k \in Keys(blocks'[blocks'[b].path[n]].claims)
  <2>1. blocks'[b] = blocks[b]
    BY <1>2
  <2>2. \A n \in 0 .. blocks[b].number :
           blocks'[blocks[b].path[n]].claims = blocks[blocks[b].path[n]].claims
    BY <1>2, <1>3
  <2> QED
    BY <2>1, <2>2, <1>4
<1>6. ASSUME NEW k \in Keys(claims)
      PROVE  num - k[1] <= Window
  <2>1. PICK c \in claims : k = <<c.target, c.position>>
    BY DEF Keys, Key
  <2>2. num - c.target <= Window
    BY DEF ValidHeader, CanApply, CanonicalGroups, Number
  <2> QED
    BY <2>1, <2>2
<1>7. ASSUME NEW k \in blocks'[id].ledger
      PROVE  /\ num - k[1] <= Window
             /\ \E n \in 0 .. num : k \in Keys(blocks'[blocks'[id].path[n]].claims)
  <2>1. CASE k \in Keys(claims)
    <3>1. num \in 0 .. num
      BY <1>1
    <3> QED
      BY <2>1, <3>1, <1>2, <1>6
  <2>2. CASE k \in Kept(ledger, num)
    <3>1. k \in ledger /\ num - k[1] <= Window
      BY <2>2 DEF Kept
    <3>2. PICK n \in 0 .. blocks[parent].number : k \in Keys(blocks[blocks[parent].path[n]].claims)
      BY <3>1, <1>4
    <3>3. blocks'[blocks'[id].path[n]].claims = blocks[blocks[parent].path[n]].claims
      BY <1>2, <1>3
    <3>4. n \in 0 .. num
      BY <1>1
    <3> QED
      BY <3>1, <3>2, <3>3, <3>4
  <2> QED
    BY <2>1, <2>2, <1>2
<1>8. ASSUME NEW k, NEW n \in 0 .. num,
             num - k[1] <= Window,
             k \in Keys(blocks'[blocks'[id].path[n]].claims)
      PROVE  k \in blocks'[id].ledger
  <2>1. CASE n = num
    BY <2>1, <1>2, <1>8
  <2>2. CASE n \in 0 .. blocks[parent].number
    <3>1. k \in Keys(blocks[blocks[parent].path[n]].claims)
      BY <2>2, <1>2, <1>3, <1>8
    <3>2. blocks[blocks[parent].path[n]].claims \in SUBSET Claim
      BY <2>2, <1>3 DEF TreeOK
    <3>3. k[1] \in Nat
      BY <3>1, <3>2, KeyTarget
    <3>4. k \in Kept(ledger, num)
      BY <2>2, <3>1, <3>3, <1>1, <1>8, ClaimedIsKept
    <3> QED
      BY <3>4, <1>2
  <2> QED
    BY <2>1, <2>2, <1>1
<1>9. \A b \in Blocks' : \A k :
         k \in blocks'[b].ledger <=>
            /\ blocks'[b].number - k[1] <= Window
            /\ \E n \in 0 .. blocks'[b].number : k \in Keys(blocks'[blocks'[b].path[n]].claims)
  <2> HIDE DEF num, ledger
  <2> QED
    BY <1>2, <1>5, <1>7, <1>8
<1>10. ASSUME NEW b \in Blocks'
       PROVE  blocks'[b].ledger =
                 {k \in UNION {Keys(blocks'[blocks'[b].path[n]].claims) : n \in 0 .. blocks'[b].number} :
                    blocks'[b].number - k[1] <= Window}
  BY <1>9
<1> QED
  BY <1>10 DEF LedgerIsHistory, Number, Ancestor, Keys, Key

(* No branch claims a position twice. *)
LEMMA AddBlockOnce ==
    ASSUME NEW id \in Nat, NEW parent \in Blocks, NEW mode \in Mode,
           NEW operations \in 0 .. MaxOperations, NEW claims \in SUBSET Claim,
           TreeInv, id \notin Blocks,
           ValidHeader(parent, operations, claims),
           AddBlock(id, parent, mode, operations, claims)
    PROVE  ClaimedOnce'
<1> USE DEF TreeInv
<1> DEFINE num == blocks[parent].number + 1
<1>1. blocks[parent].number \in Nat
  BY DEF TreeOK
<1>2. /\ Blocks' = Blocks \cup {id}
      /\ \A b \in Blocks : blocks'[b] = blocks[b]
      /\ blocks'[id].number = num
      /\ blocks'[id].claims = claims
      /\ blocks'[id].path[num] = id
      /\ \A t \in 0 .. blocks[parent].number : blocks'[id].path[t] = blocks[parent].path[t]
  BY AddBlockEffect
<1>3. \A b \in Blocks : \A t \in 0 .. blocks[b].number : blocks[b].path[t] \in Blocks
  BY DEF TreeOK, Number
<1>4. \A b \in Blocks : \A m, n \in 0 .. blocks[b].number :
         m # n => Keys(blocks[blocks[b].path[m]].claims)
                    \cap Keys(blocks[blocks[b].path[n]].claims) = {}
  BY DEF ClaimedOnce, Number, Ancestor
<1>5. ASSUME NEW b \in Blocks, NEW m \in 0 .. blocks'[b].number, NEW n \in 0 .. blocks'[b].number,
             m # n
      PROVE  Keys(blocks'[blocks'[b].path[m]].claims)
               \cap Keys(blocks'[blocks'[b].path[n]].claims) = {}
  <2>1. blocks'[b] = blocks[b]
    BY <1>2
  <2>2. /\ blocks'[blocks[b].path[m]] = blocks[blocks[b].path[m]]
        /\ blocks'[blocks[b].path[n]] = blocks[blocks[b].path[n]]
    BY <2>1, <1>2, <1>3
  <2> QED
    BY <2>1, <2>2, <1>4, <1>5
<1>6. ASSUME NEW m \in 0 .. blocks[parent].number, NEW k \in Keys(claims),
             k \in Keys(blocks[blocks[parent].path[m]].claims)
      PROVE  FALSE
  <2>1. PICK c \in claims : k = <<c.target, c.position>>
    BY DEF Keys, Key
  <2>2. num - k[1] <= Window
    BY <2>1 DEF ValidHeader, CanApply, CanonicalGroups, Number
  <2>3. k[1] \in Nat /\ Window \in Nat
    BY KeyTarget, WindowAssumption
  <2>4. k \in Kept(blocks[parent].ledger, num)
    BY <2>2, <2>3, <1>1, <1>6, ClaimedIsKept
  <2>5. Keys(claims) \cap Kept(blocks[parent].ledger, num) = {}
    BY DEF ValidHeader, CanApply, Number
  <2> QED
    BY <2>4, <2>5
<1>7. \A t \in 0 .. blocks[parent].number :
         blocks'[blocks'[id].path[t]].claims = blocks[blocks[parent].path[t]].claims
  BY <1>2, <1>3
<1>8. ASSUME NEW m \in 0 .. num, NEW n \in 0 .. num, m # n
      PROVE  Keys(blocks'[blocks'[id].path[m]].claims)
               \cap Keys(blocks'[blocks'[id].path[n]].claims) = {}
  <2>1. CASE m = num
    <3>1. n \in 0 .. blocks[parent].number
      BY <2>1, <1>1, <1>8
    <3> QED
      BY <2>1, <3>1, <1>2, <1>6, <1>7
  <2>2. CASE n = num
    <3>1. m \in 0 .. blocks[parent].number
      BY <2>2, <1>1, <1>8
    <3> QED
      BY <2>2, <3>1, <1>2, <1>6, <1>7
  <2>3. CASE m # num /\ n # num
    <3>1. m \in 0 .. blocks[parent].number /\ n \in 0 .. blocks[parent].number
      BY <2>3, <1>1
    <3> QED
      BY <3>1, <1>4, <1>7, <1>8
  <2> QED
    BY <2>1, <2>2, <2>3
<1>9. \A b \in Blocks' : \A m, n \in 0 .. blocks'[b].number :
         m # n => Keys(blocks'[blocks'[b].path[m]].claims)
                    \cap Keys(blocks'[blocks'[b].path[n]].claims) = {}
  <2> HIDE DEF num
  <2> QED
    BY <1>2, <1>5, <1>8
<1> QED
  BY <1>9 DEF ClaimedOnce, Number, Ancestor, Keys, Key

-----------------------------------------------------------------------------
(* The inductive invariant of the node *)

IInv == TypeOK /\ ClaimsOnBranch /\ LedgerIsHistory /\ ClaimedOnce /\ BehindHead

(* The node starts with the tree of one block, an empty pool and nothing     *)
(* prepared.                                                                 *)
LEMMA InitInv == Init => IInv
<1> SUFFICES ASSUME Init PROVE IInv
  OBVIOUS
<1> USE DEF Init
<1>1. Blocks = {0} /\ blocks[0] = Root
  BY DEF Blocks
<1>2. /\ blocks[0].number = 0
      /\ blocks[0].mode \in Mode
      /\ blocks[0].operations \in 0 .. MaxOperations
      /\ blocks[0].claims = {}
      /\ blocks[0].ledger = {}
      /\ blocks[0].path = [t \in {0} |-> 0]
  BY <1>1, OperationsAssumption DEF Root, Mode
<1>3. 0 .. Number(0) = {0} /\ Ancestor(0, 0) = 0
  BY <1>2 DEF Number, Ancestor
<1>4. blocks[0].path \in [0 .. Number(0) -> Blocks]
  BY <1>1, <1>2, <1>3
<1>5. TreeOK
  BY <1>1, <1>2, <1>3, <1>4 DEF TreeOK, Number
<1>6. TypeOK
  BY <1>1, <1>5 DEF TypeOK
<1>7. Keys({}) = {}
  BY DEF Keys
<1>8. ClaimsOnBranch
  BY <1>1, <1>2, <1>3 DEF ClaimsOnBranch
<1>9. LedgerIsHistory
  <2>1. \A n \in 0 .. Number(0) : Keys(blocks[Ancestor(0, n)].claims) = {}
    BY <1>2, <1>3, <1>7
  <2>2. UNION {Keys(blocks[Ancestor(0, n)].claims) : n \in 0 .. Number(0)} = {}
    BY <2>1
  <2> QED
    BY <1>1, <1>2, <2>2 DEF LedgerIsHistory
<1>10. ClaimedOnce
  BY <1>1, <1>2, <1>3, <1>7 DEF ClaimedOnce
<1> QED
  BY <1>6, <1>8, <1>9, <1>10 DEF IInv, BehindHead

(* Every action leaves the tree alone or adds one block with a valid header. *)
LEMMA StepTree ==
    ASSUME IInv, [Next]_vars
    PROVE  UNCHANGED <<blocks, head>> \/ (Grows /\ head' \in Blocks')
<1> USE DEF IInv
<1>1. ASSUME NEW parent \in Blocks, NEW mode \in Mode,
             NEW operations \in 0 .. MaxOperations, NEW claims \in SUBSET Claim,
             NEW id \in Fresh(parent),
             ValidHeader(parent, operations, claims),
             AddBlock(id, parent, mode, operations, claims),
             head' = id \/ head' = head
      PROVE  Grows /\ head' \in Blocks'
  <2>1. id \in Nat /\ id \notin Blocks
    BY BoundAssumption DEF Fresh
  <2>2. Blocks' = Blocks \cup {id}
    BY <1>1 DEF AddBlock, Blocks
  <2>3. head' \in Blocks'
    BY <1>1, <2>2 DEF TypeOK
  <2>4. Grows
    BY <1>1, <2>1 DEF Grows
  <2> QED
    BY <2>3, <2>4
<1>2. CASE InsertLocal
  <2>1. CASE candidate.parent # head
    BY <1>2, <2>1 DEF InsertLocal
  <2>2. CASE candidate.parent = head
    <3>1. /\ candidate.mode \in Mode
          /\ candidate.operations \in 0 .. MaxOperations
          /\ candidate.claims \in SUBSET Claim
          /\ head \in Blocks
      BY <1>2 DEF InsertLocal, TypeOK
    <3>2. PICK id \in Fresh(head) :
             /\ AddBlock(id, head, candidate.mode, candidate.operations, candidate.claims)
             /\ head' = id
      BY <1>2, <2>2 DEF InsertLocal
    <3>3. ValidHeader(head, candidate.operations, candidate.claims)
      BY <1>2, <2>2 DEF InsertLocal
    <3> QED
      BY <3>1, <3>2, <3>3, <1>1
  <2> QED
    BY <2>1, <2>2
<1>3. ASSUME NEW parent \in {b \in Blocks : Fresh(b) # {}},
             NEW claims \in SUBSET {c \in Signed(parent) : Verified(parent, c)},
             NEW mode \in Modes, NEW operations \in OperationCounts,
             Import(parent, mode, operations, claims)
      PROVE  Grows /\ head' \in Blocks'
  <2>1. parent \in Blocks /\ mode \in Mode /\ operations \in 0 .. MaxOperations
    BY ModesAssumption, OperationsAssumption
  <2>2. Signed(parent) \subseteq Claim
    <3>1. blocks[parent].number \in Nat /\ Blocks \subseteq Nat
      BY DEF TypeOK, TreeOK
    <3>2. 1 .. Number(parent) \subseteq Nat \ {0}
      BY <3>1 DEF Number
    <3> QED
      BY <3>1, <3>2 DEF Signed, Claim
  <2>3. claims \in SUBSET Claim
    BY <2>2
  <2>4. PICK id \in Fresh(parent) :
           /\ AddBlock(id, parent, mode, operations, claims)
           /\ head' = id \/ head' = head
    BY <1>3 DEF Import, ForkChoice
  <2>5. ValidHeader(parent, operations, claims)
    BY <1>3 DEF Import
  <2> QED
    BY <2>1, <2>3, <2>4, <2>5, <1>1
<1>4. CASE \E target \in 1 .. Number(head), positions \in SUBSET Position :
              AcceptCommitteeClaims(target, positions)
  BY <1>4 DEF AcceptCommitteeClaims
<1>5. CASE SendPending
  BY <1>5 DEF SendPending
<1>6. CASE \E mode \in Modes : StartPrepare(mode)
  BY <1>6 DEF StartPrepare
<1>7. CASE \E operations \in OperationCounts : FinishPrepare(operations)
  BY <1>7 DEF FinishPrepare
<1>8. CASE UNCHANGED vars
  BY <1>8 DEF vars
<1>9. CASE \E parent \in {b \in Blocks : Fresh(b) # {}} :
              \E claims \in SUBSET {c \in Signed(parent) : Verified(parent, c)} :
                 \E mode \in Modes, operations \in OperationCounts :
                    Import(parent, mode, operations, claims)
  BY <1>9, <1>3
<1> QED
  BY <1>2, <1>4, <1>5, <1>6, <1>7, <1>8, <1>9 DEF Next

(* A step that adds a block preserves what is said of the tree. *)
LEMMA GrowsTree ==
    ASSUME TreeInv, Grows
    PROVE  TreeInv' /\ \A b \in Blocks : b \in Blocks' /\ blocks'[b] = blocks[b]
<1>1. PICK id \in Nat : \E parent \in Blocks :
         \E mode \in Mode : \E operations \in 0 .. MaxOperations :
            \E claims \in SUBSET Claim :
               /\ id \notin Blocks
               /\ ValidHeader(parent, operations, claims)
               /\ AddBlock(id, parent, mode, operations, claims)
  BY DEF Grows
<1>2. PICK parent \in Blocks : \E mode \in Mode :
         \E operations \in 0 .. MaxOperations : \E claims \in SUBSET Claim :
            /\ id \notin Blocks
            /\ ValidHeader(parent, operations, claims)
            /\ AddBlock(id, parent, mode, operations, claims)
  BY <1>1
<1>3. PICK mode \in Mode, operations \in 0 .. MaxOperations, claims \in SUBSET Claim :
         /\ id \notin Blocks
         /\ ValidHeader(parent, operations, claims)
         /\ AddBlock(id, parent, mode, operations, claims)
  BY <1>2
<1>4. TreeOK'
  BY <1>3, AddBlockTree DEF TreeInv
<1>5. ClaimsOnBranch'
  BY <1>3, AddBlockBranch DEF TreeInv
<1>6. LedgerIsHistory'
  BY <1>3, AddBlockLedger DEF TreeInv
<1>7. ClaimedOnce'
  BY <1>3, AddBlockOnce
<1>8. \A b \in Blocks : b \in Blocks' /\ blocks'[b] = blocks[b]
  BY <1>3, AddBlockEffect DEF TreeInv
<1> QED
  BY <1>4, <1>5, <1>6, <1>7, <1>8 DEF TreeInv

(* What a step does to the tree, in the form the other variables need. *)
LEMMA StepStable ==
    ASSUME IInv, [Next]_vars
    PROVE  /\ TreeInv'
           /\ head' \in Blocks'
           /\ \A b \in Blocks : b \in Blocks' /\ blocks'[b] = blocks[b]
<1>1. TreeInv /\ head \in Blocks
  BY DEF IInv, TypeOK, TreeInv
<1>2. CASE Grows /\ head' \in Blocks'
  BY <1>1, <1>2, GrowsTree
<1>3. CASE UNCHANGED <<blocks, head>>
  <2>1. TreeOK'
    BY <1>1, <1>3 DEF TreeInv, TreeOK, Blocks, Number, Ancestor
  <2>2. ClaimsOnBranch'
    BY <1>1, <1>3 DEF TreeInv, ClaimsOnBranch, Blocks, Number, Ancestor, Context
  <2>3. LedgerIsHistory'
    BY <1>1, <1>3 DEF TreeInv, LedgerIsHistory, Blocks, Number, Ancestor, Keys, Key
  <2>4. ClaimedOnce'
    BY <1>1, <1>3 DEF TreeInv, ClaimedOnce, Blocks, Number, Ancestor, Keys, Key
  <2> QED
    BY <1>1, <1>3, <2>1, <2>2, <2>3, <2>4 DEF TreeInv, Blocks
<1> QED
  BY <1>2, <1>3, StepTree

(* The pool keeps one claim per target and position, and the provider only   *)
(* hands out claims of the pool.                                             *)
LEMMA StepPool ==
    ASSUME IInv, [Next]_vars
    PROVE  /\ pool' \subseteq Claim
           /\ \A c, d \in pool' : Key(c) = Key(d) => c = d
           /\ reserved' \in Nat
           /\ groups' \subseteq Claim
<1>1. /\ pool \subseteq Claim
      /\ \A c, d \in pool : Key(c) = Key(d) => c = d
      /\ reserved \in Nat
      /\ groups \subseteq Claim
      /\ head \in Blocks /\ Blocks \subseteq Nat
      /\ \A b \in Blocks : blocks[b].number \in Nat
      /\ \A b \in Blocks : blocks[b].path \in [0 .. blocks[b].number -> Blocks]
  BY DEF IInv, TypeOK, TreeOK, Number
<1>2. \A inclusion : Pruned(inclusion) \subseteq pool
  BY DEF Pruned
<1>3. \A inclusion : Provided(inclusion) \subseteq Claim
  BY <1>1, <1>2 DEF Provided, Pending
<1>4. ASSUME NEW target \in 1 .. Number(head), NEW positions \in SUBSET Position,
             AcceptCommitteeClaims(target, positions)
      PROVE  /\ pool' \subseteq Claim
             /\ \A c, d \in pool' : Key(c) = Key(d) => c = d
             /\ UNCHANGED <<reserved, groups>>
  <2> DEFINE claims == {[target   |-> target,
                         position |-> p,
                         context  |-> Context(head, target)] : p \in positions}
  <2>1. /\ pool' = pool \cup claims
        /\ NoConflict(claims)
        /\ UNCHANGED <<reserved, groups>>
    BY <1>4 DEF AcceptCommitteeClaims
  <2>2. target \in Nat \ {0} /\ target - 1 \in 0 .. blocks[head].number
    BY <1>1 DEF Number
  <2>3. Context(head, target) \in Nat
    BY <1>1, <2>2 DEF Context, Ancestor
  <2>4. claims \subseteq Claim
    BY <2>2, <2>3 DEF Claim
  <2>5. \A c, d \in claims : Key(c) = Key(d) => c = d
    BY DEF Key
  <2>6. \A c \in claims, d \in pool : Key(c) = Key(d) => c = d
    BY <2>1 DEF NoConflict
  <2> HIDE DEF claims
  <2> QED
    BY <1>1, <2>1, <2>4, <2>5, <2>6
<1>5. CASE \E target \in 1 .. Number(head), positions \in SUBSET Position :
              AcceptCommitteeClaims(target, positions)
  BY <1>1, <1>4, <1>5
<1>6. CASE SendPending
  BY <1>1, <1>2, <1>6 DEF SendPending
<1>7. ASSUME NEW operations \in OperationCounts, FinishPrepare(operations)
      PROVE  /\ pool' \subseteq pool
             /\ reserved' \in Nat
             /\ groups' \subseteq Claim
  <2>1. preparing.parent \in Blocks
    BY <1>7 DEF FinishPrepare, IInv, TypeOK
  <2>2. reserved' \in Nat
    BY <1>1, <1>7, <2>1 DEF FinishPrepare, Number
  <2>3. pool' \subseteq pool
    BY <1>2, <1>7 DEF FinishPrepare
  <2>4. groups' \subseteq Claim
    BY <1>3, <1>7 DEF FinishPrepare
  <2> QED
    BY <2>2, <2>3, <2>4
<1>8. CASE \E operations \in OperationCounts : FinishPrepare(operations)
  BY <1>1, <1>7, <1>8
<1>9. CASE \E mode \in Modes : StartPrepare(mode)
  BY <1>1, <1>9 DEF StartPrepare
<1>10. CASE InsertLocal
  BY <1>1, <1>10 DEF InsertLocal
<1>11. CASE \E parent \in {b \in Blocks : Fresh(b) # {}} :
               \E claims \in SUBSET {c \in Signed(parent) : Verified(parent, c)} :
                  \E mode \in Modes, operations \in OperationCounts :
                     Import(parent, mode, operations, claims)
  BY <1>1, <1>11 DEF Import
<1>12. CASE UNCHANGED vars
  BY <1>1, <1>12 DEF vars
<1> QED
  BY <1>5, <1>6, <1>8, <1>9, <1>10, <1>11, <1>12 DEF Next

(* What is being prepared and what was built have a known parent. *)
LEMMA StepCandidate ==
    ASSUME IInv, [Next]_vars
    PROVE  /\ preparing' = None \/ preparing' \in [parent : Blocks, mode : Mode]
           /\ candidate' = None \/ candidate' \in [parent     : Blocks,
                                                   mode       : Mode,
                                                   operations : 0 .. MaxOperations,
                                                   claims     : SUBSET Claim]
<1>1. /\ preparing = None \/ preparing \in [parent : Blocks, mode : Mode]
      /\ candidate = None \/ candidate \in [parent     : Blocks,
                                            mode       : Mode,
                                            operations : 0 .. MaxOperations,
                                            claims     : SUBSET Claim]
      /\ head \in Blocks
  BY DEF IInv, TypeOK
<1>2. \A inclusion : Provided(inclusion) \subseteq Claim
  BY DEF Provided, Pending, Pruned, IInv, TypeOK
<1>3. ASSUME NEW operations \in OperationCounts, FinishPrepare(operations)
      PROVE  /\ preparing' = None
             /\ candidate' = None \/ candidate' \in [parent     : Blocks,
                                                     mode       : Mode,
                                                     operations : 0 .. MaxOperations,
                                                     claims     : SUBSET Claim]
  <2> DEFINE parent == preparing.parent
             claims == Proposed(parent)
  <2>1. preparing' = None /\ preparing # None
    BY <1>3 DEF FinishPrepare
  <2>2. parent \in Blocks /\ preparing.mode \in Mode /\ operations \in 0 .. MaxOperations
    BY <2>1, <1>1, OperationsAssumption
  <2>3. claims \in SUBSET Claim
    BY <1>2 DEF Proposed
  <2>4. CASE ~ Builds(parent, operations, claims)
    BY <1>3, <2>1, <2>4 DEF FinishPrepare
  <2>5. CASE Builds(parent, operations, claims)
    <3>1. candidate' = [parent     |-> parent,
                        mode       |-> preparing.mode,
                        operations |-> operations,
                        claims     |-> claims]
      BY <1>3, <2>5 DEF FinishPrepare
    <3> HIDE DEF parent, claims
    <3>2. candidate' \in [parent     : Blocks,
                          mode       : Mode,
                          operations : 0 .. MaxOperations,
                          claims     : SUBSET Claim]
      BY <3>1, <2>2, <2>3
    <3> QED
      BY <3>2, <2>1
  <2> QED
    BY <2>4, <2>5
<1>4. CASE \E operations \in OperationCounts : FinishPrepare(operations)
  BY <1>3, <1>4
<1>5. CASE \E target \in 1 .. Number(head), positions \in SUBSET Position :
              AcceptCommitteeClaims(target, positions)
  BY <1>1, <1>5 DEF AcceptCommitteeClaims
<1>6. CASE SendPending
  BY <1>1, <1>6 DEF SendPending
<1>7. ASSUME NEW mode \in Modes, StartPrepare(mode)
      PROVE  preparing' \in [parent : Blocks, mode : Mode] /\ candidate' = None
  BY <1>1, <1>7, ModesAssumption DEF StartPrepare
<1>8. CASE \E mode \in Modes : StartPrepare(mode)
  BY <1>7, <1>8
<1>9. CASE InsertLocal
  BY <1>1, <1>9 DEF InsertLocal
<1>10. CASE \E parent \in {b \in Blocks : Fresh(b) # {}} :
               \E claims \in SUBSET {c \in Signed(parent) : Verified(parent, c)} :
                  \E mode \in Modes, operations \in OperationCounts :
                     Import(parent, mode, operations, claims)
  BY <1>1, <1>10 DEF Import
<1>11. CASE UNCHANGED vars
  BY <1>1, <1>11 DEF vars
<1> QED
  BY <1>4, <1>5, <1>6, <1>8, <1>9, <1>10, <1>11 DEF Next

(* The head never loses height: fork choice prefers the higher block. *)
LEMMA StepHead ==
    ASSUME IInv, [Next]_vars
    PROVE  blocks[head].number <= blocks'[head'].number
<1>1. /\ head \in Blocks /\ TreeOK
      /\ \A b \in Blocks : blocks[b].number \in Nat
  BY DEF IInv, TypeOK, TreeOK
<1>2. CASE head' = head
  <2>1. blocks'[head] = blocks[head]
    BY <1>1, StepStable
  <2> QED
    BY <1>1, <1>2, <2>1
<1>3. ASSUME NEW parent \in Blocks, NEW mode \in Mode,
             NEW operations \in 0 .. MaxOperations, NEW claims \in SUBSET Claim,
             NEW id \in Fresh(parent),
             AddBlock(id, parent, mode, operations, claims), head' = id,
             blocks[head].number <= blocks[parent].number + 1
      PROVE  blocks[head].number <= blocks'[head'].number
  <2>1. id \in Nat /\ id \notin Blocks
    BY BoundAssumption DEF Fresh
  <2>2. blocks'[id].number = blocks[parent].number + 1
    BY <1>1, <1>3, <2>1, AddBlockEffect
  <2> QED
    BY <1>3, <2>2
<1>4. CASE InsertLocal /\ candidate.parent = head
  <2>1. /\ candidate.mode \in Mode
        /\ candidate.operations \in 0 .. MaxOperations
        /\ candidate.claims \in SUBSET Claim
    BY <1>4 DEF InsertLocal, IInv, TypeOK
  <2>2. PICK id \in Fresh(head) :
           /\ AddBlock(id, head, candidate.mode, candidate.operations, candidate.claims)
           /\ head' = id
    BY <1>4 DEF InsertLocal
  <2>3. blocks[head].number <= blocks[head].number + 1
    BY <1>1
  <2> QED
    BY <1>1, <1>3, <2>1, <2>2, <2>3
<1>5. ASSUME NEW parent \in {b \in Blocks : Fresh(b) # {}},
             NEW claims \in SUBSET {c \in Signed(parent) : Verified(parent, c)},
             NEW mode \in Modes, NEW operations \in OperationCounts,
             Import(parent, mode, operations, claims), head' # head
      PROVE  blocks[head].number <= blocks'[head'].number
  <2>1. parent \in Blocks /\ mode \in Mode /\ operations \in 0 .. MaxOperations
    BY ModesAssumption, OperationsAssumption
  <2>2. claims \in SUBSET Claim
    <3>1. blocks[parent].number \in Nat /\ Blocks \subseteq Nat
      BY <1>1 DEF TreeOK
    <3>2. 1 .. Number(parent) \subseteq Nat \ {0}
      BY <3>1 DEF Number
    <3> QED
      BY <3>1, <3>2 DEF Signed, Claim
  <2>3. PICK id \in Fresh(parent) :
           /\ AddBlock(id, parent, mode, operations, claims)
           /\ ForkChoice(id, Number(parent) + 1)
    BY <1>5 DEF Import
  <2>4. head' = id /\ blocks[parent].number + 1 >= blocks[head].number
    BY <1>5, <2>3 DEF ForkChoice, Number
  <2>5. blocks[head].number <= blocks[parent].number + 1
    BY <1>1, <2>1, <2>4
  <2> QED
    BY <1>3, <2>1, <2>2, <2>3, <2>4, <2>5
<1>6. CASE InsertLocal /\ candidate.parent # head
  BY <1>2, <1>6 DEF InsertLocal
<1>7. CASE \E parent \in {b \in Blocks : Fresh(b) # {}} :
              \E claims \in SUBSET {c \in Signed(parent) : Verified(parent, c)} :
                 \E mode \in Modes, operations \in OperationCounts :
                    Import(parent, mode, operations, claims)
  BY <1>2, <1>5, <1>7
<1>8. ASSUME ~ InsertLocal,
             ~ \E parent \in {b \in Blocks : Fresh(b) # {}} :
                  \E claims \in SUBSET {c \in Signed(parent) : Verified(parent, c)} :
                     \E mode \in Modes, operations \in OperationCounts :
                        Import(parent, mode, operations, claims)
      PROVE  head' = head
  BY <1>8 DEF Next, vars, AcceptCommitteeClaims, SendPending, StartPrepare,
              FinishPrepare
<1> QED
  BY <1>2, <1>4, <1>6, <1>7, <1>8

(* A claim is accepted for a target at or below the head, and a preparation  *)
(* starts on the head.                                                       *)
LEMMA StepBehind ==
    ASSUME IInv, [Next]_vars
    PROVE  BehindHead'
<1> DEFINE h == blocks[head].number
           k == blocks'[head'].number
<1>1. /\ h \in Nat /\ k \in Nat /\ h <= k
      /\ head \in Blocks
      /\ \A b \in Blocks : blocks[b].number \in Nat /\ blocks'[b] = blocks[b]
      /\ pool \subseteq Claim
      /\ preparing = None \/ preparing.parent \in Blocks
      /\ \A c \in pool : c.target <= h
      /\ preparing # None => blocks[preparing.parent].number <= h
  BY StepHead, StepStable DEF IInv, TypeOK, TreeOK, TreeInv, BehindHead, Number
<1>2. \A c \in pool : c.target \in Nat
  BY <1>1 DEF Claim
<1>3. \A c \in pool' : c \in pool \/ (c.target \in Nat /\ c.target <= h)
  <2>1. ASSUME NEW target \in 1 .. Number(head), NEW positions \in SUBSET Position,
               AcceptCommitteeClaims(target, positions)
        PROVE  \A c \in pool' : c \in pool \/ (c.target \in Nat /\ c.target <= h)
    BY <1>1, <2>1 DEF AcceptCommitteeClaims, Number
  <2>2. CASE \E target \in 1 .. Number(head), positions \in SUBSET Position :
                AcceptCommitteeClaims(target, positions)
    BY <2>1, <2>2
  <2>3. CASE ~ \E target \in 1 .. Number(head), positions \in SUBSET Position :
                  AcceptCommitteeClaims(target, positions)
    <3>1. \A inclusion : Pruned(inclusion) \subseteq pool
      BY DEF Pruned
    <3>2. pool' \subseteq pool
      BY <2>3, <3>1 DEF Next, vars, SendPending, StartPrepare, FinishPrepare,
                        InsertLocal, Import
    <3> QED
      BY <3>2
  <2> QED
    BY <2>2, <2>3
<1>4. preparing' = None \/ preparing' = preparing \/ preparing'.parent = head
  <2>1. ASSUME NEW mode \in Modes, StartPrepare(mode)
        PROVE  preparing'.parent = head
    BY <2>1 DEF StartPrepare
  <2>2. ASSUME NEW operations \in OperationCounts, FinishPrepare(operations)
        PROVE  preparing' = None
    BY <2>2 DEF FinishPrepare
  <2>3. ASSUME ~ \E mode \in Modes : StartPrepare(mode),
               ~ \E operations \in OperationCounts : FinishPrepare(operations)
        PROVE  preparing' = preparing
    BY <2>3 DEF Next, vars, AcceptCommitteeClaims, SendPending, InsertLocal, Import
  <2> QED
    BY <2>1, <2>2, <2>3
<1>5. \A c \in pool' : c.target <= k
  <2> SUFFICES ASSUME NEW c \in pool' PROVE c.target <= k
    OBVIOUS
  <2>1. c.target \in Nat /\ c.target <= h
    BY <1>1, <1>2, <1>3
  <2> HIDE DEF h, k
  <2> QED
    BY <1>1, <2>1
<1>6. preparing' # None => blocks'[preparing'.parent].number <= k
  <2> SUFFICES ASSUME preparing' # None
               PROVE  blocks'[preparing'.parent].number <= k
    OBVIOUS
  <2>1. /\ preparing'.parent \in Blocks
        /\ blocks[preparing'.parent].number <= h
    BY <1>1, <1>4
  <2>2. blocks'[preparing'.parent].number = blocks[preparing'.parent].number
        /\ blocks[preparing'.parent].number \in Nat
    BY <1>1, <2>1
  <2> HIDE DEF h, k
  <2> QED
    BY <1>1, <2>1, <2>2
<1> QED
  BY <1>5, <1>6 DEF BehindHead, Number

(* Every step preserves the inductive invariant. *)
LEMMA StepInv ==
    ASSUME IInv, [Next]_vars
    PROVE  IInv'
<1>1. /\ TreeInv'
      /\ head' \in Blocks'
      /\ \A b \in Blocks : b \in Blocks' /\ blocks'[b] = blocks[b]
  BY StepStable
<1>2. /\ pool' \subseteq Claim
      /\ \A c, d \in pool' : Key(c) = Key(d) => c = d
      /\ reserved' \in Nat
      /\ groups' \subseteq Claim
  BY StepPool
<1>3. /\ preparing' = None \/ preparing' \in [parent : Blocks, mode : Mode]
      /\ candidate' = None \/ candidate' \in [parent     : Blocks,
                                              mode       : Mode,
                                              operations : 0 .. MaxOperations,
                                              claims     : SUBSET Claim]
  BY StepCandidate
<1>4. preparing' = None \/ preparing' \in [parent : Blocks', mode : Mode]
  BY <1>1, <1>3
<1>5. candidate' = None \/ candidate' \in [parent     : Blocks',
                                           mode       : Mode,
                                           operations : 0 .. MaxOperations,
                                           claims     : SUBSET Claim]
  BY <1>1, <1>3
<1>6. TypeOK'
  BY <1>1, <1>2, <1>4, <1>5 DEF TypeOK, TreeInv, Key
<1>7. BehindHead'
  BY StepBehind
<1> QED
  BY <1>1, <1>6, <1>7 DEF IInv, TreeInv

-----------------------------------------------------------------------------
(* The inductive invariant holds in every reachable state. *)
THEOREM Invariance == Spec => []IInv
<1>1. Init => IInv
  BY InitInv
<1>2. IInv /\ [Next]_vars => IInv'
  BY StepInv
<1> QED
  BY <1>1, <1>2, PTL DEF Spec

(* Every variable keeps its type, the tree its shape, and the pool one claim *)
(* per target and position.                                                  *)
THEOREM TypeCorrect == Spec => []TypeOK
<1>1. IInv => TypeOK
  BY DEF IInv
<1> QED
  BY <1>1, Invariance, PTL

(* No branch ever claims a position of a target twice: the ledger check of   *)
(* Apply is enough, whatever a producer proposes.                            *)
THEOREM PaidOnce == Spec => []ClaimedOnce
<1>1. IInv => ClaimedOnce
  BY DEF IInv
<1> QED
  BY <1>1, Invariance, PTL

(* The bounded ledger of a block is exactly the recent history of its branch. *)
THEOREM LedgerExact == Spec => []LedgerIsHistory
<1>1. IInv => LedgerIsHistory
  BY DEF IInv
<1> QED
  BY <1>1, Invariance, PTL

(* No branch carries a claim signed for another branch or out of its window. *)
THEOREM BranchBound == Spec => []ClaimsOnBranch
<1>1. IInv => ClaimsOnBranch
  BY DEF IInv
<1> QED
  BY <1>1, Invariance, PTL

(* A claim leaves the pool only when its window is over for the head's child *)
(* or for a preparation on a parent below its target.                        *)
THEOREM ClaimsKept == Spec => ClaimKeptWhileUsable
<1> DEFINE Dropped(c) == \/ Number(head) + 1 - c.target > Window
                         \/ preparing # None /\ c.target > Number(preparing.parent)
<1>1. ASSUME IInv, [Next]_vars, NEW c \in pool \ pool'
      PROVE  Dropped(c)
  <2>1. /\ head \in Blocks /\ blocks[head].number \in Nat
        /\ c.target \in Nat /\ c.target <= blocks[head].number
    BY <1>1 DEF IInv, TypeOK, TreeOK, BehindHead, Number, Claim
  <2>2. CASE SendPending
    BY <2>1, <2>2, WindowAssumption DEF SendPending, Pruned, Number
  <2>3. CASE \E operations \in OperationCounts : FinishPrepare(operations)
    <3>1. preparing # None /\ c \notin Pruned(blocks[preparing.parent].number + 1)
      BY <2>3 DEF FinishPrepare, Number
    <3>2. /\ blocks[preparing.parent].number \in Nat
          /\ blocks[preparing.parent].number <= blocks[head].number
      BY <1>1, <3>1 DEF IInv, TypeOK, TreeOK, BehindHead, Number
    <3> QED
      BY <2>1, <3>1, <3>2, WindowAssumption DEF Pruned, Number
  <2>4. CASE \E target \in 1 .. Number(head), positions \in SUBSET Position :
                AcceptCommitteeClaims(target, positions)
    BY <2>4 DEF AcceptCommitteeClaims
  <2>5. CASE \E mode \in Modes : StartPrepare(mode)
    BY <2>5 DEF StartPrepare
  <2>6. CASE InsertLocal
    BY <2>6 DEF InsertLocal
  <2>7. CASE \E parent \in {b \in Blocks : Fresh(b) # {}} :
                \E claims \in SUBSET {x \in Signed(parent) : Verified(parent, x)} :
                   \E mode \in Modes, operations \in OperationCounts :
                      Import(parent, mode, operations, claims)
    BY <2>7 DEF Import
  <2>8. CASE UNCHANGED vars
    BY <2>8 DEF vars
  <2> QED
    BY <1>1, <2>2, <2>3, <2>4, <2>5, <2>6, <2>7, <2>8 DEF Next
<1> DEFINE Step == \A c \in pool \ pool' : Dropped(c)
<1>2. IInv /\ [Next]_vars => [Step]_vars
  BY <1>1
<1> QED
  BY <1>2, Invariance, PTL DEF Spec, ClaimKeptWhileUsable
=============================================================================
