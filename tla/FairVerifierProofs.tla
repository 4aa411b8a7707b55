------------------------- MODULE FairVerifierProofs -------------------------
(***************************************************************************)
(* Proofs of the safety of FairVerifier for every set of callers and peers. *)
(***************************************************************************)
EXTENDS FairVerifier, FiniteSetTheorems, TLAPS

(* The pending set is exactly the peers with a queued or running task *)
PendingExact ==
    pending = PeersOf(queue)
              \cup (IF loop = "work" THEN {PeerOf[running]} ELSE {})

(* The worker holds a task while it works and delivers *)
RunningExact == running # None <=> loop \in {"work", "deliver"}

(* A peer that passed a queued caller has no second task ahead of it *)
Passing ==
    /\ \A c \in Callers \ Members(queue) : passed[c] = [p \in Peers |-> 0]
    /\ \A i \in 1 .. Len(queue), p \in Peers :
          /\ passed[queue[i]][p] <= 1
          /\ passed[queue[i]][p] = 1 =>
                \A j \in 1 .. i - 1 : PeerOf[queue[j]] # p

Inv ==
    /\ TypeOK
    /\ OnePerPeer
    /\ PendingExact
    /\ RunningExact
    /\ AnsweredOnce
    /\ Passing

-----------------------------------------------------------------------------
(* What Run's append does to the queue. *)
LEMMA AppendFacts ==
    ASSUME NEW s \in Seq(Callers), NEW c \in Callers
    PROVE  /\ Append(s, c) \in Seq(Callers)
           /\ Len(s) \in Nat
           /\ Len(Append(s, c)) = Len(s) + 1
           /\ \A i \in 1 .. Len(s) : Append(s, c)[i] = s[i]
           /\ Append(s, c)[Len(s) + 1] = c
           /\ Members(Append(s, c)) = Members(s) \cup {c}
           /\ PeersOf(Append(s, c)) = PeersOf(s) \cup {PeerOf[c]}
<1>1. /\ Append(s, c) \in Seq(Callers)
      /\ Len(s) \in Nat
      /\ Len(Append(s, c)) = Len(s) + 1
      /\ \A i \in 1 .. Len(s) : Append(s, c)[i] = s[i]
      /\ Append(s, c)[Len(s) + 1] = c
  OBVIOUS
<1>2. 1 .. Len(s) + 1 = (1 .. Len(s)) \cup {Len(s) + 1}
  BY <1>1
<1>3. Members(Append(s, c)) = Members(s) \cup {c}
  BY <1>1, <1>2 DEF Members
<1>4. PeersOf(Append(s, c)) = PeersOf(s) \cup {PeerOf[c]}
  BY <1>1, <1>2 DEF PeersOf
<1> QED
  BY <1>1, <1>3, <1>4

(* What taking the head of a queue does to it. *)
LEMMA TailFacts ==
    ASSUME NEW s \in Seq(Callers), s # <<>>
    PROVE  /\ Head(s) \in Callers
           /\ Head(s) = s[1]
           /\ Tail(s) \in Seq(Callers)
           /\ Len(s) \in Nat
           /\ Len(s) >= 1
           /\ Len(Tail(s)) = Len(s) - 1
           /\ \A i \in 1 .. Len(s) - 1 : Tail(s)[i] = s[i + 1]
           /\ Members(s) = Members(Tail(s)) \cup {Head(s)}
           /\ PeersOf(s) = PeersOf(Tail(s)) \cup {PeerOf[Head(s)]}
<1>1. /\ Head(s) \in Callers
      /\ Head(s) = s[1]
      /\ Tail(s) \in Seq(Callers)
      /\ Len(s) \in Nat
      /\ Len(s) >= 1
      /\ Len(Tail(s)) = Len(s) - 1
      /\ \A i \in 1 .. Len(s) - 1 : Tail(s)[i] = s[i + 1]
  OBVIOUS
<1>2. \A i \in 1 .. Len(s) : i = 1 \/ (i - 1 \in 1 .. Len(s) - 1 /\ Tail(s)[i - 1] = s[i])
  BY <1>1
<1>3. \A i \in 1 .. Len(s) - 1 : i + 1 \in 1 .. Len(s)
  BY <1>1
<1>4. 1 \in 1 .. Len(s)
  BY <1>1
<1>5. Members(s) = Members(Tail(s)) \cup {Head(s)}
  <2>1. \A c \in Members(s) : c \in Members(Tail(s)) \cup {Head(s)}
    BY <1>1, <1>2 DEF Members
  <2>2. \A c \in Members(Tail(s)) \cup {Head(s)} : c \in Members(s)
    BY <1>1, <1>3, <1>4 DEF Members
  <2> QED
    BY <2>1, <2>2
<1>6. PeersOf(s) = PeersOf(Tail(s)) \cup {PeerOf[Head(s)]}
  BY <1>1, <1>2, <1>3, <1>4 DEF PeersOf
<1> QED
  BY <1>1, <1>5, <1>6

(* A sequence's members are the values it has, and empty ones have none. *)
LEMMA MembersFacts ==
    ASSUME NEW s \in Seq(Callers)
    PROVE  /\ Members(s) \subseteq Callers
           /\ PeersOf(s) \subseteq Peers
           /\ Members(<<>>) = {}
           /\ PeersOf(<<>>) = {}
BY PeerOfAssumption DEF Members, PeersOf

-----------------------------------------------------------------------------
(* The invariant holds initially. *)
LEMMA InitInv == Init => Inv
<1> SUFFICES ASSUME Init PROVE Inv
  OBVIOUS
<1>1. TypeOK
  <2>1. passed \in [Callers -> [Peers -> Nat]]
    BY DEF Init, Unpassed
  <2>2. result \in [Callers -> {"none", "done", "closed"}]
    BY DEF Init
  <2>3. queue \in Seq(Callers) /\ closing \in Seq(Callers)
    BY DEF Init
  <2>4. closed \in BOOLEAN /\ pending \subseteq Peers /\ blocked \subseteq Callers
    BY DEF Init
  <2>5. running \in Callers \cup {None} /\ loop = "check"
    BY DEF Init
  <2> QED
    BY <2>1, <2>2, <2>3, <2>4, <2>5 DEF TypeOK
<1>2. OnePerPeer /\ RunningExact
  BY DEF Init, OnePerPeer, RunningExact
<1>3. Members(queue) = {} /\ Members(closing) = {} /\ PeersOf(queue) = {}
  BY DEF Init, Members, PeersOf
<1>4. PendingExact
  BY <1>3 DEF Init, PendingExact
<1>5. Answered = {}
  BY DEF Init, Answered
<1>6. AnsweredOnce
  BY <1>3, <1>5 DEF Init, AnsweredOnce, NoneTwice
<1>7. Passing
  BY <1>3 DEF Init, Passing, Unpassed
<1> QED
  BY <1>1, <1>2, <1>4, <1>6, <1>7 DEF Inv

-----------------------------------------------------------------------------
(* A call of Run keeps the invariant. *)
LEMMA RunInv ==
    ASSUME Inv, NEW c \in Callers, Run(c)
    PROVE  Inv'
<1> USE DEF Inv
<1>1. queue \in Seq(Callers) /\ closing \in Seq(Callers)
  BY DEF TypeOK
<1>2. /\ Len(queue) \in Nat
      /\ Len(queue') = Len(queue) + 1
      /\ \A i \in 1 .. Len(queue) : queue'[i] = queue[i]
      /\ queue'[Len(queue) + 1] = c
      /\ Members(queue') = Members(queue) \cup {c}
      /\ PeersOf(queue') = PeersOf(queue) \cup {PeerOf[c]}
      /\ queue' \in Seq(Callers)
  BY <1>1, AppendFacts DEF Run
<1>3. PeerOf[c] \in Peers /\ c # None
  BY PeerOfAssumption, NoneAssumption
<1>4. /\ PeerOf[c] \notin PeersOf(queue)
      /\ loop = "work" => PeerOf[running] # PeerOf[c]
  BY DEF Run, PendingExact
<1>5. \A i \in 1 .. Len(queue) : PeerOf[queue[i]] # PeerOf[c]
  BY <1>4 DEF PeersOf
<1>6. /\ c \notin Members(queue)
      /\ c \notin Members(closing)
      /\ c \notin Answered
      /\ c # running
  BY <1>3 DEF Run, AnsweredOnce
<1>7. loop' \in {"check", "waiting", "work", "deliver", "exited"}
      /\ (loop' = "work" <=> loop = "work")
      /\ (loop' = "deliver" <=> loop = "deliver")
  BY DEF Run, Woken, TypeOK
<1>8. TypeOK'
  BY <1>2, <1>3, <1>7 DEF Run, TypeOK
<1>9. OnePerPeer'
  <2>1. \A i \in 1 .. Len(queue') : i \in 1 .. Len(queue) \/ i = Len(queue) + 1
    BY <1>2
  <2>2. \A i, j \in 1 .. Len(queue') : PeerOf[queue'[i]] = PeerOf[queue'[j]] => i = j
    BY <2>1, <1>2, <1>5 DEF OnePerPeer
  <2>3. loop' = "work" =>
          \A i \in 1 .. Len(queue') : PeerOf[queue'[i]] # PeerOf[running']
    BY <2>1, <1>2, <1>4, <1>7 DEF OnePerPeer, Run
  <2> QED
    BY <2>2, <2>3 DEF OnePerPeer
<1>10. PendingExact'
  BY <1>2, <1>7 DEF PendingExact, Run
<1>11. RunningExact'
  BY <1>7 DEF RunningExact, Run
<1>12. AnsweredOnce'
  <2>1. \A i \in 1 .. Len(queue') : i \in 1 .. Len(queue) \/ i = Len(queue) + 1
    BY <1>2
  <2>2. \A i \in 1 .. Len(queue) : queue[i] # c
    BY <1>6 DEF Members
  <2>3. NoneTwice(queue')
    BY <2>1, <2>2, <1>2 DEF NoneTwice, AnsweredOnce
  <2>4. Answered' = Answered /\ closing' = closing /\ running' = running
    BY DEF Run, Answered
  <2> QED
    BY <2>3, <2>4, <1>2, <1>3, <1>6 DEF AnsweredOnce, Run
<1>13. Passing'
  <2>1. \A i \in 1 .. Len(queue') : i \in 1 .. Len(queue) \/ i = Len(queue) + 1
    BY <1>2
  <2>2. passed' = passed
    BY DEF Run
  <2>3. \A d \in Callers \ Members(queue') : passed'[d] = [p \in Peers |-> 0]
    BY <1>2, <2>2 DEF Passing
  <2>4. passed[c] = [p \in Peers |-> 0]
    BY <1>6 DEF Passing
  <2>5. ASSUME NEW i \in 1 .. Len(queue'), NEW p \in Peers
        PROVE  /\ passed'[queue'[i]][p] <= 1
               /\ passed'[queue'[i]][p] = 1 =>
                     \A j \in 1 .. i - 1 : PeerOf[queue'[j]] # p
    <3>1. CASE i \in 1 .. Len(queue)
      <4>1. \A j \in 1 .. i - 1 : j \in 1 .. Len(queue)
        BY <3>1, <1>2
      <4> QED
        BY <3>1, <4>1, <1>2, <2>2 DEF Passing
    <3>2. CASE i = Len(queue) + 1
      BY <3>2, <1>2, <2>2, <2>4
    <3> QED
      BY <3>1, <3>2, <2>1
  <2> QED
    BY <2>3, <2>5 DEF Passing
<1> QED
  BY <1>8, <1>9, <1>10, <1>11, <1>12, <1>13

(* The caller takes its result: only result and blocked change. *)
LEMMA ReceiveInv ==
    ASSUME Inv, NEW c \in Callers, Receive(c)
    PROVE  Inv'
<1> USE DEF Inv
<1>1. UNCHANGED <<closed, queue, pending, loop, running, closing, passed>>
  BY DEF Receive
<1>2. TypeOK'
  BY <1>1 DEF Receive, TypeOK
<1>3. OnePerPeer' /\ PendingExact' /\ RunningExact' /\ Passing'
  BY <1>1 DEF OnePerPeer, PendingExact, RunningExact, Passing, Members, PeersOf
<1>4. Answered' = Answered \ {c}
  BY DEF Receive, Answered, TypeOK
<1>5. c \in Answered
  BY DEF Receive, Answered
<1>6. blocked' = blocked \ {c}
  BY DEF Receive
<1>7. Members(queue)' = Members(queue) /\ Members(closing)' = Members(closing)
  BY <1>1 DEF Members
<1>8. NoneTwice(queue)' /\ NoneTwice(closing)'
  BY <1>1 DEF NoneTwice, AnsweredOnce
<1>9. AnsweredOnce'
  BY <1>1, <1>4, <1>5, <1>6, <1>7, <1>8 DEF AnsweredOnce
<1> QED
  BY <1>2, <1>3, <1>9

(* The worker waits or exits: only its place changes. *)
LEMMA IdleInv ==
    ASSUME Inv, Wait \/ Exit
    PROVE  Inv'
<1> USE DEF Inv
<1>1. /\ UNCHANGED <<closed, queue, pending, running, closing, blocked, result, passed>>
      /\ loop = "check"
      /\ loop' \in {"waiting", "exited"}
  BY DEF Wait, Exit
<1>2. TypeOK'
  BY <1>1 DEF TypeOK
<1>3. OnePerPeer' /\ PendingExact' /\ RunningExact' /\ Passing'
  BY <1>1 DEF OnePerPeer, PendingExact, RunningExact, Passing, Members, PeersOf
<1>4. AnsweredOnce'
  BY <1>1 DEF AnsweredOnce, Answered, NoneTwice, Members
<1> QED
  BY <1>2, <1>3, <1>4

(* The worker takes the head of the queue. *)
LEMMA TakeInv ==
    ASSUME Inv, Take
    PROVE  Inv'
<1> USE DEF Inv
<1>1. queue \in Seq(Callers) /\ queue # <<>>
  BY DEF TypeOK, Take
<1> DEFINE h == Head(queue)
<1>2. /\ h \in Callers
      /\ h = queue[1]
      /\ Len(queue) \in Nat
      /\ Len(queue) >= 1
      /\ queue' \in Seq(Callers)
      /\ Len(queue') = Len(queue) - 1
      /\ \A i \in 1 .. Len(queue) - 1 : queue'[i] = queue[i + 1]
      /\ Members(queue) = Members(queue') \cup {h}
      /\ PeersOf(queue) = PeersOf(queue') \cup {PeerOf[h]}
  BY <1>1, TailFacts DEF Take
<1>3. /\ running' = h
      /\ running = None
      /\ loop = "check"
      /\ loop' = "work"
      /\ UNCHANGED <<closed, pending, closing, blocked, result>>
  BY DEF Take, RunningExact
<1>4. PeerOf[h] \in Peers /\ h # None
  BY <1>2, PeerOfAssumption, NoneAssumption
<1>5. \A i \in 1 .. Len(queue) - 1 : i + 1 \in 1 .. Len(queue) /\ i + 1 # 1
  BY <1>2
<1>6. 1 \in 1 .. Len(queue)
  BY <1>2
<1>7. \A i \in 1 .. Len(queue') : PeerOf[queue'[i]] # PeerOf[h]
  BY <1>2, <1>5, <1>6 DEF OnePerPeer
<1>8. h \notin Members(queue')
  BY <1>7 DEF Members
<1>9. passed' = Pass(queue', h)
  BY DEF Take
<1> HIDE DEF h
<1>10. ASSUME NEW d \in Callers
       PROVE  passed'[d] = IF d \in Members(queue')
                           THEN [passed[d] EXCEPT ![PeerOf[h]] = @ + 1]
                           ELSE [p \in Peers |-> 0]
  BY <1>9 DEF Pass, Unpassed
<1>11. TypeOK'
  <2>1. ASSUME NEW d \in Callers PROVE passed'[d] \in [Peers -> Nat]
    <3>1. passed[d] \in [Peers -> Nat]
      BY DEF TypeOK
    <3>2. passed[d][PeerOf[h]] + 1 \in Nat
      BY <3>1, <1>4
    <3>3. [passed[d] EXCEPT ![PeerOf[h]] = @ + 1] \in [Peers -> Nat]
      BY <3>1, <3>2
    <3>4. [p \in Peers |-> 0] \in [Peers -> Nat]
      OBVIOUS
    <3> QED
      BY <3>3, <3>4, <1>10
  <2>2. passed' \in [Callers -> [Peers -> Nat]]
    BY <1>9, <2>1 DEF Pass
  <2> QED
    BY <1>2, <1>3, <2>2 DEF TypeOK
<1>12. OnePerPeer'
  <2>1. \A i, j \in 1 .. Len(queue') : PeerOf[queue'[i]] = PeerOf[queue'[j]] => i = j
    <3> SUFFICES ASSUME NEW i \in 1 .. Len(queue'), NEW j \in 1 .. Len(queue'),
                        PeerOf[queue'[i]] = PeerOf[queue'[j]]
                 PROVE  i = j
      OBVIOUS
    <3>1. i + 1 = j + 1
      BY <1>2, <1>5 DEF OnePerPeer
    <3> QED
      BY <3>1, <1>2
  <2> QED
    BY <2>1, <1>3, <1>7 DEF OnePerPeer
<1>13. PendingExact'
  BY <1>2, <1>3 DEF PendingExact
<1>14. RunningExact'
  BY <1>3, <1>4 DEF RunningExact
<1>15. AnsweredOnce'
  <2>1. NoneTwice(queue')
    <3> SUFFICES ASSUME NEW i \in 1 .. Len(queue'), NEW j \in 1 .. Len(queue'),
                        queue'[i] = queue'[j]
                 PROVE  i = j
      BY DEF NoneTwice
    <3> QED
      BY <1>12 DEF OnePerPeer
  <2>2. Answered' = Answered /\ closing' = closing /\ blocked' = blocked
    BY <1>3 DEF Answered
  <2>3. None \notin Members(queue')
    BY <1>2, NoneAssumption, MembersFacts
  <2>4. NoneTwice(closing')
    BY <2>2 DEF AnsweredOnce
  <2> QED
    BY <2>1, <2>2, <2>3, <2>4, <1>2, <1>3, <1>4, <1>8 DEF AnsweredOnce
<1>16. Passing'
  <2>1. \A d \in Callers \ Members(queue') : passed'[d] = [p \in Peers |-> 0]
    BY <1>10
  <2>2. ASSUME NEW i \in 1 .. Len(queue'), NEW p \in Peers
        PROVE  /\ passed'[queue'[i]][p] <= 1
               /\ passed'[queue'[i]][p] = 1 =>
                     \A j \in 1 .. i - 1 : PeerOf[queue'[j]] # p
    <3>1. /\ queue'[i] \in Callers
          /\ queue'[i] \in Members(queue')
          /\ queue'[i] = queue[i + 1]
          /\ i + 1 \in 1 .. Len(queue)
          /\ i \in 1 .. Len(queue) - 1
      BY <1>2 DEF Members
    <3>2. passed[queue'[i]] \in [Peers -> Nat]
      BY <3>1 DEF TypeOK
    <3>3. \A j \in 1 .. i - 1 : j \in 1 .. Len(queue') /\ queue'[j] = queue[j + 1]
                                /\ j + 1 \in 1 .. i
      BY <1>2, <3>1
    <3>4. CASE p = PeerOf[h]
      <4>1. 1 \in 1 .. (i + 1) - 1 /\ PeerOf[queue[1]] = p
        BY <3>1, <3>4, <1>2
      <4>2. passed[queue[i + 1]][p] <= 1 /\ passed[queue[i + 1]][p] # 1
        BY <4>1, <3>1 DEF Passing
      <4>3. passed[queue'[i]][p] = 0
        BY <4>2, <3>1, <3>2
      <4>4. passed'[queue'[i]][p] = 1
        <5>1. passed'[queue'[i]] = [passed[queue'[i]] EXCEPT ![PeerOf[h]] = @ + 1]
          BY <3>1, <1>10
        <5>2. passed'[queue'[i]][p] = passed[queue'[i]][p] + 1
          BY <5>1, <3>2, <3>4
        <5> QED
          BY <5>2, <4>3
      <4> QED
        BY <4>4, <3>3, <3>4, <1>7
    <3>5. CASE p # PeerOf[h]
      <4>1. passed'[queue'[i]][p] = passed[queue'[i]][p]
        BY <3>1, <3>2, <3>5, <1>10
      <4>2. /\ passed[queue[i + 1]][p] <= 1
            /\ passed[queue[i + 1]][p] = 1 =>
                  \A j \in 1 .. (i + 1) - 1 : PeerOf[queue[j]] # p
        BY <3>1 DEF Passing
      <4>3. (i + 1) - 1 = i
        BY <3>1
      <4> QED
        BY <4>1, <4>2, <4>3, <3>1, <3>3
    <3> QED
      BY <3>4, <3>5
  <2> QED
    BY <2>1, <2>2 DEF Passing
<1> QED
  BY <1>11, <1>12, <1>13, <1>14, <1>15, <1>16

(* The work returns and the peer is released. *)
LEMMA FinishInv ==
    ASSUME Inv, Finish
    PROVE  Inv'
<1> USE DEF Inv
<1>1. /\ UNCHANGED <<closed, queue, running, closing, blocked, result, passed>>
      /\ loop = "work"
      /\ loop' = "deliver"
      /\ pending' = pending \ {PeerOf[running]}
  BY DEF Finish
<1>2. TypeOK'
  BY <1>1 DEF TypeOK
<1>3. OnePerPeer' /\ RunningExact' /\ Passing'
  BY <1>1 DEF OnePerPeer, RunningExact, Passing, Members
<1>4. PeerOf[running] \notin PeersOf(queue)
  BY <1>1 DEF OnePerPeer, PeersOf
<1>5. PeersOf(queue)' = PeersOf(queue)
  BY <1>1 DEF PeersOf
<1>6. PendingExact'
  BY <1>1, <1>4, <1>5 DEF PendingExact
<1>7. AnsweredOnce'
  BY <1>1 DEF AnsweredOnce, Answered, NoneTwice, Members
<1> QED
  BY <1>2, <1>3, <1>6, <1>7

(* The result is sent. *)
LEMMA DeliverInv ==
    ASSUME Inv, Deliver
    PROVE  Inv'
<1> USE DEF Inv
<1>1. /\ UNCHANGED <<closed, queue, pending, closing, blocked, passed>>
      /\ loop = "deliver"
      /\ loop' = "check"
      /\ running' = None
      /\ result' = [result EXCEPT ![running] = "done"]
  BY DEF Deliver
<1>2. running \in Callers
  BY <1>1 DEF RunningExact, TypeOK
<1>3. TypeOK'
  BY <1>1, <1>2 DEF TypeOK
<1>4. OnePerPeer' /\ PendingExact' /\ RunningExact' /\ Passing'
  BY <1>1 DEF OnePerPeer, PendingExact, RunningExact, Passing, Members, PeersOf
<1>5. Answered' = Answered \cup {running}
  BY <1>1, <1>2 DEF Answered, TypeOK
<1>6. Members(queue)' = Members(queue) /\ Members(closing)' = Members(closing)
  BY <1>1 DEF Members
<1>7. NoneTwice(queue)' /\ NoneTwice(closing)'
  BY <1>1 DEF NoneTwice, AnsweredOnce
<1>8. None \notin Members(queue) /\ None \notin Members(closing) /\ None \notin Answered'
  BY NoneAssumption, MembersFacts DEF TypeOK, Answered
<1>9. AnsweredOnce'
  BY <1>1, <1>2, <1>5, <1>6, <1>7, <1>8 DEF AnsweredOnce
<1> QED
  BY <1>3, <1>4, <1>9

(* Close takes the queue. *)
LEMMA CloseInv ==
    ASSUME Inv, Close, closing = <<>>
    PROVE  Inv'
<1> USE DEF Inv
<1>1. /\ closed' = TRUE
      /\ closing' = queue
      /\ queue' = <<>>
      /\ pending' = pending \ PeersOf(queue)
      /\ passed' = [c \in Callers |-> [p \in Peers |-> 0]]
      /\ UNCHANGED <<running, blocked, result>>
  BY DEF Close, Unpassed
<1>2. loop' \in {"check", "waiting", "work", "deliver", "exited"}
      /\ (loop' = "work" <=> loop = "work")
      /\ (loop' = "deliver" <=> loop = "deliver")
  BY DEF Close, Woken, TypeOK
<1>3. TypeOK'
  <2>1. passed' \in [Callers -> [Peers -> Nat]]
    BY <1>1
  <2>2. queue' \in Seq(Callers)
    BY <1>1
  <2> QED
    BY <1>1, <1>2, <2>1, <2>2 DEF TypeOK
<1>4. Members(queue') = {} /\ PeersOf(queue') = {} /\ Len(queue') = 0
  BY <1>1, <1>3, MembersFacts DEF TypeOK
<1>5. OnePerPeer'
  BY <1>4 DEF OnePerPeer
<1>6. loop = "work" => PeerOf[running] \notin PeersOf(queue)
  BY DEF OnePerPeer, PeersOf
<1>7. PendingExact'
  BY <1>1, <1>2, <1>4, <1>6 DEF PendingExact
<1>8. RunningExact'
  BY <1>1, <1>2 DEF RunningExact
<1>9. Members(closing) = {}
  BY MembersFacts DEF TypeOK
<1>10. Answered' = Answered
  BY <1>1 DEF Answered
<1>11. NoneTwice(queue') /\ NoneTwice(closing')
  BY <1>1, <1>4 DEF NoneTwice, AnsweredOnce
<1>12. AnsweredOnce'
  BY <1>1, <1>4, <1>9, <1>10, <1>11 DEF AnsweredOnce
<1>13. Passing'
  BY <1>1, <1>4 DEF Passing
<1> QED
  BY <1>3, <1>5, <1>7, <1>8, <1>12, <1>13

(* Close answers the next of the tasks it took. *)
LEMMA CloseAnswerInv ==
    ASSUME Inv, CloseAnswer
    PROVE  Inv'
<1> USE DEF Inv
<1>1. closing \in Seq(Callers) /\ closing # <<>>
  BY DEF TypeOK, CloseAnswer
<1> DEFINE h == Head(closing)
<1>2. /\ UNCHANGED <<closed, queue, pending, loop, running, blocked, passed>>
      /\ result' = [result EXCEPT ![h] = "closed"]
  BY DEF CloseAnswer
<1>3. /\ h \in Callers
      /\ h = closing[1]
      /\ Len(closing) \in Nat
      /\ Len(closing) >= 1
      /\ closing' \in Seq(Callers)
      /\ Len(closing') = Len(closing) - 1
      /\ \A i \in 1 .. Len(closing) - 1 : closing'[i] = closing[i + 1]
      /\ Members(closing) = Members(closing') \cup {h}
  BY <1>1, TailFacts DEF CloseAnswer
<1> HIDE DEF h
<1>4. TypeOK'
  BY <1>2, <1>3 DEF TypeOK
<1>5. OnePerPeer' /\ PendingExact' /\ RunningExact' /\ Passing'
  BY <1>2 DEF OnePerPeer, PendingExact, RunningExact, Passing, Members, PeersOf
<1>6. Answered' = Answered \cup {h}
  BY <1>2, <1>3 DEF Answered, TypeOK
<1>7. \A i \in 1 .. Len(closing) - 1 : i + 1 \in 1 .. Len(closing) /\ i + 1 # 1
  BY <1>3
<1>8. 1 \in 1 .. Len(closing)
  BY <1>3
<1>9. h \notin Members(closing')
  BY <1>3, <1>7, <1>8 DEF AnsweredOnce, NoneTwice, Members
<1>10. NoneTwice(closing')
  <2> SUFFICES ASSUME NEW i \in 1 .. Len(closing'), NEW j \in 1 .. Len(closing'),
                      closing'[i] = closing'[j]
               PROVE  i = j
    BY DEF NoneTwice
  <2>1. i + 1 = j + 1
    BY <1>3, <1>7 DEF AnsweredOnce, NoneTwice
  <2> QED
    BY <2>1, <1>3
<1>11. NoneTwice(queue') /\ Members(queue)' = Members(queue)
  BY <1>2 DEF NoneTwice, AnsweredOnce, Members
<1>12. AnsweredOnce'
  BY <1>2, <1>3, <1>6, <1>9, <1>10, <1>11, NoneAssumption DEF AnsweredOnce
<1> QED
  BY <1>4, <1>5, <1>12

-----------------------------------------------------------------------------
(* Close has tasks to answer only after it closed *)
ClosingClosed == closed \/ closing = <<>>

(* The invariant is inductive. *)
LEMMA NextInv ==
    ASSUME Inv, ClosingClosed, [Next]_vars
    PROVE  Inv' /\ ClosingClosed'
<1>1. ASSUME NEW c \in Callers, Run(c) PROVE Inv' /\ ClosingClosed'
  BY <1>1, RunInv DEF Run, ClosingClosed
<1>2. ASSUME NEW c \in Callers, Receive(c) PROVE Inv' /\ ClosingClosed'
  BY <1>2, ReceiveInv DEF Receive, ClosingClosed
<1>3. CASE Wait \/ Exit
  BY <1>3, IdleInv DEF Wait, Exit, ClosingClosed
<1>4. CASE Take
  BY <1>4, TakeInv DEF Take, ClosingClosed
<1>5. CASE Finish
  BY <1>5, FinishInv DEF Finish, ClosingClosed
<1>6. CASE Deliver
  BY <1>6, DeliverInv DEF Deliver, ClosingClosed
<1>7. CASE Close
  BY <1>7, CloseInv DEF Close, ClosingClosed
<1>8. CASE CloseAnswer
  BY <1>8, CloseAnswerInv DEF CloseAnswer, ClosingClosed
<1>9. CASE UNCHANGED vars
  BY <1>9 DEF vars, Inv, ClosingClosed, TypeOK, OnePerPeer, PendingExact,
              RunningExact, AnsweredOnce, Passing, Answered, NoneTwice,
              Members, PeersOf
<1> QED
  BY <1>1, <1>2, <1>3, <1>4, <1>5, <1>6, <1>7, <1>8, <1>9 DEF Next, Worker

(* Every reachable state satisfies the invariant. *)
THEOREM Invariance == Spec => [](Inv /\ ClosingClosed)
<1>1. Init => Inv /\ ClosingClosed
  BY InitInv DEF Init, ClosingClosed
<1>2. Inv /\ ClosingClosed /\ [Next]_vars => (Inv /\ ClosingClosed)'
  BY NextInv
<1> QED
  BY <1>1, <1>2, PTL DEF Spec

(* Every variable has its type. *)
THEOREM TypeCorrect == Spec => []TypeOK
<1>1. Inv /\ ClosingClosed => TypeOK
  BY DEF Inv
<1> QED
  BY <1>1, Invariance, PTL

(* A peer never has two verifications queued or running.                     *)
THEOREM OneVerificationPerPeer == Spec => []OnePerPeer
<1>1. Inv /\ ClosingClosed => OnePerPeer
  BY DEF Inv
<1> QED
  BY <1>1, Invariance, PTL

(* No task is lost and none is answered twice.                               *)
THEOREM EveryTaskAnsweredOnce == Spec => []AnsweredOnce
<1>1. Inv /\ ClosingClosed => AnsweredOnce
  BY DEF Inv
<1> QED
  BY <1>1, Invariance, PTL

(* A queued caller is overtaken at most once by each peer.                   *)
THEOREM OvertakenAtMostOnce == Spec => []NotOvertaken
<1>1. Inv /\ ClosingClosed => NotOvertaken
  BY DEF Inv, Passing, NotOvertaken, Members
<1> QED
  BY <1>1, Invariance, PTL

(* "Queue size is therefore bounded by the node's P2P peer count."           *)
THEOREM QueueBounded ==
    ASSUME IsFiniteSet(Peers)
    PROVE  Spec => [](Len(queue) <= Cardinality(Peers))
<1>1. Inv /\ ClosingClosed => Len(queue) <= Cardinality(Peers)
  <2> SUFFICES ASSUME Inv PROVE Len(queue) <= Cardinality(Peers)
    OBVIOUS
  <2> DEFINE D == 1 .. Len(queue)
             f == [i \in D |-> PeerOf[queue[i]]]
  <2>1. Len(queue) \in Nat /\ \A i \in D : queue[i] \in Callers
    BY DEF Inv, TypeOK
  <2>2. f \in [D -> Peers]
    BY <2>1, PeerOfAssumption
  <2>3. \A i, j \in D : f[i] = f[j] => i = j
    BY DEF Inv, OnePerPeer
  <2>4. f \in Injection(D, Peers)
    BY <2>2, <2>3 DEF Injection, IsInjective
  <2>5. Cardinality(D) <= Cardinality(Peers)
    <3> HIDE DEF D, f
    <3> QED BY <2>4, FS_Injection
  <2>6. Cardinality(D) = Len(queue)
    <3>1. Cardinality(1 .. Len(queue)) =
            IF 1 > Len(queue) THEN 0 ELSE Len(queue) - 1 + 1
      <4> HIDE DEF D
      <4>1. 1 \in Int /\ Len(queue) \in Int
        BY <2>1
      <4> QED
        BY <4>1, FS_Interval
    <3> QED
      BY <3>1, <2>1
  <2> QED
    BY <2>5, <2>6
<1> QED
  BY <1>1, Invariance, PTL

=============================================================================
