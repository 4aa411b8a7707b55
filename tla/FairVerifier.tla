---------------------------- MODULE FairVerifier ----------------------------
(***************************************************************************)
(* The fair verifier of the Work V1 transport.                              *)
(*                                                                         *)
(* Peer handlers hand expensive verifications to one worker goroutine and   *)
(* block until they are answered.  A peer has at most one verification      *)
(* queued or running.  Close answers what is queued and lets the worker     *)
(* finish what it runs.                                                     *)
(*                                                                         *)
(* Every action below is one critical section of the mutex, or one send or  *)
(* receive on a result channel.  A call of Run that is refused changes      *)
(* nothing and is left out.                                                 *)
(***************************************************************************)
EXTENDS Integers, Sequences

CONSTANTS
    Callers,   \* goroutines that call Run
    Peers,     \* peer identities
    PeerOf,    \* the peer a caller calls for
    None       \* the worker holds no task

ASSUME PeerOfAssumption == PeerOf \in [Callers -> Peers]

ASSUME NoneAssumption == None \notin Callers

VARIABLES
    closed,    \* closed
    queue,     \* queue; a task is named by the caller that waits for it
    pending,   \* pending
    loop,      \* where the worker goroutine is
    running,   \* the worker's task
    closing,   \* tasks that Close has still to answer
    blocked,   \* callers waiting for a result
    result,    \* what is in the result channel of a blocked caller
    passed     \* history: tasks of a peer started while a caller was queued

vars == <<closed, queue, pending, loop, running, closing, blocked, result, passed>>

-----------------------------------------------------------------------------

Members(s) == {s[i] : i \in 1 .. Len(s)}

PeersOf(s) == {PeerOf[s[i]] : i \in 1 .. Len(s)}

(* The history of a caller that is not queued *)
Unpassed == [c \in Callers |-> [p \in Peers |-> 0]]

Init ==
    /\ closed = FALSE
    /\ queue = <<>>
    /\ pending = {}
    /\ loop = "check"
    /\ running = None
    /\ closing = <<>>
    /\ blocked = {}
    /\ result = [c \in Callers |-> "none"]
    /\ passed = Unpassed

(* Signal and Broadcast: only the worker waits on the condition *)
Woken == IF loop = "waiting" THEN "check" ELSE loop

(* Bug: the pending set is keyed by the call, not by the peer *)
Run_WrongKey(c) ==
    /\ c \notin blocked
    /\ ~ closed
    /\ PeerOf[c] \notin pending
    /\ pending' = pending \cup {c}
    /\ queue' = Append(queue, c)
    /\ loop' = Woken
    /\ blocked' = blocked \cup {c}
    /\ UNCHANGED <<closed, running, closing, result, passed>>

(* Bug: the worker is not signalled *)
Run_Unsignalled(c) ==
    /\ c \notin blocked
    /\ ~ closed
    /\ PeerOf[c] \notin pending
    /\ pending' = pending \cup {PeerOf[c]}
    /\ queue' = Append(queue, c)
    /\ blocked' = blocked \cup {c}
    /\ UNCHANGED <<closed, loop, running, closing, result, passed>>

Run(c) ==
    /\ c \notin blocked
    /\ ~ closed
    /\ PeerOf[c] \notin pending
    /\ pending' = pending \cup {PeerOf[c]}
    /\ queue' = Append(queue, c)
    /\ loop' = Woken
    /\ blocked' = blocked \cup {c}
    /\ UNCHANGED <<closed, running, closing, result, passed>>

(* The caller receives its result and Run returns *)
Receive(c) ==
    /\ c \in blocked
    /\ result[c] # "none"
    /\ blocked' = blocked \ {c}
    /\ result' = [result EXCEPT ![c] = "none"]
    /\ UNCHANGED <<closed, queue, pending, loop, running, closing, passed>>

-----------------------------------------------------------------------------
(* The worker *)

Wait ==
    /\ loop = "check"
    /\ queue = <<>>
    /\ ~ closed
    /\ loop' = "waiting"
    /\ UNCHANGED <<closed, queue, pending, running, closing, blocked, result, passed>>

Exit ==
    /\ loop = "check"
    /\ queue = <<>>
    /\ closed
    /\ loop' = "exited"
    /\ UNCHANGED <<closed, queue, pending, running, closing, blocked, result, passed>>

(* Every caller still queued sees one more task of the peer start *)
Pass(s, c) ==
    [d \in Callers |->
       IF d \in Members(s)
       THEN [passed[d] EXCEPT ![PeerOf[c]] = @ + 1]
       ELSE Unpassed[d]]

(* Bug: the peer is released when its task starts *)
Take_Releases ==
    /\ loop = "check"
    /\ queue # <<>>
    /\ running' = Head(queue)
    /\ queue' = Tail(queue)
    /\ pending' = pending \ {PeerOf[Head(queue)]}
    /\ loop' = "work"
    /\ passed' = Pass(Tail(queue), Head(queue))
    /\ UNCHANGED <<closed, closing, blocked, result>>

(* Bug: the newest task is served first *)
Take_Newest ==
    /\ loop = "check"
    /\ queue # <<>>
    /\ running' = queue[Len(queue)]
    /\ queue' = SubSeq(queue, 1, Len(queue) - 1)
    /\ loop' = "work"
    /\ passed' = Pass(SubSeq(queue, 1, Len(queue) - 1), queue[Len(queue)])
    /\ UNCHANGED <<closed, pending, closing, blocked, result>>

Take ==
    /\ loop = "check"
    /\ queue # <<>>
    /\ running' = Head(queue)
    /\ queue' = Tail(queue)
    /\ loop' = "work"
    /\ passed' = Pass(Tail(queue), Head(queue))
    /\ UNCHANGED <<closed, pending, closing, blocked, result>>

(* The work returns and the peer is released ... *)
Finish ==
    /\ loop = "work"
    /\ pending' = pending \ {PeerOf[running]}
    /\ loop' = "deliver"
    /\ UNCHANGED <<closed, queue, running, closing, blocked, result, passed>>

(* ... and then the result is sent and the channel closed. *)
Deliver ==
    /\ loop = "deliver"
    /\ result' = [result EXCEPT ![running] = "done"]
    /\ running' = None
    /\ loop' = "check"
    /\ UNCHANGED <<closed, queue, pending, closing, blocked, passed>>

-----------------------------------------------------------------------------
(* Close *)

(* Bug: Close leaves the queue to the worker too *)
Close_KeepsQueue ==
    /\ ~ closed
    /\ closed' = TRUE
    /\ closing' = queue
    /\ loop' = Woken
    /\ UNCHANGED <<queue, pending, running, blocked, result, passed>>

(* Bug: the worker is not woken *)
Close_Silent ==
    /\ ~ closed
    /\ closed' = TRUE
    /\ closing' = queue
    /\ queue' = <<>>
    /\ pending' = pending \ PeersOf(queue)
    /\ passed' = Unpassed
    /\ UNCHANGED <<loop, running, blocked, result>>

Close ==
    /\ ~ closed
    /\ closed' = TRUE
    /\ closing' = queue
    /\ queue' = <<>>
    /\ pending' = pending \ PeersOf(queue)
    /\ loop' = Woken
    /\ passed' = Unpassed
    /\ UNCHANGED <<running, blocked, result>>

(* After the unlock Close answers the tasks it took, one after the other *)
CloseAnswer ==
    /\ closing # <<>>
    /\ result' = [result EXCEPT ![Head(closing)] = "closed"]
    /\ closing' = Tail(closing)
    /\ UNCHANGED <<closed, queue, pending, loop, running, blocked, passed>>

-----------------------------------------------------------------------------

Worker == Wait \/ Exit \/ Take \/ Finish \/ Deliver

Next ==
    \/ \E c \in Callers : Run(c) \/ Receive(c)
    \/ Worker
    \/ Close
    \/ CloseAnswer

(* Goroutines that can run are run.  Nothing obliges anybody to call Run or  *)
(* Close, and work is assumed to return: it gives up when the transport is   *)
(* closed and otherwise waits for a budget that time renews.                 *)
Fairness ==
    /\ WF_vars(Worker)
    /\ WF_vars(CloseAnswer)
    /\ \A c \in Callers : WF_vars(Receive(c))

Spec == Init /\ [][Next]_vars

FairSpec == Spec /\ Fairness

-----------------------------------------------------------------------------
(* Properties *)

(* Every variable has its type. *)
TypeOK ==
    /\ closed \in BOOLEAN
    /\ queue \in Seq(Callers)
    /\ pending \subseteq Peers
    /\ loop \in {"check", "waiting", "work", "deliver", "exited"}
    /\ running \in Callers \cup {None}
    /\ closing \in Seq(Callers)
    /\ blocked \subseteq Callers
    /\ result \in [Callers -> {"none", "done", "closed"}]
    /\ passed \in [Callers -> [Peers -> Nat]]

(* "One connected peer may have at most one queued-or-running expensive      *)
(* verification", also while Close and the worker release peers.             *)
OnePerPeer ==
    /\ \A i, j \in 1 .. Len(queue) :
          PeerOf[queue[i]] = PeerOf[queue[j]] => i = j
    /\ loop = "work" =>
          \A i \in 1 .. Len(queue) : PeerOf[queue[i]] # PeerOf[running]

(* A blocked caller's task is in exactly one place: queued, with the worker, *)
(* with Close, or answered.  So no task is lost, and no result channel is    *)
(* sent to twice, which would block the sender or panic after the close.     *)
NoneTwice(s) == \A i, j \in 1 .. Len(s) : s[i] = s[j] => i = j

Answered == {c \in Callers : result[c] # "none"}

AnsweredOnce ==
    /\ blocked = (Members(queue) \cup Members(closing) \cup Answered
                    \cup {running}) \ {None}
    /\ NoneTwice(queue)
    /\ NoneTwice(closing)
    /\ Members(queue) \cap (Members(closing) \cup Answered \cup {running}) = {}
    /\ Members(closing) \cap (Answered \cup {running}) = {}
    /\ running \notin Answered

(* No peer starts two verifications while another caller is queued.          *)
NotOvertaken == \A c \in Members(queue), p \in Peers : passed[c][p] <= 1

(* Every call of Run returns, whether it is verified or closed.              *)
EveryRunReturns == \A c \in Callers : c \in blocked ~> c \notin blocked

(* After Close the worker goroutine ends.                                    *)
WorkerExits == closed ~> loop = "exited"

=============================================================================
