----------------------------- MODULE MCWorkPool -----------------------------
(* Candidates for model checking WorkPool: two of one participant in the     *)
(* first window, one of another, and one in the second window.               *)
EXTENDS WorkPool, TLC

Candidate(p, e, n) == [participant |-> p, epoch |-> e, priority |-> n]

MCTickets ==
    {Candidate("a", 1, 1), Candidate("b", 1, 2), Candidate("a", 1, 3), Candidate("c", 2, 4)}

Symmetry == Permutations(Peers)

=============================================================================
