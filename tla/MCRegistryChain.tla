-------------------------- MODULE MCRegistryChain --------------------------
(* The operations that the owners of addresses sign in the runs of           *)
(* RegistryChain.                                                            *)
EXTENDS RegistryChain

Op(a, action, sequence, validUntil) ==
    [Address |-> a, Action |-> action, Sequence |-> sequence,
     ValidUntil |-> validUntil]

\* Address 2 leaves and returns, in one block or in several, and sends a
\* heartbeat; address 3 registers where the registry has been emptied.
LeaveAndReturn ==
    {Op(2, "EXIT", 1, 3), Op(2, "REGISTER", 2, 3), Op(2, "HEARTBEAT", 3, 4),
     Op(3, "REGISTER", 1, 4)}

\* Three addresses contend for a pool of two.  The later operation of
\* address 2 replaces the earlier one.
Contended ==
    {Op(1, "HEARTBEAT", 1, 2), Op(2, "HEARTBEAT", 1, 1), Op(2, "EXIT", 2, 3),
     Op(3, "REGISTER", 1, 3)}

Registration == {Op(2, "REGISTER", 1, 4)}

NoOperations == {}
=============================================================================
