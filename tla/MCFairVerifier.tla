--------------------------- MODULE MCFairVerifier ---------------------------
(***************************************************************************)
(* Four peers; two handlers call for the first of them.                     *)
(***************************************************************************)
EXTENDS FairVerifier, TLC

CONSTANTS c1, c2, c3, c4, c5, p1, p2, p3, p4

MCCallers == {c1, c2, c3, c4, c5}

MCPeers == {p1, p2, p3, p4}

MCPeerOf == c1 :> p1 @@ c2 :> p1 @@ c3 :> p2 @@ c4 :> p3 @@ c5 :> p4
=============================================================================
