----------------------------- MODULE MCPurchase -----------------------------
(* PurchaseApproval for TLC.  Sessions, sweeps and guardians are           *)
(* interchangeable: no definition names one of them or orders them.        *)
EXTENDS PurchaseApproval, TLC

Symmetry ==
  Permutations(Sessions) \cup Permutations(Sweeps) \cup Permutations(Guardians)
=============================================================================
