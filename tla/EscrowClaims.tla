---------------------------- MODULE EscrowClaims ----------------------------
(***************************************************************************)
(* What the repository's documents and comments say of the contract, where *)
(* the code does something else.                                           *)
(***************************************************************************)
EXTENDS EscrowContract

\* docs/security-model.md: "Contract Token Balance >= sum of Unreleased Escrow
\* Funds. The contract can never be rendered insolvent."
Solvent ==
  pool >= OtherFunds + SumFunction([e \in Escrows |-> Positive(meta[e].remaining_balance)])

\* docs/security-model.md: "Terminal states (Completed, Cancelled, Expired) are
\* irreversible." Deletion of an unpaid escrow's storage is not held against it.
TerminalIrreversible ==
  [][\A e \in Escrows : meta[e].status \in {"Completed", "Cancelled"} =>
       meta'[e].status \in {meta[e].status, "Expired"}]_vars
=============================================================================
