------------------------------ MODULE MCSafety ------------------------------
(***************************************************************************)
(* Components without common state, checked for safety in one run: a       *)
(* behaviour belongs to one of them, chosen at the start.  Holders who     *)
(* neither vote nor propose have no tokens in the part about proposals.    *)
(***************************************************************************)
EXTENDS RefreshTokens, Idempotency, EscrowRows, GovernanceProposals, ArbitratorPanels, InsuranceFund

VARIABLE part

allVars == <<part, tokenVars, idempotencyVars, rowVars, stakeVars, proposalVars, panelVars,
             insuranceVars>>

GovConfigs ==
  {[proposal_threshold |-> 1, voting_delay |-> 1, voting_period |-> 1, timelock_delay |-> 1,
    quorum_bps |-> q, approval_threshold_bps |-> 5000] : q \in {4000, 10000}}

PanelTime == 1    \* bound: last timestamp of the part about panels

MCInit ==
  /\ part \in {"tokens", "idempotency", "rows", "proposals", "panels", "insurance"}
  /\ TokensInit /\ IdempotencyInit /\ RowsInit
  /\ StakesInit /\ ProposalsInit /\ PanelsInit /\ InsuranceInit
  /\ IF part = "proposals" THEN \A m \in Members : wallet[m] > 0 <=> m \in Voters
     ELSE \A m \in Members : wallet[m] > 0
  /\ part # "proposals" => config = CHOOSE c \in Configs : TRUE
  /\ quorum = CHOOSE q \in Quorums : TRUE

MCNext ==
  /\ UNCHANGED part
  /\ \/ /\ part = "tokens" /\ TokensNext
        /\ UNCHANGED <<idempotencyVars, rowVars, stakeVars, proposalVars, panelVars, insuranceVars>>
     \/ /\ part = "idempotency" /\ IdempotencyNext
        /\ UNCHANGED <<tokenVars, rowVars, stakeVars, proposalVars, panelVars, insuranceVars>>
     \/ /\ part = "rows" /\ RowsNext
        /\ UNCHANGED <<tokenVars, idempotencyVars, stakeVars, proposalVars, panelVars, insuranceVars>>
     \/ /\ part = "proposals" /\ ProposalsNext
        /\ UNCHANGED <<tokenVars, idempotencyVars, rowVars, panelVars, insuranceVars>>
     \/ /\ part = "panels" /\ PanelsNext /\ now' <= PanelTime
        /\ UNCHANGED <<tokenVars, idempotencyVars, rowVars, proposalVars, insuranceVars>>
     \/ /\ part = "insurance" /\ InsuranceNext
        /\ UNCHANGED <<tokenVars, idempotencyVars, rowVars, stakeVars, proposalVars, panelVars>>

MCSpec == MCInit /\ [][MCNext]_allVars
=============================================================================
