------------------------ MODULE GovernanceProposals -------------------------
(***************************************************************************)
(* Proposals of the governance contract: creation against a deposit, votes *)
(* weighted by tokens or locked tokens, finalisation, timelock, execution, *)
(* cancellation; and the locks that give voting power.  Deposits, locks    *)
(* and arbitrator stakes lie in one account, the one allocations are paid  *)
(* from.                                                                   *)
(***************************************************************************)
EXTENDS ArbitratorStakes, FiniteSetsExt

CONSTANTS
  Proposals,
  Voters,                  \* holders who propose, vote and lock
  ADMIN,
  Configs,                 \* GovConfig values the admin may set
  Allocations,             \* amounts of FundAllocation proposals; 0: another type
  Supplies,                \* supply_snapshot arguments
  PROPOSER_FEE, FEE_DEPOSIT_QUORUM_BPS,
  MIN_LOCK_DURATION, MAX_LOCK_DURATION,
  LockAmounts

BasisPoints == 0..10000

ASSUME ProposalAssumption ==
  /\ Voters \subseteq Members /\ ADMIN \in Members
  /\ Allocations \subseteq Nat /\ Supplies \subseteq Nat
  /\ FEE_DEPOSIT_QUORUM_BPS \in BasisPoints
  /\ MIN_LOCK_DURATION \in Nat /\ MAX_LOCK_DURATION \in Nat \ {0}
  /\ LockAmounts \subseteq Nat \ {0}
ASSUME ConfigAssumption ==
  Configs \subseteq [proposal_threshold : Nat, voting_delay : Nat, voting_period : Nat \ {0},
                     timelock_delay : Nat, quorum_bps : BasisPoints, approval_threshold_bps : BasisPoints]
ASSUME FeeAssumption == PROPOSER_FEE \in Nat \ {0}
ASSUME FiniteAssumption == IsFiniteSet(Proposals)

VARIABLES
  config,      \* DataKey::Config
  proposal,    \* DataKey::Proposal
  hasVoted,    \* DataKey::HasVoted of each proposal
  deposit,     \* DataKey::ProposalDeposit, 0 without one
  lock         \* DataKey::VeLock: amount, 0 without one, and unlock_time

proposalVars == <<config, proposal, hasVoted, deposit, lock>>
allProposalVars == <<stakeVars, proposalVars>>

NoProposal == [status |-> "none", proposer |-> ADMIN, allocation |-> 0, vote_start |-> 0,
               vote_end |-> 0, executable_at |-> 0, votes_for |-> 0, votes_against |-> 0,
               supply |-> 0]
NoLock == [amount |-> 0, unlock_time |-> 0]

ProposalsTypeOK ==
  /\ config \in Configs
  /\ \A p \in Proposals :
       /\ proposal[p].status \in {"none", "Active", "Defeated", "Queued", "Executed", "Cancelled"}
       /\ proposal[p].votes_for \in Nat /\ proposal[p].votes_against \in Nat
       /\ hasVoted[p] \subseteq Voters
  /\ deposit \in [Proposals -> {0, PROPOSER_FEE}]
  /\ lock \in [Voters -> [amount : Nat, unlock_time : Nat]]

ProposalsInit ==
  /\ config \in Configs
  /\ proposal = [p \in Proposals |-> NoProposal]
  /\ hasVoted = [p \in Proposals |-> {}]
  /\ deposit = [p \in Proposals |-> 0]
  /\ lock = [v \in Voters |-> NoLock]

StakesKept == UNCHANGED <<stake, whitelisted, now>>

-----------------------------------------------------------------------------
(* Votes. *)

VeVotingPower(v) ==
  IF lock[v].amount = 0 \/ now >= lock[v].unlock_time THEN 0
  ELSE (lock[v].amount * (lock[v].unlock_time - now)) \div MAX_LOCK_DURATION

VotingPower(v) == LET ve == VeVotingPower(v) IN IF ve > wallet[v] THEN ve ELSE wallet[v]

CreateProposal(p, proposer, allocation, supply) ==
  LET start == now + config.voting_delay
      end == start + config.voting_period
  IN  /\ proposal[p].status = "none"
      /\ VotingPower(proposer) >= config.proposal_threshold
      /\ Transfer(proposer, Governance, PROPOSER_FEE)
      /\ deposit' = [deposit EXCEPT ![p] = PROPOSER_FEE]
      /\ proposal' = [proposal EXCEPT ![p] =
           [NoProposal EXCEPT !.status = "Active", !.proposer = proposer,
              !.allocation = allocation, !.vote_start = start, !.vote_end = end,
              !.executable_at = end + config.timelock_delay, !.supply = supply]]
      /\ StakesKept /\ UNCHANGED <<config, hasVoted, lock>>

CastVote(p, v, support) ==
  /\ proposal[p].status = "Active"
  /\ proposal[p].vote_start <= now /\ now <= proposal[p].vote_end
  /\ v \notin hasVoted[p] /\ VotingPower(v) > 0
  /\ proposal' = IF support THEN [proposal EXCEPT ![p].votes_for = @ + VotingPower(v)]
                 ELSE [proposal EXCEPT ![p].votes_against = @ + VotingPower(v)]
  /\ hasVoted' = [hasVoted EXCEPT ![p] = @ \cup {v}]
  /\ UNCHANGED <<stakeVars, config, deposit, lock>>

TotalVotes(p) == proposal[p].votes_for + proposal[p].votes_against

\* Quorum of the supply the proposer named, and enough of the votes in favour.
Evaluate(p) ==
  /\ TotalVotes(p) >= (proposal[p].supply * config.quorum_bps) \div 10000
  /\ TotalVotes(p) # 0
  /\ proposal[p].votes_for >= (TotalVotes(p) * config.approval_threshold_bps) \div 10000

\* The deposit goes to `to` once: its entry is removed.
DepositRemoved(p) == deposit' = [deposit EXCEPT ![p] = 0]
DepositEntryKept(p) == UNCHANGED deposit
SettleEntry(p) == DepositRemoved(p)

PayDeposit(p, to) ==
  /\ IF deposit[p] > 0 THEN Transfer(Governance, to, deposit[p]) ELSE UNCHANGED wallet
  /\ SettleEntry(p)

FinalizeProposal(p) ==
  LET participation == (proposal[p].supply * FEE_DEPOSIT_QUORUM_BPS) \div 10000
  IN  /\ proposal[p].status = "Active" /\ now > proposal[p].vote_end
      /\ proposal' = [proposal EXCEPT ![p].status = IF Evaluate(p) THEN "Queued" ELSE "Defeated"]
      /\ PayDeposit(p, IF TotalVotes(p) >= participation THEN proposal[p].proposer ELSE Treasury)
      /\ StakesKept /\ UNCHANGED <<config, hasVoted, lock>>

ExecuteProposal(p) ==
  /\ proposal[p].status = "Queued" /\ now >= proposal[p].executable_at
  /\ Transfer(Governance, Treasury, proposal[p].allocation)
  /\ proposal' = [proposal EXCEPT ![p].status = "Executed"]
  /\ StakesKept /\ UNCHANGED <<config, hasVoted, deposit, lock>>

CancelProposal(p, caller) ==
  /\ proposal[p].status \notin {"none", "Executed", "Cancelled"}
  /\ caller \in {proposal[p].proposer, ADMIN}
  /\ proposal' = [proposal EXCEPT ![p].status = "Cancelled"]
  /\ PayDeposit(p, proposal[p].proposer)
  /\ StakesKept /\ UNCHANGED <<config, hasVoted, lock>>

\* Applies to proposals that are already under vote.
UpdateConfig(new) ==
  /\ new # config
  /\ config' = new
  /\ UNCHANGED <<stakeVars, proposal, hasVoted, deposit, lock>>

-----------------------------------------------------------------------------
(* Locks. *)

CreateLock(v, amount, duration) ==
  /\ MIN_LOCK_DURATION <= duration /\ duration <= MAX_LOCK_DURATION
  /\ lock[v].amount = 0
  /\ Transfer(v, Governance, amount)
  /\ lock' = [lock EXCEPT ![v] = [amount |-> amount, unlock_time |-> now + duration]]
  /\ StakesKept /\ UNCHANGED <<config, proposal, hasVoted, deposit>>

\* Zero stands for "no change" in both arguments.
ExtendLock(v, additional, unlock) ==
  /\ lock[v].amount # 0
  /\ unlock # 0 => lock[v].unlock_time <= unlock /\ unlock <= now + MAX_LOCK_DURATION
  /\ Transfer(v, Governance, additional)
  /\ lock' = [lock EXCEPT ![v].amount = @ + additional,
                          ![v].unlock_time = IF unlock = 0 THEN @ ELSE unlock]
  /\ StakesKept /\ UNCHANGED <<config, proposal, hasVoted, deposit>>

WithdrawLock(v) ==
  /\ lock[v].amount # 0 /\ now >= lock[v].unlock_time
  /\ Transfer(Governance, v, lock[v].amount)
  /\ lock' = [lock EXCEPT ![v] = NoLock]
  /\ StakesKept /\ UNCHANGED <<config, proposal, hasVoted, deposit>>

\* The token itself: holders pay one another, before and after voting.
MoveTokens(from, to) ==
  /\ from # to /\ wallet[from] > 0
  /\ Transfer(from, to, wallet[from])
  /\ StakesKept /\ UNCHANGED proposalVars

ProposalsNext ==
  \/ StakeStep /\ UNCHANGED proposalVars
  \/ \E p \in Proposals, v \in Voters :
       \/ \E allocation \in Allocations, supply \in Supplies : CreateProposal(p, v, allocation, supply)
       \/ \E support \in BOOLEAN : CastVote(p, v, support)
       \/ CancelProposal(p, v)
  \/ \E p \in Proposals : FinalizeProposal(p) \/ ExecuteProposal(p)
  \/ \E new \in Configs : UpdateConfig(new)
  \/ \E v \in Voters, amount \in LockAmounts, t \in 0..MaxTime :
       CreateLock(v, amount, t) \/ ExtendLock(v, amount, t)
  \/ \E v \in Voters : ExtendLock(v, 0, now + MAX_LOCK_DURATION) \/ WithdrawLock(v)
  \/ \E from, to \in Voters : MoveTokens(from, to)

ProposalsSpec == StakesInit /\ ProposalsInit /\ [][ProposalsNext]_allProposalVars

-----------------------------------------------------------------------------
(* Properties. *)

(* A proposal's deposit is held exactly while the proposal is open: finalise  *)
(* and cancel may come in any order, and neither returns a deposit twice nor  *)
(* leaves one behind.                                                         *)
DepositWhileActive ==
  \A p \in Proposals : deposit[p] > 0 <=> proposal[p].status = "Active"

Owed ==
  SumFunctionOnSet(deposit, Proposals)
    + SumFunctionOnSet([v \in Voters |-> lock[v].amount], Voters)
    + SumFunctionOnSet(stake, Members)

(* Deposits, locks and stakes share one account.  As long as no allocation    *)
(* was executed, the contract holds at least what it owes to all of them.     *)
CustodyCovered ==
  (\A p \in Proposals : proposal[p].status = "Executed" => proposal[p].allocation = 0)
    => wallet[Governance] >= Owed
=============================================================================
