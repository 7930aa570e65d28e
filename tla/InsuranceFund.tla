--------------------------- MODULE InsuranceFund ----------------------------
(***************************************************************************)
(* The insurance contract: contributions, claims that governors vote on    *)
(* and the fund pays, and the stakes beside them: yield from platform fees *)
(* through an accumulator, and slashes by vote.  All tokens lie in one     *)
(* account.  A call that fails changes nothing.  The statistics, the claim *)
(* cap and the reentrancy lock, which no call finds taken, are left out.   *)
(***************************************************************************)
EXTENDS Integers, FiniteSetsExt

CONSTANTS
  Stakers, Governors, Claims, Slashes,
  Contributions, ClaimAmounts, StakeArgs, Fees,    \* arguments of the calls
  SlashShares,        \* slash_bps arguments
  Quorums,            \* quorum values the admin may set
  YIELD_PRECISION,
  MaxFund, MaxFees    \* bounds

DEFAULT_MAX_SLASH_BPS == 4000

ASSUME InsuranceAssumption ==
  /\ Contributions \cup ClaimAmounts \cup StakeArgs \cup Fees \subseteq Nat \ {0}
  /\ SlashShares \subseteq 1..DEFAULT_MAX_SLASH_BPS /\ Quorums \subseteq Nat \ {0}
  /\ YIELD_PRECISION \in Nat \ {0} /\ MaxFund \in Nat /\ MaxFees \in Nat
ASSUME StakersAssumption == IsFiniteSet(Stakers)

VARIABLES
  fund,        \* token balance of the contract
  stakeOf,     \* DataKey::Stake: amount, 0 without a record, and reward_debt
  nominal,     \* DataKey::StakeTotal
  pool,        \* DataKey::StakePool
  acc,         \* DataKey::YieldAccumulator
  claim,       \* DataKey::Claim, with whether the time has passed expires_at
  slash,       \* DataKey::SlashProposal
  votedOn,     \* DataKey::Vote and DataKey::SlashVote
  governors,   \* DataKey::Governor
  quorum,      \* DataKey::Quorum
  feesAdded,   \* history: fees announced for the stakers
  yieldPaid    \* history: yield transferred to the stakers

stakingVars == <<stakeOf, nominal, pool, acc, feesAdded, yieldPaid>>
votingVars == <<claim, slash, votedOn, governors, quorum>>
insuranceVars == <<fund, stakingVars, votingVars>>

NoStakeRecord == [amount |-> 0, reward_debt |-> 0]
NoClaim == [status |-> "none", votes_for |-> 0, votes_against |-> 0, amount |-> 0, expired |-> FALSE]
NoSlash == [status |-> "none", votes_for |-> 0, votes_against |-> 0, slash_bps |-> 0]

InsuranceTypeOK ==
  /\ fund \in 0..MaxFund /\ stakeOf \in [Stakers -> [amount : Nat, reward_debt : 0..acc]]
  /\ nominal \in Nat /\ pool \in Nat /\ acc \in Nat
  /\ \A c \in Claims : claim[c].status \in {"none", "Pending", "Approved", "Rejected", "Paid", "Withdrawn"}
  /\ \A s \in Slashes : slash[s].status \in {"none", "Pending", "Approved", "Rejected", "Executed"}
  /\ votedOn \in [Claims \cup Slashes -> SUBSET Governors] /\ governors \subseteq Governors
  /\ quorum \in Quorums

InsuranceInit ==
  /\ fund = 0 /\ nominal = 0 /\ pool = 0 /\ acc = 0 /\ feesAdded = 0 /\ yieldPaid = 0
  /\ stakeOf = [k \in Stakers |-> NoStakeRecord]
  /\ claim = [c \in Claims |-> NoClaim] /\ slash = [s \in Slashes |-> NoSlash]
  /\ votedOn = [m \in Claims \cup Slashes |-> {}]
  /\ governors = {} /\ quorum \in Quorums

\* Also the plain transfer that comes with announced fees.
Contribute(amount) ==
  /\ fund + amount <= MaxFund
  /\ fund' = fund + amount
  /\ UNCHANGED <<stakingVars, votingVars>>

-----------------------------------------------------------------------------
(* Claims and slashes under vote. *)

SubmitClaim(c, amount) ==
  /\ claim[c].status = "none"
  /\ claim' = [claim EXCEPT ![c] = [NoClaim EXCEPT !.status = "Pending", !.amount = amount]]
  /\ UNCHANGED <<fund, stakingVars, slash, votedOn, governors, quorum>>

WithdrawClaim(c) ==
  /\ claim[c].status = "Pending"
  /\ claim' = [claim EXCEPT ![c].status = "Withdrawn"]
  /\ UNCHANGED <<fund, stakingVars, slash, votedOn, governors, quorum>>

\* The ledger's time passes expires_at.
ClaimExpires(c) ==
  /\ claim[c].status = "Pending" /\ ~claim[c].expired
  /\ claim' = [claim EXCEPT ![c].expired = TRUE]
  /\ UNCHANGED <<fund, stakingVars, slash, votedOn, governors, quorum>>

\* The motion with one more vote.
Counted(motion, approve) ==
  IF approve THEN [motion EXCEPT !.votes_for = @ + 1] ELSE [motion EXCEPT !.votes_against = @ + 1]

Decided(motion) == motion.votes_for + motion.votes_against >= quorum

\* For a claim the votes in favour must also outnumber those against.
ClaimOutcome(motion) ==
  IF ~Decided(motion) THEN "Pending"
  ELSE IF motion.votes_for >= quorum /\ motion.votes_for > motion.votes_against
       THEN "Approved" ELSE "Rejected"

SlashOutcome(motion) ==
  IF ~Decided(motion) THEN "Pending"
  ELSE IF motion.votes_for >= quorum THEN "Approved" ELSE "Rejected"

MayVote(g, motion) == g \in governors /\ g \notin votedOn[motion]

\* A vote on a claim past its expiry marks it Rejected and then fails, which
\* rolls the mark back: the claim stays Pending.
Vote(g, c, approve) ==
  LET counted == Counted(claim[c], approve)
  IN  /\ MayVote(g, c) /\ claim[c].status = "Pending" /\ ~claim[c].expired
      /\ claim' = [claim EXCEPT ![c] = [counted EXCEPT !.status = ClaimOutcome(counted)]]
      /\ votedOn' = [votedOn EXCEPT ![c] = @ \cup {g}]
      /\ UNCHANGED <<fund, stakingVars, slash, governors, quorum>>

\* Out of the whole balance, the stakers' principal included.
ExecutePayout(c) ==
  /\ claim[c].status = "Approved" /\ fund >= claim[c].amount
  /\ claim' = [claim EXCEPT ![c].status = "Paid"]
  /\ fund' = fund - claim[c].amount
  /\ UNCHANGED <<stakingVars, slash, votedOn, governors, quorum>>

ProposeSlash(g, s, share) ==
  /\ g \in governors /\ slash[s].status = "none"
  /\ slash' = [slash EXCEPT ![s] = [NoSlash EXCEPT !.status = "Pending", !.slash_bps = share]]
  /\ UNCHANGED <<fund, stakingVars, claim, votedOn, governors, quorum>>

VoteSlash(g, s, approve) ==
  LET counted == Counted(slash[s], approve)
  IN  /\ MayVote(g, s) /\ slash[s].status = "Pending"
      /\ slash' = [slash EXCEPT ![s] = [counted EXCEPT !.status = SlashOutcome(counted)]]
      /\ votedOn' = [votedOn EXCEPT ![s] = @ \cup {g}]
      /\ UNCHANGED <<fund, stakingVars, claim, governors, quorum>>

\* No more than the balance is taken.
ExecuteSlash(s) ==
  LET due == (pool * slash[s].slash_bps) \div 10000
      taken == IF due <= fund THEN due ELSE fund
  IN  /\ slash[s].status = "Approved"
      /\ fund' = fund - taken /\ pool' = pool - taken
      /\ slash' = [slash EXCEPT ![s].status = "Executed"]
      /\ UNCHANGED <<stakeOf, nominal, acc, feesAdded, yieldPaid, claim, votedOn, governors, quorum>>

AddGovernor(g) ==
  /\ g \notin governors
  /\ governors' = governors \cup {g}
  /\ UNCHANGED <<fund, stakingVars, claim, slash, votedOn, quorum>>

RemoveGovernor(g) ==
  /\ g \in governors
  /\ governors' = governors \ {g}
  /\ UNCHANGED <<fund, stakingVars, claim, slash, votedOn, quorum>>

SetQuorum(q) ==
  /\ q # quorum
  /\ quorum' = q
  /\ UNCHANGED <<fund, stakingVars, claim, slash, votedOn, governors>>

-----------------------------------------------------------------------------
(* Stakes. *)

PendingYield(k) == (stakeOf[k].amount * (acc - stakeOf[k].reward_debt)) \div YIELD_PRECISION

\* stake and unstake pay what is pending if the fund can, and drop it if not.
Settled(k) == IF PendingYield(k) <= fund THEN PendingYield(k) ELSE 0

DebtCleared(k) == acc
DebtKept(k) == stakeOf[k].reward_debt
NewDebt(k) == DebtCleared(k)

Stake(k, amount) ==
  /\ fund - Settled(k) + amount <= MaxFund
  /\ fund' = fund - Settled(k) + amount
  /\ yieldPaid' = yieldPaid + Settled(k)
  /\ stakeOf' = [stakeOf EXCEPT ![k] = [amount |-> @.amount + amount,
                   reward_debt |-> IF @.amount = 0 THEN acc ELSE NewDebt(k)]]
  /\ nominal' = nominal + amount /\ pool' = pool + amount
  /\ UNCHANGED <<acc, feesAdded, votingVars>>

ShareOfPool(amount) == (amount * pool) \div nominal
NominalShare(amount) == amount
Returned(amount) == ShareOfPool(amount)

Unstake(k, amount) ==
  /\ amount <= stakeOf[k].amount
  /\ fund - Settled(k) >= Returned(amount)
  /\ fund' = fund - Settled(k) - Returned(amount)
  /\ yieldPaid' = yieldPaid + Settled(k)
  /\ stakeOf' = [stakeOf EXCEPT ![k] = IF @.amount = amount THEN NoStakeRecord
                   ELSE [amount |-> @.amount - amount, reward_debt |-> acc]]
  /\ nominal' = nominal - amount /\ pool' = pool - Returned(amount)
  /\ UNCHANGED <<acc, feesAdded, votingVars>>

\* The tokens are transferred separately, if at all.
AddPlatformFees(amount) ==
  /\ nominal > 0 /\ feesAdded + amount <= MaxFees
  /\ acc' = acc + (amount * YIELD_PRECISION) \div nominal
  /\ feesAdded' = feesAdded + amount
  /\ UNCHANGED <<fund, stakeOf, nominal, pool, yieldPaid, votingVars>>

ClaimYield(k) ==
  /\ PendingYield(k) > 0 /\ fund >= PendingYield(k)
  /\ fund' = fund - PendingYield(k)
  /\ yieldPaid' = yieldPaid + PendingYield(k)
  /\ stakeOf' = [stakeOf EXCEPT ![k].reward_debt = acc]
  /\ UNCHANGED <<nominal, pool, acc, feesAdded, votingVars>>

InsuranceNext ==
  \/ \E amount \in Contributions : Contribute(amount)
  \/ \E c \in Claims :
       \/ \E amount \in ClaimAmounts : SubmitClaim(c, amount)
       \/ \E g \in Governors, approve \in BOOLEAN : Vote(g, c, approve)
       \/ WithdrawClaim(c) \/ ClaimExpires(c) \/ ExecutePayout(c)
  \/ \E s \in Slashes :
       \/ \E g \in Governors, share \in SlashShares : ProposeSlash(g, s, share)
       \/ \E g \in Governors, approve \in BOOLEAN : VoteSlash(g, s, approve)
       \/ ExecuteSlash(s)
  \/ \E g \in Governors : AddGovernor(g) \/ RemoveGovernor(g)
  \/ \E q \in Quorums : SetQuorum(q)
  \/ \E k \in Stakers, amount \in StakeArgs : Stake(k, amount) \/ Unstake(k, amount)
  \/ \E amount \in Fees : AddPlatformFees(amount)
  \/ \E k \in Stakers : ClaimYield(k)

InsuranceSpec == InsuranceInit /\ [][InsuranceNext]_insuranceVars

-----------------------------------------------------------------------------
(* Properties. *)

(* Whatever order of stakes, slashes and withdrawals, StakeTotal is the sum   *)
(* of the records and the pool never exceeds it: nobody gets back more than   *)
(* the stake, and the last staker empties the pool.                           *)
PoolWithinStakes ==
  /\ nominal = SumFunctionOnSet([k \in Stakers |-> stakeOf[k].amount], Stakers)
  /\ 0 <= pool /\ pool <= nominal

(* The accumulator never promises more than the fees announced: what was paid *)
(* and what is pending, whoever joined, left or claimed in between, is        *)
(* covered by them in spite of the rounding.                                  *)
YieldWithinFees ==
  yieldPaid + SumFunctionOnSet([k \in Stakers |-> PendingYield(k)], Stakers) <= feesAdded
=============================================================================
