-------------------------- MODULE ArbitratorStakes --------------------------
(***************************************************************************)
(* The governance token as the governance contract uses it, and the stakes *)
(* of the arbitrators: who stakes enough is whitelisted, a slash takes a   *)
(* share of the stake.  A call that fails changes nothing: the host rolls  *)
(* back what it wrote.                                                     *)
(***************************************************************************)
EXTENDS Integers, FiniteSets

CONSTANTS
  Members,          \* token holders
  Balances,         \* what each may hold at the start
  MIN_STAKE,
  SLASH_PERCENT,
  StakeAmounts,     \* arguments of stake_arbitrator
  MaxTime           \* bound: last timestamp

Governance == "governance"   \* the contract's own account
Treasury == "treasury"       \* where the admin sends what is slashed
Accounts == Members \cup {Governance, Treasury}

ASSUME StakeAssumption ==
  /\ MIN_STAKE \in Nat \ {0} /\ SLASH_PERCENT \in 0..100
  /\ StakeAmounts \subseteq Nat /\ Balances \subseteq Nat /\ MaxTime \in Nat
ASSUME AccountAssumption == Governance \notin Members /\ Treasury \notin Members
ASSUME MembersAssumption == IsFiniteSet(Members)

VARIABLES
  wallet,        \* token balance of each account
  stake,         \* DataKey::ArbitratorStake, 0 without one
  whitelisted,   \* DataKey::Arbitrator
  now            \* timestamp of the ledger

stakeVars == <<wallet, stake, whitelisted, now>>

StakesTypeOK ==
  /\ wallet \in [Accounts -> Nat] /\ stake \in [Members -> Nat]
  /\ whitelisted \subseteq Members /\ now \in 0..MaxTime

StakesInit ==
  /\ \E w \in [Members -> Balances] : wallet = [a \in Accounts |-> IF a \in Members THEN w[a] ELSE 0]
  /\ stake = [m \in Members |-> 0]
  /\ whitelisted = {} /\ now = 0

\* A transfer of the token fails when the sender holds too little.
Transfer(from, to, amount) ==
  /\ wallet[from] >= amount
  /\ wallet' = [wallet EXCEPT ![from] = @ - amount, ![to] = @ + amount]

StakeArbitrator(m, amount) ==
  /\ amount >= MIN_STAKE
  /\ Transfer(m, Governance, amount)
  /\ stake' = [stake EXCEPT ![m] = @ + amount]
  /\ whitelisted' = whitelisted \cup {m}
  /\ UNCHANGED now

RemainingStake(m, slashed) == stake[m] - slashed
RemainingUnreduced(m, slashed) == stake[m]
Remaining(m, slashed) == RemainingStake(m, slashed)

\* What is left of the stake is forgotten when it is below the minimum, although
\* the contract keeps its tokens.
SlashArbitrator(m, recipient) ==
  LET amount == (stake[m] * SLASH_PERCENT) \div 100
      remaining == Remaining(m, amount)
  IN  /\ stake[m] > 0
      /\ Transfer(Governance, recipient, amount)
      /\ stake' = [stake EXCEPT ![m] = IF remaining < MIN_STAKE THEN 0 ELSE remaining]
      /\ whitelisted' = IF remaining < MIN_STAKE THEN whitelisted \ {m} ELSE whitelisted
      /\ UNCHANGED now

CloseLedger ==
  /\ now < MaxTime
  /\ now' = now + 1
  /\ UNCHANGED <<wallet, stake, whitelisted>>

StakeStep ==
  \/ \E m \in Members, amount \in StakeAmounts : StakeArbitrator(m, amount)
  \/ \E m \in Members : SlashArbitrator(m, Treasury)
  \/ CloseLedger
=============================================================================
