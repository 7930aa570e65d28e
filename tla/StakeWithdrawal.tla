-------------------------- MODULE StakeWithdrawal ---------------------------
(***************************************************************************)
(* withdraw_stake: the first call is to start a cooldown, a later one to   *)
(* return the stake.  The first call writes the cooldown and returns an    *)
(* error, so the host rolls the write back.                                *)
(***************************************************************************)
EXTENDS ArbitratorStakes

CONSTANTS
  WITHDRAW_COOLDOWN,
  None               \* no cooldown running; not a number

VARIABLE cooldown    \* DataKey::WithdrawCooldown, as the time left

withdrawalVars == <<stakeVars, cooldown>>

WithdrawalInit == StakesInit /\ cooldown = [m \in Members |-> None]

\* Err(StakeCooldownActive): whatever the call wrote is undone.
RolledBack == UNCHANGED withdrawalVars

WithdrawStake(m) ==
  /\ stake[m] > 0
  /\ \/ cooldown[m] # 0 /\ RolledBack
     \/ /\ cooldown[m] = 0
        /\ Transfer(Governance, m, stake[m])
        /\ stake' = [stake EXCEPT ![m] = 0]
        /\ whitelisted' = whitelisted \ {m}
        /\ cooldown' = [cooldown EXCEPT ![m] = None]
        /\ UNCHANGED now

TimePasses ==
  /\ cooldown' = [m \in Members |-> IF cooldown[m] \in Nat \ {0} THEN cooldown[m] - 1 ELSE cooldown[m]]
  /\ UNCHANGED stakeVars

WithdrawalNext ==
  \/ StakeStep /\ UNCHANGED cooldown
  \/ TimePasses
  \/ \E m \in Members : WithdrawStake(m)

\* Time passes, and a staker who wants the stake back keeps calling.
WithdrawalFairness ==
  /\ WF_withdrawalVars(TimePasses)
  /\ \A m \in Members : WF_withdrawalVars(WithdrawStake(m))

WithdrawalSpec == WithdrawalInit /\ [][WithdrawalNext]_withdrawalVars /\ WithdrawalFairness

(* The comment of withdraw_stake: "Sets a cooldown on first call; tokens are *)
(* returned on second call after cooldown."  A staker who keeps calling gets *)
(* the stake back in the end.                                                *)
StakeReturned == \A m \in Members : stake[m] > 0 ~> stake[m] = 0
=============================================================================
