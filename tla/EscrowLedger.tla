---------------------------- MODULE EscrowLedger ----------------------------
(***************************************************************************)
(* The storage of the escrow contract and the helpers every entry point    *)
(* goes through: loading an escrow settles its storage rent, storing it    *)
(* moves tokens between the contract and the parties, and the status index *)
(* follows some of the status changes.                                     *)
(*                                                                         *)
(* A contract call is atomic: a call that returns an error (or panics) is  *)
(* rolled back by the host, so an entry point is one action whose guard is *)
(* the conjunction of the checks it passes.                                *)
(***************************************************************************)
EXTENDS Integers, Sequences, FiniteSets, FiniteSetsExt

CONSTANTS
  Escrows,                  \* escrow ids
  Accounts,                 \* addresses
  ADMIN,                    \* DataKey::Admin
  None,                     \* an absent Option<u64>, an absent Option<Address>
  MIN_ESCROW_AMOUNT, MAX_ESCROW_AMOUNT,
  MAX_I128,                 \* checked i128 arithmetic fails beyond this
  MAX_MILESTONES,
  RENT_PERIOD_SECONDS, RENT_RESERVE_PERIODS,
  AUTO_DEADLINE_EXTENSION_SECONDS,
  MAX_TIMELOCK_DURATION_SECONDS,
  DISPUTE_COOLDOWN_LEDGERS,
  CANCELLATION_DISPUTE_PERIOD, SLASH_DISPUTE_PERIOD, SLASH_PERCENTAGE,
  FEE_TIERS,                \* DataKey::PlatformFeeTiers: <<[min, bps], ...>>
  GENESIS_TIME, GENESIS_LEDGER, \* timestamp and sequence of the first ledger
  MaxLedger,                \* bound: ledgers closed after the first one
  CloseTimes,               \* seconds that may pass between two ledgers
  OtherFunds                \* tokens the contract holds for escrows outside the model

ASSUME NoneAssumption == None \notin Int /\ None \notin Accounts
ASSUME ActorAssumption == ADMIN \in Accounts
ASSUME AmountAssumption ==
  /\ MIN_ESCROW_AMOUNT \in Nat \ {0}
  /\ MAX_ESCROW_AMOUNT \in Nat
  /\ MAX_I128 \in Nat
  /\ OtherFunds \in Nat
ASSUME RentAssumption ==
  /\ RENT_PERIOD_SECONDS \in Nat \ {0}
  /\ RENT_RESERVE_PERIODS \in Nat
ASSUME TimeAssumption ==
  /\ GENESIS_TIME \in Nat /\ GENESIS_LEDGER \in Nat
  /\ MaxLedger \in Nat /\ CloseTimes \subseteq Nat
  /\ AUTO_DEADLINE_EXTENSION_SECONDS \in Nat
  /\ MAX_TIMELOCK_DURATION_SECONDS \in Nat
  /\ CANCELLATION_DISPUTE_PERIOD \in Nat
  /\ SLASH_DISPUTE_PERIOD \in Nat
  /\ DISPUTE_COOLDOWN_LEDGERS \in Nat
ASSUME LimitAssumption == MAX_MILESTONES \in Nat

VARIABLES
  meta,         \* PackedDataKey::EscrowMeta of each escrow
  milestones,   \* PackedDataKey::Milestone of each escrow, by id
  request,      \* DataKey::CancellationRequest of each escrow
  slash,        \* DataKey::SlashRecord of each escrow
  releaseTime,  \* DataKey::TimelockReleaseTime of each escrow
  indexed,      \* the DataKey::EscrowsByStatus lists an escrow appears in
  feeCollected, \* escrows whose PlatformFeeSnapshot says "collected"
  frozen,       \* escrows with DataKey::EscrowFrozen
  paused,       \* DataKey::Paused
  pool,         \* token balance of the contract
  paid,         \* history: principal of each escrow paid out, by receiving role
  now, sequence \* env.ledger().timestamp() and env.ledger().sequence()

records == <<request, slash, releaseTime, indexed, feeCollected>>
switches == <<frozen, paused>>
clock == <<now, sequence>>
vars == <<meta, milestones, records, switches, pool, paid, clock>>

-----------------------------------------------------------------------------
(* Types. "Absent" and "Expired" stand for an id without a stored EscrowMeta:
   not created yet, or deleted by expire_escrow.                             *)

EscrowStatus == {"Active", "Completed", "Disputed", "Cancelled", "CancellationPending"}
MilestoneStatus == {"Pending", "Submitted", "Approved", "Released", "Rejected", "Disputed"}
StoredStatus == EscrowStatus \cup {"Absent", "Expired"}
OptTime == Nat \cup {None}
OptAccount == Accounts \cup {None}
BasisPoints == 0..10000

EscrowMeta == [
  status : StoredStatus,
  client : OptAccount,
  freelancer : OptAccount,
  arbiter : OptAccount,
  buyer_signers : SUBSET Accounts,
  total_amount : Nat,
  allocated_amount : Nat,
  remaining_balance : Int,
  approved_count : Nat,
  released_count : Nat,
  submitted_count : Nat,
  deadline : OptTime,
  lock_time : OptTime,
  timelock : OptTime,              \* expiry: start_ledger + duration_ledger
  dispute_timeout_ledger : OptTime,
  dispute_started_ledger : OptTime,
  dispute_start_ledger : OptTime,
  rent_balance : Nat,
  last_rent_collection_at : Nat,
  arbiter_fee_bps : BasisPoints ]

\* payouts counts the transfers made for the milestone; the code does not keep it.
Milestone == [status : MilestoneStatus, amount : Nat, payouts : Nat]

CancellationRequest ==
  [requester : Accounts, dispute_deadline : Nat, disputed : BOOLEAN,
   counterparty_approved : BOOLEAN]

SlashRecord ==
  [slashed_user : Accounts, recipient : OptAccount, amount : Int, slashed_at : Nat,
   disputed : BOOLEAN]

ASSUME NoneRecordAssumption ==
  None \notin MilestoneStatus /\ None \notin CancellationRequest

Roles == {"client", "freelancer", "treasury"}
Payment == [Roles -> Int]
NoPayment == [r \in Roles |-> 0]

NoMeta == [
  status |-> "Absent", client |-> None, freelancer |-> None, arbiter |-> None,
  buyer_signers |-> {}, total_amount |-> 0, allocated_amount |-> 0,
  remaining_balance |-> 0, approved_count |-> 0, released_count |-> 0,
  submitted_count |-> 0, deadline |-> None, lock_time |-> None, timelock |-> None,
  dispute_timeout_ledger |-> None, dispute_started_ledger |-> None,
  dispute_start_ledger |-> None, rent_balance |-> 0, last_rent_collection_at |-> 0,
  arbiter_fee_bps |-> 0 ]

LedgerTypeOK ==
  /\ meta \in [Escrows -> EscrowMeta]
  /\ milestones \in [Escrows -> Seq(Milestone)]
  /\ request \in [Escrows -> CancellationRequest \cup {None}]
  /\ slash \in [Escrows -> SlashRecord \cup {None}]
  /\ releaseTime \in [Escrows -> OptTime]
  /\ indexed \in [Escrows -> SUBSET EscrowStatus]
  /\ feeCollected \subseteq Escrows
  /\ frozen \subseteq Escrows
  /\ paused \in BOOLEAN
  /\ pool \in Nat
  /\ paid \in [Escrows -> Payment]
  /\ now \in Nat /\ sequence \in Nat

Init ==
  /\ meta = [e \in Escrows |-> NoMeta]
  /\ milestones = [e \in Escrows |-> <<>>]
  /\ request = [e \in Escrows |-> None]
  /\ slash = [e \in Escrows |-> None]
  /\ releaseTime = [e \in Escrows |-> None]
  /\ indexed = [e \in Escrows |-> {}]
  /\ feeCollected = {} /\ frozen = {} /\ paused = FALSE
  /\ pool = OtherFunds
  /\ paid = [e \in Escrows |-> NoPayment]
  /\ now = GENESIS_TIME /\ sequence = GENESIS_LEDGER

-----------------------------------------------------------------------------
(* Arithmetic. *)

Representable(x) == x \in (-MAX_I128)..MAX_I128

Positive(x) == IF x > 0 THEN x ELSE 0

\* Integer division of the code truncates toward zero.
TruncDiv(x, d) == IF x >= 0 THEN x \div d ELSE -((-x) \div d)

\* The last tier whose threshold the amount reaches; no tier, no fee.
FeeBps(amount) ==
  LET reached == {i \in DOMAIN FEE_TIERS : amount >= FEE_TIERS[i].min}
  IN  IF reached = {} THEN 0 ELSE FEE_TIERS[Max(reached)].bps

PlatformFee(m) == (m.total_amount * FeeBps(m.total_amount)) \div 10000

\* No arbiter, no fee; the fee is a share of the total, not of what is left.
ArbiterFee(m) ==
  IF m.arbiter = None THEN 0 ELSE (m.total_amount * m.arbiter_fee_bps) \div 10000

-----------------------------------------------------------------------------
(* Storage rent: one token unit per storage entry and period, prepaid. *)

Live(e) == meta[e].status \in EscrowStatus

ActiveStorageEntries(e) ==
  1 + Len(milestones[e]) + (IF request[e] # None THEN 1 ELSE 0)
    + (IF slash[e] # None THEN 1 ELSE 0)

ReserveForEntries(n) == n * RENT_RESERVE_PERIODS

ElapsedPeriods(m) == (now - m.last_rent_collection_at) \div RENT_PERIOD_SECONDS

RentHasExpired(e, m) ==
  ElapsedPeriods(m) > m.rent_balance \div ActiveStorageEntries(e)

RentDue(e) ==
  LET due == ActiveStorageEntries(e) * ElapsedPeriods(meta[e])
  IN  IF due <= meta[e].rent_balance THEN due ELSE meta[e].rent_balance

RentCollectedClockKept(e) == [meta[e] EXCEPT !.rent_balance = @ - RentDue(e)]

RentCollectedRoundedUp(e) ==
  [meta[e] EXCEPT
    !.rent_balance = @ - RentDue(e),
    !.last_rent_collection_at =
       @ + (RentDue(e) \div ActiveStorageEntries(e) + 1) * RENT_PERIOD_SECONDS]

\* The meta after collect_rent_due; the rent itself goes to the admin.
RentCollected(e) ==
  [meta[e] EXCEPT
    !.rent_balance = @ - RentDue(e),
    !.last_rent_collection_at =
       @ + (RentDue(e) \div ActiveStorageEntries(e)) * RENT_PERIOD_SECONDS]

\* load_escrow_meta_with_rent succeeds; RentCollected(e) is what it returns.
Accessible(e) == Live(e) /\ ~RentHasExpired(e, meta[e])

-----------------------------------------------------------------------------
(* Token movements. *)

\* What an entry point pays of an escrow's principal, by receiving role.
To(role, amount) == [NoPayment EXCEPT ![role] = amount]
Split(toClient, toFreelancer) ==
  [NoPayment EXCEPT !["client"] = toClient, !["freelancer"] = toFreelancer]

Amount(payment) == payment["client"] + payment["freelancer"] + payment["treasury"]

TransferUnchecked(e, payment, extra, deposit) ==
  /\ pool' = pool - Amount(payment) - extra + deposit
  /\ paid' = [paid EXCEPT ![e] = [r \in Roles |-> @[r] + payment[r]]]

(* The contract sends `payment` out of the escrow's principal and `extra` on
   top of it, then receives `deposit`. A transfer it cannot cover panics.    *)
Transfer(e, payment, extra, deposit) ==
  /\ pool >= Amount(payment) + extra
  /\ pool' = pool - Amount(payment) - extra + deposit
  /\ paid' = [paid EXCEPT ![e] = [r \in Roles |-> @[r] + payment[r]]]

\* save_escrow_meta after load_escrow_meta_with_rent: the rent due leaves too.
Store(e, m, payment, extra, deposit) ==
  /\ meta' = [meta EXCEPT ![e] = m]
  /\ Transfer(e, payment, RentDue(e) + extra, deposit)

StoreOnly(e, m) == Store(e, m, NoPayment, 0, 0)

SetMilestone(e, i, ms) == milestones' = [milestones EXCEPT ![e][i] = ms]

MoveIndexDropped(e, from, to) == indexed' = [indexed EXCEPT ![e] = @ \ {from}]

\* remove_from_vec_index followed by append_to_vec_index.
MoveIndex(e, from, to) ==
  indexed' = [indexed EXCEPT ![e] = (@ \ {from}) \cup {to}]

-----------------------------------------------------------------------------
(* Checks shared by the entry points. *)

NotPausedForgotten == TRUE
NotPaused == ~paused

NotFrozen(e) == e \notin frozen
LockTimeExpiredEarly(m) == m.lock_time # None => now + 1 >= m.lock_time
LockTimeExpired(m) == m.lock_time # None => now >= m.lock_time
TimelockExpired(m) == m.timelock # None => now >= m.timelock
IsParty(m, caller) == caller \in {m.client, m.freelancer}
IsMilestone(e, i) == i \in DOMAIN milestones[e]

\* A new ledger closes: both clocks move, each in its own unit.
CloseLedger ==
  /\ sequence < GENESIS_LEDGER + MaxLedger
  /\ sequence' = sequence + 1
  /\ \E d \in CloseTimes : now' = now + d
  /\ UNCHANGED <<meta, milestones, records, switches, pool, paid>>
=============================================================================
