-------------------------- MODULE EscrowMilestones --------------------------
(***************************************************************************)
(* Creation of an escrow, the life of its milestones, and the ways its     *)
(* principal leaves it outside disputes: release, cancellation, expiry.    *)
(* An action without a `caller` parameter can be called by one party only, *)
(* named in its comment, or by anyone.                                     *)
(***************************************************************************)
EXTENDS EscrowLedger

-----------------------------------------------------------------------------
(* Steps shared by the entry points. *)

PendingMilestone(amount) == [status |-> "Pending", amount |-> amount, payouts |-> 0]

ReleasedUndebited(m, n, amount) == [m EXCEPT !.released_count = @ + n]
ReleasedUncounted(m, n, amount) == [m EXCEPT !.remaining_balance = @ - amount]

\* The escrow's books after `n` milestones worth `amount` were paid.
Released(m, n, amount) ==
  [m EXCEPT !.remaining_balance = @ - amount, !.released_count = @ + n]

Transferred(ms, n) == [ms EXCEPT !.payouts = @ + n]

PaidOutStatusKept(ms, n) == Transferred(ms, n)
PaidOut(ms, n) == [ms EXCEPT !.status = "Released", !.payouts = @ + n]

\* The completion test reads counters, never the milestones.
AllReleased(e, m) ==
  /\ Len(milestones[e]) > 0
  /\ m.released_count = Len(milestones[e])

CompleteIf(condition, m) ==
  IF condition THEN [m EXCEPT !.status = "Completed"] ELSE m

ReindexIf(condition, e, from, to) ==
  IF condition THEN MoveIndex(e, from, to) ELSE UNCHANGED indexed

SubmittableAgain(ms) == ms.status # "Submitted"
Submittable(ms) == ms.status \in {"Pending", "Rejected"}

AllocatedLastOnly(m, amounts) == m.allocated_amount + amounts[Len(amounts)]
AllocatedWith(m, amounts) == m.allocated_amount + SumFunction(amounts)

Times(i, ids) == Cardinality({k \in DOMAIN ids : ids[k] = i})
BatchTotal(e, ids) == SumFunction([k \in DOMAIN ids |-> milestones[e][ids[k]].amount])

\* Work submitted shortly before the deadline moves it, short of the lock time.
ExtendedDeadline(m) ==
  LET extended == now + AUTO_DEADLINE_EXTENSION_SECONDS
      close == /\ m.deadline # None
               /\ m.deadline > now
               /\ m.deadline - now < AUTO_DEADLINE_EXTENSION_SECONDS
  IN  IF close /\ (m.lock_time = None \/ extended < m.lock_time)
      THEN extended ELSE m.deadline

MayApprove(m, caller) == caller = m.client \/ caller \in m.buyer_signers

-----------------------------------------------------------------------------
(* create_escrow_internal, legacy approval policy: `terms` are its arguments.
   The client pays the principal and one entry's rent.                       *)
CreateEscrow(e, terms) ==
  /\ NotPaused
  /\ meta[e].status = "Absent"
  /\ terms.client # terms.freelancer
  /\ terms.arbiter \notin {terms.client, terms.freelancer}
  /\ terms.total_amount \in MIN_ESCROW_AMOUNT..MAX_ESCROW_AMOUNT
  /\ terms.deadline # None => terms.deadline > now
  /\ terms.lock_time # None => terms.lock_time > now
  /\ terms.timelock # None => terms.timelock \in 1..MAX_TIMELOCK_DURATION_SECONDS
  /\ Transfer(e, NoPayment, 0, terms.total_amount + ReserveForEntries(1))
  /\ meta' = [meta EXCEPT ![e] = [NoMeta EXCEPT
       !.status = "Active",
       !.client = terms.client,
       !.freelancer = terms.freelancer,
       !.arbiter = terms.arbiter,
       !.buyer_signers = terms.buyer_signers \cup {terms.client},
       !.total_amount = terms.total_amount,
       !.remaining_balance = terms.total_amount,
       !.deadline = terms.deadline,
       !.lock_time = terms.lock_time,
       !.timelock = IF terms.timelock = None THEN None ELSE now + terms.timelock,
       !.dispute_timeout_ledger = terms.dispute_timeout_ledger,
       !.rent_balance = ReserveForEntries(1),
       !.last_rent_collection_at = now]]
  /\ indexed' = [indexed EXCEPT ![e] = @ \cup {"Active"}]
  /\ UNCHANGED <<milestones, request, slash, releaseTime, feeCollected, switches, clock>>

\* add_milestone (one amount) and batch_add_milestones, by the client.
AddMilestones(e, amounts) ==
  LET m == RentCollected(e)
      allocated == AllocatedWith(m, amounts)
      reserve == ReserveForEntries(Len(amounts))
  IN
  /\ NotPaused /\ NotFrozen(e) /\ Accessible(e)
  /\ m.status = "Active"
  /\ amounts # <<>> /\ \A k \in DOMAIN amounts : amounts[k] > 0
  /\ Len(milestones[e]) + Len(amounts) <= MAX_MILESTONES
  /\ allocated \in 0..m.total_amount
  /\ milestones' = [milestones EXCEPT
       ![e] = @ \o [k \in 1..Len(amounts) |-> PendingMilestone(amounts[k])]]
  /\ Store(e, [m EXCEPT !.allocated_amount = allocated, !.rent_balance = @ + reserve],
           NoPayment, 0, reserve)
  /\ UNCHANGED <<records, switches, clock>>

\* submit_milestone, by the freelancer. The escrow's status is not checked.
SubmitMilestone(e, i) ==
  LET m == RentCollected(e) IN
  /\ NotPaused /\ NotFrozen(e) /\ Accessible(e)
  /\ IsMilestone(e, i)
  /\ Submittable(milestones[e][i])
  /\ SetMilestone(e, i, [milestones[e][i] EXCEPT !.status = "Submitted"])
  /\ StoreOnly(e, [m EXCEPT !.deadline = ExtendedDeadline(m), !.submitted_count = @ + 1])
  /\ UNCHANGED <<records, switches, clock>>

\* reject_milestone, by the client; rejecting with a reason skips the freeze check.
Reject(e, i) ==
  /\ NotPaused /\ Accessible(e)
  /\ meta[e].status = "Active"
  /\ IsMilestone(e, i) /\ milestones[e][i].status = "Submitted"
  /\ SetMilestone(e, i, [milestones[e][i] EXCEPT !.status = "Rejected"])
  /\ StoreOnly(e, [RentCollected(e) EXCEPT !.submitted_count = Positive(@ - 1)])
  /\ UNCHANGED <<records, switches, clock>>

RejectMilestone(e, i) == NotFrozen(e) /\ Reject(e, i)
RejectMilestoneWithReason(e, i) == Reject(e, i)

(* approve_milestone: pays at once unless the timelock still runs, in which
   case the milestone waits in "Approved" for a release.                     *)
ApproveMilestone(caller, e, i) ==
  LET ms == milestones[e][i]
      pays == TimelockExpired(meta[e])
      approved == [RentCollected(e) EXCEPT !.approved_count = @ + 1]
      m == IF pays THEN Released(approved, 1, ms.amount) ELSE approved
      completes == AllReleased(e, m) /\ m.approved_count = Len(milestones[e])
  IN
  /\ NotPaused /\ NotFrozen(e) /\ Accessible(e)
  /\ meta[e].status = "Active"
  /\ LockTimeExpired(meta[e]) /\ MayApprove(meta[e], caller)
  /\ IsMilestone(e, i) /\ ms.status = "Submitted"
  /\ SetMilestone(e, i, IF pays THEN PaidOut(ms, 1) ELSE [ms EXCEPT !.status = "Approved"])
  /\ Store(e, CompleteIf(completes, m), To("freelancer", IF pays THEN ms.amount ELSE 0), 0, 0)
  /\ ReindexIf(completes, e, "Active", "Completed")
  /\ UNCHANGED <<request, slash, releaseTime, feeCollected, switches, clock>>

(* batch_approve_milestones: every id is checked before any is changed, so an
   id listed twice passes twice. No freeze check, no index update.           *)
BatchApproveMilestones(caller, e, ids) ==
  LET pays == TimelockExpired(meta[e])
      total == BatchTotal(e, ids)
      approved == [RentCollected(e) EXCEPT
                     !.approved_count = @ + Len(ids),
                     !.submitted_count = Positive(@ - Len(ids))]
      m == IF pays THEN Released(approved, Len(ids), total) ELSE approved
  IN
  /\ NotPaused /\ Accessible(e)
  /\ meta[e].status = "Active"
  /\ LockTimeExpired(meta[e]) /\ MayApprove(meta[e], caller)
  /\ ids # <<>>
  /\ \A k \in DOMAIN ids :
       IsMilestone(e, ids[k]) /\ milestones[e][ids[k]].status = "Submitted"
  /\ total \in 0..MAX_I128
  /\ milestones' = [milestones EXCEPT ![e] = [i \in DOMAIN @ |->
       IF Times(i, ids) = 0 THEN @[i]
       ELSE IF pays THEN PaidOut(@[i], Times(i, ids))
       ELSE [@[i] EXCEPT !.status = "Approved"]]]
  /\ Store(e, CompleteIf(AllReleased(e, m), m),
           To("freelancer", IF pays THEN total ELSE 0), 0, 0)
  /\ UNCHANGED <<records, switches, clock>>

(* release_funds: by the admin, or by anyone once no timelock runs. The status
   of the escrow is not checked.                                              *)
ReleaseFunds(caller, e, i) ==
  LET ms == milestones[e][i]
      m == Released(RentCollected(e), 1, ms.amount)
  IN
  /\ NotPaused /\ NotFrozen(e)
  /\ IsMilestone(e, i) /\ ms.status = "Approved"
  /\ Accessible(e)
  /\ caller = ADMIN \/ TimelockExpired(m)
  /\ LockTimeExpired(m)
  /\ SetMilestone(e, i, PaidOut(ms, 1))
  /\ Store(e, CompleteIf(AllReleased(e, m), m), To("freelancer", ms.amount), 0, 0)
  /\ ReindexIf(AllReleased(e, m), e, "Active", "Completed")
  /\ UNCHANGED <<request, slash, releaseTime, feeCollected, switches, clock>>

\* batch_release_funds, by the admin: neither status nor freeze is checked.
BatchReleaseFunds(e, ids) ==
  LET total == BatchTotal(e, ids)
      m == Released(RentCollected(e), Len(ids), total)
  IN
  /\ NotPaused /\ Accessible(e)
  /\ LockTimeExpired(meta[e])
  /\ ids # <<>>
  /\ \A k \in DOMAIN ids :
       IsMilestone(e, ids[k]) /\ milestones[e][ids[k]].status = "Approved"
  /\ total \in 0..MAX_I128
  /\ milestones' = [milestones EXCEPT ![e] = [i \in DOMAIN @ |->
       IF Times(i, ids) = 0 THEN @[i] ELSE PaidOut(@[i], Times(i, ids))]]
  /\ Store(e, CompleteIf(AllReleased(e, m), m), To("freelancer", total), 0, 0)
  /\ ReindexIf(AllReleased(e, m), e, "Active", "Completed")
  /\ UNCHANGED <<request, slash, releaseTime, feeCollected, switches, clock>>

\* start_timelock, by either party, once.
StartTimelock(caller, e, duration) ==
  LET m == RentCollected(e) IN
  /\ NotPaused /\ NotFrozen(e) /\ Accessible(e)
  /\ duration \in 1..MAX_TIMELOCK_DURATION_SECONDS
  /\ IsParty(m, caller)
  /\ m.status = "Active" /\ m.timelock = None
  /\ StoreOnly(e, [m EXCEPT !.timelock = now + duration])
  /\ UNCHANGED <<milestones, records, switches, clock>>

\* extend_lock_time, by the client: any later moment, even before the current one.
ExtendLockTime(e, newLockTime) ==
  LET m == RentCollected(e) IN
  /\ NotPaused /\ Accessible(e)
  /\ m.status = "Active"
  /\ newLockTime > now
  /\ StoreOnly(e, [m EXCEPT !.lock_time = newLockTime])
  /\ UNCHANGED <<milestones, records, switches, clock>>

\* set_timelock, by the client, once.
SetTimelock(e, time) ==
  /\ NotPaused /\ NotFrozen(e) /\ Accessible(e)
  /\ meta[e].status = "Active"
  /\ time > now
  /\ releaseTime[e] = None
  /\ releaseTime' = [releaseTime EXCEPT ![e] = time]
  /\ StoreOnly(e, RentCollected(e))
  /\ UNCHANGED <<milestones, request, slash, indexed, feeCollected, switches, clock>>

\* release_with_timelock, by either party: lock_time is not checked, no index update.
ReleaseWithTimelock(caller, e, i) ==
  LET ms == milestones[e][i]
      m == Released(RentCollected(e), 1, ms.amount)
  IN
  /\ NotPaused /\ NotFrozen(e) /\ Accessible(e)
  /\ IsParty(m, caller)
  /\ m.status = "Active"
  /\ releaseTime[e] # None /\ now >= releaseTime[e]
  /\ IsMilestone(e, i) /\ ms.status = "Approved"
  /\ SetMilestone(e, i, PaidOut(ms, 1))
  /\ Store(e, CompleteIf(m.released_count >= Len(milestones[e]), m),
           To("freelancer", ms.amount), 0, 0)
  /\ UNCHANGED <<records, switches, clock>>

-----------------------------------------------------------------------------
(* Ways out for the client. *)

ApprovedDue(e) ==
  SumFunction([i \in {j \in DOMAIN milestones[e] : milestones[e][j].status = "Approved"} |->
                 milestones[e][i].amount])

(* cancel_escrow, by the client: the platform fee first, then the approved
   milestones, the rest to the client. The milestones are left "Approved".   *)
CancelEscrow(e) ==
  LET m == RentCollected(e)
      fee == IF PlatformFee(m) > m.remaining_balance
             THEN m.remaining_balance ELSE PlatformFee(m)
      due == ApprovedDue(e)
      refund == m.remaining_balance - fee - due
  IN
  /\ NotPaused /\ NotFrozen(e) /\ Accessible(e)
  /\ m.status = "Active"
  /\ Representable(fee) /\ Representable(due)
  /\ refund >= 0
  /\ milestones' = [milestones EXCEPT ![e] = [i \in DOMAIN @ |->
       IF @[i].status = "Approved" THEN Transferred(@[i], 1) ELSE @[i]]]
  /\ Store(e, [m EXCEPT !.remaining_balance = 0, !.status = "Cancelled"],
           [client |-> refund, freelancer |-> due, treasury |-> Positive(fee)], 0, 0)
  /\ MoveIndex(e, "Active", "Cancelled")
  /\ feeCollected' = feeCollected \ {e}
  /\ UNCHANGED <<request, slash, releaseTime, switches, clock>>

\* partial_cancel, by the client: what is not allocated goes back, total_amount stays.
PartialCancel(e) ==
  LET m == RentCollected(e)
      unallocated == Positive(m.remaining_balance - m.allocated_amount)
  IN
  /\ NotPaused /\ NotFrozen(e) /\ Accessible(e)
  /\ m.status = "Active"
  /\ Store(e, [m EXCEPT !.remaining_balance = @ - unallocated],
           To("client", unallocated), 0, 0)
  /\ UNCHANGED <<milestones, records, switches, clock>>

\* trigger_expiry, by anyone: no rent is settled, approved milestones do not matter.
TriggerExpiry(e) ==
  /\ NotPaused
  /\ meta[e].status = "Active"
  /\ meta[e].deadline # None /\ now > meta[e].deadline
  /\ meta' = [meta EXCEPT ![e].remaining_balance = 0, ![e].status = "Cancelled"]
  /\ Transfer(e, To("client", Positive(meta[e].remaining_balance)), 0, 0)
  /\ UNCHANGED <<milestones, records, switches, clock>>

\* transfer_client_role, by the client. buyer_signers keeps the old client.
TransferClientRole(e, newClient) ==
  LET m == RentCollected(e) IN
  /\ NotPaused /\ Accessible(e)
  /\ m.status = "Active"
  /\ newClient \notin {m.freelancer, m.arbiter}
  /\ StoreOnly(e, [m EXCEPT !.client = newClient])
  /\ UNCHANGED <<milestones, records, switches, clock>>
=============================================================================
