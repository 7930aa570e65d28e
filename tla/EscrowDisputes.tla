--------------------------- MODULE EscrowDisputes ---------------------------
(***************************************************************************)
(* The two ways an escrow ends against the will of one party: a dispute    *)
(* settled by time-out, arbiter or oracle, and a cancellation request with *)
(* its dispute window, its execution and the slash held from it.           *)
(***************************************************************************)
EXTENDS EscrowLedger

RoleOf(m, account) == IF account = m.client THEN "client" ELSE "freelancer"

-----------------------------------------------------------------------------
(* Disputes. *)

DisputeOpenedUntimed(m) ==
  [m EXCEPT !.status = "Disputed", !.dispute_started_ledger = sequence]

\* One moment is kept in ledgers, the other in seconds.
DisputeOpened(m) ==
  [m EXCEPT !.status = "Disputed",
            !.dispute_started_ledger = sequence,
            !.dispute_start_ledger = now]

(* raise_dispute, by either party; `target` is the disputed milestone or None.
   A milestone neither pending nor submitted keeps its status.               *)
RaiseDispute(caller, e, target) ==
  LET m == RentCollected(e)
      status == IF target = None THEN None ELSE milestones[e][target].status
  IN
  /\ NotPaused /\ NotFrozen(e) /\ Accessible(e)
  /\ IsParty(m, caller)
  /\ m.status = "Active"
  /\ target # None => IsMilestone(e, target)
  /\ IF status \in {"Pending", "Submitted"}
     THEN SetMilestone(e, target, [milestones[e][target] EXCEPT !.status = "Disputed"])
     ELSE UNCHANGED milestones
  /\ StoreOnly(e, [DisputeOpened(m) EXCEPT
       !.submitted_count = IF status = "Submitted" THEN Positive(@ - 1) ELSE @])
  /\ MoveIndex(e, "Active", "Disputed")
  /\ UNCHANGED <<request, slash, releaseTime, feeCollected, switches, clock>>

(* How every settlement ends: both shares are paid if positive, the arbiter's
   fee is paid on top of them, and the escrow's books are closed at zero.     *)
Settle(e, m, clientShare, freelancerShare) ==
  /\ Store(e, [m EXCEPT !.remaining_balance = 0, !.status = "Completed"],
           Split(Positive(clientShare), Positive(freelancerShare)), ArbiterFee(m), 0)
  /\ MoveIndex(e, "Disputed", "Completed")
  /\ UNCHANGED <<milestones, request, slash, releaseTime, feeCollected, switches, clock>>

TimeoutReachedInSeconds(m) ==
  /\ m.dispute_started_ledger # None /\ m.dispute_timeout_ledger # None
  /\ sequence >= m.dispute_start_ledger + m.dispute_timeout_ledger

TimeoutReached(m) ==
  /\ m.dispute_started_ledger # None /\ m.dispute_timeout_ledger # None
  /\ sequence >= m.dispute_started_ledger + m.dispute_timeout_ledger

\* claim_dispute_timeout, by either party: half each, the odd unit to the freelancer.
ClaimDisputeTimeout(caller, e) ==
  LET m == [RentCollected(e) EXCEPT !.dispute_started_ledger = None]
      half == TruncDiv(m.remaining_balance, 2)
  IN
  /\ NotPaused /\ NotFrozen(e) /\ Accessible(e)
  /\ IsParty(m, caller)
  /\ m.status = "Disputed"
  /\ TimeoutReached(meta[e])
  /\ Settle(e, m, half, m.remaining_balance - half)

\* The cooldown is counted in ledgers from a moment that was stored in seconds.
CooldownOver(m) ==
  /\ m.dispute_start_ledger # None
  /\ sequence >= m.dispute_start_ledger + DISPUTE_COOLDOWN_LEDGERS

\* resolve_dispute, by the arbiter or the admin: the shares add up, either may be negative.
ResolveDispute(caller, e, clientShare) ==
  LET m == [RentCollected(e) EXCEPT !.dispute_started_ledger = None] IN
  /\ NotPaused /\ NotFrozen(e) /\ Accessible(e)
  /\ caller \in {m.arbiter, ADMIN}
  /\ m.status = "Disputed"
  /\ CooldownOver(m)
  /\ Settle(e, m, clientShare, m.remaining_balance - clientShare)

(* oracle_resolve_dispute, by anyone holding a payload signed by the trusted
   oracle: `grace` is the caller's own argument, dispute_started_ledger and
   the freeze flag are left alone.                                           *)
OracleResolveDispute(e, payload, grace) ==
  LET m == RentCollected(e)
      clientShare == TruncDiv(m.remaining_balance * payload.client_bps, 10000)
  IN
  /\ NotPaused /\ Accessible(e)
  /\ m.status = "Disputed"
  /\ m.dispute_start_ledger # None
  /\ now >= m.dispute_start_ledger + grace
  /\ now <= payload.expires_at
  /\ Representable(clientShare)
  /\ Settle(e, m, clientShare, m.remaining_balance - clientShare)

-----------------------------------------------------------------------------
(* Cancellation requests. *)

\* request_cancellation, by either party, who pays the rent of the new entry.
RequestCancellation(caller, e) ==
  LET m == RentCollected(e) IN
  /\ NotPaused /\ Accessible(e)
  /\ IsParty(m, caller)
  /\ m.status = "Active"
  /\ request[e] = None
  /\ request' = [request EXCEPT ![e] =
       [requester |-> caller, dispute_deadline |-> now + CANCELLATION_DISPUTE_PERIOD,
        disputed |-> FALSE, counterparty_approved |-> FALSE]]
  /\ Store(e, [m EXCEPT !.status = "CancellationPending",
                        !.rent_balance = @ + ReserveForEntries(1)],
           NoPayment, 0, ReserveForEntries(1))
  /\ MoveIndex(e, "Active", "CancellationPending")
  /\ UNCHANGED <<milestones, slash, releaseTime, feeCollected, switches, clock>>

\* client_approve_cancellation, by the party that did not ask.
ApproveCancellation(caller, e) ==
  LET m == RentCollected(e) IN
  /\ NotPaused /\ Accessible(e)
  /\ request[e] # None
  /\ caller = IF request[e].requester = m.client THEN m.freelancer ELSE m.client
  /\ request' = [request EXCEPT ![e].counterparty_approved = TRUE]
  /\ StoreOnly(e, m)
  /\ UNCHANGED <<milestones, slash, releaseTime, indexed, feeCollected, switches, clock>>

CancellationDueThoughDisputed(e) ==
  /\ request[e] # None
  /\ request[e].counterparty_approved \/ now >= request[e].dispute_deadline

\* The window is over, or the other party waived it, and nobody disputed.
CancellationDue(e) ==
  /\ request[e] # None
  /\ request[e].counterparty_approved \/ now >= request[e].dispute_deadline
  /\ ~request[e].disputed

RequestKept(e) == UNCHANGED request
RemoveRequest(e) == request' = [request EXCEPT ![e] = None]

SlashAmount(balance) == TruncDiv(balance * SLASH_PERCENTAGE, 100)

(* execute_cancellation, by anyone. The requester receives what is left, less
   a slash that the contract holds for the other party. The status of the
   escrow is not checked.                                                    *)
ExecuteCancellation(e) ==
  LET m == RentCollected(e)
      requester == request[e].requester
      held == SlashAmount(m.remaining_balance)
  IN
  /\ NotPaused /\ Accessible(e)
  /\ CancellationDue(e)
  /\ slash[e] = None
  /\ Representable(held)
  /\ slash' = [slash EXCEPT ![e] =
       [slashed_user |-> requester,
        recipient |-> IF requester = m.client THEN m.freelancer ELSE m.client,
        amount |-> held, slashed_at |-> now, disputed |-> FALSE]]
  /\ Store(e, [m EXCEPT !.remaining_balance = 0, !.status = "Cancelled"],
           To(RoleOf(m, requester), Positive(m.remaining_balance - held)), 0, 0)
  /\ MoveIndex(e, "CancellationPending", "Cancelled")
  /\ feeCollected' = feeCollected \ {e}
  /\ RemoveRequest(e)
  /\ UNCHANGED <<milestones, releaseTime, switches, clock>>

(* dispute_cancellation, by anyone but the requester, whatever the status. The
   two moments from which a dispute is timed are not set.                     *)
DisputeCancellation(caller, e) ==
  /\ NotPaused /\ Accessible(e)
  /\ request[e] # None
  /\ caller # request[e].requester
  /\ ~request[e].disputed
  /\ now < request[e].dispute_deadline
  /\ request' = [request EXCEPT ![e].disputed = TRUE]
  /\ StoreOnly(e, [RentCollected(e) EXCEPT !.status = "Disputed"])
  /\ MoveIndex(e, "CancellationPending", "Disputed")
  /\ UNCHANGED <<milestones, slash, releaseTime, feeCollected, switches, clock>>

-----------------------------------------------------------------------------
(* The slash held from an executed cancellation. *)

SlashWindowOpen(e) == now < slash[e].slashed_at + SLASH_DISPUTE_PERIOD

RemoveSlash(e) == slash' = [slash EXCEPT ![e] = None]

\* finalize_slash, by anyone. The meta is loaded without its rent and not stored.
FinalizeSlash(e) ==
  /\ NotPaused /\ Live(e)
  /\ slash[e] # None /\ ~slash[e].disputed /\ ~SlashWindowOpen(e)
  /\ slash[e].amount >= 0
  /\ Transfer(e, To(RoleOf(meta[e], slash[e].recipient), slash[e].amount), 0, 0)
  /\ RemoveSlash(e)
  /\ UNCHANGED <<meta, milestones, request, releaseTime, indexed, feeCollected, switches, clock>>

\* dispute_slash, by the slashed user.
DisputeSlash(e) ==
  /\ NotPaused /\ Accessible(e)
  /\ slash[e] # None /\ ~slash[e].disputed /\ SlashWindowOpen(e)
  /\ slash' = [slash EXCEPT ![e].disputed = TRUE]
  /\ StoreOnly(e, RentCollected(e))
  /\ UNCHANGED <<milestones, request, releaseTime, indexed, feeCollected, switches, clock>>

\* resolve_slash_dispute, by the arbiter or the admin: upholding it pays nobody.
ResolveSlashDispute(caller, e, upheld) ==
  LET m == RentCollected(e) IN
  /\ NotPaused /\ Accessible(e)
  /\ caller \in {m.arbiter, ADMIN}
  /\ slash[e] # None /\ slash[e].disputed
  /\ ~upheld => slash[e].amount >= 0
  /\ Store(e, m, IF upheld THEN NoPayment
                 ELSE To(RoleOf(m, slash[e].slashed_user), slash[e].amount), 0, 0)
  /\ RemoveSlash(e)
  /\ UNCHANGED <<milestones, request, releaseTime, indexed, feeCollected, switches, clock>>
=============================================================================
