--------------------------- MODULE EscrowContract ---------------------------
(***************************************************************************)
(* The escrow contract: milestones, disputes, cancellations, storage rent  *)
(* and the admin's switches over one shared storage and one pool of tokens.*)
(***************************************************************************)
EXTENDS EscrowMilestones, EscrowDisputes

CONSTANTS
  Terms,               \* arguments create_escrow is called with
  NewClients,          \* new_client arguments of transfer_client_role
  AmountLists,         \* milestone amounts of one (batch_)add_milestone call
  BatchLists,          \* id lists batch_approve and batch_release are called with
  TimeArguments,       \* moments and durations passed to the time-lock entry points
  ClientShares,        \* client_amount arguments of resolve_dispute
  OraclePayloads,      \* [client_bps, expires_at] the trusted oracle has signed
  ArbiterFees,         \* fee_bps arguments of set_arbiter_fee_bps
  RentPeriods,         \* additional_periods arguments of top_up_rent
  MaxRentBalance,      \* bound: no top-up beyond this reserve
  AdminActions         \* may the admin pause, freeze and unfreeze in this instance

ASSUME TermsAssumption ==
  Terms \subseteq [client : Accounts, freelancer : Accounts,
                   arbiter : Accounts \cup {None}, buyer_signers : SUBSET Accounts,
                   total_amount : Nat, deadline : OptTime, lock_time : OptTime,
                   timelock : OptTime, dispute_timeout_ledger : OptTime]
ASSUME InputAssumption ==
  /\ NewClients \subseteq Accounts
  /\ AmountLists \subseteq Seq(Nat) /\ BatchLists \subseteq Seq(Nat)
  /\ TimeArguments \subseteq Nat /\ RentPeriods \subseteq Nat /\ MaxRentBalance \in Nat
  /\ ClientShares \subseteq Int
  /\ ArbiterFees \subseteq Nat
  /\ AdminActions \in BOOLEAN
ASSUME OracleAssumption == OraclePayloads \subseteq [client_bps : 0..10000, expires_at : Nat]

-----------------------------------------------------------------------------
(* Storage rent, as entry points of its own. *)

\* get_escrow_meta and the other reads: a view settles the rent.
GetEscrowMeta(e) ==
  /\ Accessible(e)
  /\ StoreOnly(e, RentCollected(e))
  /\ UNCHANGED <<milestones, records, switches, clock>>

(* collect_rent, by anyone, paused or not. When the reserve does not cover the
   elapsed periods the escrow is deleted: the principal goes to the client and
   the milestones, the request and the slash record disappear.               *)
CollectRent(e) ==
  LET m == RentCollected(e)
      refund == Positive(m.remaining_balance + m.rent_balance)
  IN
  /\ Live(e)
  /\ IF RentHasExpired(e, m)
     THEN /\ Store(e, [NoMeta EXCEPT !.status = "Expired"], To("client", refund), 0, 0)
          /\ milestones' = [milestones EXCEPT ![e] = <<>>]
          /\ request' = [request EXCEPT ![e] = None]
          /\ slash' = [slash EXCEPT ![e] = None]
     ELSE /\ StoreOnly(e, m)
          /\ UNCHANGED <<milestones, request, slash>>
  /\ UNCHANGED <<releaseTime, indexed, feeCollected, switches, clock>>

\* top_up_rent, by the client: whole periods at the present number of entries.
TopUpRent(e, periods) ==
  LET topUp == ActiveStorageEntries(e) * periods IN
  /\ NotPaused /\ Accessible(e)
  /\ Store(e, [RentCollected(e) EXCEPT !.rent_balance = @ + topUp], NoPayment, 0, topUp)
  /\ UNCHANGED <<milestones, records, switches, clock>>

\* withdraw_rent_overpayment, by the client: what exceeds the reserve of the entries.
WithdrawRentOverpayment(e, amount) ==
  LET m == RentCollected(e) IN
  /\ NotPaused /\ Accessible(e)
  /\ amount \in 1..(m.rent_balance - ReserveForEntries(ActiveStorageEntries(e)))
  /\ Store(e, [m EXCEPT !.rent_balance = @ - amount], NoPayment, amount, 0)
  /\ UNCHANGED <<milestones, records, switches, clock>>

-----------------------------------------------------------------------------
(* The platform and its admin. *)

\* collect_escrow_fee, by the admin or the client, after the escrow has ended.
CollectEscrowFee(e) ==
  /\ NotPaused
  /\ meta[e].status \in {"Completed", "Cancelled"}
  /\ e \notin feeCollected
  /\ Representable(PlatformFee(meta[e]))
  /\ Transfer(e, NoPayment, PlatformFee(meta[e]), 0)
  /\ feeCollected' = feeCollected \cup {e}
  /\ UNCHANGED <<meta, milestones, request, slash, releaseTime, indexed, switches, clock>>

\* set_arbiter_fee_bps, by the admin, at any time.
SetArbiterFeeBps(e, bps) ==
  /\ Live(e)
  /\ bps <= 10000
  /\ meta' = [meta EXCEPT ![e].arbiter_fee_bps = bps]
  /\ UNCHANGED <<milestones, records, switches, pool, paid, clock>>

Pause ==
  /\ ~paused /\ paused' = TRUE
  /\ UNCHANGED <<meta, milestones, records, frozen, pool, paid, clock>>

Unpause ==
  /\ paused /\ paused' = FALSE
  /\ UNCHANGED <<meta, milestones, records, frozen, pool, paid, clock>>

\* freeze_escrow and unfreeze_escrow, by enough admin signers, on a live escrow.
SetFrozen(e, set) ==
  /\ Accessible(e)
  /\ StoreOnly(e, RentCollected(e))
  /\ frozen' = set
  /\ UNCHANGED <<milestones, records, paused, clock>>

FreezeEscrow(e) == SetFrozen(e, frozen \cup {e})
UnfreezeEscrow(e) == SetFrozen(e, frozen \ {e})

-----------------------------------------------------------------------------
MilestoneStep(e) ==
  \/ \E terms \in Terms : CreateEscrow(e, terms)
  \/ \E amounts \in AmountLists : AddMilestones(e, amounts)
  \/ \E i \in DOMAIN milestones[e] :
       \/ SubmitMilestone(e, i)
       \/ RejectMilestone(e, i)
       \/ RejectMilestoneWithReason(e, i)
       \/ \E caller \in Accounts :
            \/ ApproveMilestone(caller, e, i)
            \/ ReleaseFunds(caller, e, i)
            \/ ReleaseWithTimelock(caller, e, i)
  \/ \E ids \in BatchLists :
       \/ \E caller \in Accounts : BatchApproveMilestones(caller, e, ids)
       \/ BatchReleaseFunds(e, ids)
  \/ \E t \in TimeArguments :
       \/ \E caller \in Accounts : StartTimelock(caller, e, t)
       \/ ExtendLockTime(e, t)
       \/ SetTimelock(e, t)
  \/ CancelEscrow(e)
  \/ PartialCancel(e)
  \/ TriggerExpiry(e)
  \/ \E newClient \in NewClients : TransferClientRole(e, newClient)

DisputeStep(e) ==
  \/ \E caller \in Accounts :
       \/ \E target \in DOMAIN milestones[e] \cup {None} : RaiseDispute(caller, e, target)
       \/ ClaimDisputeTimeout(caller, e)
       \/ \E share \in ClientShares : ResolveDispute(caller, e, share)
       \/ RequestCancellation(caller, e)
       \/ ApproveCancellation(caller, e)
       \/ DisputeCancellation(caller, e)
       \/ \E upheld \in BOOLEAN : ResolveSlashDispute(caller, e, upheld)
  \/ \E payload \in OraclePayloads, grace \in TimeArguments \cup {0} :
       OracleResolveDispute(e, payload, grace)
  \/ ExecuteCancellation(e)
  \/ FinalizeSlash(e)
  \/ DisputeSlash(e)

RentStep(e) ==
  \/ GetEscrowMeta(e)
  \/ CollectRent(e)
  \/ /\ meta[e].rent_balance < MaxRentBalance
     /\ \E periods \in RentPeriods : TopUpRent(e, periods)
  \/ \E amount \in RentPeriods : WithdrawRentOverpayment(e, amount)

AdminStep ==
  \/ \E e \in Escrows :
       \/ CollectEscrowFee(e)
       \/ \E bps \in ArbiterFees : SetArbiterFeeBps(e, bps)
       \/ AdminActions /\ FreezeEscrow(e)
       \/ AdminActions /\ UnfreezeEscrow(e)
  \/ AdminActions /\ Pause
  \/ Unpause

Next ==
  \/ \E e \in Escrows : MilestoneStep(e) \/ DisputeStep(e) \/ RentStep(e)
  \/ AdminStep
  \/ CloseLedger

Spec == Init /\ [][Next]_vars

-----------------------------------------------------------------------------
(* Safety. *)

TypeOK == LedgerTypeOK

Open == {"Active", "Disputed", "CancellationPending"}

\* While an escrow is open its remaining_balance is exactly the principal not
\* yet paid out, whichever entry points paid it and in whatever order.
BooksExact ==
  \A e \in Escrows :
    (meta[e].status \in Open \/ request[e] # None)
      => meta[e].remaining_balance = meta[e].total_amount - Amount(paid[e])

\* While an escrow is open the freelancer has received the amounts of the
\* released milestones, each of them once, and nothing else.
FreelancerPaidForWork ==
  \A e \in Escrows : meta[e].status \in Open =>
    LET released == {i \in DOMAIN milestones[e] : milestones[e][i].status = "Released"}
    IN  /\ paid[e]["freelancer"] = SumFunction([i \in released |-> milestones[e][i].amount])
        /\ \A i \in DOMAIN milestones[e] :
             milestones[e][i].payouts = IF i \in released THEN 1 ELSE 0

\* approved_count and released_count are read instead of the milestones by the
\* completion test: they count the milestones they are named after.
CountersExact ==
  \A e \in Escrows : Live(e) =>
    LET count(statuses) ==
          Cardinality({i \in DOMAIN milestones[e] : milestones[e][i].status \in statuses})
    IN  /\ meta[e].released_count = count({"Released"})
        /\ meta[e].approved_count = count({"Approved", "Released"})

\* The milestones never promise more than total_amount, and allocated_amount is their sum.
AllocationCovered ==
  \A e \in Escrows : Live(e) =>
    /\ meta[e].allocated_amount <= meta[e].total_amount
    /\ meta[e].allocated_amount =
         SumFunction([i \in DOMAIN milestones[e] |-> milestones[e][i].amount])

\* A dispute is either one a party raised, timed by both clocks, or a disputed
\* cancellation request, timed by neither; never both.
DisputeOrigin ==
  \A e \in Escrows :
    /\ meta[e].status = "Disputed" =>
         (meta[e].dispute_start_ledger = None) = (request[e] # None)
    /\ request[e] # None => meta[e].dispute_start_ledger = None
                           /\ meta[e].dispute_started_ledger = None
    /\ meta[e].status = "Active" => request[e] = None

\* An escrow whose cancellation request is disputed has not been cancelled.
DisputedRequestStatus ==
  \A e \in Escrows :
    request[e] # None /\ request[e].disputed => meta[e].status \in {"Disputed", "Completed"}

\* A slash is held only for an ended escrow whose books are closed and whose request
\* is gone, so execute_cancellation never meets an older slash record (error E41).
SlashFollowsCancellation ==
  \A e \in Escrows : slash[e] # None =>
    /\ meta[e].status \in {"Cancelled", "Completed"}
    /\ meta[e].remaining_balance <= 0
    /\ request[e] = None

\* An open escrow is listed under its status, so a reader of the index misses none.
OpenIsListed ==
  \A e \in Escrows : meta[e].status \in Open => meta[e].status \in indexed[e]

\* Rent is charged for elapsed time only: however often an escrow is touched, its
\* rent clock never runs ahead of the ledger's.
RentClockBehind == \A e \in Escrows : meta[e].last_rent_collection_at <= now

\* The inductive invariant of the proofs: the above, and what each status says of
\* the records kept beside the meta.
IInv ==
  /\ TypeOK /\ RentClockBehind
  /\ BooksExact /\ DisputeOrigin /\ DisputedRequestStatus /\ SlashFollowsCancellation
  /\ \A e \in Escrows :
       /\ meta[e].status = "Absent" => paid[e] = NoPayment /\ request[e] = None
       /\ meta[e].status = "Active" => /\ meta[e].dispute_start_ledger = None
                                      /\ meta[e].dispute_started_ledger = None
       /\ request[e] # None =>
            meta[e].status \in {"CancellationPending", "Disputed", "Completed"}

-----------------------------------------------------------------------------
(* What a step may never do. *)

\* A released milestone is never reopened, as long as the escrow is stored.
ReleasedIsFinal ==
  [][\A e \in Escrows : Live(e)' => \A i \in DOMAIN milestones[e] :
       milestones[e][i].status = "Released" => milestones'[e][i].status = "Released"]_vars

\* Once a cancellation request is disputed, no call executes it, withdraws it or
\* clears the dispute: only the end of the rent removes it, with the escrow.
DisputedRequestBlocks ==
  [][\A e \in Escrows : request[e] # None /\ request[e].disputed =>
       \/ meta'[e].status = "Expired"
       \/ /\ request'[e] # None /\ request'[e].disputed
          /\ meta'[e].status # "Cancelled"]_vars

\* Unless it was disputed or is being cancelled, an escrow pays the freelancer
\* only when its lock_time has passed or its release time has.
NoEarlyRelease ==
  [][\A e \in Escrows :
       /\ meta[e].status \in {"Active", "CancellationPending"}
       /\ meta'[e].status # "Cancelled"
       /\ paid'[e]["freelancer"] > paid[e]["freelancer"]
       /\ meta[e].lock_time # None
       => \/ now >= meta[e].lock_time
          \/ releaseTime[e] # None /\ now >= releaseTime[e]]_vars

\* While the contract is paused no principal moves, unless the rent ran out.
PausedMovesNothing ==
  [][paused => \A e \in Escrows : paid'[e] = paid[e] \/ meta'[e].status = "Expired"]_vars

\* No call makes the rent of an accessible escrow run out, whatever it adds to or
\* takes from the escrow's entries and reserve: only time does.
CallsKeepAccess ==
  [][UNCHANGED clock => \A e \in Escrows : Accessible(e) => Accessible(e)']_vars

-----------------------------------------------------------------------------
(* Liveness. *)

\* A party of a disputed escrow keeps claiming the time-out, ledgers keep
\* closing and somebody collects the rent that is due.
Fairness ==
  /\ WF_vars(CloseLedger)
  /\ \A e \in Escrows :
       /\ WF_vars(\E caller \in Accounts : ClaimDisputeTimeout(caller, e))
       /\ WF_vars(CollectRent(e))

FairSpec == Spec /\ Fairness

\* A dispute raised with a time-out (that ends within the modelled ledgers) is
\* settled, provided the admin does not keep the contract paused or the escrow frozen.
TimedDisputeSettles ==
  \A e \in Escrows :
    <>[](~paused /\ e \notin frozen)
      => ((/\ meta[e].status = "Disputed"
           /\ meta[e].dispute_started_ledger # None
           /\ meta[e].dispute_timeout_ledger # None
           /\ meta[e].dispute_started_ledger + meta[e].dispute_timeout_ledger
                <= GENESIS_LEDGER + MaxLedger)
          ~> meta[e].status # "Disputed")
=============================================================================
