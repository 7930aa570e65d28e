-------------------------- MODULE EscrowStepProofs --------------------------
(***************************************************************************)
(* More about single steps of the escrow contract: what a pause stops,     *)
(* that released milestones stay released, that the status index lists     *)
(* every open escrow, that nothing is released before its time, and that   *)
(* only time ends the access to an escrow.  They rest on IInv.             *)
(***************************************************************************)
EXTENDS EscrowContractProofs

-----------------------------------------------------------------------------
(* The pause. *)

MovesNothing ==
  \A f \in Escrows : paid'[f] = paid[f] \/ meta'[f].status = "Expired"

\* Every entry point of the milestones tests the flag.
LEMMA MilestoneStepUnpaused ==
  ASSUME NEW e \in Escrows, MilestoneStep(e)
  PROVE  NotPaused
<1>1. ASSUME NEW terms \in Terms, CreateEscrow(e, terms) PROVE NotPaused
  BY <1>1 DEF CreateEscrow
<1>2. ASSUME NEW amounts \in AmountLists, AddMilestones(e, amounts) PROVE NotPaused
  BY <1>2 DEF AddMilestones
<1>3. ASSUME NEW i \in DOMAIN milestones[e], NEW caller \in Accounts,
             \/ SubmitMilestone(e, i) \/ RejectMilestone(e, i)
             \/ RejectMilestoneWithReason(e, i)
             \/ ApproveMilestone(caller, e, i) \/ ReleaseFunds(caller, e, i)
             \/ ReleaseWithTimelock(caller, e, i)
      PROVE  NotPaused
  BY <1>3 DEF SubmitMilestone, RejectMilestone, RejectMilestoneWithReason, Reject,
              ApproveMilestone, ReleaseFunds, ReleaseWithTimelock
<1>4. ASSUME NEW ids \in BatchLists, NEW caller \in Accounts,
             BatchApproveMilestones(caller, e, ids) \/ BatchReleaseFunds(e, ids)
      PROVE  NotPaused
  BY <1>4 DEF BatchApproveMilestones, BatchReleaseFunds
<1>5. ASSUME NEW t \in TimeArguments, NEW caller \in Accounts,
             StartTimelock(caller, e, t) \/ ExtendLockTime(e, t) \/ SetTimelock(e, t)
      PROVE  NotPaused
  BY <1>5 DEF StartTimelock, ExtendLockTime, SetTimelock
<1>6. CASE CancelEscrow(e) \/ PartialCancel(e) \/ TriggerExpiry(e)
  BY <1>6 DEF CancelEscrow, PartialCancel, TriggerExpiry
<1>7. ASSUME NEW newClient \in NewClients, TransferClientRole(e, newClient)
      PROVE  NotPaused
  BY <1>7 DEF TransferClientRole
<1>8. ADMIN \in Accounts
  BY ActorAssumption
<1> QED
  BY <1>1, <1>2, <1>3, <1>4, <1>5, <1>6, <1>7, <1>8 DEF MilestoneStep

\* So does every entry point of the disputes and cancellations.
LEMMA DisputeStepUnpaused ==
  ASSUME NEW e \in Escrows, DisputeStep(e)
  PROVE  NotPaused
<1>1. ASSUME NEW caller \in Accounts, NEW target \in DOMAIN milestones[e] \cup {None},
             RaiseDispute(caller, e, target)
      PROVE  NotPaused
  BY <1>1 DEF RaiseDispute
<1>2. ASSUME NEW caller \in Accounts,
             \/ ClaimDisputeTimeout(caller, e) \/ RequestCancellation(caller, e)
             \/ ApproveCancellation(caller, e) \/ DisputeCancellation(caller, e)
      PROVE  NotPaused
  BY <1>2 DEF ClaimDisputeTimeout, RequestCancellation, ApproveCancellation, DisputeCancellation
<1>3. ASSUME NEW caller \in Accounts, NEW share \in ClientShares, ResolveDispute(caller, e, share)
      PROVE  NotPaused
  BY <1>3 DEF ResolveDispute
<1>4. ASSUME NEW caller \in Accounts, NEW upheld \in BOOLEAN, ResolveSlashDispute(caller, e, upheld)
      PROVE  NotPaused
  BY <1>4 DEF ResolveSlashDispute
<1>5. ASSUME NEW payload \in OraclePayloads, NEW grace \in TimeArguments \cup {0},
             OracleResolveDispute(e, payload, grace)
      PROVE  NotPaused
  BY <1>5 DEF OracleResolveDispute
<1>6. CASE ExecuteCancellation(e) \/ FinalizeSlash(e) \/ DisputeSlash(e)
  BY <1>6 DEF ExecuteCancellation, FinalizeSlash, DisputeSlash
<1> QED
  BY <1>1, <1>2, <1>3, <1>4, <1>5, <1>6 DEF DisputeStep

\* Storing an escrow without a payment moves no principal.
LEMMA StoreOnlyMovesNothing ==
  ASSUME IInv, NEW e \in Escrows, NEW m, StoreOnly(e, m)
  PROVE  MovesNothing
<1>1. TypeOK /\ RentClockBehind
  BY DEF IInv
<1>2. paid' = [paid EXCEPT ![e] = paid[e]]
  BY <1>1, StoreUnpaid DEF StoreOnly
<1> QED
  BY <1>1, <1>2 DEF MovesNothing, TypeOK, LedgerTypeOK

\* Of the rent's entry points only the expiry pays principal, paused or not.
LEMMA RentStepMovesNothing ==
  ASSUME IInv, paused, NEW e \in Escrows, RentStep(e)
  PROVE  MovesNothing
<1>1. CASE GetEscrowMeta(e)
  BY <1>1, StoreOnlyMovesNothing DEF GetEscrowMeta
<1>2. CASE CollectRent(e)
  <2>1. CASE RentHasExpired(e, RentCollected(e))
    <3>1. PICK payment :
            /\ meta' = [meta EXCEPT ![e] = [NoMeta EXCEPT !.status = "Expired"]]
            /\ paid' = [paid EXCEPT ![e] = [r \in Roles |-> @[r] + payment[r]]]
      BY <1>2, <2>1 DEF CollectRent, Store, Transfer
    <3>2. /\ meta \in [Escrows -> EscrowMeta] /\ paid \in [Escrows -> Payment]
      BY DEF IInv, TypeOK, LedgerTypeOK
    <3>3. [NoMeta EXCEPT !.status = "Expired"].status = "Expired"
      BY DEF NoMeta
    <3> QED
      BY <3>1, <3>2, <3>3 DEF MovesNothing
  <2>2. CASE ~RentHasExpired(e, RentCollected(e))
    BY <1>2, <2>2, StoreOnlyMovesNothing DEF CollectRent
  <2> QED
    BY <2>1, <2>2
<1>3. ASSUME NEW n \in RentPeriods, TopUpRent(e, n) \/ WithdrawRentOverpayment(e, n)
      PROVE  FALSE
  BY <1>3 DEF TopUpRent, WithdrawRentOverpayment, NotPaused
<1> QED
  BY <1>1, <1>2, <1>3 DEF RentStep

\* The admin's calls pay no principal.
LEMMA AdminStepMovesNothing ==
  ASSUME IInv, paused, AdminStep
  PROVE  MovesNothing
<1>1. ASSUME UNCHANGED paid PROVE MovesNothing
  BY <1>1 DEF MovesNothing
<1>2. ASSUME NEW e \in Escrows, CollectEscrowFee(e) PROVE FALSE
  BY <1>2 DEF CollectEscrowFee, NotPaused
<1>3. ASSUME NEW e \in Escrows, NEW bps \in ArbiterFees, SetArbiterFeeBps(e, bps)
      PROVE  MovesNothing
  BY <1>1, <1>3 DEF SetArbiterFeeBps
<1>4. ASSUME NEW e \in Escrows, FreezeEscrow(e) \/ UnfreezeEscrow(e) PROVE MovesNothing
  BY <1>4, StoreOnlyMovesNothing DEF FreezeEscrow, UnfreezeEscrow, SetFrozen
<1>5. CASE Pause \/ Unpause
  BY <1>1, <1>5 DEF Pause, Unpause
<1> QED
  BY <1>2, <1>3, <1>4, <1>5 DEF AdminStep

\* No step pays principal while the contract is paused, except the expiry of the rent.
LEMMA PausedStep ==
  ASSUME IInv, paused, [Next]_vars
  PROVE  MovesNothing
<1>1. ASSUME NEW e \in Escrows, MilestoneStep(e) \/ DisputeStep(e) PROVE FALSE
  BY <1>1, MilestoneStepUnpaused, DisputeStepUnpaused DEF NotPaused
<1>2. ASSUME NEW e \in Escrows, RentStep(e) PROVE MovesNothing
  BY <1>2, RentStepMovesNothing
<1>3. CASE AdminStep
  BY <1>3, AdminStepMovesNothing
<1>4. CASE CloseLedger
  BY <1>4 DEF CloseLedger, MovesNothing
<1>5. CASE UNCHANGED vars
  BY <1>5 DEF vars, MovesNothing
<1> QED
  BY <1>1, <1>2, <1>3, <1>4, <1>5 DEF Next

(* While the contract is paused no entry point moves principal, except the    *)
(* end of an escrow whose rent ran out.                                       *)
THEOREM PauseStopsPayments == Spec => PausedMovesNothing
<1>1. IInv /\ [Next]_vars =>
        [paused => \A e \in Escrows : paid'[e] = paid[e] \/ meta'[e].status = "Expired"]_vars
  BY PausedStep DEF MovesNothing
<1> QED
  BY <1>1, InvariantHolds, PTL DEF Spec, PausedMovesNothing

-----------------------------------------------------------------------------
(* Released milestones. *)

ReleasedKept ==
  \A f \in Escrows : Live(f)' => \A i \in DOMAIN milestones[f] :
    milestones[f][i].status = "Released" => milestones'[f][i].status = "Released"

\* Milestones that do not change keep their status.
LEMMA MilestonesSame ==
  ASSUME UNCHANGED milestones PROVE ReleasedKept
  BY DEF ReleasedKept

\* One milestone changes, and not from "Released" to anything else.
LEMMA OneMilestoneChanged ==
  ASSUME TypeOK, NEW e \in Escrows, NEW i, IsMilestone(e, i), NEW ms, SetMilestone(e, i, ms),
         milestones[e][i].status = "Released" => ms.status = "Released"
  PROVE  ReleasedKept
<1>1. milestones \in [Escrows -> Seq(Milestone)]
  BY DEF TypeOK, LedgerTypeOK
<1>2. /\ milestones' = [milestones EXCEPT ![e] = [milestones[e] EXCEPT ![i] = ms]]
      /\ i \in DOMAIN milestones[e]
  BY <1>1 DEF SetMilestone, IsMilestone
<1>3. \A j \in DOMAIN milestones[e] :
        milestones'[e][j] = IF j = i THEN ms ELSE milestones[e][j]
  BY <1>1, <1>2
<1>4. \A f \in Escrows \ {e} : milestones'[f] = milestones[f]
  BY <1>1, <1>2
<1> QED
  BY <1>3, <1>4 DEF ReleasedKept

\* What the milestones of an escrow become keeps the released ones.
ReleasedIn(e, F) ==
  \A j \in DOMAIN milestones[e] :
    milestones[e][j].status = "Released" => F[j].status = "Released"

\* Each milestone of an escrow becomes something that keeps "Released".
LEMMA AllMilestonesChanged ==
  ASSUME TypeOK, NEW e \in Escrows, NEW F, milestones' = [milestones EXCEPT ![e] = F],
         ReleasedIn(e, F)
  PROVE  ReleasedKept
<1>1. milestones \in [Escrows -> Seq(Milestone)]
  BY DEF TypeOK, LedgerTypeOK
<1>2. milestones'[e] = F /\ \A f \in Escrows \ {e} : milestones'[f] = milestones[f]
  BY <1>1
<1> QED
  BY <1>2 DEF ReleasedKept, ReleasedIn

\* Paying a milestone out releases it; a mere transfer leaves its status alone.
LEMMA PaidOutIsReleased ==
  ASSUME NEW ms \in Milestone, NEW n
  PROVE  /\ PaidOut(ms, n).status = "Released"
         /\ Transferred(ms, n).status = ms.status
  BY DEF PaidOut, Transferred, Milestone

\* No entry point of the milestones reopens a released one.
LEMMA MilestoneStepKeepsReleased ==
  ASSUME IInv, NEW e \in Escrows, MilestoneStep(e)
  PROVE  ReleasedKept
<1>1. TypeOK /\ milestones \in [Escrows -> Seq(Milestone)]
  BY DEF IInv, TypeOK, LedgerTypeOK
<1>2. ASSUME NEW i, IsMilestone(e, i) PROVE milestones[e][i] \in Milestone
  BY <1>1, <1>2, MilestoneOf
<1>3. ASSUME NEW terms \in Terms, CreateEscrow(e, terms) PROVE ReleasedKept
  BY <1>3, MilestonesSame DEF CreateEscrow
<1>4. ASSUME NEW amounts \in AmountLists, AddMilestones(e, amounts) PROVE ReleasedKept
  <2> DEFINE added == [k \in 1..Len(amounts) |-> PendingMilestone(amounts[k])]
  <2>1. milestones' = [milestones EXCEPT ![e] = milestones[e] \o added]
    BY <1>1, <1>4 DEF AddMilestones
  <2>2. amounts \in Seq(Nat)
    BY ArgumentTypes
  <2>3. \A k \in 1..Len(amounts) : PendingMilestone(amounts[k]) \in Milestone
    BY <2>2 DEF PendingMilestone, Milestone, MilestoneStatus
  <2>4. added \in Seq(Milestone) /\ milestones[e] \in Seq(Milestone)
    BY <1>1, <2>2, <2>3
  <2> HIDE DEF added
  <2>5. \A j \in DOMAIN milestones[e] : (milestones[e] \o added)[j] = milestones[e][j]
    BY <2>4
  <2> DEFINE F == milestones[e] \o added
  <2>6. ReleasedIn(e, F)
    BY <2>5 DEF ReleasedIn
  <2>7. milestones' = [milestones EXCEPT ![e] = F]
    BY <2>1
  <2> HIDE DEF F
  <2> QED
    BY <1>1, <2>6, <2>7, AllMilestonesChanged
<1>5. ASSUME NEW i, SubmitMilestone(e, i) PROVE ReleasedKept
  <2>1. /\ IsMilestone(e, i) /\ Submittable(milestones[e][i])
        /\ SetMilestone(e, i, [milestones[e][i] EXCEPT !.status = "Submitted"])
    BY <1>5 DEF SubmitMilestone
  <2> QED
    BY <1>1, <2>1, OneMilestoneChanged DEF Submittable
<1>6. ASSUME NEW i, RejectMilestone(e, i) \/ RejectMilestoneWithReason(e, i)
      PROVE  ReleasedKept
  <2>1. /\ IsMilestone(e, i) /\ milestones[e][i].status = "Submitted"
        /\ SetMilestone(e, i, [milestones[e][i] EXCEPT !.status = "Rejected"])
    BY <1>6 DEF RejectMilestone, RejectMilestoneWithReason, Reject
  <2> QED
    BY <1>1, <2>1, OneMilestoneChanged
<1>7. ASSUME NEW i, NEW caller, ApproveMilestone(caller, e, i) PROVE ReleasedKept
  <2>1. /\ IsMilestone(e, i) /\ milestones[e][i].status = "Submitted"
        /\ SetMilestone(e, i, IF TimelockExpired(meta[e]) THEN PaidOut(milestones[e][i], 1)
                              ELSE [milestones[e][i] EXCEPT !.status = "Approved"])
    BY <1>7 DEF ApproveMilestone
  <2> QED
    BY <1>1, <2>1, OneMilestoneChanged
<1>8. ASSUME NEW i, NEW caller, ReleaseFunds(caller, e, i) \/ ReleaseWithTimelock(caller, e, i)
      PROVE  ReleasedKept
  <2>1. IsMilestone(e, i) /\ SetMilestone(e, i, PaidOut(milestones[e][i], 1))
    BY <1>8 DEF ReleaseFunds, ReleaseWithTimelock
  <2>2. PaidOut(milestones[e][i], 1).status = "Released"
    BY <1>2, <2>1, PaidOutIsReleased
  <2> QED
    BY <1>1, <2>1, <2>2, OneMilestoneChanged
<1>9. ASSUME NEW ids, NEW caller, BatchApproveMilestones(caller, e, ids)
      PROVE  ReleasedKept
  <2> DEFINE F == [i \in DOMAIN milestones[e] |->
                     IF Times(i, ids) = 0 THEN milestones[e][i]
                     ELSE IF TimelockExpired(meta[e]) THEN PaidOut(milestones[e][i], Times(i, ids))
                     ELSE [milestones[e][i] EXCEPT !.status = "Approved"]]
  <2>1. milestones' = [milestones EXCEPT ![e] = F]
    BY <1>1, <1>9 DEF BatchApproveMilestones
  <2>2. \A k \in DOMAIN ids :
          IsMilestone(e, ids[k]) /\ milestones[e][ids[k]].status = "Submitted"
    BY <1>9 DEF BatchApproveMilestones
  <2>3. ASSUME NEW j \in DOMAIN milestones[e], milestones[e][j].status = "Released"
        PROVE  F[j].status = "Released"
    <3>1. \A k \in DOMAIN ids : ids[k] # j
      BY <2>2, <2>3
    <3>2. {k \in DOMAIN ids : ids[k] = j} = {}
      BY <3>1
    <3>3. Times(j, ids) = 0
      BY <3>2, FS_EmptySet DEF Times
    <3> QED
      BY <2>3, <3>3
  <2>4. ReleasedIn(e, F)
    BY <2>3 DEF ReleasedIn
  <2> HIDE DEF F
  <2> QED
    BY <1>1, <2>1, <2>4, AllMilestonesChanged
<1>10. ASSUME NEW ids, BatchReleaseFunds(e, ids) PROVE ReleasedKept
  <2> DEFINE F == [i \in DOMAIN milestones[e] |->
                     IF Times(i, ids) = 0 THEN milestones[e][i]
                     ELSE PaidOut(milestones[e][i], Times(i, ids))]
  <2>1. milestones' = [milestones EXCEPT ![e] = F]
    BY <1>1, <1>10 DEF BatchReleaseFunds
  <2>2. ASSUME NEW j \in DOMAIN milestones[e], milestones[e][j].status = "Released"
        PROVE  F[j].status = "Released"
    <3>1. PaidOut(milestones[e][j], Times(j, ids)).status = "Released"
      BY <1>1, PaidOutIsReleased
    <3> QED
      BY <2>2, <3>1
  <2>3. ReleasedIn(e, F)
    BY <2>2 DEF ReleasedIn
  <2> HIDE DEF F
  <2> QED
    BY <1>1, <2>1, <2>3, AllMilestonesChanged
<1>11. ASSUME NEW t, NEW caller,
              StartTimelock(caller, e, t) \/ ExtendLockTime(e, t) \/ SetTimelock(e, t)
       PROVE  ReleasedKept
  BY <1>11, MilestonesSame DEF StartTimelock, ExtendLockTime, SetTimelock
<1>12. CASE CancelEscrow(e)
  <2> DEFINE F == [i \in DOMAIN milestones[e] |->
                     IF milestones[e][i].status = "Approved" THEN Transferred(milestones[e][i], 1)
                     ELSE milestones[e][i]]
  <2>1. milestones' = [milestones EXCEPT ![e] = F]
    BY <1>1, <1>12 DEF CancelEscrow
  <2>2. ReleasedIn(e, F)
    BY DEF ReleasedIn
  <2> HIDE DEF F
  <2> QED
    BY <1>1, <2>1, <2>2, AllMilestonesChanged
<1>13. CASE PartialCancel(e) \/ TriggerExpiry(e)
  BY <1>13, MilestonesSame DEF PartialCancel, TriggerExpiry
<1>14. ASSUME NEW newClient \in NewClients, TransferClientRole(e, newClient)
       PROVE  ReleasedKept
  BY <1>14, MilestonesSame DEF TransferClientRole
<1> QED
  BY <1>3, <1>4, <1>5, <1>6, <1>7, <1>8, <1>9, <1>10, <1>11, <1>12, <1>13, <1>14
     DEF MilestoneStep

\* Nor does one of the disputes.
LEMMA DisputeStepKeepsReleased ==
  ASSUME IInv, NEW e \in Escrows, DisputeStep(e)
  PROVE  ReleasedKept
<1>1. TypeOK
  BY DEF IInv
<1>2. ASSUME NEW caller, NEW target, RaiseDispute(caller, e, target) PROVE ReleasedKept
  <2>1. CASE target # None /\ milestones[e][target].status \in {"Pending", "Submitted"}
    <3>1. /\ IsMilestone(e, target)
          /\ SetMilestone(e, target, [milestones[e][target] EXCEPT !.status = "Disputed"])
      BY <1>2, <2>1 DEF RaiseDispute
    <3> QED
      BY <1>1, <2>1, <3>1, OneMilestoneChanged
  <2>2. CASE target = None \/ milestones[e][target].status \notin {"Pending", "Submitted"}
    <3>1. None \notin {"Pending", "Submitted"}
      BY NoneRecordAssumption DEF MilestoneStatus
    <3>2. UNCHANGED milestones
      BY <1>2, <2>2, <3>1 DEF RaiseDispute
    <3> QED
      BY <3>2, MilestonesSame
  <2> QED
    BY <2>1, <2>2
<1>3. ASSUME NEW caller, NEW share,
             ClaimDisputeTimeout(caller, e) \/ ResolveDispute(caller, e, share)
      PROVE  ReleasedKept
  BY <1>3, MilestonesSame DEF ClaimDisputeTimeout, ResolveDispute, Settle
<1>4. ASSUME NEW caller,
             \/ RequestCancellation(caller, e) \/ ApproveCancellation(caller, e)
             \/ DisputeCancellation(caller, e)
      PROVE  ReleasedKept
  BY <1>4, MilestonesSame DEF RequestCancellation, ApproveCancellation, DisputeCancellation
<1>5. ASSUME NEW caller, NEW upheld, ResolveSlashDispute(caller, e, upheld) PROVE ReleasedKept
  BY <1>5, MilestonesSame DEF ResolveSlashDispute
<1>6. ASSUME NEW payload, NEW grace, OracleResolveDispute(e, payload, grace) PROVE ReleasedKept
  BY <1>6, MilestonesSame DEF OracleResolveDispute, Settle
<1>7. CASE ExecuteCancellation(e) \/ FinalizeSlash(e) \/ DisputeSlash(e)
  BY <1>7, MilestonesSame DEF ExecuteCancellation, FinalizeSlash, DisputeSlash
<1> QED
  BY <1>2, <1>3, <1>4, <1>5, <1>6, <1>7 DEF DisputeStep

\* Deleting an escrow deletes its milestones; nothing else of the rent touches any.
LEMMA RentStepKeepsReleased ==
  ASSUME IInv, NEW e \in Escrows, RentStep(e)
  PROVE  ReleasedKept
<1>1. CASE GetEscrowMeta(e)
  BY <1>1, MilestonesSame DEF GetEscrowMeta
<1>2. CASE CollectRent(e)
  <2>1. CASE RentHasExpired(e, RentCollected(e))
    <3>1. /\ meta' = [meta EXCEPT ![e] = [NoMeta EXCEPT !.status = "Expired"]]
          /\ milestones' = [milestones EXCEPT ![e] = <<>>]
      BY <1>2, <2>1 DEF CollectRent, Store
    <3>2. meta \in [Escrows -> EscrowMeta] /\ milestones \in [Escrows -> Seq(Milestone)]
      BY DEF IInv, TypeOK, LedgerTypeOK
    <3>3. meta'[e].status = "Expired"
      BY <3>1, <3>2 DEF NoMeta
    <3>4. ~Live(e)'
      BY <3>3 DEF Live, EscrowStatus
    <3>5. \A f \in Escrows \ {e} : milestones'[f] = milestones[f]
      BY <3>1, <3>2
    <3> QED
      BY <3>4, <3>5 DEF ReleasedKept
  <2>2. CASE ~RentHasExpired(e, RentCollected(e))
    BY <1>2, <2>2, MilestonesSame DEF CollectRent
  <2> QED
    BY <2>1, <2>2
<1>3. ASSUME NEW n, TopUpRent(e, n) \/ WithdrawRentOverpayment(e, n) PROVE ReleasedKept
  BY <1>3, MilestonesSame DEF TopUpRent, WithdrawRentOverpayment
<1> QED
  BY <1>1, <1>2, <1>3 DEF RentStep

\* No step reopens a released milestone of a stored escrow.
LEMMA ReleasedStep ==
  ASSUME IInv, [Next]_vars
  PROVE  ReleasedKept
<1>1. ASSUME NEW e \in Escrows, MilestoneStep(e) \/ DisputeStep(e) \/ RentStep(e)
      PROVE  ReleasedKept
  BY <1>1, MilestoneStepKeepsReleased, DisputeStepKeepsReleased, RentStepKeepsReleased
<1>2. CASE AdminStep
  BY <1>2, MilestonesSame DEF AdminStep, CollectEscrowFee, SetArbiterFeeBps, FreezeEscrow,
                              UnfreezeEscrow, SetFrozen, Pause, Unpause
<1>3. CASE CloseLedger \/ UNCHANGED vars
  BY <1>3, MilestonesSame DEF CloseLedger, vars
<1> QED
  BY <1>1, <1>2, <1>3 DEF Next

(* No entry point takes a milestone out of "Released" while the escrow is     *)
(* stored: what was paid is not submitted, approved or paid a second time.    *)
THEOREM ReleasedForGood == Spec => ReleasedIsFinal
<1>1. IInv /\ [Next]_vars =>
        [\A e \in Escrows : Live(e)' => \A i \in DOMAIN milestones[e] :
           milestones[e][i].status = "Released" => milestones'[e][i].status = "Released"]_vars
  BY ReleasedStep DEF ReleasedKept
<1> QED
  BY <1>1, InvariantHolds, PTL DEF Spec, ReleasedIsFinal
-----------------------------------------------------------------------------
(* The status index. *)

\* An escrow that is stored keeps its listed status, leaves the open ones, or is
\* moved to the list of its new status.
LEMMA ListedStep ==
  ASSUME TypeOK, OpenIsListed, NEW e \in Escrows, NEW m, meta' = [meta EXCEPT ![e] = m],
         \/ UNCHANGED indexed /\ m.status \in {meta[e].status, "Completed", "Cancelled", "Expired"}
         \/ \E from, to : MoveIndex(e, from, to) /\ m.status \in {to, "Completed", "Cancelled"}
  PROVE  OpenIsListed'
<1>1. /\ meta \in [Escrows -> EscrowMeta]
      /\ \A f \in Escrows : indexed[f] \in SUBSET EscrowStatus
      /\ DOMAIN indexed = Escrows
  BY DEF TypeOK, LedgerTypeOK
<1>2. meta'[e] = m /\ \A f \in Escrows \ {e} : meta'[f] = meta[f]
  BY <1>1
<1>3. \A f \in Escrows \ {e} : indexed'[f] = indexed[f]
  BY <1>1 DEF MoveIndex
<1>4. m.status \in Open => m.status \in indexed'[e]
  BY <1>1 DEF MoveIndex, OpenIsListed, Open
<1> QED
  BY <1>2, <1>3, <1>4 DEF OpenIsListed

\* What touches neither the escrows nor the index keeps them consistent.
LEMMA ListedUntouched ==
  ASSUME OpenIsListed, UNCHANGED <<meta, indexed>>
  PROVE  OpenIsListed'
  BY DEF OpenIsListed

\* What rent collection returns is a meta with the status that was stored.
LEMMA CollectedStatus ==
  ASSUME TypeOK, RentClockBehind, NEW e \in Escrows
  PROVE  RentCollected(e) \in EscrowMeta /\ RentCollected(e).status = meta[e].status
  BY RentCollectedOrdinary DEF Ordinary

\* Most entry points store the escrow with other fields changed, if at all.
LEMMA StoredKeepsListed ==
  ASSUME IInv, OpenIsListed, NEW e \in Escrows, NEW m, meta' = [meta EXCEPT ![e] = m],
         m.status = RentCollected(e).status, UNCHANGED indexed
  PROVE  OpenIsListed'
<1>1. TypeOK /\ RentClockBehind
  BY DEF IInv
<1> QED
  BY <1>1, CollectedStatus, ListedStep

\* The case of most entry points: fields other than the status.
LEMMA OtherFieldsListed ==
  ASSUME IInv, OpenIsListed, NEW e \in Escrows, NEW v,
         \/ meta' = [meta EXCEPT ![e] = RentCollected(e)]
         \/ meta' = [meta EXCEPT ![e] = [RentCollected(e) EXCEPT !.deadline = v]]
         \/ meta' = [meta EXCEPT ![e] = [RentCollected(e) EXCEPT !.submitted_count = v]]
         \/ meta' = [meta EXCEPT ![e] = [RentCollected(e) EXCEPT !.timelock = v]]
         \/ meta' = [meta EXCEPT ![e] = [RentCollected(e) EXCEPT !.lock_time = v]]
         \/ meta' = [meta EXCEPT ![e] = [RentCollected(e) EXCEPT !.remaining_balance = v]]
         \/ meta' = [meta EXCEPT ![e] = [RentCollected(e) EXCEPT !.client = v]]
         \/ meta' = [meta EXCEPT ![e] = [RentCollected(e) EXCEPT !.rent_balance = v]],
         UNCHANGED indexed
  PROVE  OpenIsListed'
<1> DEFINE c == RentCollected(e)
<1>1. c \in EscrowMeta
  BY CollectedStatus DEF IInv
<1> HIDE DEF c
<1>2. /\ [c EXCEPT !.deadline = v].status = c.status
      /\ [c EXCEPT !.submitted_count = v].status = c.status
      /\ [c EXCEPT !.timelock = v].status = c.status
      /\ [c EXCEPT !.lock_time = v].status = c.status
      /\ [c EXCEPT !.remaining_balance = v].status = c.status
      /\ [c EXCEPT !.client = v].status = c.status
      /\ [c EXCEPT !.rent_balance = v].status = c.status
  BY <1>1 DEF EscrowMeta
<1>3. PICK m : meta' = [meta EXCEPT ![e] = m] /\ m.status = c.status
  BY <1>2 DEF c
<1> QED
  BY <1>3, StoredKeepsListed DEF c

Completed(m) == [m EXCEPT !.status = "Completed"]

\* The case of the entry points that pay: the escrow is completed, with or without
\* its move to the other list, or keeps its status.
LEMMA CompletionListed ==
  ASSUME IInv, OpenIsListed, NEW e \in Escrows, NEW m \in EscrowMeta,
         m.status = meta[e].status,
         \/ meta' = [meta EXCEPT ![e] = m] /\ UNCHANGED indexed
         \/ /\ meta' = [meta EXCEPT ![e] = Completed(m)]
            /\ UNCHANGED indexed \/ MoveIndex(e, "Active", "Completed")
  PROVE  OpenIsListed'
<1>1. TypeOK
  BY DEF IInv
<1>2. Completed(m).status = "Completed"
  BY DEF Completed, EscrowMeta
<1>3. CASE meta' = [meta EXCEPT ![e] = m] /\ UNCHANGED indexed
  BY <1>1, <1>3, ListedStep
<1>4. CASE meta' = [meta EXCEPT ![e] = Completed(m)] /\ UNCHANGED indexed
  BY <1>1, <1>2, <1>4, ListedStep
<1>5. CASE meta' = [meta EXCEPT ![e] = Completed(m)] /\ MoveIndex(e, "Active", "Completed")
  BY <1>1, <1>2, <1>5, ListedStep
<1> QED
  BY <1>3, <1>4, <1>5

\* As CompletionListed, in the terms the entry points use.
LEMMA CompleteIfListed ==
  ASSUME IInv, OpenIsListed, NEW e \in Escrows, NEW m \in EscrowMeta,
         m.status = meta[e].status, NEW condition,
         meta' = [meta EXCEPT ![e] = CompleteIf(condition, m)],
         UNCHANGED indexed \/ ReindexIf(condition, e, "Active", "Completed")
  PROVE  OpenIsListed'
<1>1. CASE condition
  BY <1>1, CompletionListed DEF CompleteIf, ReindexIf, Completed
<1>2. CASE ~condition
  BY <1>2, CompletionListed DEF CompleteIf, ReindexIf
<1> QED
  BY <1>1, <1>2

\* The books after a payment are a meta with the same status.
LEMMA ReleasedMeta ==
  ASSUME NEW c \in EscrowMeta, NEW n \in Nat, NEW amount \in Int
  PROVE  Released(c, n, amount) \in EscrowMeta /\ Released(c, n, amount).status = c.status
<1> DEFINE b == [c EXCEPT !.remaining_balance = c.remaining_balance - amount]
           d == [b EXCEPT !.released_count = c.released_count + n]
<1>1. c.remaining_balance \in Int /\ c.released_count \in Nat
  BY DEF EscrowMeta
<1>2. Released(c, n, amount) = d
  BY DEF Released, EscrowMeta
<1>3. b \in EscrowMeta /\ b.status = c.status
  BY <1>1, PutRemainingBalance DEF EscrowMeta
<1>4. d \in EscrowMeta /\ d.status = c.status
  <2>1. c.released_count + n \in Nat
    BY <1>1
  <2> HIDE DEF b
  <2> QED
    BY <1>3, <2>1, PutReleasedCount DEF EscrowMeta
<1> QED
  BY <1>2, <1>4

\* The entry points of the milestones keep every open escrow listed.
LEMMA MilestoneStepListed ==
  ASSUME IInv, OpenIsListed, NEW e \in Escrows, MilestoneStep(e)
  PROVE  OpenIsListed'
<1> DEFINE c == RentCollected(e)
<1>1. TypeOK /\ c \in EscrowMeta /\ c.status = meta[e].status
  BY CollectedStatus DEF IInv
<1> HIDE DEF c
<1>2. ASSUME NEW terms \in Terms, CreateEscrow(e, terms) PROVE OpenIsListed'
  <2>1. PICK m : meta' = [meta EXCEPT ![e] = m] /\ m.status = "Active"
    <3> DEFINE m == [NoMeta EXCEPT
          !.status = "Active", !.client = terms.client, !.freelancer = terms.freelancer,
          !.arbiter = terms.arbiter, !.buyer_signers = terms.buyer_signers \cup {terms.client},
          !.total_amount = terms.total_amount, !.remaining_balance = terms.total_amount,
          !.deadline = terms.deadline, !.lock_time = terms.lock_time,
          !.timelock = IF terms.timelock = None THEN None ELSE now + terms.timelock,
          !.dispute_timeout_ledger = terms.dispute_timeout_ledger,
          !.rent_balance = ReserveForEntries(1), !.last_rent_collection_at = now]
    <3>1. meta' = [meta EXCEPT ![e] = m]
      BY <1>2 DEF CreateEscrow
    <3>2. m.status = "Active"
      BY DEF NoMeta
    <3> QED
      BY <3>1, <3>2
  <2>2. indexed' = [indexed EXCEPT ![e] = @ \cup {"Active"}]
    BY <1>2 DEF CreateEscrow
  <2>3. meta \in [Escrows -> EscrowMeta] /\ indexed \in [Escrows -> SUBSET EscrowStatus]
    BY <1>1 DEF TypeOK, LedgerTypeOK
  <2>4. meta'[e].status = "Active" /\ "Active" \in indexed'[e]
    BY <2>1, <2>2, <2>3
  <2>5. \A f \in Escrows \ {e} : meta'[f] = meta[f] /\ indexed'[f] = indexed[f]
    BY <2>1, <2>2, <2>3
  <2> QED
    BY <2>4, <2>5 DEF OpenIsListed
<1>3. ASSUME NEW amounts \in AmountLists, AddMilestones(e, amounts) PROVE OpenIsListed'
  <2>1. PICK a, b : meta' = [meta EXCEPT ![e] =
                              [c EXCEPT !.allocated_amount = a, !.rent_balance = b]]
    BY <1>3 DEF AddMilestones, Store, c
  <2>2. [c EXCEPT !.allocated_amount = a, !.rent_balance = b].status = c.status
    BY <1>1 DEF EscrowMeta
  <2>3. UNCHANGED indexed
    BY <1>3 DEF AddMilestones, records
  <2> QED
    BY <2>1, <2>2, <2>3, StoredKeepsListed DEF c
<1>4. ASSUME NEW i, SubmitMilestone(e, i) PROVE OpenIsListed'
  <2>1. PICK a, b : meta' = [meta EXCEPT ![e] = [c EXCEPT !.deadline = a, !.submitted_count = b]]
    BY <1>4 DEF SubmitMilestone, StoreOnly, Store, c
  <2>2. [c EXCEPT !.deadline = a, !.submitted_count = b].status = c.status
    BY <1>1 DEF EscrowMeta
  <2>3. UNCHANGED indexed
    BY <1>4 DEF SubmitMilestone, records
  <2> QED
    BY <2>1, <2>2, <2>3, StoredKeepsListed DEF c
<1>5. ASSUME NEW i, RejectMilestone(e, i) \/ RejectMilestoneWithReason(e, i)
      PROVE  OpenIsListed'
  BY <1>5, OtherFieldsListed
     DEF RejectMilestone, RejectMilestoneWithReason, Reject, StoreOnly, Store, records
<1>6. ASSUME NEW i, NEW caller, ApproveMilestone(caller, e, i) PROVE OpenIsListed'
  <2> DEFINE approved == [c EXCEPT !.approved_count = @ + 1]
             m == IF TimelockExpired(meta[e])
                  THEN Released(approved, 1, milestones[e][i].amount) ELSE approved
             completes == AllReleased(e, m) /\ m.approved_count = Len(milestones[e])
  <2>1. approved \in EscrowMeta /\ approved.status = meta[e].status
    BY <1>1, PutApprovedCount DEF EscrowMeta
  <2>2. milestones[e][i].amount \in Int
    BY <1>1, <1>6, MilestoneOf DEF ApproveMilestone, Milestone
  <2>3. /\ meta' = [meta EXCEPT ![e] = CompleteIf(completes, m)]
        /\ ReindexIf(completes, e, "Active", "Completed")
    BY <1>6 DEF ApproveMilestone, Store, c
  <2> HIDE DEF approved, completes
  <2>4. m \in EscrowMeta /\ m.status = meta[e].status
    BY <2>1, <2>2, ReleasedMeta
  <2> HIDE DEF m
  <2> QED
    BY <2>3, <2>4, CompleteIfListed
<1>7. ASSUME NEW i, NEW caller, ReleaseFunds(caller, e, i) \/ ReleaseWithTimelock(caller, e, i)
      PROVE  OpenIsListed'
  <2> DEFINE m == Released(c, 1, milestones[e][i].amount)
             all == m.released_count >= Len(milestones[e])
  <2>1. milestones[e][i].amount \in Int
    BY <1>1, <1>7, MilestoneOf DEF ReleaseFunds, ReleaseWithTimelock, Milestone
  <2>2. m \in EscrowMeta /\ m.status = meta[e].status
    BY <1>1, <2>1, ReleasedMeta
  <2>3. CASE ReleaseFunds(caller, e, i)
    <3>1. /\ meta' = [meta EXCEPT ![e] = CompleteIf(AllReleased(e, m), m)]
          /\ ReindexIf(AllReleased(e, m), e, "Active", "Completed")
      BY <2>3 DEF ReleaseFunds, Store, c
    <3> HIDE DEF m
    <3> QED
      BY <2>2, <3>1, CompleteIfListed
  <2>4. CASE ReleaseWithTimelock(caller, e, i)
    <3>1. meta' = [meta EXCEPT ![e] = CompleteIf(all, m)] /\ UNCHANGED indexed
      BY <2>4 DEF ReleaseWithTimelock, Store, records, c
    <3> HIDE DEF m, all
    <3> QED
      BY <2>2, <3>1, CompleteIfListed
  <2> QED
    BY <1>7, <2>3, <2>4
<1>8. ASSUME NEW ids \in BatchLists, NEW caller, BatchApproveMilestones(caller, e, ids)
      PROVE  OpenIsListed'
  <2> DEFINE approved == [c EXCEPT !.approved_count = @ + Len(ids),
                                   !.submitted_count = Positive(@ - Len(ids))]
             m == IF TimelockExpired(meta[e])
                  THEN Released(approved, Len(ids), BatchTotal(e, ids)) ELSE approved
  <2>1. Len(ids) \in Nat /\ BatchTotal(e, ids) \in Int
    <3>1. BatchTotal(e, ids) \in 0..MAX_I128 /\ MAX_I128 \in Nat
      BY <1>8, AmountAssumption DEF BatchApproveMilestones
    <3> QED
      BY <3>1, ArgumentTypes
  <2>2. approved \in EscrowMeta /\ approved.status = meta[e].status
    <3> DEFINE a == [c EXCEPT !.approved_count = c.approved_count + Len(ids)]
               b == [a EXCEPT !.submitted_count = Positive(c.submitted_count - Len(ids))]
    <3>1. c.approved_count + Len(ids) \in Nat /\ Positive(c.submitted_count - Len(ids)) \in Nat
      BY <1>1, <2>1 DEF EscrowMeta, Positive
    <3>2. approved = b
      BY <1>1 DEF EscrowMeta
    <3>3. a \in EscrowMeta /\ a.status = c.status
      BY <1>1, <3>1, PutApprovedCount DEF EscrowMeta
    <3> HIDE DEF a
    <3>4. b \in EscrowMeta /\ b.status = a.status
      BY <3>1, <3>3, PutSubmittedCount DEF EscrowMeta
    <3> QED
      BY <1>1, <3>2, <3>3, <3>4
  <2>3. /\ meta' = [meta EXCEPT ![e] = CompleteIf(AllReleased(e, m), m)]
        /\ UNCHANGED indexed
    BY <1>8 DEF BatchApproveMilestones, Store, records, c
  <2> HIDE DEF approved
  <2>4. m \in EscrowMeta /\ m.status = meta[e].status
    BY <2>1, <2>2, ReleasedMeta
  <2> HIDE DEF m
  <2> QED
    BY <2>3, <2>4, CompleteIfListed
<1>9. ASSUME NEW ids \in BatchLists, BatchReleaseFunds(e, ids) PROVE OpenIsListed'
  <2> DEFINE m == Released(c, Len(ids), BatchTotal(e, ids))
  <2>1. Len(ids) \in Nat /\ BatchTotal(e, ids) \in Int
    <3>1. BatchTotal(e, ids) \in 0..MAX_I128 /\ MAX_I128 \in Nat
      BY <1>9, AmountAssumption DEF BatchReleaseFunds
    <3> QED
      BY <3>1, ArgumentTypes
  <2>2. m \in EscrowMeta /\ m.status = meta[e].status
    BY <1>1, <2>1, ReleasedMeta
  <2>3. /\ meta' = [meta EXCEPT ![e] = CompleteIf(AllReleased(e, m), m)]
        /\ ReindexIf(AllReleased(e, m), e, "Active", "Completed")
    BY <1>9 DEF BatchReleaseFunds, Store, c
  <2> HIDE DEF m
  <2> QED
    BY <2>2, <2>3, CompleteIfListed
<1>10. ASSUME NEW t, NEW caller, StartTimelock(caller, e, t) \/ ExtendLockTime(e, t)
       PROVE  OpenIsListed'
  BY <1>10, OtherFieldsListed DEF StartTimelock, ExtendLockTime, StoreOnly, Store, records
<1>11. ASSUME NEW t, SetTimelock(e, t) PROVE OpenIsListed'
  BY <1>11, OtherFieldsListed DEF SetTimelock, StoreOnly, Store
<1>12. CASE CancelEscrow(e)
  <2>1. /\ meta' = [meta EXCEPT ![e] =
                      [c EXCEPT !.remaining_balance = 0, !.status = "Cancelled"]]
        /\ MoveIndex(e, "Active", "Cancelled")
    BY <1>12 DEF CancelEscrow, Store, c
  <2>2. [c EXCEPT !.remaining_balance = 0, !.status = "Cancelled"].status = "Cancelled"
    BY <1>1 DEF EscrowMeta
  <2> QED
    BY <1>1, <2>1, <2>2, ListedStep
<1>13. CASE PartialCancel(e)
  <2>1. PICK v : meta' = [meta EXCEPT ![e] = [RentCollected(e) EXCEPT !.remaining_balance = v]]
    BY <1>13 DEF PartialCancel, Store
  <2>2. UNCHANGED indexed
    BY <1>13 DEF PartialCancel, records
  <2> QED
    BY <2>1, <2>2, OtherFieldsListed
<1>14. CASE TriggerExpiry(e)
  <2>1. meta[e] \in EscrowMeta
    BY <1>1 DEF TypeOK, LedgerTypeOK
  <2>2. PICK m : meta' = [meta EXCEPT ![e] = m] /\ m.status = "Cancelled"
    <3>1. meta' = [meta EXCEPT ![e] =
                    [meta[e] EXCEPT !.remaining_balance = 0, !.status = "Cancelled"]]
      BY <1>1, <1>14 DEF TriggerExpiry, TypeOK, LedgerTypeOK
    <3>2. [meta[e] EXCEPT !.remaining_balance = 0, !.status = "Cancelled"].status = "Cancelled"
      BY <2>1 DEF EscrowMeta
    <3> QED
      BY <3>1, <3>2
  <2>3. UNCHANGED indexed
    BY <1>14 DEF TriggerExpiry, records
  <2> QED
    BY <1>1, <2>2, <2>3, ListedStep
<1>15. ASSUME NEW newClient \in NewClients, TransferClientRole(e, newClient)
       PROVE  OpenIsListed'
  BY <1>15, OtherFieldsListed DEF TransferClientRole, StoreOnly, Store, records
<1> QED
  BY <1>2, <1>3, <1>4, <1>5, <1>6, <1>7, <1>8, <1>9, <1>10, <1>11, <1>12, <1>13, <1>14, <1>15
     DEF MilestoneStep

\* Where a call sets the status, it also moves the escrow to that status's list.
LEMMA SettleListed ==
  ASSUME IInv, OpenIsListed, NEW e \in Escrows, NEW m \in EscrowMeta, NEW x, NEW y,
         Settle(e, m, x, y)
  PROVE  OpenIsListed'
<1>1. [m EXCEPT !.remaining_balance = 0, !.status = "Completed"].status = "Completed"
  BY DEF EscrowMeta
<1> QED
  BY <1>1, ListedStep DEF Settle, Store, IInv

\* So do those of the disputes and cancellations.
LEMMA DisputeStepListed ==
  ASSUME IInv, OpenIsListed, NEW e \in Escrows, DisputeStep(e)
  PROVE  OpenIsListed'
<1> DEFINE c == RentCollected(e)
           d == [c EXCEPT !.dispute_started_ledger = None]
<1>1. TypeOK /\ c \in EscrowMeta /\ c.status = meta[e].status
  BY CollectedStatus DEF IInv
<1> HIDE DEF c
<1>2. d \in EscrowMeta
  BY <1>1, PutDisputeStarted DEF OptTime
<1> HIDE DEF d
<1>3. ASSUME NEW caller, NEW target, RaiseDispute(caller, e, target) PROVE OpenIsListed'
  <2>1. PICK v : meta' = [meta EXCEPT ![e] = [DisputeOpened(c) EXCEPT !.submitted_count = v]]
    BY <1>3 DEF RaiseDispute, StoreOnly, Store, c
  <2>2. [DisputeOpened(c) EXCEPT !.submitted_count = v].status = "Disputed"
    BY <1>1 DEF DisputeOpened, EscrowMeta
  <2>3. MoveIndex(e, "Active", "Disputed")
    BY <1>3 DEF RaiseDispute
  <2> QED
    BY <1>1, <2>1, <2>2, <2>3, ListedStep
<1>4. ASSUME NEW caller, ClaimDisputeTimeout(caller, e) PROVE OpenIsListed'
  BY <1>2, <1>4, SettleListed DEF ClaimDisputeTimeout, c, d
<1>5. ASSUME NEW caller, NEW share, ResolveDispute(caller, e, share) PROVE OpenIsListed'
  BY <1>2, <1>5, SettleListed DEF ResolveDispute, c, d
<1>6. ASSUME NEW payload, NEW grace, OracleResolveDispute(e, payload, grace)
      PROVE  OpenIsListed'
  BY <1>1, <1>6, SettleListed DEF OracleResolveDispute, c
<1>7. ASSUME NEW caller, RequestCancellation(caller, e) PROVE OpenIsListed'
  <2>1. PICK v : meta' = [meta EXCEPT ![e] =
                           [c EXCEPT !.status = "CancellationPending", !.rent_balance = v]]
    BY <1>7 DEF RequestCancellation, Store, c
  <2>2. [c EXCEPT !.status = "CancellationPending", !.rent_balance = v].status
          = "CancellationPending"
    BY <1>1 DEF EscrowMeta
  <2>3. MoveIndex(e, "Active", "CancellationPending")
    BY <1>7 DEF RequestCancellation
  <2> QED
    BY <1>1, <2>1, <2>2, <2>3, ListedStep
<1>8. ASSUME NEW caller, ApproveCancellation(caller, e) PROVE OpenIsListed'
  BY <1>8, OtherFieldsListed DEF ApproveCancellation, StoreOnly, Store
<1>9. ASSUME NEW caller, DisputeCancellation(caller, e) PROVE OpenIsListed'
  <2>1. /\ meta' = [meta EXCEPT ![e] = [c EXCEPT !.status = "Disputed"]]
        /\ MoveIndex(e, "CancellationPending", "Disputed")
    BY <1>9 DEF DisputeCancellation, StoreOnly, Store, c
  <2>2. [c EXCEPT !.status = "Disputed"].status = "Disputed"
    BY <1>1 DEF EscrowMeta
  <2> QED
    BY <1>1, <2>1, <2>2, ListedStep
<1>10. CASE ExecuteCancellation(e)
  <2>1. /\ meta' = [meta EXCEPT ![e] =
                      [c EXCEPT !.remaining_balance = 0, !.status = "Cancelled"]]
        /\ MoveIndex(e, "CancellationPending", "Cancelled")
    BY <1>10 DEF ExecuteCancellation, Store, c
  <2>2. [c EXCEPT !.remaining_balance = 0, !.status = "Cancelled"].status = "Cancelled"
    BY <1>1 DEF EscrowMeta
  <2> QED
    BY <1>1, <2>1, <2>2, ListedStep
<1>11. CASE FinalizeSlash(e)
  BY <1>11, ListedUntouched DEF FinalizeSlash
<1>12. CASE DisputeSlash(e)
  BY <1>12, OtherFieldsListed DEF DisputeSlash, StoreOnly, Store
<1>13. ASSUME NEW caller, NEW upheld, ResolveSlashDispute(caller, e, upheld)
       PROVE  OpenIsListed'
  BY <1>13, OtherFieldsListed DEF ResolveSlashDispute, Store
<1> QED
  BY <1>3, <1>4, <1>5, <1>6, <1>7, <1>8, <1>9, <1>10, <1>11, <1>12, <1>13 DEF DisputeStep

\* So do those of the rent, which ends an escrow when its reserve is used up.
LEMMA RentStepListed ==
  ASSUME IInv, OpenIsListed, NEW e \in Escrows, RentStep(e)
  PROVE  OpenIsListed'
<1>1. CASE GetEscrowMeta(e)
  BY <1>1, OtherFieldsListed DEF GetEscrowMeta, StoreOnly, Store, records
<1>2. CASE CollectRent(e)
  <2>1. CASE RentHasExpired(e, RentCollected(e))
    <3>1. meta' = [meta EXCEPT ![e] = [NoMeta EXCEPT !.status = "Expired"]]
      BY <1>2, <2>1 DEF CollectRent, Store
    <3>2. [NoMeta EXCEPT !.status = "Expired"].status = "Expired"
      BY DEF NoMeta
    <3>3. TypeOK /\ UNCHANGED indexed
      BY <1>2 DEF CollectRent, IInv
    <3> QED
      BY <3>1, <3>2, <3>3, ListedStep
  <2>2. CASE ~RentHasExpired(e, RentCollected(e))
    BY <1>2, <2>2, OtherFieldsListed DEF CollectRent, StoreOnly, Store
  <2> QED
    BY <2>1, <2>2
<1>3. ASSUME NEW n, TopUpRent(e, n) \/ WithdrawRentOverpayment(e, n) PROVE OpenIsListed'
  <2>1. PICK v : meta' = [meta EXCEPT ![e] = [RentCollected(e) EXCEPT !.rent_balance = v]]
    BY <1>3 DEF TopUpRent, WithdrawRentOverpayment, Store
  <2>2. UNCHANGED indexed
    BY <1>3 DEF TopUpRent, WithdrawRentOverpayment, records
  <2> QED
    BY <2>1, <2>2, OtherFieldsListed
<1> QED
  BY <1>1, <1>2, <1>3 DEF RentStep

\* So do the admin's, which leave the status alone.
LEMMA AdminStepListed ==
  ASSUME IInv, OpenIsListed, AdminStep
  PROVE  OpenIsListed'
<1>1. ASSUME NEW e \in Escrows, CollectEscrowFee(e) PROVE OpenIsListed'
  BY <1>1, ListedUntouched DEF CollectEscrowFee
<1>2. ASSUME NEW e \in Escrows, NEW bps, SetArbiterFeeBps(e, bps) PROVE OpenIsListed'
  <2>1. TypeOK /\ meta[e] \in EscrowMeta /\ meta \in [Escrows -> EscrowMeta]
    BY DEF IInv, TypeOK, LedgerTypeOK
  <2>2. PICK m : meta' = [meta EXCEPT ![e] = m] /\ m.status = meta[e].status
    <3>1. meta' = [meta EXCEPT ![e] = [meta[e] EXCEPT !.arbiter_fee_bps = bps]]
      BY <1>2, <2>1 DEF SetArbiterFeeBps
    <3>2. [meta[e] EXCEPT !.arbiter_fee_bps = bps].status = meta[e].status
      BY <2>1 DEF EscrowMeta
    <3> QED
      BY <3>1, <3>2
  <2>3. UNCHANGED indexed
    BY <1>2 DEF SetArbiterFeeBps, records
  <2> QED
    BY <2>1, <2>2, <2>3, ListedStep
<1>3. ASSUME NEW e \in Escrows, FreezeEscrow(e) \/ UnfreezeEscrow(e) PROVE OpenIsListed'
  BY <1>3, OtherFieldsListed
     DEF FreezeEscrow, UnfreezeEscrow, SetFrozen, StoreOnly, Store, records
<1>4. CASE Pause \/ Unpause
  BY <1>4, ListedUntouched DEF Pause, Unpause, records
<1> QED
  BY <1>1, <1>2, <1>3, <1>4 DEF AdminStep

(* Whichever entry points move an escrow from status to status, and however   *)
(* often the lists are edited by hand, an open escrow is in the list of its   *)
(* status.                                                                    *)
THEOREM IndexMissesNoOpenEscrow == Spec => []OpenIsListed
<1>1. Init => OpenIsListed
  BY DEF Init, OpenIsListed, NoMeta, Open
<1>2. IInv /\ OpenIsListed /\ [Next]_vars => OpenIsListed'
  <2> SUFFICES ASSUME IInv, OpenIsListed, [Next]_vars PROVE OpenIsListed'
    OBVIOUS
  <2>1. ASSUME NEW e \in Escrows, MilestoneStep(e) \/ DisputeStep(e) \/ RentStep(e)
        PROVE  OpenIsListed'
    BY <2>1, MilestoneStepListed, DisputeStepListed, RentStepListed
  <2>2. CASE AdminStep
    BY <2>2, AdminStepListed
  <2>3. CASE CloseLedger \/ UNCHANGED vars
    BY <2>3, ListedUntouched DEF CloseLedger, vars, records
  <2> QED
    BY <2>1, <2>2, <2>3 DEF Next
<1> QED
  BY <1>1, <1>2, InvariantHolds, PTL DEF Spec

-----------------------------------------------------------------------------
(* The time of releases. *)

\* The step pays the freelancer of an open escrow in time, if at all.
OnTime(f) ==
  /\ meta[f].status \in {"Active", "CancellationPending"}
  /\ meta'[f].status # "Cancelled"
  /\ paid'[f]["freelancer"] > paid[f]["freelancer"]
  /\ meta[f].lock_time # None
  => \/ now >= meta[f].lock_time
     \/ releaseTime[f] # None /\ now >= releaseTime[f]

AllOnTime == \A f \in Escrows : OnTime(f)

\* A step that leaves the history alone pays nobody.
LEMMA NothingPaidOnTime ==
  ASSUME TypeOK, UNCHANGED paid
  PROVE  AllOnTime
<1> SUFFICES ASSUME NEW f \in Escrows PROVE OnTime(f)
  BY DEF AllOnTime
<1>1. paid[f]["freelancer"] \in Int
  BY DEF TypeOK, LedgerTypeOK, Payment, Roles
<1> QED
  BY <1>1 DEF OnTime

\* A transfer changes the history of its own escrow only.
LEMMA TransferHistory ==
  ASSUME TypeOK, NEW e \in Escrows, NEW payment, NEW extra, NEW deposit,
         Transfer(e, payment, extra, deposit), NEW f \in Escrows
  PROVE  /\ paid[f]["freelancer"] \in Int
         /\ f # e => paid'[f] = paid[f]
         /\ f = e => paid'[f]["freelancer"] = paid[f]["freelancer"] + payment["freelancer"]
<1>1. paid[f]["freelancer"] \in Int
  BY DEF TypeOK, LedgerTypeOK, Payment, Roles
<1>2. paid' = [paid EXCEPT ![e] = [r \in Roles |-> paid[e][r] + payment[r]]]
  BY DEF Transfer, TypeOK, LedgerTypeOK
<1> QED
  BY <1>1, <1>2 DEF TypeOK, LedgerTypeOK, Roles

\* So a transfer that sends the freelancer nothing is never early.
LEMMA OthersPaidOnTime ==
  ASSUME TypeOK, NEW e \in Escrows, NEW payment, NEW extra, NEW deposit,
         Transfer(e, payment, extra, deposit), payment["freelancer"] = 0
  PROVE  AllOnTime
<1> SUFFICES ASSUME NEW f \in Escrows PROVE OnTime(f)
  BY DEF AllOnTime
<1>1. paid[f]["freelancer"] \in Int /\ paid'[f]["freelancer"] = paid[f]["freelancer"]
  BY TransferHistory
<1> QED
  BY <1>1 DEF OnTime

\* Nor is one for an escrow that is not open, ends here or is past one of its times.
LEMMA DuePaidOnTime ==
  ASSUME TypeOK, NEW e \in Escrows, NEW payment, NEW extra, NEW deposit,
         Transfer(e, payment, extra, deposit),
         \/ meta[e].status \notin {"Active", "CancellationPending"}
         \/ meta'[e].status = "Cancelled"
         \/ LockTimeExpired(meta[e])
         \/ releaseTime[e] # None /\ now >= releaseTime[e]
  PROVE  AllOnTime
<1> SUFFICES ASSUME NEW f \in Escrows PROVE OnTime(f)
  BY DEF AllOnTime
<1>1. CASE f # e
  <2>1. paid[f]["freelancer"] \in Int /\ paid'[f] = paid[f]
    BY <1>1, TransferHistory
  <2> QED
    BY <2>1 DEF OnTime
<1>2. CASE f = e
  BY <1>2 DEF OnTime, LockTimeExpired
<1> QED
  BY <1>1, <1>2

\* The same of storing an escrow.
LEMMA StoredOnTime ==
  ASSUME IInv, NEW e \in Escrows, NEW m, NEW payment, NEW extra, NEW deposit,
         Store(e, m, payment, extra, deposit),
         \/ payment["freelancer"] = 0
         \/ meta[e].status \notin {"Active", "CancellationPending"}
         \/ m.status = "Cancelled"
         \/ LockTimeExpired(meta[e])
         \/ releaseTime[e] # None /\ now >= releaseTime[e]
  PROVE  AllOnTime
<1>1. TypeOK /\ Transfer(e, payment, RentDue(e) + extra, deposit)
  BY DEF IInv, Store
<1>2. meta'[e] = m
  BY <1>1 DEF Store, TypeOK, LedgerTypeOK
<1> QED
  BY <1>1, <1>2, OthersPaidOnTime, DuePaidOnTime

\* What is paid to another role or to nobody.
LEMMA OtherPayments ==
  /\ NoPayment["freelancer"] = 0
  /\ \A amount : To("client", amount)["freelancer"] = 0
  BY DEF NoPayment, To, Roles

\* Many entry points store an escrow without a payment.
LEMMA UnpaidOnTime ==
  ASSUME IInv, NEW e \in Escrows, NEW m, NEW extra, NEW deposit,
         Store(e, m, NoPayment, extra, deposit)
  PROVE  AllOnTime
  BY StoredOnTime, OtherPayments

\* Settling the rent and booking a payment leave the lock time alone.
LEMMA LockTimeKept ==
  ASSUME IInv, NEW e \in Escrows, NEW n, NEW amount
  PROVE  /\ Released(RentCollected(e), n, amount).lock_time = meta[e].lock_time
         /\ Released(RentCollected(e), n, amount).status = meta[e].status
<1> DEFINE c == RentCollected(e)
<1>1. meta[e] \in EscrowMeta /\ c \in EscrowMeta /\ c.status = meta[e].status
  BY CollectedStatus DEF IInv, TypeOK, LedgerTypeOK
<1>2. c.lock_time = meta[e].lock_time
  BY <1>1 DEF RentCollected, EscrowMeta
<1> HIDE DEF c
<1>3. Released(c, n, amount).lock_time = c.lock_time /\ Released(c, n, amount).status = c.status
  BY <1>1 DEF Released, EscrowMeta
<1> QED
  BY <1>1, <1>2, <1>3 DEF c

\* Each entry point of the milestones that pays the freelancer tests a time or cancels.
LEMMA MilestoneStepOnTime ==
  ASSUME IInv, NEW e \in Escrows, MilestoneStep(e)
  PROVE  AllOnTime
<1>1. ASSUME NEW terms \in Terms, CreateEscrow(e, terms) PROVE AllOnTime
  BY <1>1, OthersPaidOnTime, OtherPayments DEF CreateEscrow, IInv
<1>2. ASSUME NEW amounts \in AmountLists, AddMilestones(e, amounts) PROVE AllOnTime
  BY <1>2, UnpaidOnTime DEF AddMilestones
<1>3. ASSUME NEW i \in DOMAIN milestones[e],
             SubmitMilestone(e, i) \/ RejectMilestone(e, i) \/ RejectMilestoneWithReason(e, i)
      PROVE  AllOnTime
  BY <1>3, UnpaidOnTime
     DEF SubmitMilestone, RejectMilestone, RejectMilestoneWithReason, Reject, StoreOnly
<1>4. ASSUME NEW i \in DOMAIN milestones[e], NEW caller \in Accounts,
             ApproveMilestone(caller, e, i)
      PROVE  AllOnTime
  BY <1>4, StoredOnTime DEF ApproveMilestone
<1>5. ASSUME NEW i \in DOMAIN milestones[e], NEW caller \in Accounts,
             ReleaseFunds(caller, e, i)
      PROVE  AllOnTime
  <2>1. LockTimeExpired(meta[e])
    BY <1>5, LockTimeKept DEF ReleaseFunds, LockTimeExpired
  <2> QED
    BY <1>5, <2>1, StoredOnTime DEF ReleaseFunds
<1>6. ASSUME NEW i \in DOMAIN milestones[e], NEW caller \in Accounts,
             ReleaseWithTimelock(caller, e, i)
      PROVE  AllOnTime
  BY <1>6, StoredOnTime DEF ReleaseWithTimelock
<1>7. ASSUME NEW ids \in BatchLists, NEW caller \in Accounts,
             BatchApproveMilestones(caller, e, ids)
      PROVE  AllOnTime
  BY <1>7, StoredOnTime DEF BatchApproveMilestones
<1>8. ASSUME NEW ids \in BatchLists, BatchReleaseFunds(e, ids) PROVE AllOnTime
  BY <1>8, StoredOnTime DEF BatchReleaseFunds
<1>9. ASSUME NEW t \in TimeArguments, NEW caller \in Accounts,
             StartTimelock(caller, e, t) \/ ExtendLockTime(e, t) \/ SetTimelock(e, t)
      PROVE  AllOnTime
  BY <1>9, UnpaidOnTime DEF StartTimelock, ExtendLockTime, SetTimelock, StoreOnly
<1>10. CASE CancelEscrow(e)
  <2> DEFINE m == [RentCollected(e) EXCEPT !.remaining_balance = 0, !.status = "Cancelled"]
  <2>1. PICK payment, extra, deposit : Store(e, m, payment, extra, deposit)
    BY <1>10 DEF CancelEscrow
  <2>2. m.status = "Cancelled"
    BY CollectedStatus DEF IInv, EscrowMeta
  <2> HIDE DEF m
  <2> QED
    BY <2>1, <2>2, StoredOnTime
<1>11. CASE PartialCancel(e)
  BY <1>11, StoredOnTime, OtherPayments DEF PartialCancel
<1>12. CASE TriggerExpiry(e)
  BY <1>12, OthersPaidOnTime, OtherPayments DEF TriggerExpiry, IInv
<1>13. ASSUME NEW newClient \in NewClients, TransferClientRole(e, newClient)
      PROVE  AllOnTime
  BY <1>13, UnpaidOnTime DEF TransferClientRole, StoreOnly
<1>14. ADMIN \in Accounts
  BY ActorAssumption
<1> QED
  BY <1>1, <1>2, <1>3, <1>4, <1>5, <1>6, <1>7, <1>8, <1>9, <1>10, <1>11, <1>12, <1>13,
     <1>14 DEF MilestoneStep

\* Every settlement closes a disputed escrow, and an executed request cancels its own.
LEMMA DisputeStepOnTime ==
  ASSUME IInv, NEW e \in Escrows, DisputeStep(e)
  PROVE  AllOnTime
<1> DEFINE over == meta[e].status \notin {"Active", "CancellationPending"}
<1>1. ASSUME NEW caller \in Accounts, NEW target \in DOMAIN milestones[e] \cup {None},
             RaiseDispute(caller, e, target)
      PROVE  AllOnTime
  BY <1>1, UnpaidOnTime DEF RaiseDispute, StoreOnly
<1>2. ASSUME NEW m, NEW x, NEW y, Settle(e, m, x, y), meta[e].status = "Disputed"
      PROVE  AllOnTime
  BY <1>2, StoredOnTime DEF Settle
<1>3. meta[e] \in EscrowMeta /\ RentCollected(e) \in EscrowMeta
      /\ RentCollected(e).status = meta[e].status
      /\ [RentCollected(e) EXCEPT !.dispute_started_ledger = None].status = meta[e].status
  <2>1. meta[e] \in EscrowMeta /\ RentCollected(e) \in EscrowMeta
        /\ RentCollected(e).status = meta[e].status
    BY CollectedStatus DEF IInv, TypeOK, LedgerTypeOK
  <2> QED
    BY <2>1 DEF EscrowMeta
<1>4. ASSUME NEW caller \in Accounts, ClaimDisputeTimeout(caller, e) PROVE AllOnTime
  BY <1>2, <1>3, <1>4 DEF ClaimDisputeTimeout
<1>5. ASSUME NEW caller \in Accounts, NEW share \in ClientShares,
             ResolveDispute(caller, e, share)
      PROVE  AllOnTime
  BY <1>2, <1>3, <1>5 DEF ResolveDispute
<1>6. ASSUME NEW payload \in OraclePayloads, NEW grace \in TimeArguments \cup {0},
             OracleResolveDispute(e, payload, grace)
      PROVE  AllOnTime
  BY <1>2, <1>3, <1>6 DEF OracleResolveDispute
<1>7. ASSUME NEW caller \in Accounts,
             \/ RequestCancellation(caller, e) \/ ApproveCancellation(caller, e)
             \/ DisputeCancellation(caller, e)
      PROVE  AllOnTime
  BY <1>7, UnpaidOnTime
     DEF RequestCancellation, ApproveCancellation, DisputeCancellation, StoreOnly
<1>8. CASE ExecuteCancellation(e)
  <2> DEFINE m == [RentCollected(e) EXCEPT !.remaining_balance = 0, !.status = "Cancelled"]
  <2>1. PICK payment, extra, deposit : Store(e, m, payment, extra, deposit)
    BY <1>8 DEF ExecuteCancellation
  <2>2. m.status = "Cancelled"
    BY <1>3 DEF EscrowMeta
  <2> HIDE DEF m
  <2> QED
    BY <2>1, <2>2, StoredOnTime
<1>9. slash[e] # None => over
  BY DEF IInv, SlashFollowsCancellation
<1>10. CASE FinalizeSlash(e)
  BY <1>9, <1>10, DuePaidOnTime DEF FinalizeSlash, IInv
<1>11. CASE DisputeSlash(e)
  BY <1>11, UnpaidOnTime DEF DisputeSlash, StoreOnly
<1>12. ASSUME NEW caller \in Accounts, NEW upheld \in BOOLEAN,
              ResolveSlashDispute(caller, e, upheld)
       PROVE  AllOnTime
  <2>1. PICK payment : Store(e, RentCollected(e), payment, 0, 0)
    BY <1>12 DEF ResolveSlashDispute
  <2>2. over
    BY <1>9, <1>12 DEF ResolveSlashDispute
  <2> QED
    BY <2>1, <2>2, StoredOnTime
<1> QED
  BY <1>1, <1>4, <1>5, <1>6, <1>7, <1>8, <1>10, <1>11, <1>12 DEF DisputeStep

\* The rent and its end never pay the freelancer.
LEMMA RentStepOnTime ==
  ASSUME IInv, NEW e \in Escrows, RentStep(e)
  PROVE  AllOnTime
<1>1. CASE GetEscrowMeta(e)
  BY <1>1, UnpaidOnTime DEF GetEscrowMeta, StoreOnly
<1>2. CASE CollectRent(e)
  BY <1>2, UnpaidOnTime, StoredOnTime, OtherPayments DEF CollectRent, StoreOnly
<1>3. ASSUME NEW n \in RentPeriods, TopUpRent(e, n) \/ WithdrawRentOverpayment(e, n)
      PROVE  AllOnTime
  BY <1>3, UnpaidOnTime DEF TopUpRent, WithdrawRentOverpayment
<1> QED
  BY <1>1, <1>2, <1>3 DEF RentStep

\* The admin's calls pay the freelancer nothing.
LEMMA AdminStepOnTime ==
  ASSUME IInv, AdminStep
  PROVE  AllOnTime
<1>1. ASSUME NEW e \in Escrows, CollectEscrowFee(e) PROVE AllOnTime
  BY <1>1, OthersPaidOnTime, OtherPayments DEF CollectEscrowFee, IInv
<1>2. ASSUME NEW e \in Escrows, NEW bps \in ArbiterFees, SetArbiterFeeBps(e, bps)
      PROVE  AllOnTime
  BY <1>2, NothingPaidOnTime DEF SetArbiterFeeBps, IInv
<1>3. ASSUME NEW e \in Escrows, FreezeEscrow(e) \/ UnfreezeEscrow(e) PROVE AllOnTime
  BY <1>3, UnpaidOnTime DEF FreezeEscrow, UnfreezeEscrow, SetFrozen, StoreOnly
<1>4. CASE Pause \/ Unpause
  BY <1>4, NothingPaidOnTime DEF Pause, Unpause, IInv
<1> QED
  BY <1>1, <1>2, <1>3, <1>4 DEF AdminStep

\* No step pays the freelancer early.
LEMMA StepOnTime ==
  ASSUME IInv, [Next]_vars
  PROVE  AllOnTime
<1>1. CASE CloseLedger \/ UNCHANGED vars
  BY <1>1, NothingPaidOnTime DEF CloseLedger, vars, IInv
<1> QED
  BY <1>1, MilestoneStepOnTime, DisputeStepOnTime, RentStepOnTime, AdminStepOnTime DEF Next

(* Whichever entry point pays the freelancer of an escrow that is neither      *)
(* disputed nor being cancelled, the lock time or the release time has passed. *)
THEOREM NothingReleasedEarly == Spec => NoEarlyRelease
<1>1. IInv /\ [Next]_vars =>
        [\A e \in Escrows :
           /\ meta[e].status \in {"Active", "CancellationPending"}
           /\ meta'[e].status # "Cancelled"
           /\ paid'[e]["freelancer"] > paid[e]["freelancer"]
           /\ meta[e].lock_time # None
           => \/ now >= meta[e].lock_time
              \/ releaseTime[e] # None /\ now >= releaseTime[e]]_vars
  BY StepOnTime DEF AllOnTime, OnTime
<1> QED
  BY <1>1, InvariantHolds, PTL DEF Spec, NoEarlyRelease

-----------------------------------------------------------------------------
(* Access to the escrows. *)

KeepsAccess == \A f \in Escrows : Accessible(f) => Accessible(f)'

\* Nothing that decides about the access to another escrow changes.
Apart(e) ==
  \A f \in Escrows \ {e} :
    /\ meta'[f] = meta[f] /\ milestones'[f] = milestones[f]
    /\ request'[f] = request[f] /\ slash'[f] = slash[f]

\* After an entry point, too, an escrow has at least its own storage entry.
LEMMA EntriesPositiveNext ==
  ASSUME TypeOK', NEW e \in Escrows
  PROVE  ActiveStorageEntries(e)' \in Nat \ {0}
<1> DEFINE r == IF request'[e] # None THEN 1 ELSE 0
           s == IF slash'[e] # None THEN 1 ELSE 0
<1>1. Len(milestones'[e]) \in Nat
  BY DEF TypeOK, LedgerTypeOK
<1>2. r \in {0, 1} /\ s \in {0, 1}
  OBVIOUS
<1>3. ActiveStorageEntries(e)' = 1 + Len(milestones'[e]) + r + s
  BY Zenon DEF ActiveStorageEntries
<1> HIDE DEF r, s
<1> QED
  BY <1>1, <1>2, <1>3

\* What is left of an age after its whole periods is less than a period.
LEMMA PeriodsSettled ==
  ASSUME NEW age \in Nat, NEW period \in Nat \ {0}
  PROVE  (age - (age \div period) * period) \div period = 0
<1> DEFINE q == age \div period
           rest == age - q * period
<1>1. q \in Int /\ age = period * q + (age % period) /\ age % period \in 0..(period - 1)
  OBVIOUS
<1>2. period * q = q * period
  BY <1>1
<1>3. rest \in 0..(period - 1)
  BY <1>1, <1>2
<1> HIDE DEF rest
<1>4. rest \div period = 0
  BY <1>3
<1> QED
  BY <1>4 DEF rest

\* An accessible escrow has paid for every period that has elapsed once its rent
\* is settled: none is left, whatever its entries and its reserve will be.
LEMMA NoPeriodLeft ==
  ASSUME IInv, NEW e \in Escrows, Accessible(e)
  PROVE  ElapsedPeriods(RentCollected(e)) = 0
<1> DEFINE n == ActiveStorageEntries(e)
           age == now - meta[e].last_rent_collection_at
           q == ElapsedPeriods(meta[e])
           b == meta[e].rent_balance
           P == RENT_PERIOD_SECONDS
<1>1. TypeOK /\ RentClockBehind /\ meta[e] \in EscrowMeta
  BY DEF IInv, TypeOK, LedgerTypeOK
<1>2. n \in Nat \ {0}
  BY <1>1, EntriesPositive
<1>3. age \in Nat /\ P \in Nat \ {0} /\ b \in Nat /\ now \in Nat
      /\ meta[e].last_rent_collection_at \in Nat
  BY <1>1, RentAssumption DEF TypeOK, LedgerTypeOK, EscrowMeta, RentClockBehind
<1>4. q = age \div P /\ q \in Nat
  BY <1>3, DivFloor DEF ElapsedPeriods
<1>5. q <= b \div n /\ b \div n \in Nat /\ (b \div n) * n <= b
  <2>1. b \div n \in Nat /\ (b \div n) * n <= b
    BY <1>2, <1>3, DivFloor
  <2>2. ~(q > b \div n)
    BY DEF Accessible, RentHasExpired
  <2> QED
    BY <1>4, <2>1, <2>2
<1>6. q * n <= (b \div n) * n /\ q * n \in Nat /\ (b \div n) * n \in Nat
  BY <1>2, <1>4, <1>5, ProductMonotone, NatProduct
<1>7. n * q = q * n
  BY <1>2, <1>4
<1>8. n * q <= b
  BY <1>3, <1>5, <1>6, <1>7
<1>9. RentDue(e) = n * q
  BY <1>8 DEF RentDue
<1>10. RentDue(e) \div n = q
  BY <1>2, <1>4, <1>9, DivExact
<1>11. RentCollected(e).last_rent_collection_at = meta[e].last_rent_collection_at + q * P
  BY <1>1, <1>10 DEF RentCollected, EscrowMeta
<1>12. q * P \in Nat
  BY <1>3, <1>4, NatProduct
<1>13. now - RentCollected(e).last_rent_collection_at = age - q * P
  BY <1>3, <1>11, <1>12
<1> QED
  BY <1>3, <1>4, <1>13, PeriodsSettled DEF ElapsedPeriods

\* An escrow that no call touches stays accessible until time passes.
LEMMA UntouchedAccess ==
  ASSUME UNCHANGED clock, NEW f \in Escrows, Accessible(f),
         meta'[f] = meta[f], milestones'[f] = milestones[f],
         request'[f] = request[f], slash'[f] = slash[f]
  PROVE  Accessible(f)'
<1>1. ActiveStorageEntries(f)' = ActiveStorageEntries(f)
  BY DEF ActiveStorageEntries
<1>2. now' = now
  BY DEF clock
<1> QED
  BY <1>1, <1>2 DEF Accessible, Live, RentHasExpired, ElapsedPeriods

\* One that is stored with its rent settled has no period to pay for.
LEMMA SettledAccess ==
  ASSUME IInv, IInv', UNCHANGED clock, NEW e \in Escrows, Accessible(e), Apart(e),
         meta'[e].last_rent_collection_at = RentCollected(e).last_rent_collection_at,
         meta'[e].status \in EscrowStatus
  PROVE  KeepsAccess
<1>1. now' = now
  BY DEF clock
<1>2. ElapsedPeriods(meta[e])' = 0
  BY <1>1, NoPeriodLeft DEF ElapsedPeriods
<1>3. meta'[e].rent_balance \in Nat /\ ActiveStorageEntries(e)' \in Nat \ {0}
  BY EntriesPositiveNext DEF IInv, TypeOK, LedgerTypeOK, EscrowMeta
<1>4. meta'[e].rent_balance \div ActiveStorageEntries(e)' \in Nat
  BY <1>3, DivFloor
<1>5. Accessible(e)'
  BY <1>2, <1>4 DEF Accessible, Live, RentHasExpired
<1> QED
  BY <1>5, UntouchedAccess DEF Apart, KeepsAccess

\* A meta that an entry point may store: its rent clock is the one of the meta it loaded.
Timed(m, c) ==
  /\ m.last_rent_collection_at = c.last_rent_collection_at
  /\ m.status \in EscrowStatus

\* The same for what Store stores.
LEMMA StoredAccess ==
  ASSUME IInv, IInv', UNCHANGED clock, NEW e \in Escrows, Accessible(e), Apart(e),
         NEW m, NEW payment, NEW extra, NEW deposit, Store(e, m, payment, extra, deposit),
         Timed(m, RentCollected(e))
  PROVE  KeepsAccess
<1>1. meta'[e] = m
  BY DEF Store, IInv, TypeOK, LedgerTypeOK
<1> QED
  BY <1>1, SettledAccess DEF Timed

\* The entry points of the milestones touch one escrow.
LEMMA MilestoneStepApart ==
  ASSUME TypeOK, NEW e \in Escrows, MilestoneStep(e)
  PROVE  Apart(e)
<1> USE DEF TypeOK, LedgerTypeOK, Apart, Store, StoreOnly, SetMilestone, records, switches
<1>1. ASSUME NEW terms \in Terms, CreateEscrow(e, terms) PROVE Apart(e)
  BY <1>1 DEF CreateEscrow
<1>2. ASSUME NEW amounts \in AmountLists, AddMilestones(e, amounts) PROVE Apart(e)
  BY <1>2 DEF AddMilestones
<1>3. ASSUME NEW i \in DOMAIN milestones[e],
             SubmitMilestone(e, i) \/ RejectMilestone(e, i) \/ RejectMilestoneWithReason(e, i)
      PROVE  Apart(e)
  BY <1>3 DEF SubmitMilestone, RejectMilestone, RejectMilestoneWithReason, Reject
<1>4. ASSUME NEW i \in DOMAIN milestones[e], NEW caller \in Accounts,
             ApproveMilestone(caller, e, i)
      PROVE  Apart(e)
  BY <1>4 DEF ApproveMilestone
<1>5. ASSUME NEW i \in DOMAIN milestones[e], NEW caller \in Accounts,
             ReleaseFunds(caller, e, i) \/ ReleaseWithTimelock(caller, e, i)
      PROVE  Apart(e)
  BY <1>5 DEF ReleaseFunds, ReleaseWithTimelock
<1>6. ASSUME NEW ids \in BatchLists, NEW caller \in Accounts,
             BatchApproveMilestones(caller, e, ids)
      PROVE  Apart(e)
  BY <1>6 DEF BatchApproveMilestones
<1>7. ASSUME NEW ids \in BatchLists, BatchReleaseFunds(e, ids) PROVE Apart(e)
  BY <1>7 DEF BatchReleaseFunds
<1>8. ASSUME NEW t \in TimeArguments, NEW caller \in Accounts,
             StartTimelock(caller, e, t) \/ ExtendLockTime(e, t) \/ SetTimelock(e, t)
      PROVE  Apart(e)
  BY <1>8 DEF StartTimelock, ExtendLockTime, SetTimelock
<1>9. CASE CancelEscrow(e)
  BY <1>9 DEF CancelEscrow
<1>10. CASE PartialCancel(e) \/ TriggerExpiry(e)
  BY <1>10 DEF PartialCancel, TriggerExpiry
<1>11. ASSUME NEW newClient \in NewClients, TransferClientRole(e, newClient)
      PROVE  Apart(e)
  BY <1>11 DEF TransferClientRole
<1>12. ADMIN \in Accounts
  BY ActorAssumption
<1> QED
  BY <1>1, <1>2, <1>3, <1>4, <1>5, <1>6, <1>7, <1>8, <1>9, <1>10, <1>11, <1>12
  DEF MilestoneStep

\* So do those of the disputes and cancellations.
LEMMA DisputeStepApart ==
  ASSUME TypeOK, NEW e \in Escrows, DisputeStep(e)
  PROVE  Apart(e)
<1> USE DEF TypeOK, LedgerTypeOK, Apart, Store, StoreOnly, SetMilestone
<1>1. ASSUME NEW caller \in Accounts, NEW target \in DOMAIN milestones[e] \cup {None},
             RaiseDispute(caller, e, target)
      PROVE  Apart(e)
  BY <1>1 DEF RaiseDispute
<1>2. ASSUME NEW m, NEW x, NEW y, Settle(e, m, x, y) PROVE Apart(e)
  BY <1>2 DEF Settle
<1>3. ASSUME NEW caller \in Accounts,
             \/ ClaimDisputeTimeout(caller, e)
             \/ \E share \in ClientShares : ResolveDispute(caller, e, share)
      PROVE  Apart(e)
  BY <1>2, <1>3 DEF ClaimDisputeTimeout, ResolveDispute
<1>4. ASSUME NEW payload \in OraclePayloads, NEW grace \in TimeArguments \cup {0},
             OracleResolveDispute(e, payload, grace)
      PROVE  Apart(e)
  BY <1>2, <1>4 DEF OracleResolveDispute
<1>5. ASSUME NEW caller \in Accounts,
             \/ RequestCancellation(caller, e) \/ ApproveCancellation(caller, e)
             \/ DisputeCancellation(caller, e)
      PROVE  Apart(e)
  BY <1>5 DEF RequestCancellation, ApproveCancellation, DisputeCancellation
<1>6. CASE ExecuteCancellation(e)
  BY <1>6 DEF ExecuteCancellation, RemoveRequest
<1>7. ASSUME NEW caller \in Accounts, NEW upheld \in BOOLEAN,
             \/ FinalizeSlash(e) \/ DisputeSlash(e) \/ ResolveSlashDispute(caller, e, upheld)
      PROVE  Apart(e)
  BY <1>7 DEF FinalizeSlash, DisputeSlash, ResolveSlashDispute, RemoveSlash
<1>8. ADMIN \in Accounts
  BY ActorAssumption
<1> QED
  BY <1>1, <1>3, <1>4, <1>5, <1>6, <1>7, <1>8 DEF DisputeStep

\* The meta that an entry point loads: settled, and with the status that was stored.
LEMMA LoadedMeta ==
  ASSUME IInv, NEW e \in Escrows, Live(e)
  PROVE  RentCollected(e) \in EscrowMeta /\ RentCollected(e).status \in EscrowStatus
  BY CollectedStatus DEF IInv, Live

\* Changing other fields of a meta keeps its rent clock.
LEMMA FieldsTimed ==
  ASSUME NEW c \in EscrowMeta, c.status \in EscrowStatus, NEW v, NEW w
  PROVE  /\ Timed(c, c)
         /\ Timed([c EXCEPT !.allocated_amount = v, !.rent_balance = w], c)
         /\ Timed([c EXCEPT !.deadline = v, !.submitted_count = w], c)
         /\ Timed([c EXCEPT !.submitted_count = v], c)
         /\ Timed([c EXCEPT !.timelock = v], c)
         /\ Timed([c EXCEPT !.lock_time = v], c)
         /\ Timed([c EXCEPT !.client = v], c)
         /\ Timed([c EXCEPT !.rent_balance = v], c)
         /\ Timed([c EXCEPT !.remaining_balance = v], c)
  BY DEF Timed, EscrowMeta

\* So does a new status.
LEMMA StatusTimed ==
  ASSUME NEW c \in EscrowMeta, NEW v \in EscrowStatus, NEW w
  PROVE  /\ Timed([c EXCEPT !.status = v], c)
         /\ Timed([c EXCEPT !.status = v, !.rent_balance = w], c)
         /\ Timed([c EXCEPT !.remaining_balance = w, !.status = v], c)
  BY DEF Timed, EscrowMeta

\* So do opening a dispute and closing one.
LEMMA DisputeTimed ==
  ASSUME NEW c \in EscrowMeta, NEW v
  PROVE  /\ Timed([DisputeOpened(c) EXCEPT !.submitted_count = v], c)
         /\ Timed([[c EXCEPT !.dispute_started_ledger = None] EXCEPT
                     !.remaining_balance = 0, !.status = "Completed"], c)
<1>1. "Disputed" \in EscrowStatus /\ "Completed" \in EscrowStatus
  BY DEF EscrowStatus
<1> QED
  BY <1>1 DEF Timed, DisputeOpened, EscrowMeta

\* So do booking releases and completing the escrow.
LEMMA ReleasedTimed ==
  ASSUME NEW c \in EscrowMeta, NEW d \in EscrowMeta, Timed(d, c),
         NEW n, NEW amount, NEW condition
  PROVE  /\ Timed(CompleteIf(condition, d), c)
         /\ Timed(CompleteIf(condition, Released(d, n, amount)), c)
<1> DEFINE r == Released(d, n, amount)
<1>1. /\ r.status = d.status /\ r.last_rent_collection_at = d.last_rent_collection_at
      /\ [r EXCEPT !.status = "Completed"].status = "Completed"
      /\ [r EXCEPT !.status = "Completed"].last_rent_collection_at = d.last_rent_collection_at
  BY DEF Released, EscrowMeta
<1>2. /\ [d EXCEPT !.status = "Completed"].status = "Completed"
      /\ [d EXCEPT !.status = "Completed"].last_rent_collection_at = d.last_rent_collection_at
  BY DEF EscrowMeta
<1>3. "Completed" \in EscrowStatus
  BY DEF EscrowStatus
<1> HIDE DEF r
<1> QED
  BY <1>1, <1>2, <1>3 DEF Timed, CompleteIf, r

\* An approval books counters of naturals.
LEMMA ApprovedTimed ==
  ASSUME NEW c \in EscrowMeta, c.status \in EscrowStatus, NEW n \in Nat
  PROVE  /\ [c EXCEPT !.approved_count = c.approved_count + n] \in EscrowMeta
         /\ Timed([c EXCEPT !.approved_count = c.approved_count + n], c)
         /\ [c EXCEPT !.approved_count = c.approved_count + n,
                      !.submitted_count = Positive(c.submitted_count - n)] \in EscrowMeta
         /\ Timed([c EXCEPT !.approved_count = c.approved_count + n,
                            !.submitted_count = Positive(c.submitted_count - n)], c)
<1> DEFINE k == Positive(c.submitted_count - n)
           a == [c EXCEPT !.approved_count = c.approved_count + n]
           d == [a EXCEPT !.submitted_count = k]
<1>1. c.approved_count + n \in Nat /\ k \in Nat
  BY PositiveNat DEF EscrowMeta
<1>2. a \in EscrowMeta
  BY <1>1, PutApprovedCount
<1> HIDE DEF k
<1>3. d \in EscrowMeta
  BY <1>1, <1>2, PutSubmittedCount
<1>4. Timed(a, c) /\ Timed(d, c)
  BY <1>2 DEF Timed, EscrowMeta
<1> QED
  BY <1>2, <1>3, <1>4 DEF k

\* No entry point of the milestones takes the access to an escrow away.
LEMMA MilestoneStepAccess ==
  ASSUME IInv, IInv', NEW e \in Escrows, MilestoneStep(e), UNCHANGED clock
  PROVE  KeepsAccess
<1> DEFINE c == RentCollected(e)
<1>1. TypeOK /\ Apart(e)
  BY MilestoneStepApart DEF IInv
<1>2. ASSUME Accessible(e) PROVE c \in EscrowMeta /\ c.status \in EscrowStatus /\ Timed(c, c)
  BY <1>2, LoadedMeta DEF Accessible, Timed
<1> HIDE DEF c
<1>3. ASSUME ~Accessible(e) PROVE KeepsAccess
  BY <1>1, <1>3, UntouchedAccess DEF Apart, KeepsAccess
<1>4. ASSUME NEW m, NEW payment, NEW extra, NEW deposit, Accessible(e),
             Store(e, m, payment, extra, deposit), Timed(m, c)
      PROVE  KeepsAccess
  BY <1>1, <1>4, StoredAccess DEF c
<1>5. ASSUME NEW m, StoreOnly(e, m), Accessible(e), Timed(m, c) PROVE KeepsAccess
  BY <1>4, <1>5 DEF StoreOnly
<1>6. ASSUME NEW terms \in Terms, CreateEscrow(e, terms) PROVE KeepsAccess
  BY <1>3, <1>6 DEF CreateEscrow, Accessible, Live, EscrowStatus
<1>7. ASSUME NEW amounts \in AmountLists, AddMilestones(e, amounts) PROVE KeepsAccess
  BY <1>2, <1>4, <1>7, FieldsTimed DEF AddMilestones, c
<1>8. ASSUME NEW i \in DOMAIN milestones[e], SubmitMilestone(e, i) PROVE KeepsAccess
  BY <1>2, <1>5, <1>8, FieldsTimed DEF SubmitMilestone, c
<1>9. ASSUME NEW i \in DOMAIN milestones[e],
             RejectMilestone(e, i) \/ RejectMilestoneWithReason(e, i)
      PROVE  KeepsAccess
  BY <1>2, <1>5, <1>9, FieldsTimed DEF RejectMilestone, RejectMilestoneWithReason, Reject, c
<1>10. ASSUME NEW i \in DOMAIN milestones[e], NEW caller \in Accounts,
              ApproveMilestone(caller, e, i)
       PROVE  KeepsAccess
  <2> DEFINE d == [c EXCEPT !.approved_count = c.approved_count + 1]
             r == Released(d, 1, milestones[e][i].amount)
  <2>1. Accessible(e) /\ c \in EscrowMeta /\ d \in EscrowMeta /\ Timed(d, c)
    BY <1>2, <1>10, ApprovedTimed DEF ApproveMilestone
  <2>2. PICK condition, payment :
          Store(e, CompleteIf(condition, IF TimelockExpired(meta[e]) THEN r ELSE d), payment, 0, 0)
    BY <1>10 DEF ApproveMilestone, c
  <2> HIDE DEF d
  <2>3. Timed(CompleteIf(condition, d), c) /\ Timed(CompleteIf(condition, r), c)
    BY <2>1, ReleasedTimed
  <2> HIDE DEF r
  <2> QED
    BY <1>4, <2>1, <2>2, <2>3
<1>11. ASSUME NEW ids \in BatchLists, NEW caller \in Accounts,
              BatchApproveMilestones(caller, e, ids)
       PROVE  KeepsAccess
  <2> DEFINE d == [c EXCEPT !.approved_count = c.approved_count + Len(ids),
                            !.submitted_count = Positive(c.submitted_count - Len(ids))]
             r == Released(d, Len(ids), BatchTotal(e, ids))
  <2>1. Len(ids) \in Nat
    BY ArgumentTypes
  <2>2. Accessible(e) /\ c \in EscrowMeta /\ d \in EscrowMeta /\ Timed(d, c)
    BY <1>2, <1>11, <2>1, ApprovedTimed DEF BatchApproveMilestones
  <2>3. PICK condition, payment :
          Store(e, CompleteIf(condition, IF TimelockExpired(meta[e]) THEN r ELSE d), payment, 0, 0)
    BY <1>11 DEF BatchApproveMilestones, c
  <2> HIDE DEF d
  <2>4. Timed(CompleteIf(condition, d), c) /\ Timed(CompleteIf(condition, r), c)
    BY <2>2, ReleasedTimed
  <2> HIDE DEF r
  <2> QED
    BY <1>4, <2>2, <2>3, <2>4
<1>12. ASSUME NEW n, NEW amount, NEW condition, NEW payment, Accessible(e),
              Store(e, CompleteIf(condition, Released(c, n, amount)), payment, 0, 0)
       PROVE  KeepsAccess
  BY <1>2, <1>4, <1>12, ReleasedTimed
<1>13. ASSUME NEW i \in DOMAIN milestones[e], NEW caller \in Accounts,
              ReleaseFunds(caller, e, i) \/ ReleaseWithTimelock(caller, e, i)
       PROVE  KeepsAccess
  BY <1>12, <1>13 DEF ReleaseFunds, ReleaseWithTimelock, c
<1>14. ASSUME NEW ids \in BatchLists, BatchReleaseFunds(e, ids) PROVE KeepsAccess
  BY <1>12, <1>14 DEF BatchReleaseFunds, c
<1>15. ASSUME NEW t \in TimeArguments, NEW caller \in Accounts,
              StartTimelock(caller, e, t) \/ ExtendLockTime(e, t) \/ SetTimelock(e, t)
       PROVE  KeepsAccess
  BY <1>2, <1>5, <1>15, FieldsTimed DEF StartTimelock, ExtendLockTime, SetTimelock, c
<1>16. CASE CancelEscrow(e)
  <2>1. "Cancelled" \in EscrowStatus
    BY DEF EscrowStatus
  <2> QED
    BY <1>2, <1>4, <1>16, <2>1, StatusTimed DEF CancelEscrow, c
<1>17. CASE PartialCancel(e)
  BY <1>2, <1>4, <1>17, FieldsTimed DEF PartialCancel, c
<1>18. CASE TriggerExpiry(e)
  <2>1. /\ meta'[e].status = "Cancelled" /\ meta'[e].rent_balance = meta[e].rent_balance
        /\ meta'[e].last_rent_collection_at = meta[e].last_rent_collection_at
    BY <1>1, <1>18 DEF TriggerExpiry, TypeOK, LedgerTypeOK, EscrowMeta
  <2>2. ActiveStorageEntries(e)' = ActiveStorageEntries(e) /\ now' = now
    BY <1>18 DEF TriggerExpiry, ActiveStorageEntries, records, clock
  <2>3. Accessible(e) => Accessible(e)'
    BY <2>1, <2>2 DEF Accessible, Live, RentHasExpired, ElapsedPeriods, EscrowStatus
  <2> QED
    BY <1>1, <2>3, UntouchedAccess DEF Apart, KeepsAccess
<1>19. ASSUME NEW newClient \in NewClients, TransferClientRole(e, newClient)
       PROVE  KeepsAccess
  BY <1>2, <1>5, <1>19, FieldsTimed DEF TransferClientRole, c
<1>20. ADMIN \in Accounts
  BY ActorAssumption
<1> QED
  BY <1>6, <1>7, <1>8, <1>9, <1>10, <1>11, <1>13, <1>14, <1>15, <1>16, <1>17, <1>18, <1>19,
     <1>20 DEF MilestoneStep

\* Fewer entries make the same reserve last longer.
LEMMA DivAntitone ==
  ASSUME NEW a \in Nat, NEW b \in Nat \ {0}, NEW c \in Nat \ {0}, b <= c
  PROVE  a \div c <= a \div b
<1> DEFINE q == a \div c
<1>1. q \in Nat /\ q * c <= a
  BY DivFloor
<1> HIDE DEF q
<1>2. b * q <= c * q /\ b * q \in Nat /\ c * q = q * c
  BY <1>1, ProductMonotone, NatProduct
<1>3. q * c \in Nat
  BY <1>1, NatProduct
<1>4. b * q <= a
  BY <1>1, <1>2, <1>3
<1>5. (b * q) \div b <= a \div b /\ (b * q) \div b = q
  BY <1>1, <1>2, <1>4, DivMonotone, DivExact
<1> QED
  BY <1>5 DEF q

\* No entry point of the disputes and cancellations takes the access to an escrow away.
LEMMA DisputeStepAccess ==
  ASSUME IInv, IInv', NEW e \in Escrows, DisputeStep(e), UNCHANGED clock
  PROVE  KeepsAccess
<1> DEFINE c == RentCollected(e)
<1>1. TypeOK /\ Apart(e)
  BY DisputeStepApart DEF IInv
<1>2. ASSUME Accessible(e) PROVE c \in EscrowMeta /\ c.status \in EscrowStatus /\ Timed(c, c)
  BY <1>2, LoadedMeta DEF Accessible, Timed
<1> HIDE DEF c
<1>3. ASSUME ~Accessible(e) \/ (Accessible(e) /\ Accessible(e)') PROVE KeepsAccess
  BY <1>1, <1>3, UntouchedAccess DEF Apart, KeepsAccess
<1>4. ASSUME NEW m, NEW payment, NEW extra, NEW deposit, Accessible(e),
             Store(e, m, payment, extra, deposit), Timed(m, c)
      PROVE  KeepsAccess
  BY <1>1, <1>4, StoredAccess DEF c
<1>5. ASSUME NEW m, StoreOnly(e, m), Accessible(e), Timed(m, c) PROVE KeepsAccess
  BY <1>4, <1>5 DEF StoreOnly
<1>6. {"Disputed", "Completed", "CancellationPending", "Cancelled"} \subseteq EscrowStatus
  BY DEF EscrowStatus
<1>7. ASSUME NEW caller \in Accounts, NEW target \in DOMAIN milestones[e] \cup {None},
             RaiseDispute(caller, e, target)
      PROVE  KeepsAccess
  BY <1>2, <1>5, <1>7, DisputeTimed DEF RaiseDispute, c
<1>8. ASSUME NEW x, NEW y, Accessible(e),
             \/ Settle(e, c, x, y)
             \/ Settle(e, [c EXCEPT !.dispute_started_ledger = None], x, y)
      PROVE  KeepsAccess
  BY <1>2, <1>4, <1>6, <1>8, DisputeTimed, StatusTimed DEF Settle
<1>9. ASSUME NEW caller \in Accounts, ClaimDisputeTimeout(caller, e) PROVE KeepsAccess
  BY <1>8, <1>9 DEF ClaimDisputeTimeout, c
<1>10. ASSUME NEW caller \in Accounts, NEW share \in ClientShares,
              ResolveDispute(caller, e, share)
       PROVE  KeepsAccess
  BY <1>8, <1>10 DEF ResolveDispute, c
<1>11. ASSUME NEW payload \in OraclePayloads, NEW grace \in TimeArguments \cup {0},
              OracleResolveDispute(e, payload, grace)
       PROVE  KeepsAccess
  BY <1>8, <1>11 DEF OracleResolveDispute, c
<1>12. ASSUME NEW caller \in Accounts, RequestCancellation(caller, e) PROVE KeepsAccess
  BY <1>2, <1>4, <1>6, <1>12, StatusTimed DEF RequestCancellation, c
<1>13. ASSUME NEW caller \in Accounts, ApproveCancellation(caller, e) PROVE KeepsAccess
  BY <1>2, <1>5, <1>13 DEF ApproveCancellation, c
<1>14. ASSUME NEW caller \in Accounts, DisputeCancellation(caller, e) PROVE KeepsAccess
  BY <1>2, <1>5, <1>6, <1>14, StatusTimed DEF DisputeCancellation, c
<1>15. CASE ExecuteCancellation(e)
  BY <1>2, <1>4, <1>6, <1>15, StatusTimed DEF ExecuteCancellation, c
<1>16. CASE FinalizeSlash(e)
  <2> DEFINE n == ActiveStorageEntries(e)
             next == ActiveStorageEntries(e)'
  <2> SUFFICES ASSUME Accessible(e) PROVE Accessible(e)'
    BY <1>3
  <2>1. meta' = meta /\ now' = now
    BY <1>16 DEF FinalizeSlash, clock
  <2>2. n \in Nat \ {0} /\ next \in Nat \ {0}
    BY <1>1, EntriesPositive, EntriesPositiveNext DEF IInv
  <2>3. next = n - 1
    <3>1. slash[e] # None /\ slash'[e] = None /\ milestones'[e] = milestones[e]
          /\ request'[e] = request[e]
      BY <1>1, <1>16 DEF FinalizeSlash, RemoveSlash, TypeOK, LedgerTypeOK
    <3>2. n = next + 1
      <4> DEFINE r == IF request[e] # None THEN 1 ELSE 0
                 k == Len(milestones[e])
      <4>1. k \in Nat /\ r \in {0, 1}
        BY <1>1 DEF TypeOK, LedgerTypeOK
      <4>2. n = 1 + k + r + 1 /\ next = 1 + k + r + 0
        BY <3>1 DEF ActiveStorageEntries
      <4> HIDE DEF n, next, k, r
      <4> QED
        BY <4>1, <4>2
    <3> HIDE DEF n, next
    <3> QED
      BY <2>2, <3>2
  <2>4. meta[e].rent_balance \in Nat /\ ElapsedPeriods(meta[e]) \in Int
    <3>1. /\ now \in Nat /\ meta[e].last_rent_collection_at \in Nat
          /\ RENT_PERIOD_SECONDS \in Nat \ {0} /\ meta[e].rent_balance \in Nat
      BY <1>1, RentAssumption DEF TypeOK, LedgerTypeOK, EscrowMeta
    <3> QED
      BY <3>1 DEF ElapsedPeriods
  <2> HIDE DEF n, next
  <2>5. /\ meta[e].rent_balance \div n <= meta[e].rent_balance \div next
        /\ meta[e].rent_balance \div n \in Nat /\ meta[e].rent_balance \div next \in Nat
    <3>1. next <= n
      BY <2>2, <2>3
    <3>2. \A b \in Nat : b \div n <= b \div next /\ b \div n \in Nat /\ b \div next \in Nat
      BY <2>2, <3>1, DivAntitone, DivFloor
    <3> QED
      BY <2>4, <3>2
  <2>6. ~(ElapsedPeriods(meta[e]) > meta[e].rent_balance \div n)
    BY DEF Accessible, RentHasExpired, n
  <2>7. ~(ElapsedPeriods(meta[e]) > meta[e].rent_balance \div next)
    BY <2>4, <2>5, <2>6
  <2> QED
    BY <2>1, <2>7 DEF Accessible, Live, RentHasExpired, ElapsedPeriods, next
<1>17. CASE DisputeSlash(e)
  BY <1>2, <1>5, <1>17 DEF DisputeSlash, c
<1>18. ASSUME NEW caller \in Accounts, NEW upheld \in BOOLEAN,
              ResolveSlashDispute(caller, e, upheld)
       PROVE  KeepsAccess
  BY <1>2, <1>4, <1>18 DEF ResolveSlashDispute, c
<1>19. ADMIN \in Accounts
  BY ActorAssumption
<1> QED
  BY <1>7, <1>9, <1>10, <1>11, <1>12, <1>13, <1>14, <1>15, <1>16, <1>17, <1>18, <1>19
  DEF DisputeStep

\* Collecting rent ends only escrows that were not accessible, and neither a top-up
\* nor a withdrawal moves the rent clock.
LEMMA RentStepAccess ==
  ASSUME IInv, IInv', NEW e \in Escrows, RentStep(e), UNCHANGED clock
  PROVE  KeepsAccess
<1> DEFINE c == RentCollected(e)
<1>1. TypeOK /\ Apart(e)
  BY DEF IInv, TypeOK, LedgerTypeOK, Apart, RentStep, GetEscrowMeta, CollectRent, TopUpRent,
         WithdrawRentOverpayment, Store, StoreOnly, records
<1>2. ASSUME Accessible(e) PROVE c \in EscrowMeta /\ c.status \in EscrowStatus /\ Timed(c, c)
  BY <1>2, LoadedMeta DEF Accessible, Timed
<1> HIDE DEF c
<1>3. ASSUME ~Accessible(e) PROVE KeepsAccess
  BY <1>1, <1>3, UntouchedAccess DEF Apart, KeepsAccess
<1>4. ASSUME NEW m, NEW payment, NEW extra, NEW deposit, Accessible(e),
             Store(e, m, payment, extra, deposit), Timed(m, c)
      PROVE  KeepsAccess
  BY <1>1, <1>4, StoredAccess DEF c
<1>5. CASE GetEscrowMeta(e)
  BY <1>2, <1>4, <1>5 DEF GetEscrowMeta, StoreOnly, c
<1>6. CASE CollectRent(e)
  <2> SUFFICES ASSUME Accessible(e) PROVE KeepsAccess
    BY <1>3
  <2>1. c.rent_balance \in Nat /\ ActiveStorageEntries(e) \in Nat \ {0}
    BY <1>1, <1>2, EntriesPositive DEF EscrowMeta
  <2>2. c.rent_balance \div ActiveStorageEntries(e) \in Nat
    BY <2>1, DivFloor
  <2>3. ~RentHasExpired(e, c)
    BY <2>2, NoPeriodLeft DEF RentHasExpired, c
  <2> QED
    BY <1>2, <1>4, <1>6, <2>3 DEF CollectRent, StoreOnly, c
<1>7. ASSUME NEW n \in RentPeriods, TopUpRent(e, n) \/ WithdrawRentOverpayment(e, n)
      PROVE  KeepsAccess
  BY <1>2, <1>4, <1>7, FieldsTimed DEF TopUpRent, WithdrawRentOverpayment, c
<1> QED
  BY <1>5, <1>6, <1>7 DEF RentStep

\* The admin's calls keep the access to the escrows.
LEMMA AdminStepAccess ==
  ASSUME IInv, IInv', AdminStep, UNCHANGED clock
  PROVE  KeepsAccess
<1>1. TypeOK
  BY DEF IInv
<1>2. ASSUME UNCHANGED <<meta, milestones, request, slash>> PROVE KeepsAccess
  BY <1>2, UntouchedAccess DEF KeepsAccess
<1>3. ASSUME NEW e \in Escrows, CollectEscrowFee(e) PROVE KeepsAccess
  BY <1>2, <1>3 DEF CollectEscrowFee
<1>4. ASSUME NEW e \in Escrows, NEW bps \in ArbiterFees, SetArbiterFeeBps(e, bps)
      PROVE  KeepsAccess
  <2>1. /\ meta'[e].status = meta[e].status /\ meta'[e].rent_balance = meta[e].rent_balance
        /\ meta'[e].last_rent_collection_at = meta[e].last_rent_collection_at
    BY <1>1, <1>4 DEF SetArbiterFeeBps, TypeOK, LedgerTypeOK, EscrowMeta
  <2>2. ActiveStorageEntries(e)' = ActiveStorageEntries(e) /\ now' = now
    BY <1>4 DEF SetArbiterFeeBps, ActiveStorageEntries, records, clock
  <2>3. Accessible(e) => Accessible(e)'
    BY <2>1, <2>2 DEF Accessible, Live, RentHasExpired, ElapsedPeriods
  <2>4. Apart(e)
    BY <1>1, <1>4 DEF Apart, SetArbiterFeeBps, records, TypeOK, LedgerTypeOK
  <2> QED
    BY <2>3, <2>4, UntouchedAccess DEF Apart, KeepsAccess
<1>5. ASSUME NEW e \in Escrows, FreezeEscrow(e) \/ UnfreezeEscrow(e) PROVE KeepsAccess
  <2>1. Accessible(e) /\ Store(e, RentCollected(e), NoPayment, 0, 0)
    BY <1>5 DEF FreezeEscrow, UnfreezeEscrow, SetFrozen, StoreOnly
  <2>2. Apart(e)
    BY <1>1, <1>5 DEF Apart, FreezeEscrow, UnfreezeEscrow, SetFrozen, StoreOnly, Store, records,
                      TypeOK, LedgerTypeOK
  <2>3. Timed(RentCollected(e), RentCollected(e))
    BY <2>1, LoadedMeta DEF Accessible, Timed
  <2> QED
    BY <2>1, <2>2, <2>3, StoredAccess
<1>6. CASE Pause \/ Unpause
  BY <1>2, <1>6 DEF Pause, Unpause, records
<1> QED
  BY <1>3, <1>4, <1>5, <1>6 DEF AdminStep

\* So does every step but the close of a ledger.
LEMMA StepAccess ==
  ASSUME IInv, IInv', [Next]_vars, UNCHANGED clock
  PROVE  KeepsAccess
<1>1. ASSUME CloseLedger \/ UNCHANGED vars PROVE UNCHANGED <<meta, milestones, request, slash>>
  BY <1>1 DEF CloseLedger, vars, records
<1>2. CASE CloseLedger \/ UNCHANGED vars
  BY <1>1, <1>2, UntouchedAccess DEF KeepsAccess
<1> QED
  BY <1>2, MilestoneStepAccess, DisputeStepAccess, RentStepAccess, AdminStepAccess DEF Next

(* No entry point takes the access to an escrow away, whatever it adds to or  *)
(* takes from its storage entries and its reserve: only time does.            *)
THEOREM OnlyTimeEndsAccess == Spec => CallsKeepAccess
<1>1. IInv /\ IInv' /\ [Next]_vars =>
        [UNCHANGED clock => \A e \in Escrows : Accessible(e) => Accessible(e)']_vars
  BY StepAccess DEF KeepsAccess
<1> QED
  BY <1>1, InvariantHolds, PTL DEF Spec, CallsKeepAccess
=============================================================================
