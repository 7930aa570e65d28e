------------------------- MODULE EscrowContractProofs -------------------------
(***************************************************************************)
(* The escrow contract keeps its books, for every value of the constants:  *)
(* one lemma per entry point, then the theorems about the specification.   *)
(***************************************************************************)
EXTENDS EscrowLemmas

-----------------------------------------------------------------------------
(* Entry points on milestones. *)

\* add_milestone and batch_add_milestones keep the invariant.
LEMMA AddMilestonesStep ==
  ASSUME IInv, NEW e \in Escrows, NEW amounts \in AmountLists, AddMilestones(e, amounts)
  PROVE  IInv'
<1> DEFINE c == RentCollected(e)
           reserve == ReserveForEntries(Len(amounts))
           allocated == AllocatedWith(c, amounts)
           d == [c EXCEPT !.allocated_amount = allocated]
           m == [d EXCEPT !.rent_balance = d.rent_balance + reserve]
           added == [k \in 1..Len(amounts) |-> PendingMilestone(amounts[k])]
<1>1. TypeOK /\ RentClockBehind /\ Live(e)
  BY DEF IInv, AddMilestones, Accessible
<1>2. Ordinary(c, meta[e], 0) /\ c \in EscrowMeta
  BY <1>1, RentCollectedOrdinary DEF Ordinary
<1>3. amounts \in Seq(Nat) /\ Len(amounts) \in Nat
  BY ArgumentTypes
<1>4. reserve \in Nat
  BY <1>3, RentAssumption, NatProduct DEF ReserveForEntries
<1>5. allocated \in Nat
  BY <1>2 DEF AddMilestones, EscrowMeta
<1> HIDE DEF c, reserve, allocated
<1>6. Ordinary(d, meta[e], 0)
  BY <1>2, <1>5, AllocatedOrdinary
<1>7. d.rent_balance + reserve \in Nat /\ d.rent_balance = c.rent_balance
  BY <1>2, <1>4, <1>6 DEF Ordinary, EscrowMeta
<1>8. Ordinary(m, meta[e], 0)
  <2> HIDE DEF d
  <2> QED
    BY <1>6, <1>7, RentBalanceOrdinary
<1>9. Store(e, m, NoPayment, 0, reserve)
  BY <1>2, <1>7 DEF AddMilestones, c, allocated, reserve
<1>10. added \in Seq(Milestone)
  BY <1>3 DEF PendingMilestone, Milestone, MilestoneStatus
<1>11. milestones' \in [Escrows -> Seq(Milestone)]
  <2>1. milestones \in [Escrows -> Seq(Milestone)]
    BY <1>1 DEF TypeOK, LedgerTypeOK
  <2>2. milestones[e] \o added \in Seq(Milestone)
    BY <1>10, <2>1
  <2>3. milestones' = [milestones EXCEPT ![e] = milestones[e] \o added]
    BY <2>1 DEF AddMilestones
  <2> QED
    BY <2>1, <2>2, <2>3
<1>12. RestTyped' /\ UNCHANGED <<request, slash, clock>>
  BY <1>1, <1>11, RestKept DEF AddMilestones, records
<1> HIDE DEF m
<1> QED
  BY <1>1, <1>4, <1>8, <1>9, <1>12, UnpaidStep

\* submit_milestone keeps the invariant.
LEMMA SubmitMilestoneStep ==
  ASSUME IInv, NEW e \in Escrows, NEW i, SubmitMilestone(e, i)
  PROVE  IInv'
<1> DEFINE c == RentCollected(e)
           d == [c EXCEPT !.deadline = ExtendedDeadline(c)]
           m == [d EXCEPT !.submitted_count = d.submitted_count + 1]
<1>1. TypeOK /\ RentClockBehind /\ Live(e)
  BY DEF IInv, SubmitMilestone, Accessible
<1>2. Ordinary(c, meta[e], 0) /\ c \in EscrowMeta
  BY <1>1, RentCollectedOrdinary DEF Ordinary
<1> HIDE DEF c
<1>3. ExtendedDeadline(c) \in OptTime
  BY <1>1, <1>2, TimeAssumption
     DEF ExtendedDeadline, EscrowMeta, OptTime, TypeOK, LedgerTypeOK
<1>4. Ordinary(d, meta[e], 0)
  BY <1>2, <1>3, DeadlineOrdinary
<1>5. d.submitted_count + 1 \in Nat /\ d.submitted_count = c.submitted_count
  BY <1>2, <1>4 DEF Ordinary, EscrowMeta
<1>6. Ordinary(m, meta[e], 0)
  <2> HIDE DEF d
  <2> QED
    BY <1>4, <1>5, SubmittedOrdinary
<1>7. Store(e, m, NoPayment, 0, 0)
  BY <1>2, <1>5 DEF SubmitMilestone, StoreOnly, c
<1>8. milestones' \in [Escrows -> Seq(Milestone)]
  BY <1>1, MilestoneOf, MilestoneUpdate, MilestoneReplaced
     DEF SubmitMilestone, MilestoneStatus
<1>9. RestTyped' /\ UNCHANGED <<request, slash, clock>>
  BY <1>1, <1>8, RestKept DEF SubmitMilestone, records
<1> HIDE DEF m
<1> QED
  BY <1>1, <1>6, <1>7, <1>9, UnpaidStep

\* Rejecting a milestone, with or without a reason, keeps the invariant.
LEMMA RejectStep ==
  ASSUME IInv, NEW e \in Escrows, NEW i, Reject(e, i)
  PROVE  IInv'
<1> DEFINE c == RentCollected(e)
           m == [c EXCEPT !.submitted_count = Positive(c.submitted_count - 1)]
<1>1. TypeOK /\ RentClockBehind /\ Live(e)
  BY DEF IInv, Reject, Accessible
<1>2. Ordinary(c, meta[e], 0) /\ c \in EscrowMeta
  BY <1>1, RentCollectedOrdinary DEF Ordinary
<1>3. Store(e, m, NoPayment, 0, 0)
  BY <1>2 DEF Reject, StoreOnly
<1> HIDE DEF c
<1>4. Positive(c.submitted_count - 1) \in Nat
  BY <1>2, PositiveNat DEF EscrowMeta
<1>5. Ordinary(m, meta[e], 0)
  BY <1>2, <1>4, SubmittedOrdinary
<1>6. milestones' \in [Escrows -> Seq(Milestone)]
  BY <1>1, MilestoneOf, MilestoneUpdate, MilestoneReplaced DEF Reject, MilestoneStatus
<1>7. RestTyped' /\ UNCHANGED <<request, slash, clock>>
  BY <1>1, <1>6, RestKept DEF Reject, records
<1> HIDE DEF m
<1> QED
  BY <1>1, <1>3, <1>5, <1>7, UnpaidStep

\* approve_milestone keeps the invariant, whether it pays or waits.
LEMMA ApproveMilestoneStep ==
  ASSUME IInv, NEW caller, NEW e \in Escrows, NEW i, ApproveMilestone(caller, e, i)
  PROVE  IInv'
<1> DEFINE c == RentCollected(e)
           ms == milestones[e][i]
           pays == TimelockExpired(meta[e])
           amount == IF pays THEN ms.amount ELSE 0
           approved == [c EXCEPT !.approved_count = c.approved_count + 1]
           m == IF pays THEN Released(approved, 1, ms.amount) ELSE approved
           completes == AllReleased(e, m) /\ m.approved_count = Len(milestones[e])
<1>1. TypeOK /\ RentClockBehind /\ Live(e) /\ IsMilestone(e, i)
  BY DEF IInv, ApproveMilestone, Accessible
<1>2. Ordinary(c, meta[e], 0) /\ c \in EscrowMeta
  BY <1>1, RentCollectedOrdinary DEF Ordinary
<1>3. ms \in Milestone /\ ms.amount \in Nat /\ amount \in Nat
  BY <1>1, MilestoneOf
<1>4. meta[e] \in EscrowMeta
  BY <1>1 DEF TypeOK, LedgerTypeOK
<1>5. /\ Store(e, CompleteIf(completes, m), To("freelancer", amount), 0, 0)
      /\ ReindexIf(completes, e, "Active", "Completed")
      /\ SetMilestone(e, i, IF pays THEN PaidOut(ms, 1)
                            ELSE [ms EXCEPT !.status = "Approved"])
  BY <1>2 DEF ApproveMilestone
<1> HIDE DEF c, completes
<1>6. Ordinary(approved, meta[e], 0)
  BY <1>2, ApprovedOrdinary DEF EscrowMeta
<1> HIDE DEF approved, ms, pays
<1>7. Ordinary(m, meta[e], amount)
  <2>1. Ordinary(Released(approved, 1, ms.amount), meta[e], ms.amount)
    BY <1>3, <1>4, <1>6, ReleasedOrdinary
  <2> QED
    BY <1>6, <2>1
<1> HIDE DEF m, amount
<1>8. Ordinary(CompleteIf(completes, m), meta[e], amount)
  BY <1>3, <1>4, <1>7, CompletedOrdinary
<1>9. milestones' \in [Escrows -> Seq(Milestone)]
  BY <1>1, <1>3, <1>5, MilestoneUpdate, MilestoneReplaced DEF MilestoneStatus
<1>10. RestTyped' /\ UNCHANGED <<request, slash, clock>>
  BY <1>1, <1>5, <1>9, IndexMoved, RestMoved
     DEF ApproveMilestone, ReindexIf, EscrowStatus
<1> QED
  BY <1>1, <1>3, <1>5, <1>8, <1>10, PaidStep DEF Roles

\* batch_approve_milestones keeps the invariant, even when an id is listed twice.
LEMMA BatchApproveMilestonesStep ==
  ASSUME IInv, NEW caller, NEW e \in Escrows, NEW ids \in BatchLists,
         BatchApproveMilestones(caller, e, ids)
  PROVE  IInv'
<1> DEFINE c == RentCollected(e)
           pays == TimelockExpired(meta[e])
           total == BatchTotal(e, ids)
           counted == [c EXCEPT !.approved_count = c.approved_count + Len(ids)]
           approved == [counted EXCEPT
                          !.submitted_count = Positive(counted.submitted_count - Len(ids))]
           m == IF pays THEN Released(approved, Len(ids), total) ELSE approved
           F == [i \in DOMAIN milestones[e] |->
                   IF Times(i, ids) = 0 THEN milestones[e][i]
                   ELSE IF pays THEN PaidOut(milestones[e][i], Times(i, ids))
                   ELSE [milestones[e][i] EXCEPT !.status = "Approved"]]
<1>1. TypeOK /\ RentClockBehind /\ Live(e)
  BY DEF IInv, BatchApproveMilestones, Accessible
<1>2. Ordinary(c, meta[e], 0) /\ c \in EscrowMeta
  BY <1>1, RentCollectedOrdinary DEF Ordinary
<1>3. ids \in Seq(Nat) /\ Len(ids) \in Nat /\ total \in Nat
  <2>1. total \in 0..MAX_I128 /\ MAX_I128 \in Nat
    BY AmountAssumption DEF BatchApproveMilestones
  <2> QED
    BY <2>1, ArgumentTypes
<1>4. F \in [DOMAIN milestones[e] -> Milestone]
  <2>1. ASSUME NEW i \in DOMAIN milestones[e]
        PROVE  milestones[e][i] \in Milestone /\ Times(i, ids) \in Nat
    BY <1>1, <1>3, MilestoneOf, TimesNat DEF IsMilestone
  <2>2. "Approved" \in MilestoneStatus
    BY DEF MilestoneStatus
  <2> QED
    BY <2>1, <2>2, MilestoneUpdate
<1>5. milestones' \in [Escrows -> Seq(Milestone)]
  <2>1. milestones' = [milestones EXCEPT ![e] = F]
    BY <1>1 DEF BatchApproveMilestones, TypeOK, LedgerTypeOK
  <2> HIDE DEF F
  <2> QED
    BY <1>1, <1>4, <2>1, MilestonesMapped
<1> HIDE DEF F
<1>6. approved = [c EXCEPT !.approved_count = @ + Len(ids),
                           !.submitted_count = Positive(@ - Len(ids))]
  BY <1>2 DEF EscrowMeta
<1>7. Store(e, CompleteIf(AllReleased(e, m), m),
            To("freelancer", IF pays THEN total ELSE 0), 0, 0)
  BY <1>6 DEF BatchApproveMilestones
<1> HIDE DEF c, total
<1>8. c.approved_count + Len(ids) \in Nat
  BY <1>2, <1>3 DEF EscrowMeta
<1>9. Ordinary(counted, meta[e], 0)
  BY <1>2, <1>8, ApprovedOrdinary
<1> HIDE DEF counted
<1>10. Positive(counted.submitted_count - Len(ids)) \in Nat
  <2>1. counted.submitted_count \in Nat
    BY <1>9 DEF Ordinary, EscrowMeta
  <2>2. counted.submitted_count - Len(ids) \in Int
    BY <1>3, <2>1
  <2> QED
    BY <2>2, PositiveNat
<1>11. Ordinary(approved, meta[e], 0)
  BY <1>9, <1>10, SubmittedOrdinary
<1>12. UNCHANGED <<request, slash, releaseTime, indexed, feeCollected, switches, clock>>
  BY DEF BatchApproveMilestones, records
<1> HIDE DEF approved, pays
<1>13. CASE pays
  BY <1>1, <1>3, <1>5, <1>7, <1>11, <1>12, <1>13, ReleaseStep
<1>14. CASE ~pays
  <2>1. /\ Ordinary(CompleteIf(AllReleased(e, m), approved), meta[e], 0)
        /\ Store(e, CompleteIf(AllReleased(e, m), approved), To("freelancer", 0), 0, 0)
    BY <1>1, <1>7, <1>11, <1>14, CompletedOrdinary DEF TypeOK, LedgerTypeOK
  <2>2. RestTyped'
    BY <1>1, <1>5, <1>12, RestKept
  <2> HIDE DEF m
  <2> QED
    BY <1>1, <1>12, <2>1, <2>2, PaidStep DEF Roles
<1> QED
  BY <1>13, <1>14

\* release_funds keeps the invariant, whatever the escrow's status.
LEMMA ReleaseFundsStep ==
  ASSUME IInv, NEW caller, NEW e \in Escrows, NEW i, ReleaseFunds(caller, e, i)
  PROVE  IInv'
<1> DEFINE c == RentCollected(e)
           ms == milestones[e][i]
           m == Released(c, 1, ms.amount)
<1>1. TypeOK /\ RentClockBehind /\ Live(e) /\ IsMilestone(e, i)
  BY DEF IInv, ReleaseFunds, Accessible
<1>2. Ordinary(c, meta[e], 0)
  BY <1>1, RentCollectedOrdinary
<1>3. ms \in Milestone /\ ms.amount \in Nat
  BY <1>1, MilestoneOf
<1>4. milestones' \in [Escrows -> Seq(Milestone)]
  BY <1>1, <1>3, MilestoneUpdate, MilestoneReplaced DEF ReleaseFunds, MilestoneStatus
<1>5. /\ Store(e, CompleteIf(AllReleased(e, m), m), To("freelancer", ms.amount), 0, 0)
      /\ MoveIndex(e, "Active", "Completed") \/ UNCHANGED indexed
      /\ UNCHANGED <<request, slash, releaseTime, feeCollected, switches, clock>>
  BY DEF ReleaseFunds, ReindexIf
<1> HIDE DEF c, ms
<1> QED
  BY <1>1, <1>2, <1>3, <1>4, <1>5, ReleaseStep

\* batch_release_funds keeps the invariant, whatever the status and the ids.
LEMMA BatchReleaseFundsStep ==
  ASSUME IInv, NEW e \in Escrows, NEW ids \in BatchLists, BatchReleaseFunds(e, ids)
  PROVE  IInv'
<1> DEFINE c == RentCollected(e)
           total == BatchTotal(e, ids)
           m == Released(c, Len(ids), total)
           F == [i \in DOMAIN milestones[e] |->
                   IF Times(i, ids) = 0 THEN milestones[e][i]
                   ELSE PaidOut(milestones[e][i], Times(i, ids))]
<1>1. TypeOK /\ RentClockBehind /\ Live(e)
  BY DEF IInv, BatchReleaseFunds, Accessible
<1>2. Ordinary(c, meta[e], 0)
  BY <1>1, RentCollectedOrdinary
<1>3. ids \in Seq(Nat) /\ Len(ids) \in Nat /\ total \in Nat
  <2>1. total \in 0..MAX_I128 /\ MAX_I128 \in Nat
    BY AmountAssumption DEF BatchReleaseFunds
  <2> QED
    BY <2>1, ArgumentTypes
<1>4. F \in [DOMAIN milestones[e] -> Milestone]
  <2>1. ASSUME NEW i \in DOMAIN milestones[e]
        PROVE  milestones[e][i] \in Milestone /\ Times(i, ids) \in Nat
    BY <1>1, <1>3, MilestoneOf, TimesNat DEF IsMilestone
  <2> QED
    BY <2>1, MilestoneUpdate DEF MilestoneStatus
<1>5. milestones' \in [Escrows -> Seq(Milestone)]
  <2>1. milestones' = [milestones EXCEPT ![e] = F]
    BY <1>1 DEF BatchReleaseFunds, TypeOK, LedgerTypeOK
  <2> HIDE DEF F
  <2> QED
    BY <1>1, <1>4, <2>1, MilestonesMapped
<1>6. /\ Store(e, CompleteIf(AllReleased(e, m), m), To("freelancer", total), 0, 0)
      /\ MoveIndex(e, "Active", "Completed") \/ UNCHANGED indexed
      /\ UNCHANGED <<request, slash, releaseTime, feeCollected, switches, clock>>
  BY DEF BatchReleaseFunds, ReindexIf
<1> HIDE DEF c, total, F
<1> QED
  BY <1>1, <1>2, <1>3, <1>5, <1>6, ReleaseStep

\* release_with_timelock keeps the invariant.
LEMMA ReleaseWithTimelockStep ==
  ASSUME IInv, NEW caller, NEW e \in Escrows, NEW i, ReleaseWithTimelock(caller, e, i)
  PROVE  IInv'
<1> DEFINE c == RentCollected(e)
           ms == milestones[e][i]
           m == Released(c, 1, ms.amount)
           completes == m.released_count >= Len(milestones[e])
<1>1. TypeOK /\ RentClockBehind /\ Live(e) /\ IsMilestone(e, i)
  BY DEF IInv, ReleaseWithTimelock, Accessible
<1>2. Ordinary(c, meta[e], 0)
  BY <1>1, RentCollectedOrdinary
<1>3. ms \in Milestone /\ ms.amount \in Nat
  BY <1>1, MilestoneOf
<1>4. milestones' \in [Escrows -> Seq(Milestone)]
  BY <1>1, <1>3, MilestoneUpdate, MilestoneReplaced
     DEF ReleaseWithTimelock, MilestoneStatus
<1>5. /\ Store(e, CompleteIf(completes, m), To("freelancer", ms.amount), 0, 0)
      /\ UNCHANGED <<request, slash, releaseTime, indexed, feeCollected, switches, clock>>
  BY DEF ReleaseWithTimelock, records
<1> HIDE DEF c, ms, completes
<1> QED
  BY <1>1, <1>2, <1>3, <1>4, <1>5, ReleaseStep

\* start_timelock keeps the invariant.
LEMMA StartTimelockStep ==
  ASSUME IInv, NEW caller, NEW e \in Escrows, NEW t \in TimeArguments, StartTimelock(caller, e, t)
  PROVE  IInv'
<1> DEFINE c == RentCollected(e)
<1>1. TypeOK /\ RentClockBehind /\ Live(e)
  BY DEF IInv, StartTimelock, Accessible
<1>2. Ordinary(c, meta[e], 0)
  BY <1>1, RentCollectedOrdinary
<1>3. Store(e, [c EXCEPT !.timelock = now + t], NoPayment, 0, 0)
  BY DEF StartTimelock, StoreOnly
<1>4. now + t \in OptTime
  BY <1>1, ArgumentTypes DEF OptTime, TypeOK, LedgerTypeOK
<1> HIDE DEF c
<1>5. Ordinary([c EXCEPT !.timelock = now + t], meta[e], 0)
  BY <1>2, <1>4, TimelockOrdinary
<1>6. RestTyped' /\ UNCHANGED <<request, slash, clock>>
  BY <1>1, RestKept DEF StartTimelock, records, TypeOK, LedgerTypeOK
<1> QED
  BY <1>1, <1>3, <1>5, <1>6, UnpaidStep

\* extend_lock_time keeps the invariant.
LEMMA ExtendLockTimeStep ==
  ASSUME IInv, NEW e \in Escrows, NEW t \in TimeArguments, ExtendLockTime(e, t)
  PROVE  IInv'
<1> DEFINE c == RentCollected(e)
<1>1. TypeOK /\ RentClockBehind /\ Live(e)
  BY DEF IInv, ExtendLockTime, Accessible
<1>2. Ordinary(c, meta[e], 0)
  BY <1>1, RentCollectedOrdinary
<1>3. Store(e, [c EXCEPT !.lock_time = t], NoPayment, 0, 0)
  BY DEF ExtendLockTime, StoreOnly
<1>4. t \in OptTime
  BY ArgumentTypes DEF OptTime
<1> HIDE DEF c
<1>5. Ordinary([c EXCEPT !.lock_time = t], meta[e], 0)
  BY <1>2, <1>4, LockTimeOrdinary
<1>6. RestTyped' /\ UNCHANGED <<request, slash, clock>>
  BY <1>1, RestKept DEF ExtendLockTime, records, TypeOK, LedgerTypeOK
<1> QED
  BY <1>1, <1>3, <1>5, <1>6, UnpaidStep

\* transfer_client_role keeps the invariant.
LEMMA TransferClientRoleStep ==
  ASSUME IInv, NEW e \in Escrows, NEW newClient \in NewClients, TransferClientRole(e, newClient)
  PROVE  IInv'
<1> DEFINE c == RentCollected(e)
<1>1. TypeOK /\ RentClockBehind /\ Live(e)
  BY DEF IInv, TransferClientRole, Accessible
<1>2. Ordinary(c, meta[e], 0)
  BY <1>1, RentCollectedOrdinary
<1>3. Store(e, [c EXCEPT !.client = newClient], NoPayment, 0, 0)
  BY DEF TransferClientRole, StoreOnly
<1>4. newClient \in OptAccount
  BY ArgumentTypes DEF OptAccount
<1> HIDE DEF c
<1>5. Ordinary([c EXCEPT !.client = newClient], meta[e], 0)
  BY <1>2, <1>4, ClientOrdinary
<1>6. RestTyped' /\ UNCHANGED <<request, slash, clock>>
  BY <1>1, RestKept DEF TransferClientRole, records, TypeOK, LedgerTypeOK
<1> QED
  BY <1>1, <1>3, <1>5, <1>6, UnpaidStep

\* set_timelock keeps the invariant.
LEMMA SetTimelockStep ==
  ASSUME IInv, NEW e \in Escrows, NEW t \in TimeArguments, SetTimelock(e, t)
  PROVE  IInv'
<1>1. TypeOK /\ RentClockBehind /\ Live(e)
  BY DEF IInv, SetTimelock, Accessible
<1>2. Ordinary(RentCollected(e), meta[e], 0)
  BY <1>1, RentCollectedOrdinary
<1>3. Store(e, RentCollected(e), NoPayment, 0, 0)
  BY DEF SetTimelock, StoreOnly
<1>4. releaseTime' \in [Escrows -> OptTime]
  <2>1. t \in OptTime
    BY ArgumentTypes DEF OptTime
  <2> QED
    BY <1>1, <2>1 DEF SetTimelock, TypeOK, LedgerTypeOK
<1>5. RestTyped' /\ UNCHANGED <<request, slash, clock>>
  BY <1>1, <1>4 DEF SetTimelock, RestTyped, switches, TypeOK, LedgerTypeOK
<1> QED
  BY <1>1, <1>2, <1>3, <1>5, UnpaidStep

\* partial_cancel keeps the invariant: it pays what it takes from the balance.
LEMMA PartialCancelStep ==
  ASSUME IInv, NEW e \in Escrows, PartialCancel(e)
  PROVE  IInv'
<1> DEFINE c == RentCollected(e)
           unallocated == Positive(c.remaining_balance - c.allocated_amount)
           m == [c EXCEPT !.remaining_balance = c.remaining_balance - unallocated]
<1>1. TypeOK /\ RentClockBehind /\ Live(e) /\ meta[e] \in EscrowMeta
  BY DEF IInv, PartialCancel, Accessible, TypeOK, LedgerTypeOK
<1>2. Ordinary(c, meta[e], 0) /\ c \in EscrowMeta
  BY <1>1, RentCollectedOrdinary DEF Ordinary
<1>3. Store(e, m, To("client", unallocated), 0, 0)
  BY <1>2 DEF PartialCancel, EscrowMeta
<1> HIDE DEF c
<1>4. unallocated \in Nat
  <2>1. c.remaining_balance - c.allocated_amount \in Int
    BY <1>2 DEF EscrowMeta
  <2> QED
    BY <2>1, PositiveNat
<1> HIDE DEF unallocated
<1>5. m \in EscrowMeta
  <2>1. c.remaining_balance - unallocated \in Int
    BY <1>2, <1>4 DEF EscrowMeta
  <2> QED
    BY <1>2, <2>1, PutRemainingBalance
<1>6. Ordinary(m, meta[e], unallocated)
  BY <1>1, <1>2, <1>4, <1>5 DEF Ordinary, EscrowMeta
<1>7. RestTyped' /\ UNCHANGED <<request, slash, clock>>
  BY <1>1, RestKept DEF PartialCancel, records, TypeOK, LedgerTypeOK
<1> HIDE DEF m
<1> QED
  BY <1>1, <1>3, <1>4, <1>6, <1>7, PaidStep DEF Roles

-----------------------------------------------------------------------------
(* Entry points on the rent. *)

\* A view, which settles the rent, keeps the invariant.
LEMMA GetEscrowMetaStep ==
  ASSUME IInv, NEW e \in Escrows, GetEscrowMeta(e)
  PROVE  IInv'
<1>1. TypeOK /\ RentClockBehind /\ Live(e)
  BY DEF IInv, GetEscrowMeta, Accessible
<1>2. Ordinary(RentCollected(e), meta[e], 0)
  BY <1>1, RentCollectedOrdinary
<1>3. RestTyped' /\ UNCHANGED <<request, slash, clock>>
  BY <1>1, RestKept DEF GetEscrowMeta, records, TypeOK, LedgerTypeOK
<1> QED
  BY <1>1, <1>2, <1>3, UnpaidStep DEF GetEscrowMeta, StoreOnly

\* Freezing or unfreezing an escrow keeps the invariant.
LEMMA SetFrozenStep ==
  ASSUME IInv, NEW e \in Escrows, NEW set \in SUBSET Escrows, SetFrozen(e, set)
  PROVE  IInv'
<1>1. TypeOK /\ RentClockBehind /\ Live(e)
  BY DEF IInv, SetFrozen, Accessible
<1>2. Ordinary(RentCollected(e), meta[e], 0)
  BY <1>1, RentCollectedOrdinary
<1>3. RestTyped' /\ UNCHANGED <<request, slash, clock>>
  BY <1>1 DEF SetFrozen, records, RestTyped, TypeOK, LedgerTypeOK
<1> QED
  BY <1>1, <1>2, <1>3, UnpaidStep DEF SetFrozen, StoreOnly

\* top_up_rent keeps the invariant.
LEMMA TopUpRentStep ==
  ASSUME IInv, NEW e \in Escrows, NEW periods \in RentPeriods, TopUpRent(e, periods)
  PROVE  IInv'
<1> DEFINE c == RentCollected(e)
           topUp == ActiveStorageEntries(e) * periods
           m == [c EXCEPT !.rent_balance = c.rent_balance + topUp]
<1>1. TypeOK /\ RentClockBehind /\ Live(e)
  BY DEF IInv, TopUpRent, Accessible
<1>2. Ordinary(c, meta[e], 0) /\ c \in EscrowMeta
  BY <1>1, RentCollectedOrdinary DEF Ordinary
<1>3. topUp \in Nat
  BY <1>1, ArgumentTypes, EntriesPositive, NatProduct
<1>4. Store(e, m, NoPayment, 0, topUp)
  BY <1>2 DEF TopUpRent, EscrowMeta
<1> HIDE DEF c, topUp
<1>5. c.rent_balance + topUp \in Nat
  BY <1>2, <1>3 DEF EscrowMeta
<1>6. Ordinary(m, meta[e], 0)
  BY <1>2, <1>5, RentBalanceOrdinary
<1>7. RestTyped' /\ UNCHANGED <<request, slash, clock>>
  BY <1>1, RestKept DEF TopUpRent, records, TypeOK, LedgerTypeOK
<1> HIDE DEF m
<1> QED
  BY <1>1, <1>3, <1>4, <1>6, <1>7, UnpaidStep

\* withdraw_rent_overpayment keeps the invariant.
LEMMA WithdrawRentOverpaymentStep ==
  ASSUME IInv, NEW e \in Escrows, NEW amount, WithdrawRentOverpayment(e, amount)
  PROVE  IInv'
<1> DEFINE c == RentCollected(e)
           m == [c EXCEPT !.rent_balance = c.rent_balance - amount]
<1>1. TypeOK /\ RentClockBehind /\ Live(e)
  BY DEF IInv, WithdrawRentOverpayment, Accessible
<1>2. Ordinary(c, meta[e], 0) /\ c \in EscrowMeta
  BY <1>1, RentCollectedOrdinary DEF Ordinary
<1>3. ReserveForEntries(ActiveStorageEntries(e)) \in Nat
  BY <1>1, EntriesPositive, RentAssumption, NatProduct DEF ReserveForEntries
<1>4. Store(e, m, NoPayment, amount, 0)
  BY <1>2 DEF WithdrawRentOverpayment, EscrowMeta
<1>5. amount \in 1..(c.rent_balance - ReserveForEntries(ActiveStorageEntries(e)))
  BY DEF WithdrawRentOverpayment
<1> HIDE DEF c
<1>6. amount \in Int /\ c.rent_balance - amount \in Nat
  BY <1>2, <1>3, <1>5 DEF EscrowMeta
<1>7. Ordinary(m, meta[e], 0)
  BY <1>2, <1>6, RentBalanceOrdinary
<1>8. RestTyped' /\ UNCHANGED <<request, slash, clock>>
  BY <1>1, RestKept DEF WithdrawRentOverpayment, records, TypeOK, LedgerTypeOK
<1> HIDE DEF m
<1> QED
  BY <1>1, <1>4, <1>6, <1>7, <1>8, UnpaidStep

\* An id without a stored escrow is an escrow record too, whatever its pseudo status.
LEMMA NoMetaType ==
  /\ NoMeta \in EscrowMeta
  /\ [NoMeta EXCEPT !.status = "Expired"] \in EscrowMeta
  /\ [NoMeta EXCEPT !.status = "Expired"].status = "Expired"
  /\ [NoMeta EXCEPT !.status = "Expired"].last_rent_collection_at = 0
<1>1. /\ "Absent" \in StoredStatus /\ "Expired" \in StoredStatus
      /\ None \in OptAccount /\ None \in OptTime /\ 0 \in BasisPoints
      /\ {} \in SUBSET Accounts
  BY DEF StoredStatus, OptAccount, OptTime, BasisPoints
<1>2. NoMeta \in EscrowMeta
  BY <1>1 DEF NoMeta, EscrowMeta
<1>3. [NoMeta EXCEPT !.status = "Expired"] \in EscrowMeta
  BY <1>1, <1>2, PutStatus
<1>4. /\ [NoMeta EXCEPT !.status = "Expired"].status = "Expired"
      /\ [NoMeta EXCEPT !.status = "Expired"].last_rent_collection_at = 0
  BY DEF NoMeta
<1> QED
  BY <1>2, <1>3, <1>4

\* collect_rent keeps the invariant, whether it settles the rent or deletes the
\* escrow with its milestones, its request and its slash record.
LEMMA CollectRentStep ==
  ASSUME IInv, NEW e \in Escrows, CollectRent(e)
  PROVE  IInv'
<1> DEFINE c == RentCollected(e)
           refund == Positive(c.remaining_balance + c.rent_balance)
           gone == [NoMeta EXCEPT !.status = "Expired"]
           payment == To("client", refund)
<1>1. TypeOK /\ RentClockBehind /\ Live(e)
  BY DEF IInv, CollectRent
<1>2. Ordinary(c, meta[e], 0) /\ c \in EscrowMeta
  BY <1>1, RentCollectedOrdinary DEF Ordinary
<1>3. UNCHANGED <<releaseTime, indexed, feeCollected, switches, clock>>
  BY DEF CollectRent
<1>4. CASE ~RentHasExpired(e, c)
  <2>1. /\ Store(e, c, NoPayment, 0, 0)
        /\ UNCHANGED <<milestones, request, slash>>
    BY <1>4 DEF CollectRent, StoreOnly
  <2>2. RestTyped' /\ UNCHANGED <<request, slash, clock>>
    BY <1>1, <1>3, <2>1, RestKept DEF TypeOK, LedgerTypeOK
  <2> QED
    BY <1>1, <1>2, <2>1, <2>2, UnpaidStep
<1>5. CASE RentHasExpired(e, c)
  <2>1. /\ Store(e, gone, payment, 0, 0)
        /\ milestones' = [milestones EXCEPT ![e] = <<>>]
        /\ request' = [request EXCEPT ![e] = None]
        /\ slash' = [slash EXCEPT ![e] = None]
    BY <1>5 DEF CollectRent
  <2>2. milestones' \in [Escrows -> Seq(Milestone)]
    BY <1>1, <2>1 DEF TypeOK, LedgerTypeOK
  <2>3. RestTyped'
    BY <1>1, <1>3, <2>2, RestKept
  <2>4. refund \in Int
    <3> HIDE DEF c
    <3>1. c.remaining_balance + c.rent_balance \in Int
      BY <1>2 DEF EscrowMeta
    <3> QED
      BY <3>1, PositiveNat
  <2> HIDE DEF refund
  <2>5. payment \in Payment
    BY <2>4, PaymentType DEF Roles
  <2> HIDE DEF payment
  <2>6. gone \in EscrowMeta /\ gone.status = "Expired"
        /\ gone.last_rent_collection_at <= now
    BY <1>1, NoMetaType DEF TypeOK, LedgerTypeOK
  <2> HIDE DEF gone
  <2>7. /\ pool' \in Nat /\ meta' = [meta EXCEPT ![e] = gone]
        /\ paid' = [paid EXCEPT ![e] = PaidWith(e, payment)]
    <3>1. Store(e, gone, payment, 0, 0)
      BY <2>1
    <3> QED
      BY <1>1, <2>5, <3>1, StoreType
  <2> QED
    BY <1>3, <2>1, <2>3, <2>5, <2>6, <2>7, EndingStep
<1> QED
  BY <1>4, <1>5

-----------------------------------------------------------------------------
(* Entry points that end an escrow. *)

\* cancel_escrow keeps the invariant.
LEMMA CancelEscrowStep ==
  ASSUME IInv, NEW e \in Escrows, CancelEscrow(e)
  PROVE  IInv'
<1> DEFINE c == RentCollected(e)
           fee == IF PlatformFee(c) > c.remaining_balance
                  THEN c.remaining_balance ELSE PlatformFee(c)
           due == ApprovedDue(e)
           refund == c.remaining_balance - fee - due
           payment == [client |-> refund, freelancer |-> due, treasury |-> Positive(fee)]
           m == [c EXCEPT !.remaining_balance = 0, !.status = "Cancelled"]
           F == [i \in DOMAIN milestones[e] |->
                   IF milestones[e][i].status = "Approved"
                   THEN Transferred(milestones[e][i], 1)
                   ELSE milestones[e][i]]
<1>1. TypeOK /\ RentClockBehind /\ Live(e)
  BY DEF IInv, CancelEscrow, Accessible
<1>2. Ordinary(c, meta[e], 0) /\ c.status = meta[e].status
  BY <1>1, RentCollectedOrdinary
<1>3. c \in EscrowMeta /\ c.last_rent_collection_at <= now
  BY <1>2 DEF Ordinary
<1>4. meta[e].status = "Active"
  BY <1>2 DEF CancelEscrow
<1>5. /\ Store(e, m, payment, 0, 0)
      /\ MoveIndex(e, "Active", "Cancelled")
      /\ feeCollected' = feeCollected \ {e}
      /\ UNCHANGED <<request, slash, releaseTime, switches, clock>>
  BY DEF CancelEscrow
<1>6. fee \in Int /\ due \in Int
  BY AmountAssumption DEF CancelEscrow, Representable
<1>7. F \in [DOMAIN milestones[e] -> Milestone]
  <2>1. ASSUME NEW i \in DOMAIN milestones[e]
        PROVE  milestones[e][i] \in Milestone
    BY <1>1, MilestoneOf DEF IsMilestone
  <2> QED
    BY <2>1, MilestoneUpdate DEF MilestoneStatus
<1>8. milestones' \in [Escrows -> Seq(Milestone)]
  <2>1. milestones' = [milestones EXCEPT ![e] = F]
    BY DEF CancelEscrow
  <2> HIDE DEF F
  <2> QED
    BY <1>1, <1>7, <2>1, MilestonesMapped
<1> HIDE DEF c, fee, due, F
<1>9. payment \in Payment
  <2>1. refund \in Int
    BY <1>3, <1>6 DEF EscrowMeta
  <2>2. Positive(fee) \in Int
    BY <1>6, PositiveNat
  <2> HIDE DEF refund
  <2> QED
    BY <1>6, <2>1, <2>2 DEF Roles, Payment
<1>10. RestTyped'
  BY <1>1, <1>5, <1>8, IndexMoved, RestMoved DEF EscrowStatus
<1>11. /\ m \in EscrowMeta /\ m.last_rent_collection_at <= now
       /\ m.status = "Cancelled"
  BY <1>3, ClosedMeta
<1> HIDE DEF m, payment
<1>12. /\ pool' \in Nat /\ meta' = [meta EXCEPT ![e] = m]
       /\ paid' = [paid EXCEPT ![e] = PaidWith(e, payment)]
  BY <1>1, <1>5, <1>9, StoreType
<1>13. request' = [request EXCEPT ![e] = None] /\ slash' = [slash EXCEPT ![e] = None]
  BY <1>4, <1>5, NothingBeside
<1> QED
  BY <1>5, <1>9, <1>10, <1>11, <1>12, <1>13, EndingStep

\* trigger_expiry keeps the invariant, though it settles no rent.
LEMMA TriggerExpiryStep ==
  ASSUME IInv, NEW e \in Escrows, TriggerExpiry(e)
  PROVE  IInv'
<1> DEFINE refund == Positive(meta[e].remaining_balance)
           m == [meta[e] EXCEPT !.remaining_balance = 0, !.status = "Cancelled"]
<1>1. TypeOK /\ meta[e] \in EscrowMeta /\ meta[e].last_rent_collection_at <= now
  BY DEF IInv, TypeOK, LedgerTypeOK, RentClockBehind
<1>2. /\ meta' = [meta EXCEPT ![e] = m]
      /\ Transfer(e, To("client", refund), 0, 0)
      /\ UNCHANGED <<milestones, request, slash, releaseTime, indexed, feeCollected,
                     switches, clock>>
      /\ meta[e].status = "Active"
  BY <1>1 DEF TriggerExpiry, records, TypeOK, LedgerTypeOK
<1>3. refund \in Int
  BY <1>1, PositiveNat DEF EscrowMeta
<1>4. /\ m \in EscrowMeta /\ m.last_rent_collection_at <= now
      /\ m.status = "Cancelled"
  BY <1>1, ClosedMeta
<1> HIDE DEF m, refund
<1>5. To("client", refund) \in Payment
  BY <1>3, PaymentType DEF Roles
<1>6. pool' \in Nat /\ paid' = [paid EXCEPT ![e] = PaidWith(e, To("client", refund))]
  BY <1>1, <1>2, <1>5, TransferType
<1>7. RestTyped'
  BY <1>1, <1>2, RestKept DEF TypeOK, LedgerTypeOK
<1>8. request' = [request EXCEPT ![e] = None] /\ slash' = [slash EXCEPT ![e] = None]
  BY <1>2, NothingBeside
<1> QED
  BY <1>2, <1>4, <1>5, <1>6, <1>7, <1>8, EndingStep

\* A settlement keeps the invariant, whatever the shares: the dispute it settles is
\* timed, so no request and no slash record is left beside the completed escrow.
LEMMA SettleStep ==
  ASSUME IInv, NEW e \in Escrows, meta[e].status = "Disputed",
         \/ meta[e].dispute_start_ledger # None
         \/ meta[e].dispute_started_ledger # None,
         NEW c \in EscrowMeta, c.last_rent_collection_at <= now,
         NEW x \in Int, NEW y \in Int, Settle(e, c, x, y)
  PROVE  IInv'
<1> DEFINE payment == Split(Positive(x), Positive(y))
           m == [c EXCEPT !.remaining_balance = 0, !.status = "Completed"]
<1>1. TypeOK /\ RentClockBehind
  BY DEF IInv
<1>2. /\ Store(e, m, payment, ArbiterFee(c), 0)
      /\ MoveIndex(e, "Disputed", "Completed")
      /\ UNCHANGED <<milestones, request, slash, releaseTime, feeCollected, switches, clock>>
  BY DEF Settle
<1>3. payment \in Payment
  <2>1. Positive(x) \in Int /\ Positive(y) \in Int
    BY PositiveNat
  <2> QED
    BY <2>1, SplitType
<1>4. ArbiterFee(c) \in Int
  <2>1. c.total_amount \in Nat /\ c.arbiter_fee_bps \in BasisPoints
    BY DEF EscrowMeta
  <2>2. c.arbiter_fee_bps \in Nat
    BY <2>1, BasisPointsNat
  <2> QED
    BY <2>1, <2>2, ShareNat DEF ArbiterFee
<1>5. /\ m \in EscrowMeta /\ m.last_rent_collection_at <= now
      /\ m.status = "Completed"
  BY ClosedMeta
<1> HIDE DEF m, payment
<1>6. /\ pool' \in Nat /\ meta' = [meta EXCEPT ![e] = m]
      /\ paid' = [paid EXCEPT ![e] = PaidWith(e, payment)]
  BY <1>1, <1>2, <1>3, <1>4, StoreType
<1>7. milestones' \in [Escrows -> Seq(Milestone)]
  BY <1>1, <1>2 DEF TypeOK, LedgerTypeOK
<1>8. RestTyped'
  BY <1>1, <1>2, <1>7, IndexMoved, RestMoved DEF EscrowStatus
<1>9. request' = [request EXCEPT ![e] = None] /\ slash' = [slash EXCEPT ![e] = None]
  BY <1>2, NothingBeside
<1> QED
  BY <1>2, <1>3, <1>5, <1>6, <1>8, <1>9, EndingStep

\* claim_dispute_timeout keeps the invariant.
LEMMA ClaimDisputeTimeoutStep ==
  ASSUME IInv, NEW caller, NEW e \in Escrows, ClaimDisputeTimeout(caller, e)
  PROVE  IInv'
<1> DEFINE c == RentCollected(e)
           m == [c EXCEPT !.dispute_started_ledger = None]
           half == TruncDiv(m.remaining_balance, 2)
<1>1. TypeOK /\ RentClockBehind
  BY DEF IInv
<1>2. Ordinary(c, meta[e], 0) /\ c.status = meta[e].status /\ c \in EscrowMeta
  BY <1>1, RentCollectedOrdinary DEF Ordinary
<1>3. m.status = "Disputed" /\ Settle(e, m, half, m.remaining_balance - half)
      /\ meta[e].dispute_started_ledger # None
  BY DEF ClaimDisputeTimeout, TimeoutReached
<1> HIDE DEF c
<1>4. m \in EscrowMeta
  <2>1. None \in OptTime
    BY DEF OptTime
  <2> QED
    BY <1>2, <2>1, PutDisputeStarted
<1>5. m.status = c.status /\ m.last_rent_collection_at <= now
  BY <1>2 DEF Ordinary, EscrowMeta
<1>6. m.remaining_balance \in Int
  BY <1>4 DEF EscrowMeta
<1> HIDE DEF m
<1>7. half \in Int /\ m.remaining_balance - half \in Int
  BY <1>6, HalfInt
<1> HIDE DEF half
<1> QED
  BY <1>2, <1>3, <1>4, <1>5, <1>7, SettleStep

\* resolve_dispute keeps the invariant, whatever share the resolver names.
LEMMA ResolveDisputeStep ==
  ASSUME IInv, NEW caller, NEW e \in Escrows, NEW share \in ClientShares,
         ResolveDispute(caller, e, share)
  PROVE  IInv'
<1> DEFINE c == RentCollected(e)
           m == [c EXCEPT !.dispute_started_ledger = None]
<1>1. TypeOK /\ RentClockBehind
  BY DEF IInv
<1>2. Ordinary(c, meta[e], 0) /\ c.status = meta[e].status /\ c \in EscrowMeta
  BY <1>1, RentCollectedOrdinary DEF Ordinary
<1>3. m.status = "Disputed" /\ Settle(e, m, share, m.remaining_balance - share)
      /\ m.dispute_start_ledger # None
  BY DEF ResolveDispute, CooldownOver
<1> HIDE DEF c
<1>4. m \in EscrowMeta
  <2>1. None \in OptTime
    BY DEF OptTime
  <2> QED
    BY <1>2, <2>1, PutDisputeStarted
<1>5. m.status = c.status /\ m.last_rent_collection_at <= now
      /\ m.dispute_start_ledger = meta[e].dispute_start_ledger
  BY <1>2 DEF Ordinary, EscrowMeta
<1>6. m.remaining_balance \in Int
  BY <1>4 DEF EscrowMeta
<1> HIDE DEF m
<1>7. share \in Int /\ m.remaining_balance - share \in Int
  BY <1>6, ArgumentTypes
<1> QED
  BY <1>2, <1>3, <1>4, <1>5, <1>7, SettleStep

\* oracle_resolve_dispute keeps the invariant, whatever the payload.
LEMMA OracleResolveDisputeStep ==
  ASSUME IInv, NEW e \in Escrows, NEW payload, NEW grace,
         OracleResolveDispute(e, payload, grace)
  PROVE  IInv'
<1> DEFINE c == RentCollected(e)
           share == TruncDiv(c.remaining_balance * payload.client_bps, 10000)
<1>1. TypeOK /\ RentClockBehind
  BY DEF IInv
<1>2. Ordinary(c, meta[e], 0) /\ c.status = meta[e].status /\ c \in EscrowMeta
      /\ c.last_rent_collection_at <= now
      /\ c.dispute_start_ledger = meta[e].dispute_start_ledger
  BY <1>1, RentCollectedOrdinary DEF Ordinary
<1>3. c.status = "Disputed" /\ Settle(e, c, share, c.remaining_balance - share)
      /\ c.dispute_start_ledger # None /\ Representable(share)
  BY DEF OracleResolveDispute
<1> HIDE DEF c, share
<1>4. c.remaining_balance \in Int
  BY <1>2 DEF EscrowMeta
<1>5. share \in Int /\ c.remaining_balance - share \in Int
  BY <1>3, <1>4, AmountAssumption DEF Representable
<1> QED
  BY <1>2, <1>3, <1>5, SettleStep

\* execute_cancellation keeps the invariant, whatever the escrow's status: the slash
\* it holds is recorded beside closed books and no request.
LEMMA ExecuteCancellationStep ==
  ASSUME IInv, NEW e \in Escrows, ExecuteCancellation(e)
  PROVE  IInv'
<1> DEFINE c == RentCollected(e)
           requester == request[e].requester
           held == SlashAmount(c.remaining_balance)
           recipient == IF requester = c.client THEN c.freelancer ELSE c.client
           s == [slashed_user |-> requester, recipient |-> recipient, amount |-> held,
                 slashed_at |-> now, disputed |-> FALSE]
           m == [c EXCEPT !.remaining_balance = 0, !.status = "Cancelled"]
           payment == To(RoleOf(c, requester), Positive(c.remaining_balance - held))
<1>1. TypeOK /\ RentClockBehind
  BY DEF IInv
<1>2. Ordinary(c, meta[e], 0) /\ c \in EscrowMeta /\ c.last_rent_collection_at <= now
  BY <1>1, RentCollectedOrdinary DEF Ordinary
<1>3. /\ request[e] # None /\ Representable(held)
      /\ slash' = [slash EXCEPT ![e] = s]
      /\ Store(e, m, payment, 0, 0)
      /\ MoveIndex(e, "CancellationPending", "Cancelled")
      /\ feeCollected' = feeCollected \ {e}
      /\ request' = [request EXCEPT ![e] = None]
      /\ UNCHANGED <<milestones, releaseTime, switches, clock>>
  BY DEF ExecuteCancellation, CancellationDue, RemoveRequest
<1>4. /\ m \in EscrowMeta /\ m.last_rent_collection_at <= now
      /\ m.status = "Cancelled" /\ m.remaining_balance = 0
  BY <1>2, ClosedMeta
<1>5. held \in Int
  BY <1>3, AmountAssumption DEF Representable
<1>6. s \in SlashRecord
  <2>1. requester \in Accounts
    BY <1>1, <1>3 DEF TypeOK, LedgerTypeOK, CancellationRequest
  <2>2. recipient \in OptAccount
    BY <1>2 DEF EscrowMeta
  <2>3. now \in Nat
    BY <1>1 DEF TypeOK, LedgerTypeOK
  <2> HIDE DEF requester, recipient, held
  <2> QED
    BY <1>5, <2>1, <2>2, <2>3 DEF SlashRecord
<1>7. payment \in Payment
  <2> HIDE DEF c, held
  <2>1. c.remaining_balance - held \in Int
    BY <1>2, <1>5 DEF EscrowMeta
  <2>2. Positive(c.remaining_balance - held) \in Int
    BY <2>1, PositiveNat
  <2>3. RoleOf(c, requester) \in Roles
    BY DEF RoleOf, Roles
  <2> QED
    BY <2>2, <2>3, PaymentType
<1> HIDE DEF c, m, s, payment, held
<1>8. /\ pool' \in Nat /\ meta' = [meta EXCEPT ![e] = m]
      /\ paid' = [paid EXCEPT ![e] = PaidWith(e, payment)]
  BY <1>1, <1>3, <1>7, StoreType
<1>9. RestTyped'
  <2>1. milestones' \in [Escrows -> Seq(Milestone)]
    BY <1>1, <1>3 DEF TypeOK, LedgerTypeOK
  <2> QED
    BY <1>1, <1>3, <2>1, IndexMoved, RestMoved DEF EscrowStatus
<1>10. /\ s \in SlashRecord \cup {None}
       /\ s # None => m.status # "Expired" /\ m.remaining_balance <= 0
       /\ m.status \in {"Cancelled", "Completed", "Expired"}
  BY <1>4, <1>6
<1>11. /\ request' = [request EXCEPT ![e] = None] /\ slash' = [slash EXCEPT ![e] = s]
       /\ UNCHANGED clock
  BY <1>3
<1> QED
  BY <1>4, <1>7, <1>8, <1>9, <1>10, <1>11, EndingStep

\* raise_dispute keeps the invariant: the dispute it opens is timed by both clocks and
\* nothing is requested or held beside it.
LEMMA RaiseDisputeStep ==
  ASSUME IInv, NEW caller, NEW e \in Escrows, NEW target, RaiseDispute(caller, e, target)
  PROVE  IInv'
<1> DEFINE c == RentCollected(e)
           status == IF target = None THEN None ELSE milestones[e][target].status
           count == IF status = "Submitted" THEN Positive(c.submitted_count - 1)
                    ELSE c.submitted_count
           d1 == [c EXCEPT !.status = "Disputed"]
           d2 == [d1 EXCEPT !.dispute_started_ledger = sequence]
           d3 == [d2 EXCEPT !.dispute_start_ledger = now]
           m == [d3 EXCEPT !.submitted_count = count]
           p == PaidWith(e, NoPayment)
<1>1. TypeOK /\ RentClockBehind
  BY DEF IInv
<1>2. Ordinary(c, meta[e], 0) /\ c.status = meta[e].status /\ c \in EscrowMeta
      /\ c.last_rent_collection_at <= now
  BY <1>1, RentCollectedOrdinary DEF Ordinary
<1>3. now \in Nat /\ sequence \in Nat /\ now # None
  BY <1>1, NoneAssumption DEF TypeOK, LedgerTypeOK
<1>4. /\ c.status = "Active"
      /\ MoveIndex(e, "Active", "Disputed")
      /\ UNCHANGED <<request, slash, releaseTime, feeCollected, switches, clock>>
  BY DEF RaiseDispute
<1>5. Store(e, m, NoPayment, 0, 0)
  BY <1>2 DEF RaiseDispute, StoreOnly, DisputeOpened, EscrowMeta
<1> HIDE DEF c
<1>6. count \in Nat
  <2>1. c.submitted_count \in Nat
    BY <1>2 DEF EscrowMeta
  <2>2. Positive(c.submitted_count - 1) \in Nat
    BY <2>1, PositiveNat
  <2> QED
    BY <2>1, <2>2
<1>7. milestones' \in [Escrows -> Seq(Milestone)]
  <2>1. CASE status \in {"Pending", "Submitted"}
    <3>1. target # None
      BY <2>1, NoneRecordAssumption DEF MilestoneStatus
    <3>2. IsMilestone(e, target)
      BY <3>1 DEF RaiseDispute
    <3>3. [milestones[e][target] EXCEPT !.status = "Disputed"] \in Milestone
      BY <1>1, <3>2, MilestoneOf, MilestoneUpdate DEF MilestoneStatus
    <3>4. SetMilestone(e, target, [milestones[e][target] EXCEPT !.status = "Disputed"])
      BY <2>1 DEF RaiseDispute
    <3> QED
      BY <1>1, <3>2, <3>3, <3>4, MilestoneReplaced
  <2>2. CASE status \notin {"Pending", "Submitted"}
    <3>1. UNCHANGED milestones
      BY <2>2 DEF RaiseDispute
    <3> QED
      BY <1>1, <3>1 DEF TypeOK, LedgerTypeOK
  <2> QED
    BY <2>1, <2>2
<1> HIDE DEF count
<1>8. d1 \in EscrowMeta /\ d1.last_rent_collection_at <= now
  <2>1. "Disputed" \in StoredStatus
    BY DEF StoredStatus, EscrowStatus
  <2>2. d1 \in EscrowMeta
    BY <1>2, <2>1, PutStatus
  <2> QED
    BY <1>2, <2>2 DEF EscrowMeta
<1>9. /\ d1.status = "Disputed" /\ d1.total_amount = meta[e].total_amount
      /\ d1.remaining_balance = meta[e].remaining_balance - 0
  BY <1>2 DEF Ordinary, EscrowMeta
<1> HIDE DEF d1
<1>10. now \in OptTime /\ sequence \in OptTime
  BY <1>3 DEF OptTime
<1>11. d2 \in EscrowMeta
  BY <1>8, <1>10, PutDisputeStarted
<1>12. /\ d2.status = d1.status /\ d2.total_amount = d1.total_amount
       /\ d2.remaining_balance = d1.remaining_balance
       /\ d2.last_rent_collection_at = d1.last_rent_collection_at
  BY <1>8 DEF EscrowMeta
<1> HIDE DEF d2
<1>13. d3 \in EscrowMeta
  BY <1>10, <1>11, PutDisputeStart
<1>14. /\ d3.status = d2.status /\ d3.total_amount = d2.total_amount
       /\ d3.remaining_balance = d2.remaining_balance
       /\ d3.last_rent_collection_at = d2.last_rent_collection_at
       /\ d3.dispute_start_ledger = now
  BY <1>11 DEF EscrowMeta
<1> HIDE DEF d3
<1>15. m \in EscrowMeta
  BY <1>6, <1>13, PutSubmittedCount
<1>16. /\ m.status = d3.status /\ m.total_amount = d3.total_amount
       /\ m.remaining_balance = d3.remaining_balance
       /\ m.last_rent_collection_at = d3.last_rent_collection_at
       /\ m.dispute_start_ledger = now
  BY <1>13, <1>14 DEF EscrowMeta
<1> HIDE DEF m, p
<1>17. /\ m.status = "Disputed" /\ m.total_amount = meta[e].total_amount
       /\ m.remaining_balance = meta[e].remaining_balance
       /\ m.last_rent_collection_at <= now
  <2>1. meta[e].remaining_balance \in Int
    BY <1>1 DEF TypeOK, LedgerTypeOK, EscrowMeta
  <2> QED
    BY <1>8, <1>9, <1>12, <1>14, <1>16, <2>1
<1>18. request[e] = None /\ slash[e] = None
  BY <1>2, <1>4, NothingBeside
<1>19. /\ pool' \in Nat /\ meta' = [meta EXCEPT ![e] = m]
       /\ paid' = [paid EXCEPT ![e] = p]
       /\ p \in Payment /\ Amount(p) = Amount(paid[e])
  <2>1. NoPayment \in Payment /\ Amount(NoPayment) = 0
    BY DEF NoPayment, Amount, Roles, Payment
  <2>2. Amount(paid[e]) + 0 = Amount(paid[e]) /\ p \in Payment
        /\ Amount(p) = Amount(paid[e]) + 0
    BY <1>1, <2>1, PaidWithAmount DEF p
  <2> QED
    BY <1>1, <1>5, <2>1, <2>2, StoreType DEF p
<1>20. Good(m, None, None, p)
  <2>1. Good(meta[e], request[e], slash[e], paid[e])
    BY InvariantByEscrow DEF AllGood
  <2>2. meta[e].remaining_balance = meta[e].total_amount - Amount(paid[e])
    BY <1>2, <1>4, <2>1 DEF Good, Open
  <2> QED
    BY <1>3, <1>16, <1>17, <1>19, <2>2 DEF Good
<1>21. RestTyped'
  BY <1>1, <1>4, <1>7, IndexMoved, RestMoved DEF EscrowStatus
<1>22. request' = [request EXCEPT ![e] = None] /\ slash' = [slash EXCEPT ![e] = None]
  BY <1>2, <1>4, NothingBeside
<1> QED
  BY <1>4, <1>15, <1>17, <1>19, <1>20, <1>21, <1>22, OneEscrowStep

-----------------------------------------------------------------------------
(* Cancellation requests and slashes. *)

\* request_cancellation keeps the invariant.
LEMMA RequestCancellationStep ==
  ASSUME IInv, NEW caller \in Accounts, NEW e \in Escrows, RequestCancellation(caller, e)
  PROVE  IInv'
<1> DEFINE c == RentCollected(e)
           reserve == ReserveForEntries(1)
           d == [c EXCEPT !.status = "CancellationPending"]
           m == [d EXCEPT !.rent_balance = d.rent_balance + reserve]
           r == [requester |-> caller,
                 dispute_deadline |-> now + CANCELLATION_DISPUTE_PERIOD,
                 disputed |-> FALSE, counterparty_approved |-> FALSE]
<1>1. TypeOK /\ RentClockBehind /\ Good(meta[e], request[e], slash[e], paid[e])
      /\ paid[e] \in Payment
  BY GoodNow
<1>2. c.status = meta[e].status /\ c \in EscrowMeta
  BY <1>1, RentCollectedOrdinary DEF Ordinary
<1>3. /\ c.status = "Active"
      /\ request' = [request EXCEPT ![e] = r]
      /\ MoveIndex(e, "Active", "CancellationPending")
      /\ UNCHANGED <<milestones, slash, releaseTime, feeCollected, switches, clock>>
  BY DEF RequestCancellation
<1>4. reserve \in Nat
  BY RentAssumption DEF ReserveForEntries
<1>5. Store(e, m, NoPayment, 0, reserve)
  BY <1>2 DEF RequestCancellation, EscrowMeta
<1>6. "CancellationPending" \in StoredStatus
  BY DEF StoredStatus, EscrowStatus
<1>7. /\ d \in EscrowMeta /\ d.last_rent_collection_at <= now
      /\ d.status = "CancellationPending" /\ d.total_amount = meta[e].total_amount
      /\ d.remaining_balance = meta[e].remaining_balance
      /\ d.dispute_start_ledger = meta[e].dispute_start_ledger
      /\ d.dispute_started_ledger = meta[e].dispute_started_ledger
  BY <1>1, <1>6, StatusSet
<1> HIDE DEF c, d, reserve
<1>8. d.rent_balance + reserve \in Nat
  BY <1>4, <1>7 DEF EscrowMeta
<1>9. m \in EscrowMeta
  BY <1>7, <1>8, PutRentBalance
<1>10. /\ m.last_rent_collection_at = d.last_rent_collection_at
       /\ m.status = d.status /\ m.total_amount = d.total_amount
       /\ m.remaining_balance = d.remaining_balance
       /\ m.dispute_start_ledger = d.dispute_start_ledger
       /\ m.dispute_started_ledger = d.dispute_started_ledger
  BY <1>7 DEF EscrowMeta
<1>11. r \in CancellationRequest /\ r.disputed = FALSE
  <2>1. now + CANCELLATION_DISPUTE_PERIOD \in Nat
    BY <1>1, TimeAssumption DEF TypeOK, LedgerTypeOK
  <2> QED
    BY <2>1 DEF CancellationRequest
<1> HIDE DEF m, r
<1>12. /\ pool' \in Nat /\ meta' = [meta EXCEPT ![e] = m]
       /\ paid' = [paid EXCEPT ![e] = paid[e]]
  BY <1>1, <1>4, <1>5, StoreUnpaid
<1>13. slash' = [slash EXCEPT ![e] = None]
  BY <1>2, <1>3, NothingBeside
<1>14. Good(m, r, None, paid[e])
  BY <1>1, <1>2, <1>3, <1>7, <1>10, <1>11 DEF Good, Open
<1>15. RestTyped'
  <2>1. milestones' \in [Escrows -> Seq(Milestone)]
    BY <1>1, <1>3 DEF TypeOK, LedgerTypeOK
  <2> QED
    BY <1>1, <1>3, <2>1, IndexMoved, RestMoved DEF EscrowStatus
<1>16. m.last_rent_collection_at <= now /\ r \in CancellationRequest \cup {None}
       /\ UNCHANGED clock /\ request' = [request EXCEPT ![e] = r]
  BY <1>3, <1>7, <1>10, <1>11
<1> QED
  BY <1>1, <1>9, <1>12, <1>13, <1>14, <1>15, <1>16, OneEscrowStep

\* client_approve_cancellation keeps the invariant.
LEMMA ApproveCancellationStep ==
  ASSUME IInv, NEW caller, NEW e \in Escrows, ApproveCancellation(caller, e)
  PROVE  IInv'
<1> DEFINE c == RentCollected(e)
           r == [request[e] EXCEPT !.counterparty_approved = TRUE]
<1>1. TypeOK /\ RentClockBehind /\ Good(meta[e], request[e], slash[e], paid[e])
      /\ paid[e] \in Payment /\ slash[e] \in SlashRecord \cup {None}
      /\ request[e] \in CancellationRequest \cup {None}
      /\ slash = [slash EXCEPT ![e] = slash[e]] /\ meta[e] \in EscrowMeta
  BY GoodNow
<1>2. Ordinary(c, meta[e], 0) /\ c.status = meta[e].status /\ c \in EscrowMeta
      /\ c.last_rent_collection_at <= now
  BY <1>1, RentCollectedOrdinary DEF Ordinary
<1>3. /\ request[e] # None
      /\ Store(e, c, NoPayment, 0, 0)
      /\ UNCHANGED <<milestones, slash, releaseTime, indexed, feeCollected, switches, clock>>
  BY DEF ApproveCancellation, StoreOnly
<1>4. request' = [request EXCEPT ![e] = r]
  BY <1>1 DEF ApproveCancellation, TypeOK, LedgerTypeOK
<1>5. r \in CancellationRequest /\ r.disputed = request[e].disputed
  BY <1>1, <1>3 DEF CancellationRequest
<1>6. c.remaining_balance = meta[e].remaining_balance
  BY <1>1, <1>2 DEF Ordinary, EscrowMeta
<1> HIDE DEF c, r
<1>7. /\ pool' \in Nat /\ meta' = [meta EXCEPT ![e] = c]
      /\ paid' = [paid EXCEPT ![e] = paid[e]]
  BY <1>1, <1>3, StoreUnpaid
<1>8. r # None
  BY <1>5, NoneRecordAssumption
<1>9. Good(c, r, slash[e], paid[e])
  BY <1>1, <1>2, <1>3, <1>5, <1>6, <1>8 DEF Good, Ordinary
<1>10. RestTyped'
  BY <1>1, <1>3, RestKept DEF TypeOK, LedgerTypeOK
<1>11. r \in CancellationRequest \cup {None} /\ UNCHANGED clock
       /\ slash' = [slash EXCEPT ![e] = slash[e]]
  BY <1>1, <1>3, <1>5
<1> QED
  BY <1>1, <1>2, <1>4, <1>7, <1>9, <1>10, <1>11, OneEscrowStep

\* dispute_cancellation keeps the invariant: the dispute it opens, even of an escrow
\* that is disputed or completed already, has the request and no moment.
LEMMA DisputeCancellationStep ==
  ASSUME IInv, NEW caller, NEW e \in Escrows, DisputeCancellation(caller, e)
  PROVE  IInv'
<1> DEFINE m == [RentCollected(e) EXCEPT !.status = "Disputed"]
           r == [request[e] EXCEPT !.disputed = TRUE]
<1>1. TypeOK /\ RentClockBehind /\ Good(meta[e], request[e], slash[e], paid[e])
      /\ paid[e] \in Payment /\ slash[e] \in SlashRecord \cup {None}
      /\ request[e] \in CancellationRequest \cup {None}
      /\ slash = [slash EXCEPT ![e] = slash[e]]
  BY GoodNow
<1>2. "Disputed" \in StoredStatus
  BY DEF StoredStatus, EscrowStatus
<1>3. /\ m \in EscrowMeta /\ m.last_rent_collection_at <= now
      /\ m.status = "Disputed" /\ m.total_amount = meta[e].total_amount
      /\ m.remaining_balance = meta[e].remaining_balance
      /\ m.dispute_start_ledger = meta[e].dispute_start_ledger
      /\ m.dispute_started_ledger = meta[e].dispute_started_ledger
  BY <1>1, <1>2, StatusSet
<1>4. /\ request[e] # None
      /\ Store(e, m, NoPayment, 0, 0)
      /\ MoveIndex(e, "CancellationPending", "Disputed")
      /\ UNCHANGED <<milestones, slash, releaseTime, feeCollected, switches, clock>>
  BY DEF DisputeCancellation, StoreOnly
<1>5. request' = [request EXCEPT ![e] = r]
  BY <1>1 DEF DisputeCancellation, TypeOK, LedgerTypeOK
<1>6. r \in CancellationRequest
  BY <1>1, <1>4 DEF CancellationRequest
<1>7. r # None
  BY <1>6, NoneRecordAssumption
<1> HIDE DEF m, r
<1>8. /\ pool' \in Nat /\ meta' = [meta EXCEPT ![e] = m]
      /\ paid' = [paid EXCEPT ![e] = paid[e]]
  BY <1>1, <1>4, StoreUnpaid
<1>9. Good(m, r, slash[e], paid[e])
  BY <1>1, <1>3, <1>4, <1>7 DEF Good
<1>10. RestTyped'
  <2>1. milestones' \in [Escrows -> Seq(Milestone)]
    BY <1>1, <1>4 DEF TypeOK, LedgerTypeOK
  <2> QED
    BY <1>1, <1>4, <2>1, IndexMoved, RestMoved DEF EscrowStatus
<1>11. r \in CancellationRequest \cup {None} /\ UNCHANGED clock
       /\ slash' = [slash EXCEPT ![e] = slash[e]]
  BY <1>1, <1>4, <1>6
<1> QED
  BY <1>1, <1>3, <1>5, <1>8, <1>9, <1>10, <1>11, OneEscrowStep

\* finalize_slash keeps the invariant: it pays from books that are closed.
LEMMA FinalizeSlashStep ==
  ASSUME IInv, NEW e \in Escrows, FinalizeSlash(e)
  PROVE  IInv'
<1> DEFINE payment == To(RoleOf(meta[e], slash[e].recipient), slash[e].amount)
<1>1. TypeOK /\ RentClockBehind /\ Good(meta[e], request[e], slash[e], paid[e])
      /\ meta[e] \in EscrowMeta /\ slash[e] \in SlashRecord \cup {None}
      /\ request = [request EXCEPT ![e] = request[e]]
      /\ meta = [meta EXCEPT ![e] = meta[e]]
  BY GoodNow
<1>2. /\ slash[e] # None /\ Transfer(e, payment, 0, 0)
      /\ slash' = [slash EXCEPT ![e] = None]
      /\ UNCHANGED <<meta, milestones, request, releaseTime, indexed, feeCollected,
                     switches, clock>>
  BY DEF FinalizeSlash, RemoveSlash
<1>3. payment \in Payment
  <2>1. slash[e].amount \in Int
    BY <1>1, <1>2 DEF SlashRecord
  <2>2. RoleOf(meta[e], slash[e].recipient) \in Roles
    BY DEF RoleOf, Roles
  <2> QED
    BY <2>1, <2>2, PaymentType
<1> HIDE DEF payment
<1>4. pool' \in Nat /\ paid' = [paid EXCEPT ![e] = PaidWith(e, payment)]
  BY <1>1, <1>2, <1>3, TransferType, SMTT(20)
<1>5. meta[e].status \in {"Cancelled", "Completed", "Expired"} /\ request[e] = None
  BY <1>1, <1>2 DEF Good
<1>6. /\ meta' = [meta EXCEPT ![e] = meta[e]]
      /\ request' = [request EXCEPT ![e] = None]
      /\ meta[e].last_rent_collection_at <= now /\ UNCHANGED clock
  BY <1>1, <1>2, <1>5 DEF RentClockBehind
<1>7. RestTyped'
  BY <1>1, <1>2, RestKept DEF TypeOK, LedgerTypeOK
<1>8. slash' = [slash EXCEPT ![e] = None]
  BY <1>2
<1> QED
  BY <1>1, <1>3, <1>4, <1>5, <1>6, <1>7, <1>8, EndingStep

\* resolve_slash_dispute keeps the invariant, upheld or not.
LEMMA ResolveSlashDisputeStep ==
  ASSUME IInv, NEW caller, NEW e \in Escrows, NEW upheld,
         ResolveSlashDispute(caller, e, upheld)
  PROVE  IInv'
<1> DEFINE c == RentCollected(e)
           payment == IF upheld THEN NoPayment
                      ELSE To(RoleOf(c, slash[e].slashed_user), slash[e].amount)
<1>1. TypeOK /\ RentClockBehind /\ Good(meta[e], request[e], slash[e], paid[e])
      /\ slash[e] \in SlashRecord \cup {None}
      /\ request = [request EXCEPT ![e] = request[e]]
  BY GoodNow
<1>2. c.status = meta[e].status /\ c \in EscrowMeta /\ c.last_rent_collection_at <= now
  BY <1>1, RentCollectedOrdinary DEF Ordinary
<1>3. /\ slash[e] # None /\ Store(e, c, payment, 0, 0)
      /\ slash' = [slash EXCEPT ![e] = None]
      /\ UNCHANGED <<milestones, request, releaseTime, indexed, feeCollected,
                     switches, clock>>
  BY DEF ResolveSlashDispute, RemoveSlash
<1>4. payment \in Payment
  <2>1. slash[e].amount \in Int
    BY <1>1, <1>3 DEF SlashRecord
  <2>2. RoleOf(c, slash[e].slashed_user) \in Roles
    BY DEF RoleOf, Roles
  <2>3. NoPayment \in Payment
    BY DEF NoPayment, Payment
  <2> QED
    BY <2>1, <2>2, <2>3, PaymentType
<1> HIDE DEF c, payment
<1>5. /\ pool' \in Nat /\ meta' = [meta EXCEPT ![e] = c]
      /\ paid' = [paid EXCEPT ![e] = PaidWith(e, payment)]
  BY <1>1, <1>3, <1>4, StoreType
<1>6. c.status \in {"Cancelled", "Completed", "Expired"} /\ request[e] = None
  BY <1>1, <1>2, <1>3 DEF Good
<1>7. /\ request' = [request EXCEPT ![e] = None] /\ UNCHANGED clock
      /\ slash' = [slash EXCEPT ![e] = None]
  BY <1>1, <1>3, <1>6
<1>8. RestTyped'
  BY <1>1, <1>3, RestKept DEF TypeOK, LedgerTypeOK
<1> QED
  BY <1>2, <1>4, <1>5, <1>6, <1>7, <1>8, EndingStep

\* dispute_slash keeps the invariant.
LEMMA DisputeSlashStep ==
  ASSUME IInv, NEW e \in Escrows, DisputeSlash(e)
  PROVE  IInv'
<1> DEFINE c == RentCollected(e)
           s == [slash[e] EXCEPT !.disputed = TRUE]
<1>1. TypeOK /\ RentClockBehind /\ Good(meta[e], request[e], slash[e], paid[e])
      /\ slash[e] \in SlashRecord \cup {None} /\ meta[e] \in EscrowMeta
      /\ request = [request EXCEPT ![e] = request[e]] /\ paid[e] \in Payment
  BY GoodNow
<1>2. Ordinary(c, meta[e], 0) /\ c.status = meta[e].status /\ c \in EscrowMeta
      /\ c.last_rent_collection_at <= now
  BY <1>1, RentCollectedOrdinary DEF Ordinary
<1>3. /\ slash[e] # None /\ Store(e, c, NoPayment, 0, 0)
      /\ UNCHANGED <<milestones, request, releaseTime, indexed, feeCollected,
                     switches, clock>>
  BY DEF DisputeSlash, StoreOnly
<1>4. slash' = [slash EXCEPT ![e] = s]
  BY <1>1 DEF DisputeSlash, TypeOK, LedgerTypeOK
<1>5. s \in SlashRecord
  BY <1>1, <1>3 DEF SlashRecord
<1>6. c.remaining_balance = meta[e].remaining_balance
  BY <1>1, <1>2 DEF Ordinary, EscrowMeta
<1> HIDE DEF c, s
<1>7. /\ pool' \in Nat /\ meta' = [meta EXCEPT ![e] = c]
      /\ paid' = [paid EXCEPT ![e] = paid[e]]
  BY <1>1, <1>3, StoreUnpaid
<1>8. request[e] = None /\ request' = [request EXCEPT ![e] = None]
  BY <1>1, <1>3 DEF Good
<1>9. Good(c, None, s, paid[e])
  BY <1>1, <1>2, <1>3, <1>6, <1>8 DEF Good, Open
<1>10. RestTyped'
  BY <1>1, <1>3, RestKept DEF TypeOK, LedgerTypeOK
<1>11. s \in SlashRecord \cup {None} /\ UNCHANGED clock
       /\ None \in CancellationRequest \cup {None}
  BY <1>3, <1>5
<1> QED
  BY <1>1, <1>2, <1>4, <1>7, <1>8, <1>9, <1>10, <1>11, OneEscrowStep

-----------------------------------------------------------------------------
(* Creation, fees, switches and time. *)

\* create_escrow keeps the invariant: nothing is left of an earlier escrow.
LEMMA CreateEscrowStep ==
  ASSUME IInv, NEW e \in Escrows, NEW terms \in Terms, CreateEscrow(e, terms)
  PROVE  IInv'
<1> DEFINE reserve == ReserveForEntries(1)
           lock == IF terms.timelock = None THEN None ELSE now + terms.timelock
           signers == terms.buyer_signers \cup {terms.client}
           m == [NoMeta EXCEPT
                  !.status = "Active",
                  !.client = terms.client,
                  !.freelancer = terms.freelancer,
                  !.arbiter = terms.arbiter,
                  !.buyer_signers = signers,
                  !.total_amount = terms.total_amount,
                  !.remaining_balance = terms.total_amount,
                  !.deadline = terms.deadline,
                  !.lock_time = terms.lock_time,
                  !.timelock = lock,
                  !.dispute_timeout_ledger = terms.dispute_timeout_ledger,
                  !.rent_balance = reserve,
                  !.last_rent_collection_at = now]
<1>1. TypeOK /\ RentClockBehind /\ Good(meta[e], request[e], slash[e], paid[e])
      /\ paid[e] \in Payment /\ paid = [paid EXCEPT ![e] = paid[e]]
  BY GoodNow
<1>2. /\ meta[e].status = "Absent"
      /\ Transfer(e, NoPayment, 0, terms.total_amount + reserve)
      /\ meta' = [meta EXCEPT ![e] = m]
      /\ indexed' = [indexed EXCEPT ![e] = indexed[e] \cup {"Active"}]
      /\ UNCHANGED <<milestones, request, slash, releaseTime, feeCollected, switches, clock>>
  BY <1>1 DEF CreateEscrow, TypeOK, LedgerTypeOK
<1>3. /\ terms.client \in OptAccount /\ terms.freelancer \in OptAccount
      /\ terms.arbiter \in OptAccount /\ signers \in SUBSET Accounts
      /\ terms.total_amount \in Nat /\ terms.deadline \in OptTime
      /\ terms.lock_time \in OptTime /\ terms.timelock \in OptTime
      /\ terms.dispute_timeout_ledger \in OptTime
  BY TermsTyped DEF OptAccount
<1>4. reserve \in Nat /\ now \in Nat
  BY <1>1, RentAssumption DEF ReserveForEntries, TypeOK, LedgerTypeOK
<1>5. lock \in OptTime
  BY <1>3, <1>4 DEF OptTime
<1>6. "Active" \in StoredStatus /\ None \in OptTime /\ 0 \in BasisPoints
  BY DEF StoredStatus, EscrowStatus, OptTime, BasisPoints
<1> HIDE DEF reserve, lock, signers
<1>7. m \in EscrowMeta
  <2> DEFINE m1 == [NoMeta EXCEPT !.status = "Active", !.client = terms.client,
                      !.freelancer = terms.freelancer, !.arbiter = terms.arbiter]
             m2 == [m1 EXCEPT !.buyer_signers = signers]
             m3 == [m2 EXCEPT !.total_amount = terms.total_amount,
                      !.remaining_balance = terms.total_amount]
             m4 == [m3 EXCEPT !.deadline = terms.deadline,
                      !.lock_time = terms.lock_time, !.timelock = lock]
             m5 == [m4 EXCEPT !.dispute_timeout_ledger = terms.dispute_timeout_ledger,
                      !.rent_balance = reserve, !.last_rent_collection_at = now]
  <2>1. m = m5
    OBVIOUS
  <2>2. m1 \in EscrowMeta
    BY <1>3, <1>6, NoMetaType, PutStatus, PutClient, PutFreelancer, PutArbiter
  <2> HIDE DEF m1
  <2>3. m2 \in EscrowMeta
    BY <1>3, <2>2, PutBuyerSigners
  <2> HIDE DEF m2
  <2>4. terms.total_amount \in Int
    BY <1>3
  <2>5. m3 \in EscrowMeta
    BY <1>3, <2>3, <2>4, PutTotalAmount, PutRemainingBalance
  <2> HIDE DEF m3
  <2>6. m4 \in EscrowMeta
    BY <1>3, <1>5, <2>5, PutDeadline, PutLockTime, PutTimelock
  <2> HIDE DEF m4
  <2>7. m5 \in EscrowMeta
    BY <1>3, <1>4, <2>6, PutDisputeTimeout, PutRentBalance, PutLastRentCollectionAt
  <2> HIDE DEF m5
  <2> QED
    BY <2>1, <2>7
<1>8. /\ m.status = "Active" /\ m.total_amount = terms.total_amount
      /\ m.remaining_balance = terms.total_amount
      /\ m.dispute_start_ledger = None /\ m.dispute_started_ledger = None
      /\ m.last_rent_collection_at = now
  BY DEF NoMeta
<1> HIDE DEF m
<1>9. paid[e] = NoPayment /\ request[e] = None
      /\ request' = [request EXCEPT ![e] = None] /\ slash' = [slash EXCEPT ![e] = None]
  BY <1>1, <1>2, NothingBeside DEF Good
<1>10. NoPayment \in Payment /\ Amount(NoPayment) = 0
       /\ PaidWith(e, NoPayment) = NoPayment
  <2>1. NoPayment \in Payment /\ Amount(NoPayment) = 0
    BY DEF NoPayment, Amount, Roles, Payment
  <2>2. PaidWith(e, NoPayment) = [r \in Roles |-> NoPayment[r] + NoPayment[r]]
    BY <1>9 DEF PaidWith
  <2>3. \A r \in Roles : NoPayment[r] + NoPayment[r] = 0
    BY DEF NoPayment
  <2>4. PaidWith(e, NoPayment) = NoPayment
    BY <2>2, <2>3 DEF NoPayment
  <2> QED
    BY <2>1, <2>4
<1>11. pool' \in Nat /\ paid' = [paid EXCEPT ![e] = NoPayment]
  <2>1. terms.total_amount + reserve \in Nat
    BY <1>3, <1>4
  <2> QED
    BY <1>1, <1>2, <1>10, <2>1, TransferType
<1>12. Good(m, None, None, NoPayment)
  BY <1>3, <1>8, <1>10 DEF Good
<1>13. RestTyped'
  <2>1. indexed' \in [Escrows -> SUBSET EscrowStatus]
    BY <1>1, <1>2 DEF TypeOK, LedgerTypeOK, EscrowStatus
  <2>2. milestones' \in [Escrows -> Seq(Milestone)]
    BY <1>1, <1>2 DEF TypeOK, LedgerTypeOK
  <2> QED
    BY <1>1, <1>2, <2>1, <2>2, RestMoved
<1>14. UNCHANGED clock /\ m.last_rent_collection_at <= now
       /\ None \in CancellationRequest \cup {None} /\ None \in SlashRecord \cup {None}
       /\ meta' = [meta EXCEPT ![e] = m]
  BY <1>2, <1>4, <1>8
<1> QED
  BY <1>7, <1>9, <1>10, <1>11, <1>12, <1>13, <1>14, OneEscrowStep

\* collect_escrow_fee keeps the invariant: the fee is no principal.
LEMMA CollectEscrowFeeStep ==
  ASSUME IInv, NEW e \in Escrows, CollectEscrowFee(e)
  PROVE  IInv'
<1>1. TypeOK /\ RentClockBehind /\ AllGood
  BY InvariantByEscrow
<1>2. /\ Transfer(e, NoPayment, PlatformFee(meta[e]), 0)
      /\ feeCollected' = feeCollected \cup {e}
      /\ UNCHANGED <<meta, milestones, request, slash, releaseTime, indexed, switches, clock>>
  BY DEF CollectEscrowFee
<1>3. PlatformFee(meta[e]) \in Int
  BY AmountAssumption DEF CollectEscrowFee, Representable
<1>4. paid[e] \in Payment /\ NoPayment \in Payment /\ \A r \in Roles : NoPayment[r] = 0
  BY <1>1 DEF NoPayment, Payment, TypeOK, LedgerTypeOK
<1>5. PaidWith(e, NoPayment) = paid[e]
  BY <1>4 DEF PaidWith, Payment
<1>6. pool' \in Nat /\ paid' = paid
  <2>1. pool' \in Nat /\ paid' = [paid EXCEPT ![e] = paid[e]]
    BY <1>1, <1>2, <1>3, <1>4, <1>5, TransferType
  <2> QED
    BY <1>1, <2>1 DEF TypeOK, LedgerTypeOK
<1>7. TypeOK'
  BY <1>1, <1>2, <1>6 DEF TypeOK, LedgerTypeOK, switches, clock
<1>8. RentClockBehind' /\ AllGood'
  BY <1>1, <1>2, <1>6 DEF RentClockBehind, AllGood, clock
<1> QED
  BY <1>7, <1>8, InvariantByEscrow, PTL

\* set_arbiter_fee_bps keeps the invariant.
LEMMA SetArbiterFeeBpsStep ==
  ASSUME IInv, NEW e \in Escrows, NEW bps \in ArbiterFees, SetArbiterFeeBps(e, bps)
  PROVE  IInv'
<1> DEFINE m == [meta[e] EXCEPT !.arbiter_fee_bps = bps]
<1>1. TypeOK /\ RentClockBehind /\ Good(meta[e], request[e], slash[e], paid[e])
      /\ meta[e] \in EscrowMeta /\ paid[e] \in Payment
      /\ request[e] \in CancellationRequest \cup {None}
      /\ slash[e] \in SlashRecord \cup {None}
      /\ request = [request EXCEPT ![e] = request[e]]
      /\ slash = [slash EXCEPT ![e] = slash[e]] /\ paid = [paid EXCEPT ![e] = paid[e]]
  BY GoodNow
<1>2. /\ bps \in BasisPoints /\ meta' = [meta EXCEPT ![e] = m]
      /\ UNCHANGED <<milestones, request, slash, releaseTime, indexed, feeCollected,
                     switches, pool, paid, clock>>
  <2>1. bps \in BasisPoints
    <3>1. bps \in Nat
      BY ArgumentTypes
    <3>2. bps <= 10000
      BY DEF SetArbiterFeeBps
    <3> QED
      BY <3>1, <3>2, SMTT(20) DEF BasisPoints
  <2>2. meta' = [meta EXCEPT ![e] = m]
    BY <1>1 DEF SetArbiterFeeBps, TypeOK, LedgerTypeOK
  <2> QED
    BY <2>1, <2>2 DEF SetArbiterFeeBps, records
<1>3. m \in EscrowMeta
  BY <1>1, <1>2, PutArbiterFeeBps
<1>4. /\ m.last_rent_collection_at <= now /\ m.status = meta[e].status
      /\ m.total_amount = meta[e].total_amount
      /\ m.remaining_balance = meta[e].remaining_balance
      /\ m.dispute_start_ledger = meta[e].dispute_start_ledger
      /\ m.dispute_started_ledger = meta[e].dispute_started_ledger
  BY <1>1 DEF EscrowMeta, RentClockBehind
<1> HIDE DEF m
<1>5. Good(m, request[e], slash[e], paid[e])
  BY <1>1, <1>4 DEF Good
<1>6. RestTyped'
  BY <1>1, <1>2, RestKept DEF TypeOK, LedgerTypeOK
<1>7. pool' \in Nat
  BY <1>1, <1>2 DEF TypeOK, LedgerTypeOK
<1>8. /\ request' = [request EXCEPT ![e] = request[e]]
      /\ slash' = [slash EXCEPT ![e] = slash[e]]
      /\ paid' = [paid EXCEPT ![e] = paid[e]] /\ UNCHANGED clock
      /\ meta' = [meta EXCEPT ![e] = m]
  BY <1>1, <1>2
<1> QED
  BY <1>1, <1>3, <1>4, <1>5, <1>6, <1>7, <1>8, OneEscrowStep

\* The admin's pause, and a new ledger, keep the invariant: no escrow changes, and the
\* ledger's clock does not run backward.
LEMMA UntouchedStep ==
  ASSUME IInv, UNCHANGED <<meta, milestones, records, frozen, pool, paid>>,
         paused' \in BOOLEAN, now' \in Nat, sequence' \in Nat, now <= now'
  PROVE  IInv'
<1>1. TypeOK /\ RentClockBehind /\ AllGood
  BY InvariantByEscrow
<1>2. TypeOK'
  BY <1>1 DEF TypeOK, LedgerTypeOK, records
<1>3. AllGood'
  BY <1>1 DEF AllGood, records
<1>4. RentClockBehind'
  <2>1. ASSUME NEW e \in Escrows
        PROVE  meta[e].last_rent_collection_at <= now'
    <3>1. meta[e].last_rent_collection_at \in Nat /\ now \in Nat
      BY <1>1 DEF TypeOK, LedgerTypeOK, EscrowMeta
    <3> QED
      BY <1>1, <3>1 DEF RentClockBehind
  <2> QED
    BY <2>1 DEF RentClockBehind
<1> QED
  BY <1>2, <1>3, <1>4, InvariantByEscrow, PTL

-----------------------------------------------------------------------------
(* The invariant holds initially and is kept by every step. *)

\* The empty storage satisfies the invariant.
LEMMA InitInvariant == Init => IInv
<1> SUFFICES ASSUME Init PROVE IInv
  OBVIOUS
<1>1. NoMeta \in EscrowMeta /\ NoMeta.status = "Absent"
      /\ NoMeta.last_rent_collection_at = 0 /\ NoMeta.dispute_start_ledger = None
  BY NoMetaType DEF NoMeta
<1>2. NoPayment \in Payment
  BY DEF NoPayment, Payment
<1>3. <<>> \in Seq(Milestone) /\ None \in OptTime
  BY DEF OptTime
<1>4. now \in Nat /\ sequence \in Nat /\ pool \in Nat
  BY TimeAssumption, AmountAssumption DEF Init
<1> HIDE DEF NoMeta
<1>5. TypeOK
  BY <1>1, <1>2, <1>3, <1>4 DEF Init, TypeOK, LedgerTypeOK
<1>6. ASSUME NEW e \in Escrows
      PROVE  /\ meta[e] = NoMeta /\ request[e] = None /\ slash[e] = None
             /\ paid[e] = NoPayment
  BY DEF Init
<1>7. RentClockBehind
  BY <1>1, <1>4, <1>6 DEF RentClockBehind
<1>8. AllGood
  BY <1>1, <1>6 DEF AllGood, Good, Open
<1> QED
  BY <1>5, <1>7, <1>8, InvariantByEscrow

\* Every entry point on milestones keeps the invariant.
LEMMA MilestoneStepInvariant ==
  ASSUME IInv, NEW e \in Escrows, MilestoneStep(e)
  PROVE  IInv'
<1>1. CASE \E terms \in Terms : CreateEscrow(e, terms)
  BY <1>1, CreateEscrowStep
<1>2. CASE \E amounts \in AmountLists : AddMilestones(e, amounts)
  BY <1>2, AddMilestonesStep
<1>3. ASSUME NEW i \in DOMAIN milestones[e],
             \/ SubmitMilestone(e, i)
             \/ RejectMilestone(e, i)
             \/ RejectMilestoneWithReason(e, i)
             \/ \E caller \in Accounts :
                  \/ ApproveMilestone(caller, e, i)
                  \/ ReleaseFunds(caller, e, i)
                  \/ ReleaseWithTimelock(caller, e, i)
      PROVE  IInv'
  BY <1>3, SubmitMilestoneStep, RejectStep, ApproveMilestoneStep, ReleaseFundsStep,
     ReleaseWithTimelockStep DEF RejectMilestone, RejectMilestoneWithReason
<1>4. ASSUME NEW ids \in BatchLists,
             \/ \E caller \in Accounts : BatchApproveMilestones(caller, e, ids)
             \/ BatchReleaseFunds(e, ids)
      PROVE  IInv'
  BY <1>4, BatchApproveMilestonesStep, BatchReleaseFundsStep
<1>5. ASSUME NEW t \in TimeArguments,
             \/ \E caller \in Accounts : StartTimelock(caller, e, t)
             \/ ExtendLockTime(e, t)
             \/ SetTimelock(e, t)
      PROVE  IInv'
  BY <1>5, StartTimelockStep, ExtendLockTimeStep, SetTimelockStep
<1>6. CASE CancelEscrow(e)
  BY <1>6, CancelEscrowStep
<1>7. CASE PartialCancel(e)
  BY <1>7, PartialCancelStep
<1>8. CASE TriggerExpiry(e)
  BY <1>8, TriggerExpiryStep
<1>9. CASE \E newClient \in NewClients : TransferClientRole(e, newClient)
  BY <1>9, TransferClientRoleStep
<1> QED
  BY <1>1, <1>2, <1>3, <1>4, <1>5, <1>6, <1>7, <1>8, <1>9 DEF MilestoneStep

\* So does every entry point on disputes, cancellations and slashes.
LEMMA DisputeStepInvariant ==
  ASSUME IInv, NEW e \in Escrows, DisputeStep(e)
  PROVE  IInv'
<1>1. ASSUME NEW caller \in Accounts,
             \E target \in DOMAIN milestones[e] \cup {None} : RaiseDispute(caller, e, target)
      PROVE  IInv'
  BY <1>1, RaiseDisputeStep
<1>2. ASSUME NEW caller \in Accounts, ClaimDisputeTimeout(caller, e)
      PROVE  IInv'
  BY <1>2, ClaimDisputeTimeoutStep
<1>3. ASSUME NEW caller \in Accounts,
             \E share \in ClientShares : ResolveDispute(caller, e, share)
      PROVE  IInv'
  BY <1>3, ResolveDisputeStep
<1>4. ASSUME NEW caller \in Accounts,
             \/ RequestCancellation(caller, e)
             \/ ApproveCancellation(caller, e)
             \/ DisputeCancellation(caller, e)
      PROVE  IInv'
  BY <1>4, RequestCancellationStep, ApproveCancellationStep, DisputeCancellationStep
<1>5. ASSUME NEW caller \in Accounts,
             \E upheld \in BOOLEAN : ResolveSlashDispute(caller, e, upheld)
      PROVE  IInv'
  BY <1>5, ResolveSlashDisputeStep
<1>6. CASE \E payload \in OraclePayloads, grace \in TimeArguments \cup {0} :
             OracleResolveDispute(e, payload, grace)
  BY <1>6, OracleResolveDisputeStep
<1>7. CASE ExecuteCancellation(e)
  BY <1>7, ExecuteCancellationStep
<1>8. CASE FinalizeSlash(e)
  BY <1>8, FinalizeSlashStep
<1>9. CASE DisputeSlash(e)
  BY <1>9, DisputeSlashStep
<1> QED
  BY <1>1, <1>2, <1>3, <1>4, <1>5, <1>6, <1>7, <1>8, <1>9 DEF DisputeStep

\* So does every entry point on the rent.
LEMMA RentStepInvariant ==
  ASSUME IInv, NEW e \in Escrows, RentStep(e)
  PROVE  IInv'
  BY GetEscrowMetaStep, CollectRentStep, TopUpRentStep, WithdrawRentOverpaymentStep
     DEF RentStep

\* So does every call of the admin.
LEMMA AdminStepInvariant ==
  ASSUME IInv, AdminStep
  PROVE  IInv'
<1>1. TypeOK
  BY DEF IInv
<1>2. ASSUME NEW e \in Escrows,
             \/ CollectEscrowFee(e)
             \/ \E bps \in ArbiterFees : SetArbiterFeeBps(e, bps)
      PROVE  IInv'
  BY <1>2, CollectEscrowFeeStep, SetArbiterFeeBpsStep
<1>3. ASSUME NEW e \in Escrows, FreezeEscrow(e) \/ UnfreezeEscrow(e)
      PROVE  IInv'
  <2>1. frozen \cup {e} \in SUBSET Escrows /\ frozen \ {e} \in SUBSET Escrows
    BY <1>1 DEF TypeOK, LedgerTypeOK
  <2> QED
    BY <1>3, <2>1, SetFrozenStep DEF FreezeEscrow, UnfreezeEscrow
<1>4. CASE Pause \/ Unpause
  <2>1. /\ UNCHANGED <<meta, milestones, records, frozen, pool, paid, clock>>
        /\ paused' \in BOOLEAN
    BY <1>4 DEF Pause, Unpause
  <2>2. now' \in Nat /\ sequence' \in Nat /\ now <= now'
    BY <1>1, <2>1 DEF clock, TypeOK, LedgerTypeOK
  <2> QED
    BY <2>1, <2>2, UntouchedStep
<1> QED
  BY <1>2, <1>3, <1>4 DEF AdminStep

\* The invariant is inductive: a call, a new ledger and a stutter all keep it.
LEMMA NextInvariant == IInv /\ [Next]_vars => IInv'
<1> SUFFICES ASSUME IInv, [Next]_vars PROVE IInv'
  OBVIOUS
<1>1. TypeOK
  BY DEF IInv
<1>2. ASSUME NEW e \in Escrows, MilestoneStep(e) \/ DisputeStep(e) \/ RentStep(e)
      PROVE  IInv'
  BY <1>2, MilestoneStepInvariant, DisputeStepInvariant, RentStepInvariant
<1>3. CASE AdminStep
  BY <1>3, AdminStepInvariant
<1>4. CASE CloseLedger
  <2>1. /\ UNCHANGED <<meta, milestones, records, frozen, pool, paid, paused>>
        /\ sequence' = sequence + 1 /\ \E d \in CloseTimes : now' = now + d
    BY <1>4 DEF CloseLedger, switches
  <2>2. paused' \in BOOLEAN /\ now' \in Nat /\ sequence' \in Nat /\ now <= now'
    BY <1>1, <2>1, TimeAssumption DEF TypeOK, LedgerTypeOK
  <2> QED
    BY <2>1, <2>2, UntouchedStep
<1>5. CASE UNCHANGED vars
  <2>1. /\ UNCHANGED <<meta, milestones, records, frozen, pool, paid>>
        /\ UNCHANGED <<paused, now, sequence>>
    BY <1>5 DEF vars, switches, clock
  <2>2. paused' \in BOOLEAN /\ now' \in Nat /\ sequence' \in Nat /\ now <= now'
    BY <1>1, <2>1 DEF TypeOK, LedgerTypeOK
  <2> QED
    BY <2>1, <2>2, UntouchedStep
<1> QED
  BY <1>2, <1>3, <1>4, <1>5 DEF Next

-----------------------------------------------------------------------------
(* A disputed cancellation request. *)

\* What a step may do to the requests: nothing, file or remove one, mark it.
RequestsKept ==
  \A f \in Escrows : request[f] # None /\ request[f].disputed =>
    meta'[f].status = "Expired" \/ (request'[f] # None /\ request'[f].disputed)

\* No entry point of the milestones writes a request.
LEMMA MilestoneStepKeepsRequests ==
  ASSUME NEW e \in Escrows, MilestoneStep(e)
  PROVE  UNCHANGED request
<1>1. ASSUME NEW terms \in Terms, CreateEscrow(e, terms) PROVE UNCHANGED request
  BY <1>1 DEF CreateEscrow, records
<1>2. ASSUME NEW amounts \in AmountLists, AddMilestones(e, amounts) PROVE UNCHANGED request
  BY <1>2 DEF AddMilestones, records
<1>3. ASSUME NEW i \in DOMAIN milestones[e], NEW caller \in Accounts,
             \/ SubmitMilestone(e, i) \/ RejectMilestone(e, i)
             \/ RejectMilestoneWithReason(e, i)
             \/ ApproveMilestone(caller, e, i) \/ ReleaseFunds(caller, e, i)
             \/ ReleaseWithTimelock(caller, e, i)
      PROVE  UNCHANGED request
  BY <1>3 DEF SubmitMilestone, RejectMilestone, RejectMilestoneWithReason, Reject,
              ApproveMilestone, ReleaseFunds, ReleaseWithTimelock, records
<1>4. ASSUME NEW ids \in BatchLists, NEW caller \in Accounts,
             BatchApproveMilestones(caller, e, ids) \/ BatchReleaseFunds(e, ids)
      PROVE  UNCHANGED request
  BY <1>4 DEF BatchApproveMilestones, BatchReleaseFunds, records
<1>5. ASSUME NEW t \in TimeArguments, NEW caller \in Accounts,
             StartTimelock(caller, e, t) \/ ExtendLockTime(e, t) \/ SetTimelock(e, t)
      PROVE  UNCHANGED request
  BY <1>5 DEF StartTimelock, ExtendLockTime, SetTimelock, records
<1>6. CASE CancelEscrow(e) \/ PartialCancel(e) \/ TriggerExpiry(e)
  BY <1>6 DEF CancelEscrow, PartialCancel, TriggerExpiry, records
<1>7. ASSUME NEW newClient \in NewClients, TransferClientRole(e, newClient)
      PROVE  UNCHANGED request
  BY <1>7 DEF TransferClientRole, records
<1>8. ADMIN \in Accounts
  BY ActorAssumption
<1> QED
  BY <1>1, <1>2, <1>3, <1>4, <1>5, <1>6, <1>7, <1>8 DEF MilestoneStep

\* The entry points of disputes and cancellations keep a disputed request.
LEMMA DisputeStepKeepsRequests ==
  ASSUME IInv, NEW e \in Escrows, DisputeStep(e)
  PROVE  RequestsKept
<1>1. request \in [Escrows -> CancellationRequest \cup {None}]
  BY DEF IInv, TypeOK, LedgerTypeOK
<1>2. ASSUME UNCHANGED request PROVE RequestsKept
  BY <1>2 DEF RequestsKept
<1>3. ASSUME NEW caller \in Accounts, NEW target \in DOMAIN milestones[e] \cup {None},
             RaiseDispute(caller, e, target)
      PROVE  UNCHANGED request
  BY <1>3 DEF RaiseDispute
<1>4. ASSUME NEW caller \in Accounts, ClaimDisputeTimeout(caller, e)
      PROVE  UNCHANGED request
  BY <1>4 DEF ClaimDisputeTimeout, Settle
<1>5. ASSUME NEW caller \in Accounts, NEW share \in ClientShares,
             ResolveDispute(caller, e, share)
      PROVE  UNCHANGED request
  BY <1>5 DEF ResolveDispute, Settle
<1>6. ASSUME NEW caller \in Accounts, RequestCancellation(caller, e) PROVE RequestsKept
  BY <1>1, <1>6 DEF RequestCancellation, RequestsKept
<1>7. ASSUME NEW caller \in Accounts, ApproveCancellation(caller, e) PROVE RequestsKept
  <2>1. /\ request[e] # None
        /\ request' = [request EXCEPT ![e] = [@ EXCEPT !.counterparty_approved = TRUE]]
    BY <1>7 DEF ApproveCancellation
  <2>2. request[e] \in CancellationRequest
    BY <1>1, <2>1
  <2>3. request'[e] \in CancellationRequest /\ request'[e].disputed = request[e].disputed
    BY <1>1, <2>1, <2>2 DEF CancellationRequest
  <2>4. \A f \in Escrows : f # e => request'[f] = request[f]
    BY <1>1, <2>1
  <2> QED
    BY <2>3, <2>4, NoneRecordAssumption DEF RequestsKept
<1>8. ASSUME NEW caller \in Accounts, DisputeCancellation(caller, e) PROVE RequestsKept
  <2>1. /\ ~request[e].disputed
        /\ request' = [request EXCEPT ![e] = [@ EXCEPT !.disputed = TRUE]]
    BY <1>8 DEF DisputeCancellation
  <2> QED
    BY <1>1, <2>1 DEF RequestsKept
<1>9. CASE ExecuteCancellation(e)
  <2>1. /\ ~request[e].disputed
        /\ request' = [request EXCEPT ![e] = None]
    BY <1>9 DEF ExecuteCancellation, CancellationDue, RemoveRequest
  <2> QED
    BY <1>1, <2>1 DEF RequestsKept
<1>10. ASSUME NEW caller \in Accounts, NEW upheld \in BOOLEAN,
              ResolveSlashDispute(caller, e, upheld)
       PROVE  UNCHANGED request
  BY <1>10 DEF ResolveSlashDispute
<1>11. ASSUME NEW payload \in OraclePayloads, NEW grace \in TimeArguments \cup {0},
              OracleResolveDispute(e, payload, grace)
       PROVE  UNCHANGED request
  BY <1>11 DEF OracleResolveDispute, Settle
<1>12. CASE FinalizeSlash(e) \/ DisputeSlash(e)
  BY <1>2, <1>12 DEF FinalizeSlash, DisputeSlash
<1> QED
  BY <1>2, <1>3, <1>4, <1>5, <1>6, <1>7, <1>8, <1>9, <1>10, <1>11, <1>12 DEF DisputeStep

\* Of the rent's entry points only the one that deletes the escrow drops its request.
LEMMA RentStepKeepsRequests ==
  ASSUME IInv, NEW e \in Escrows, RentStep(e)
  PROVE  RequestsKept
<1>1. /\ request \in [Escrows -> CancellationRequest \cup {None}]
      /\ meta \in [Escrows -> EscrowMeta]
  BY DEF IInv, TypeOK, LedgerTypeOK
<1>2. ASSUME UNCHANGED request PROVE RequestsKept
  BY <1>2 DEF RequestsKept
<1>3. CASE GetEscrowMeta(e)
  BY <1>2, <1>3 DEF GetEscrowMeta, records
<1>4. CASE CollectRent(e)
  <2>1. CASE RentHasExpired(e, RentCollected(e))
    <3>1. /\ request' = [request EXCEPT ![e] = None]
          /\ meta' = [meta EXCEPT ![e] = [NoMeta EXCEPT !.status = "Expired"]]
      BY <1>4, <2>1 DEF CollectRent, Store
    <3>2. meta'[e].status = "Expired"
      BY <1>1, <3>1 DEF NoMeta
    <3> QED
      BY <1>1, <3>1, <3>2 DEF RequestsKept
  <2>2. CASE ~RentHasExpired(e, RentCollected(e))
    BY <1>2, <1>4, <2>2 DEF CollectRent
  <2> QED
    BY <2>1, <2>2
<1>5. ASSUME NEW periods \in RentPeriods, TopUpRent(e, periods) PROVE RequestsKept
  BY <1>2, <1>5 DEF TopUpRent, records
<1>6. ASSUME NEW amount \in RentPeriods, WithdrawRentOverpayment(e, amount)
      PROVE  RequestsKept
  BY <1>2, <1>6 DEF WithdrawRentOverpayment, records
<1> QED
  BY <1>3, <1>4, <1>5, <1>6 DEF RentStep

\* No step executes, withdraws or clears a disputed request.
LEMMA DisputedRequestStep ==
  ASSUME IInv, IInv', [Next]_vars
  PROVE  \A e \in Escrows : request[e] # None /\ request[e].disputed =>
           \/ meta'[e].status = "Expired"
           \/ /\ request'[e] # None /\ request'[e].disputed
              /\ meta'[e].status # "Cancelled"
<1>1. RequestsKept
  <2>1. ASSUME UNCHANGED request PROVE RequestsKept
    BY <2>1 DEF RequestsKept
  <2>2. ASSUME NEW e \in Escrows, MilestoneStep(e) \/ DisputeStep(e) \/ RentStep(e)
        PROVE  RequestsKept
    BY <2>1, <2>2, MilestoneStepKeepsRequests, DisputeStepKeepsRequests,
       RentStepKeepsRequests
  <2>3. CASE AdminStep
    BY <2>1, <2>3 DEF AdminStep, CollectEscrowFee, SetArbiterFeeBps, FreezeEscrow,
                      UnfreezeEscrow, SetFrozen, Pause, Unpause, records
  <2>4. CASE CloseLedger
    BY <2>1, <2>4 DEF CloseLedger, records
  <2>5. CASE UNCHANGED vars
    BY <2>1, <2>5 DEF vars, records
  <2> QED
    BY <2>2, <2>3, <2>4, <2>5 DEF Next
<1>2. DisputedRequestStatus'
  BY DEF IInv
<1> QED
  BY <1>1, <1>2 DEF RequestsKept, DisputedRequestStatus

-----------------------------------------------------------------------------
(* The theorems. *)

\* The inductive invariant holds in every reachable state of the contract.
THEOREM InvariantHolds == Spec => []IInv
  BY InitInvariant, NextInvariant, PTL DEF Spec

\* Every stored value keeps its type: no rent reserve, no counter and no token pool of
\* the contract ever goes below zero, whatever the calls.
THEOREM TypeCorrect == Spec => []TypeOK
<1>1. IInv => TypeOK
  BY DEF IInv
<1> QED
  BY <1>1, InvariantHolds, PTL

\* An open escrow's remaining_balance is exactly the principal not yet paid out,
\* whichever of the paying entry points ran and in whatever order.
THEOREM BooksAlwaysExact == Spec => []BooksExact
<1>1. IInv => BooksExact
  BY DEF IInv
<1> QED
  BY <1>1, InvariantHolds, PTL

\* A disputed escrow is timed by both clocks or has a cancellation request, never
\* both: no settlement runs into a request, no request into a settlement.
THEOREM DisputeOriginUnique == Spec => []DisputeOrigin
<1>1. IInv => DisputeOrigin
  BY DEF IInv
<1> QED
  BY <1>1, InvariantHolds, PTL

\* A disputed cancellation request is never executed, withdrawn or cleared by a call.
THEOREM DisputedRequestNeverExecuted == Spec => DisputedRequestBlocks
<1>1. IInv /\ IInv' /\ [Next]_vars =>
        [\A e \in Escrows : request[e] # None /\ request[e].disputed =>
           \/ meta'[e].status = "Expired"
           \/ /\ request'[e] # None /\ request'[e].disputed
              /\ meta'[e].status # "Cancelled"]_vars
  BY DisputedRequestStep
<1> QED
  BY <1>1, InvariantHolds, PTL DEF Spec, DisputedRequestBlocks

\* A slash is held only beside closed books of an ended escrow without a request, so
\* no second cancellation overwrites it.
THEOREM SlashHeldAfterCancellation == Spec => []SlashFollowsCancellation
<1>1. IInv => SlashFollowsCancellation
  BY DEF IInv
<1> QED
  BY <1>1, InvariantHolds, PTL

\* Settling the rent, however often, never charges for time that has not passed.
THEOREM RentNeverAhead == Spec => []RentClockBehind
<1>1. IInv => RentClockBehind
  BY DEF IInv
<1> QED
  BY <1>1, InvariantHolds, PTL
=============================================================================
