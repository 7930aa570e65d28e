-------------------------- MODULE EscrowWorkProofs --------------------------
(***************************************************************************)
(* The work of an escrow and the money for it: allocated_amount is the sum *)
(* of the milestones, the two counters count them, and the freelancer has  *)
(* received the released ones, each once.  The last two need that no list  *)
(* given to a batch entry point names a milestone twice; the first holds   *)
(* for every list.                                                         *)
(***************************************************************************)
EXTENDS EscrowContractProofs, SumTheorems

\* No list given to batch_approve_milestones or batch_release_funds repeats an id.
DistinctBatches == \A ids \in BatchLists : IsInjective(ids)

-----------------------------------------------------------------------------
(* What holds of one escrow. *)

Amounts(ms) == [i \in DOMAIN ms |-> ms[i].amount]

\* The milestones whose payment was made, and those past the client's approval.
Finished(ms) == {i \in DOMAIN ms : ms[i].status = "Released"}
Passed(ms) == {i \in DOMAIN ms : ms[i].status \in {"Approved", "Released"}}

\* The principal is accounted for: the escrow is open, or can be opened again by
\* disputing its cancellation request.
Booked(e) == meta[e].status \in Open \/ request[e] # None

\* The milestones an escrow has been given are within its principal.
Allocated(e) ==
  /\ meta[e].status = "Absent" => DOMAIN milestones[e] = {}
  /\ Live(e) => /\ meta[e].allocated_amount <= meta[e].total_amount
                /\ meta[e].allocated_amount
                     = SumFunctionOnSet(Amounts(milestones[e]), DOMAIN milestones[e])

\* The counters count, and the freelancer is paid for the released milestones.
Counted(e) ==
  Live(e) => /\ meta[e].released_count = Cardinality(Finished(milestones[e]))
             /\ meta[e].approved_count = Cardinality(Passed(milestones[e]))

PaidForWork(e) ==
  Booked(e) =>
    /\ paid[e]["freelancer"]
         = SumFunctionOnSet(Amounts(milestones[e]), Finished(milestones[e]))
    /\ \A i \in DOMAIN milestones[e] :
         milestones[e][i].payouts = IF i \in Finished(milestones[e]) THEN 1 ELSE 0

AllocatedInv == \A e \in Escrows : Allocated(e)
WorkInv == \A e \in Escrows : Allocated(e) /\ Counted(e) /\ PaidForWork(e)

-----------------------------------------------------------------------------
(* What a step makes of one escrow. *)

\* The step leaves the other escrows alone.
Elsewhere(e) ==
  \A f \in Escrows \ {e} : /\ meta'[f] = meta[f] /\ milestones'[f] = milestones[f]
                           /\ request'[f] = request[f] /\ paid'[f] = paid[f]

\* It neither creates the escrow nor adds to its milestones.
SameWork(e) ==
  /\ DOMAIN milestones'[e] = DOMAIN milestones[e]
  /\ \A i \in DOMAIN milestones[e] : milestones'[e][i].amount = milestones[e][i].amount
  /\ Live(e)' => /\ Live(e)
                 /\ meta'[e].total_amount = meta[e].total_amount
                 /\ meta'[e].allocated_amount = meta[e].allocated_amount
  /\ meta'[e].status = "Absent" => meta[e].status = "Absent"

\* It releases the milestones R and approves the milestones Q.
Marks(e, R, Q) ==
  /\ R \subseteq DOMAIN milestones[e] \ Finished(milestones[e])
  /\ Q \subseteq DOMAIN milestones[e] \ Passed(milestones[e])
  /\ Finished(milestones'[e]) = Finished(milestones[e]) \cup R
  /\ Passed(milestones'[e]) = Passed(milestones[e]) \cup Q

\* It counts them.
Counts(e, R, Q) ==
  Live(e)' => /\ meta'[e].released_count = meta[e].released_count + Cardinality(R)
              /\ meta'[e].approved_count = meta[e].approved_count + Cardinality(Q)

\* It pays those it releases, unless the escrow is not booked any more.
Pays(e, R) ==
  Booked(e)' =>
    /\ Booked(e)
    /\ paid'[e]["freelancer"]
         = paid[e]["freelancer"] + SumFunctionOnSet(Amounts(milestones[e]), R)
    /\ \A i \in DOMAIN milestones[e] :
         milestones'[e][i].payouts = milestones[e][i].payouts + (IF i \in R THEN 1 ELSE 0)

Progress(e, R, Q) == Marks(e, R, Q) /\ Counts(e, R, Q) /\ Pays(e, R)

\* A step on the milestones there are, whatever lists the batches are given.
Worked(e) ==
  /\ Elsewhere(e) /\ SameWork(e)
  /\ DistinctBatches => \E R, Q : Progress(e, R, Q)

\* The milestones of an escrow are finitely many, with natural amounts.
LEMMA MilestonesFinite ==
  ASSUME TypeOK, NEW e \in Escrows
  PROVE  /\ IsFiniteSet(DOMAIN milestones[e])
         /\ \A i \in DOMAIN milestones[e] : Amounts(milestones[e])[i] \in Nat
         /\ \A S \in SUBSET DOMAIN milestones[e] :
              /\ IsFiniteSet(S) /\ Cardinality(S) \in Nat
              /\ SumFunctionOnSet(Amounts(milestones[e]), S) \in Nat
<1> DEFINE ms == milestones[e]
<1>1. ms \in Seq(Milestone)
  BY DEF TypeOK, LedgerTypeOK
<1>2. DOMAIN ms = 1..Len(ms) /\ Len(ms) \in Nat
  BY <1>1
<1>3. IsFiniteSet(DOMAIN ms)
  BY <1>2, FS_Interval
<1>4. \A i \in DOMAIN ms : Amounts(ms)[i] \in Nat
  <2>1. \A i \in DOMAIN ms : ms[i] \in Milestone
    BY <1>1
  <2> QED
    BY <2>1 DEF Amounts, Milestone
<1> HIDE DEF ms
<1>5. ASSUME NEW S \in SUBSET DOMAIN ms
      PROVE  /\ IsFiniteSet(S) /\ Cardinality(S) \in Nat
             /\ SumFunctionOnSet(Amounts(ms), S) \in Nat
  <2>1. IsFiniteSet(S) /\ \A i \in S : Amounts(ms)[i] \in Nat
    BY <1>3, <1>4, FS_Subset
  <2> QED
    BY <2>1, FS_CardinalityType, SumType
<1> QED
  BY <1>3, <1>4, <1>5 DEF ms

\* A step on the milestones there are keeps the allocation.
LEMMA SameWorkKeeps ==
  ASSUME TypeOK, NEW e \in Escrows, Allocated(e), SameWork(e)
  PROVE  Allocated(e)'
<1> DEFINE D == DOMAIN milestones[e]
<1>1. /\ DOMAIN milestones'[e] = D
      /\ \A i \in D : Amounts(milestones[e])[i] \in Nat
                      /\ Amounts(milestones'[e])[i] = Amounts(milestones[e])[i]
      /\ IsFiniteSet(D)
  BY MilestonesFinite DEF SameWork, Amounts
<1>2. SumFunctionOnSet(Amounts(milestones'[e]), D) = SumFunctionOnSet(Amounts(milestones[e]), D)
  BY <1>1, SumSame
<1> QED
  BY <1>1, <1>2 DEF Allocated, SameWork

\* A step that counts and pays what it marks keeps the counters and the payment.
LEMMA ProgressKeeps ==
  ASSUME TypeOK, NEW e \in Escrows, Counted(e), PaidForWork(e),
         SameWork(e), NEW R, NEW Q, Progress(e, R, Q)
  PROVE  Counted(e)' /\ PaidForWork(e)'
<1> DEFINE D == DOMAIN milestones[e]
           F == Finished(milestones[e])
           A == Passed(milestones[e])
           f == Amounts(milestones[e])
           g == Amounts(milestones'[e])
<1>1. /\ F \in SUBSET D /\ A \in SUBSET D /\ R \in SUBSET D /\ Q \in SUBSET D
      /\ F \cap R = {} /\ A \cap Q = {}
  BY DEF Progress, Marks, Finished, Passed
<1>2. /\ IsFiniteSet(D) /\ IsFiniteSet(F) /\ IsFiniteSet(A) /\ IsFiniteSet(R) /\ IsFiniteSet(Q)
      /\ Cardinality(F) \in Nat /\ Cardinality(A) \in Nat
      /\ Cardinality(R) \in Nat /\ Cardinality(Q) \in Nat
      /\ \A i \in D : f[i] \in Nat
  BY <1>1, MilestonesFinite
<1>3. /\ Finished(milestones'[e]) = F \cup R /\ Passed(milestones'[e]) = A \cup Q
      /\ DOMAIN milestones'[e] = D /\ \A i \in D : g[i] = f[i]
  BY DEF Progress, Marks, SameWork, Amounts
<1>4. PaidForWork(e)'
  <2>1. ASSUME Booked(e)'
        PROVE  /\ paid[e]["freelancer"] = SumFunctionOnSet(f, F)
               /\ paid'[e]["freelancer"] = paid[e]["freelancer"] + SumFunctionOnSet(f, R)
               /\ \A i \in D : milestones[e][i].payouts = IF i \in F THEN 1 ELSE 0
               /\ \A i \in D : milestones'[e][i].payouts
                                 = milestones[e][i].payouts + (IF i \in R THEN 1 ELSE 0)
    BY <2>1 DEF Progress, Pays, PaidForWork
  <2>2. SumFunctionOnSet(f, F \cup R) = SumFunctionOnSet(f, F) + SumFunctionOnSet(f, R)
    <3>1. \A i \in F \cup R : f[i] \in Nat
      BY <1>1, <1>2
    <3> HIDE DEF f, F, D
    <3> QED
      BY <1>1, <1>2, <3>1, SumDisjoint
  <2>3. SumFunctionOnSet(g, F \cup R) = SumFunctionOnSet(f, F \cup R)
    <3>1. IsFiniteSet(F \cup R) /\ \A i \in F \cup R : f[i] \in Nat /\ g[i] = f[i]
      BY <1>1, <1>2, <1>3, FS_Union
    <3> HIDE DEF f, g, F, D
    <3> QED
      BY <3>1, SumSame
  <2>4. \A i \in D : (IF i \in F THEN 1 ELSE 0) + (IF i \in R THEN 1 ELSE 0)
                       = IF i \in F \cup R THEN 1 ELSE 0
    BY <1>1
  <2> HIDE DEF D, F, f, g
  <2>5. Booked(e)' =>
          /\ paid'[e]["freelancer"] = SumFunctionOnSet(g, F \cup R)
          /\ \A i \in D : milestones'[e][i].payouts = IF i \in F \cup R THEN 1 ELSE 0
    BY <2>1, <2>2, <2>3, <2>4
  <2> QED
    BY <1>3, <2>5 DEF PaidForWork, g
<1>5. Counted(e)'
  <2>1. Cardinality(F \cup R) = Cardinality(F) + Cardinality(R)
        /\ Cardinality(A \cup Q) = Cardinality(A) + Cardinality(Q)
    <3> HIDE DEF F, A, D, f
    <3>1. Cardinality({}) = 0
      BY FS_EmptySet
    <3>2. Cardinality(F \cup R) = Cardinality(F) + Cardinality(R) - Cardinality(F \cap R)
      BY <1>2, FS_Union
    <3>3. Cardinality(A \cup Q) = Cardinality(A) + Cardinality(Q) - Cardinality(A \cap Q)
      BY <1>2, FS_Union
    <3>4. Cardinality(F \cap R) = 0 /\ Cardinality(A \cap Q) = 0
      BY <1>1, <3>1
    <3> QED
      BY <1>2, <3>2, <3>3, <3>4
  <2>2. Live(e)' => /\ meta[e].released_count = Cardinality(F)
                    /\ meta[e].approved_count = Cardinality(A)
                    /\ meta'[e].released_count = meta[e].released_count + Cardinality(R)
                    /\ meta'[e].approved_count = meta[e].approved_count + Cardinality(Q)
    BY DEF Progress, Counts, Counted, SameWork
  <2>3. Live(e)' => /\ meta'[e].released_count = Cardinality(F \cup R)
                    /\ meta'[e].approved_count = Cardinality(A \cup Q)
    BY <2>1, <2>2
  <2> QED
    BY <1>3, <2>3 DEF Counted
<1> QED
  BY <1>4, <1>5

\* An escrow a step does not touch keeps everything.
LEMMA ElsewhereKeeps ==
  ASSUME NEW e \in Escrows, Elsewhere(e), NEW f \in Escrows \ {e}
  PROVE  /\ Allocated(f) => Allocated(f)'
         /\ Counted(f) => Counted(f)'
         /\ PaidForWork(f) => PaidForWork(f)'
<1>1. meta'[f] = meta[f] /\ milestones'[f] = milestones[f]
      /\ request'[f] = request[f] /\ paid'[f] = paid[f]
  BY DEF Elsewhere
<1> QED
  BY <1>1 DEF Allocated, Counted, PaidForWork, Booked, Live
-----------------------------------------------------------------------------
(* Escrows whose books of the work stay the same. *)

\* `m` has the principal, the allocation and the counters of `old`.
SameBooks(m, old) ==
  /\ m.total_amount = old.total_amount /\ m.allocated_amount = old.allocated_amount
  /\ m.released_count = old.released_count /\ m.approved_count = old.approved_count

\* Settling the rent touches none of them.
LEMMA CollectedBooks ==
  ASSUME TypeOK, RentClockBehind, NEW e \in Escrows
  PROVE  /\ RentCollected(e) \in EscrowMeta /\ SameBooks(RentCollected(e), meta[e])
         /\ RentCollected(e).status = meta[e].status
<1>1. meta[e] \in EscrowMeta
  BY DEF TypeOK, LedgerTypeOK
<1>2. SameBooks(RentCollected(e), meta[e])
  BY <1>1 DEF RentCollected, SameBooks, EscrowMeta
<1>3. RentCollected(e) \in EscrowMeta /\ RentCollected(e).status = meta[e].status
  BY RentCollectedOrdinary DEF Ordinary
<1> QED
  BY <1>2, <1>3

\* Nor does an update of the other fields.
LEMMA OtherFieldsBooks ==
  ASSUME NEW c \in EscrowMeta, NEW v, NEW w
  PROVE  /\ SameBooks([c EXCEPT !.deadline = v, !.submitted_count = w], c)
         /\ SameBooks([c EXCEPT !.submitted_count = v], c)
         /\ SameBooks([c EXCEPT !.timelock = v], c)
         /\ SameBooks([c EXCEPT !.lock_time = v], c)
         /\ SameBooks([c EXCEPT !.client = v], c)
         /\ SameBooks([c EXCEPT !.rent_balance = v], c)
         /\ SameBooks([c EXCEPT !.remaining_balance = v], c)
         /\ SameBooks([c EXCEPT !.arbiter_fee_bps = v], c)
         /\ SameBooks([c EXCEPT !.status = v], c)
         /\ SameBooks([c EXCEPT !.status = v, !.rent_balance = w], c)
         /\ SameBooks([c EXCEPT !.dispute_started_ledger = v], c)
BY DEF EscrowMeta, SameBooks

\* What they make of the status.
LEMMA OtherFieldsStatus ==
  ASSUME NEW c \in EscrowMeta, NEW v, NEW w
  PROVE  /\ [c EXCEPT !.deadline = v, !.submitted_count = w].status = c.status
         /\ [c EXCEPT !.submitted_count = v].status = c.status
         /\ [c EXCEPT !.timelock = v].status = c.status
         /\ [c EXCEPT !.lock_time = v].status = c.status
         /\ [c EXCEPT !.client = v].status = c.status
         /\ [c EXCEPT !.rent_balance = v].status = c.status
         /\ [c EXCEPT !.remaining_balance = v].status = c.status
         /\ [c EXCEPT !.arbiter_fee_bps = v].status = c.status
         /\ [c EXCEPT !.status = v].status = v
         /\ [c EXCEPT !.status = v, !.rent_balance = w].status = v
BY DEF EscrowMeta

\* Nor does closing the books.
LEMMA ClosedBooks ==
  ASSUME NEW c \in EscrowMeta, NEW v
  PROVE  LET m == [c EXCEPT !.remaining_balance = 0, !.status = v]
         IN  SameBooks(m, c) /\ m.status = v
BY DEF EscrowMeta, SameBooks

\* What is stored and paid, escrow by escrow.
LEMMA StoredAt ==
  ASSUME TypeOK, NEW e \in Escrows, NEW m, NEW payment, NEW extra, NEW deposit,
         Store(e, m, payment, extra, deposit)
  PROVE  /\ meta'[e] = m
         /\ paid'[e]["freelancer"] = paid[e]["freelancer"] + payment["freelancer"]
         /\ \A f \in Escrows \ {e} : meta'[f] = meta[f] /\ paid'[f] = paid[f]
<1>1. /\ meta' = [meta EXCEPT ![e] = m]
      /\ paid' = [paid EXCEPT ![e] = [r \in Roles |-> @[r] + payment[r]]]
  BY DEF Store, Transfer
<1>2. meta \in [Escrows -> EscrowMeta] /\ paid \in [Escrows -> Payment]
  BY DEF TypeOK, LedgerTypeOK
<1>3. "freelancer" \in Roles
  BY DEF Roles
<1> QED
  BY <1>1, <1>2, <1>3

\* The milestones of `e` keep their amounts, those paid and those approved, and
\* the others' milestones and requests stay.
Unmarked(e) ==
  /\ \A f \in Escrows \ {e} : milestones'[f] = milestones[f] /\ request'[f] = request[f]
  /\ DOMAIN milestones'[e] = DOMAIN milestones[e]
  /\ \A i \in DOMAIN milestones[e] :
       /\ milestones'[e][i].amount = milestones[e][i].amount
       /\ \/ milestones'[e][i].status = milestones[e][i].status
          \/ /\ milestones'[e][i].status \notin {"Approved", "Released"}
             /\ milestones[e][i].status \notin {"Approved", "Released"}
       /\ Booked(e)' => milestones'[e][i].payouts = milestones[e][i].payouts

\* If the milestones stay as they are, none is marked.
LEMMA UnchangedUnmarked ==
  ASSUME NEW e \in Escrows, UNCHANGED milestones,
         \A f \in Escrows \ {e} : request'[f] = request[f]
  PROVE  Unmarked(e)
BY DEF Unmarked

\* A step that marks no milestone and pays no work.
LEMMA UnmarkedWork ==
  ASSUME TypeOK, TypeOK', NEW e \in Escrows, Live(e), Unmarked(e),
         \A f \in Escrows \ {e} : meta'[f] = meta[f] /\ paid'[f] = paid[f],
         SameBooks(meta'[e], meta[e]), meta'[e].status # "Absent",
         Booked(e)' => Booked(e) /\ paid'[e]["freelancer"] = paid[e]["freelancer"]
  PROVE  Worked(e)
<1>1. Elsewhere(e)
  BY DEF Elsewhere, Unmarked
<1>2. SameWork(e)
  BY DEF SameWork, Unmarked, SameBooks
<1>3. Marks(e, {}, {})
  <2>1. Finished(milestones'[e]) = Finished(milestones[e])
    BY DEF Finished, Unmarked
  <2>2. Passed(milestones'[e]) = Passed(milestones[e])
    BY DEF Passed, Unmarked
  <2> QED
    BY <2>1, <2>2 DEF Marks
<1>4. Counts(e, {}, {})
  <2>1. Cardinality({}) = 0 /\ meta[e] \in EscrowMeta
    BY FS_EmptySet DEF TypeOK, LedgerTypeOK
  <2>2. meta[e].released_count \in Nat /\ meta[e].approved_count \in Nat
    BY <2>1 DEF EscrowMeta
  <2> QED
    BY <2>1, <2>2 DEF Counts, SameBooks
<1>5. Pays(e, {})
  <2>1. SumFunctionOnSet(Amounts(milestones[e]), {}) = 0
    BY SumEmpty
  <2>2. paid[e]["freelancer"] \in Int
    BY DEF TypeOK, LedgerTypeOK, Payment, Roles
  <2>3. \A i \in DOMAIN milestones[e] : milestones[e][i].payouts \in Nat
    <3>1. \A i \in DOMAIN milestones[e] : milestones[e][i] \in Milestone
      BY DEF TypeOK, LedgerTypeOK
    <3> QED
      BY <3>1 DEF Milestone
  <2> QED
    BY <2>1, <2>2, <2>3 DEF Pays, Unmarked
<1> QED
  BY <1>1, <1>2, <1>3, <1>4, <1>5 DEF Worked, Progress

\* The same for a step that stores an update of the escrow.
LEMMA QuietStore ==
  ASSUME IInv, TypeOK', NEW e \in Escrows, Live(e), NEW m, NEW payment, NEW extra, NEW deposit,
         Store(e, m, payment, extra, deposit),
         SameBooks(m, RentCollected(e)), m.status # "Absent", Unmarked(e),
         Booked(e)' => Booked(e) /\ payment["freelancer"] = 0
  PROVE  Worked(e)
<1>1. TypeOK /\ RentClockBehind
  BY DEF IInv
<1>2. /\ meta'[e] = m
      /\ paid'[e]["freelancer"] = paid[e]["freelancer"] + payment["freelancer"]
      /\ \A f \in Escrows \ {e} : meta'[f] = meta[f] /\ paid'[f] = paid[f]
  BY <1>1, StoredAt
<1>3. SameBooks(m, meta[e])
  BY <1>1, CollectedBooks DEF SameBooks
<1>4. paid[e]["freelancer"] \in Int
  BY <1>1 DEF TypeOK, LedgerTypeOK, Payment, Roles
<1>5. Booked(e)' => Booked(e) /\ paid'[e]["freelancer"] = paid[e]["freelancer"]
  BY <1>2, <1>4
<1> QED
  BY <1>1, <1>2, <1>3, <1>5, UnmarkedWork
-----------------------------------------------------------------------------
(* Marking milestones. *)

\* What a payment makes of a milestone.
LEMMA PaidOutFields ==
  ASSUME NEW ms \in Milestone, NEW n \in Nat
  PROVE  /\ PaidOut(ms, n).status = "Released" /\ PaidOut(ms, n).amount = ms.amount
         /\ PaidOut(ms, n).payouts = ms.payouts + n
         /\ Transferred(ms, n).status = ms.status /\ Transferred(ms, n).amount = ms.amount
BY DEF PaidOut, Transferred, Milestone

\* Replacing one milestone leaves the others alone.
LEMMA MilestoneAt ==
  ASSUME TypeOK, NEW e \in Escrows, NEW i, IsMilestone(e, i), NEW ms, SetMilestone(e, i, ms)
  PROVE  /\ i \in DOMAIN milestones[e] /\ milestones[e][i] \in Milestone
         /\ DOMAIN milestones'[e] = DOMAIN milestones[e]
         /\ \A j \in DOMAIN milestones[e] :
              milestones'[e][j] = IF j = i THEN ms ELSE milestones[e][j]
         /\ \A f \in Escrows \ {e} : milestones'[f] = milestones[f]
<1>1. milestones \in [Escrows -> Seq(Milestone)]
  BY DEF TypeOK, LedgerTypeOK
<1>2. /\ milestones' = [milestones EXCEPT ![e] = [milestones[e] EXCEPT ![i] = ms]]
      /\ i \in DOMAIN milestones[e]
  BY <1>1 DEF SetMilestone, IsMilestone
<1>3. milestones'[e] = [milestones[e] EXCEPT ![i] = ms]
  BY <1>1, <1>2
<1>4. milestones[e] \in Seq(Milestone)
  BY <1>1
<1>5. \A f \in Escrows \ {e} : milestones'[f] = milestones[f]
  BY <1>1, <1>2
<1>6. milestones[e][i] \in Milestone
  BY <1>2, <1>4
<1> QED
  BY <1>2, <1>3, <1>5, <1>6

\* A new status that is neither "Approved" nor "Released" marks no milestone, if the
\* old one was neither.
LEMMA StatusUnmarked ==
  ASSUME TypeOK, NEW e \in Escrows, NEW i, IsMilestone(e, i), NEW v,
         SetMilestone(e, i, [milestones[e][i] EXCEPT !.status = v]),
         v \notin {"Approved", "Released"},
         milestones[e][i].status \notin {"Approved", "Released"},
         \A f \in Escrows \ {e} : request'[f] = request[f]
  PROVE  Unmarked(e)
<1> DEFINE ms == [milestones[e][i] EXCEPT !.status = v]
<1>1. milestones[e][i] \in Milestone
  BY MilestoneOf
<1>2. /\ ms.status = v /\ ms.amount = milestones[e][i].amount
      /\ ms.payouts = milestones[e][i].payouts
  BY <1>1 DEF Milestone
<1>3. SetMilestone(e, i, ms)
  OBVIOUS
<1> HIDE DEF ms
<1>4. /\ DOMAIN milestones'[e] = DOMAIN milestones[e]
      /\ \A j \in DOMAIN milestones[e] :
              milestones'[e][j] = IF j = i THEN ms ELSE milestones[e][j]
      /\ \A f \in Escrows \ {e} : milestones'[f] = milestones[f]
  BY <1>3, MilestoneAt
<1> QED
  BY <1>2, <1>4 DEF Unmarked

\* The milestones S of `e` all have the status `from`; each of them is released and
\* paid once if `pays`, and approved otherwise. The rest of the milestones stays.
MarkedAs(e, S, from, pays) ==
  /\ S \subseteq DOMAIN milestones[e]
  /\ from \in {"Submitted", "Approved"} /\ (from = "Approved" => pays)
  /\ \A i \in S : milestones[e][i].status = from
  /\ DOMAIN milestones'[e] = DOMAIN milestones[e]
  /\ \A i \in DOMAIN milestones[e] \ S : milestones'[e][i] = milestones[e][i]
  /\ \A i \in S :
       /\ milestones'[e][i].status = IF pays THEN "Released" ELSE "Approved"
       /\ milestones'[e][i].amount = milestones[e][i].amount
       /\ milestones'[e][i].payouts = milestones[e][i].payouts + (IF pays THEN 1 ELSE 0)

Paying(S, pays) == IF pays THEN S ELSE {}
Passing(S, from) == IF from = "Submitted" THEN S ELSE {}

\* What marking a set of milestones adds to the finished and the passed ones.
LEMMA MarkedMilestones ==
  ASSUME NEW e \in Escrows, NEW S, NEW from, NEW pays, MarkedAs(e, S, from, pays)
  PROVE  Marks(e, Paying(S, pays), Passing(S, from))
<1>1. CASE pays
  <2>1. Finished(milestones'[e]) = Finished(milestones[e]) \cup S
        /\ S \subseteq DOMAIN milestones[e] \ Finished(milestones[e])
    BY <1>1 DEF MarkedAs, Finished
  <2>2. CASE from = "Submitted"
    <3>1. Passed(milestones'[e]) = Passed(milestones[e]) \cup S
          /\ S \subseteq DOMAIN milestones[e] \ Passed(milestones[e])
      BY <1>1, <2>2 DEF MarkedAs, Passed
    <3> QED
      BY <1>1, <2>1, <2>2, <3>1 DEF Marks, Paying, Passing
  <2>3. CASE from # "Submitted"
    <3>1. Passed(milestones'[e]) = Passed(milestones[e])
      BY <1>1, <2>3 DEF MarkedAs, Passed
    <3> QED
      BY <1>1, <2>1, <2>3, <3>1 DEF Marks, Paying, Passing
  <2> QED
    BY <2>2, <2>3
<1>2. CASE ~pays
  <2>1. from = "Submitted"
    BY <1>2 DEF MarkedAs
  <2>2. Finished(milestones'[e]) = Finished(milestones[e])
    BY <1>2, <2>1 DEF MarkedAs, Finished
  <2>3. Passed(milestones'[e]) = Passed(milestones[e]) \cup S
        /\ S \subseteq DOMAIN milestones[e] \ Passed(milestones[e])
    BY <1>2, <2>1 DEF MarkedAs, Passed
  <2> QED
    BY <1>2, <2>1, <2>2, <2>3 DEF Marks, Paying, Passing
<1> QED
  BY <1>1, <1>2

\* Marking milestones, counting them and paying their amounts is progress.
LEMMA MarkedProgress ==
  ASSUME TypeOK, NEW e \in Escrows, NEW S, NEW from, NEW pays, MarkedAs(e, S, from, pays),
         meta'[e].released_count = meta[e].released_count + Cardinality(Paying(S, pays)),
         meta'[e].approved_count = meta[e].approved_count + Cardinality(Passing(S, from)),
         Booked(e)' => Booked(e),
         paid'[e]["freelancer"] = paid[e]["freelancer"]
           + SumFunctionOnSet(Amounts(milestones[e]), Paying(S, pays))
  PROVE  \E R, Q : Progress(e, R, Q)
<1> DEFINE R == Paying(S, pays)
           Q == Passing(S, from)
<1>1. Marks(e, R, Q)
  BY MarkedMilestones
<1>2. Counts(e, R, Q)
  BY DEF Counts
<1>3. Pays(e, R)
  <2>1. \A i \in DOMAIN milestones[e] : milestones[e][i].payouts \in Nat
    <3>1. \A i \in DOMAIN milestones[e] : milestones[e][i] \in Milestone
      BY DEF TypeOK, LedgerTypeOK
    <3> QED
      BY <3>1 DEF Milestone
  <2>2. \A i \in DOMAIN milestones[e] :
          milestones'[e][i].payouts = milestones[e][i].payouts + (IF i \in R THEN 1 ELSE 0)
    BY <2>1 DEF MarkedAs, Paying
  <2> HIDE DEF R
  <2> QED
    BY <2>2 DEF Pays, R
<1> QED
  BY <1>1, <1>2, <1>3 DEF Progress

-----------------------------------------------------------------------------
(* The books after milestones were approved and paid. *)

\* A payment for `n` milestones of `amount` together.
LEMMA ReleasedBooks ==
  ASSUME NEW c \in EscrowMeta, NEW n \in Nat, NEW amount \in Int
  PROVE  /\ Released(c, n, amount) \in EscrowMeta
         /\ Released(c, n, amount).status = c.status
         /\ Released(c, n, amount).total_amount = c.total_amount
         /\ Released(c, n, amount).allocated_amount = c.allocated_amount
         /\ Released(c, n, amount).approved_count = c.approved_count
         /\ Released(c, n, amount).released_count = c.released_count + n
<1> DEFINE b == [c EXCEPT !.remaining_balance = c.remaining_balance - amount]
           d == [b EXCEPT !.released_count = c.released_count + n]
<1>1. c.remaining_balance \in Int /\ c.released_count \in Nat
  BY DEF EscrowMeta
<1>2. Released(c, n, amount) = d
  BY DEF Released, EscrowMeta
<1>3. b \in EscrowMeta /\ SameBooks(b, c) /\ b.status = c.status
  <2> DEFINE r == c.remaining_balance - amount
  <2>1. r \in Int
    BY <1>1
  <2> HIDE DEF r
  <2>2. [c EXCEPT !.remaining_balance = r] \in EscrowMeta
    BY <2>1, PutRemainingBalance
  <2>3. SameBooks([c EXCEPT !.remaining_balance = r], c)
    BY OtherFieldsBooks
  <2>4. [c EXCEPT !.remaining_balance = r].status = c.status
    BY OtherFieldsStatus
  <2> QED
    BY <2>2, <2>3, <2>4 DEF r
<1> HIDE DEF b
<1>4. /\ d \in EscrowMeta /\ d.status = b.status
      /\ d.total_amount = b.total_amount /\ d.allocated_amount = b.allocated_amount
      /\ d.approved_count = b.approved_count /\ d.released_count = c.released_count + n
  <2>1. c.released_count + n \in Nat
    BY <1>1
  <2> QED
    BY <1>3, <2>1, PutReleasedCount DEF EscrowMeta
<1> HIDE DEF d
<1> QED
  BY <1>2, <1>3, <1>4 DEF SameBooks

\* Completion changes the status alone.
LEMMA CompletedBooks ==
  ASSUME NEW m \in EscrowMeta, NEW condition
  PROVE  /\ SameBooks(CompleteIf(condition, m), m)
         /\ CompleteIf(condition, m).status \in {m.status, "Completed"}
BY DEF CompleteIf, SameBooks, EscrowMeta

\* `m` is `c` after `n` approvals.
ApprovedFrom(m, c, n) ==
  /\ m \in EscrowMeta /\ m.status = c.status
  /\ m.total_amount = c.total_amount /\ m.allocated_amount = c.allocated_amount
  /\ m.approved_count = c.approved_count + n /\ m.released_count = c.released_count

\* The two ways in which the code counts approvals.
LEMMA ApprovedBooks ==
  ASSUME NEW c \in EscrowMeta, NEW n \in Nat, NEW k \in Nat
  PROVE  /\ ApprovedFrom([c EXCEPT !.approved_count = c.approved_count + n], c, n)
         /\ ApprovedFrom([c EXCEPT !.approved_count = c.approved_count + n,
                                   !.submitted_count = k], c, n)
<1> DEFINE a == [c EXCEPT !.approved_count = c.approved_count + n]
           d == [a EXCEPT !.submitted_count = k]
<1>1. c.approved_count + n \in Nat
  BY DEF EscrowMeta
<1>2. /\ a \in EscrowMeta /\ a.status = c.status
      /\ a.total_amount = c.total_amount /\ a.allocated_amount = c.allocated_amount
      /\ a.approved_count = c.approved_count + n /\ a.released_count = c.released_count
  BY <1>1, PutApprovedCount DEF EscrowMeta
<1>3. [c EXCEPT !.approved_count = c.approved_count + n, !.submitted_count = k] = d
  BY DEF EscrowMeta
<1> HIDE DEF a
<1>4. /\ d \in EscrowMeta /\ d.status = a.status
      /\ d.total_amount = a.total_amount /\ d.allocated_amount = a.allocated_amount
      /\ d.approved_count = a.approved_count /\ d.released_count = a.released_count
  BY <1>2, PutSubmittedCount DEF EscrowMeta
<1> HIDE DEF d
<1> QED
  BY <1>2, <1>3, <1>4 DEF a, ApprovedFrom

\* A step that marks milestones, stores the escrow with the counters moved on, with
\* its status kept or "Completed", and pays what it releases.
LEMMA MarkingStore ==
  ASSUME IInv, NEW e \in Escrows, Live(e), NEW m, NEW condition, NEW amount \in Nat,
         m \in EscrowMeta, m.status = meta[e].status,
         Store(e, CompleteIf(condition, m), To("freelancer", amount), 0, 0),
         m.total_amount = meta[e].total_amount,
         m.allocated_amount = meta[e].allocated_amount,
         UNCHANGED request, \A f \in Escrows \ {e} : milestones'[f] = milestones[f],
         DOMAIN milestones'[e] = DOMAIN milestones[e],
         \A i \in DOMAIN milestones[e] : milestones'[e][i].amount = milestones[e][i].amount,
         NEW S, NEW from, NEW pays,
         DistinctBatches =>
           /\ MarkedAs(e, S, from, pays)
           /\ m.released_count = meta[e].released_count + Cardinality(Paying(S, pays))
           /\ m.approved_count = meta[e].approved_count + Cardinality(Passing(S, from))
           /\ amount = SumFunctionOnSet(Amounts(milestones[e]), Paying(S, pays))
  PROVE  Worked(e)
<1> DEFINE c == CompleteIf(condition, m)
<1>1. TypeOK
  BY DEF IInv
<1>2. SameBooks(c, m) /\ c.status \in {meta[e].status, "Completed"}
  BY CompletedBooks
<1> HIDE DEF c
<1>3. Store(e, c, To("freelancer", amount), 0, 0)
  BY DEF c
<1>4. To("freelancer", amount)["freelancer"] = amount
  BY DEF To, NoPayment, Roles
<1>5. /\ meta'[e] = c /\ paid'[e]["freelancer"] = paid[e]["freelancer"] + amount
      /\ \A f \in Escrows \ {e} : meta'[f] = meta[f] /\ paid'[f] = paid[f]
  <2> DEFINE payment == To("freelancer", amount)
  <2>1. payment["freelancer"] = amount
    BY <1>4
  <2>2. Store(e, c, payment, 0, 0)
    BY <1>3
  <2> HIDE DEF payment
  <2> QED
    BY <1>1, <2>1, <2>2, StoredAt
<1>6. Elsewhere(e)
  BY <1>5 DEF Elsewhere
<1>7. SameWork(e)
  <2>1. Live(e) /\ meta[e].status # "Absent" /\ "Completed" # "Absent"
    BY DEF Live, EscrowStatus
  <2> QED
    BY <1>2, <1>5, <2>1 DEF SameWork, SameBooks
<1>8. Booked(e)' => Booked(e)
  BY <1>2, <1>5 DEF Booked, Open
<1>9. ASSUME DistinctBatches PROVE \E R, Q : Progress(e, R, Q)
  <2>1. /\ MarkedAs(e, S, from, pays)
        /\ meta'[e].released_count = meta[e].released_count + Cardinality(Paying(S, pays))
        /\ meta'[e].approved_count = meta[e].approved_count + Cardinality(Passing(S, from))
        /\ paid'[e]["freelancer"] = paid[e]["freelancer"]
             + SumFunctionOnSet(Amounts(milestones[e]), Paying(S, pays))
    BY <1>2, <1>5, <1>9 DEF SameBooks
  <2> QED
    BY <1>1, <1>8, <2>1, MarkedProgress
<1> QED
  BY <1>6, <1>7, <1>9 DEF Worked
-----------------------------------------------------------------------------
(* The entry points, one by one: first those that mark milestones. *)

\* The set of the milestones a list names has as many members as the list, if the
\* list repeats none, and their amounts add up to the batch's total.
LEMMA BatchNames ==
  ASSUME TypeOK, NEW e \in Escrows, NEW ids \in BatchLists, DistinctBatches,
         \A k \in DOMAIN ids : IsMilestone(e, ids[k])
  PROVE  LET S == {ids[k] : k \in DOMAIN ids}
         IN  /\ S \subseteq DOMAIN milestones[e]
             /\ Cardinality(S) = Len(ids)
             /\ SumFunctionOnSet(Amounts(milestones[e]), S) = BatchTotal(e, ids)
             /\ \A i \in DOMAIN milestones[e] : Times(i, ids) = IF i \in S THEN 1 ELSE 0
<1> DEFINE D == DOMAIN ids
           S == {ids[k] : k \in D}
           f == Amounts(milestones[e])
           h == [k \in D |-> milestones[e][ids[k]].amount]
<1>1. D = 1..Len(ids) /\ Len(ids) \in Nat
  BY ArgumentTypes
<1>2. IsFiniteSet(D) /\ Cardinality(D) = Len(ids)
  <2> DEFINE n == Len(ids)
  <2>1. n \in Nat /\ D = 1..n
    BY <1>1
  <2> HIDE DEF n, D
  <2>2. IsFiniteSet(1..n) /\ Cardinality(1..n) = n
    BY <2>1, FS_Interval
  <2> QED
    BY <2>1, <2>2 DEF n
<1>3. \A k, j \in D : ids[k] = ids[j] => k = j
  BY DEF DistinctBatches, IsInjective
<1>4. S \subseteq DOMAIN milestones[e]
  BY DEF IsMilestone
<1>5. \A k \in D : h[k] \in Nat /\ f[ids[k]] = h[k]
  BY MilestonesFinite DEF IsMilestone, Amounts
<1>6. Cardinality(S) = Len(ids)
  <2> HIDE DEF D, f, h
  <2> QED
    BY <1>2, <1>3, ImageSize
<1>7. SumFunctionOnSet(f, S) = SumFunctionOnSet(h, D)
  <2> HIDE DEF D, f, h
  <2> QED
    BY <1>2, <1>3, <1>5, SumImage
<1>8. BatchTotal(e, ids) = SumFunctionOnSet(h, D)
  BY DEF BatchTotal, SumFunction
<1>9. ASSUME NEW i PROVE Times(i, ids) = IF i \in S THEN 1 ELSE 0
  <2> DEFINE named == {k \in D : ids[k] = i}
  <2>1. Times(i, ids) = Cardinality(named)
    BY DEF Times
  <2>2. CASE i \in S
    <3>1. PICK k \in D : ids[k] = i
      BY <2>2
    <3>2. named = {k}
      BY <1>3, <3>1
    <3> QED
      BY <2>1, <2>2, <3>2, FS_Singleton
  <2>3. CASE i \notin S
    <3>1. named = {}
      BY <2>3
    <3> QED
      BY <2>1, <2>3, <3>1, FS_EmptySet
  <2> QED
    BY <2>2, <2>3
<1> HIDE DEF f, h
<1> QED
  BY <1>4, <1>6, <1>7, <1>8, <1>9 DEF f

\* One milestone, as a set.
LEMMA OneName ==
  ASSUME TypeOK, NEW e \in Escrows, NEW i, IsMilestone(e, i)
  PROVE  /\ Cardinality({i}) = 1 /\ Cardinality({}) = 0
         /\ SumFunctionOnSet(Amounts(milestones[e]), {i}) = milestones[e][i].amount
         /\ SumFunctionOnSet(Amounts(milestones[e]), {}) = 0
         /\ milestones[e][i].amount \in Nat
<1> DEFINE f == Amounts(milestones[e])
<1>1. f[i] = milestones[e][i].amount /\ f[i] \in Nat
  BY MilestoneOf DEF Amounts, IsMilestone
<1> HIDE DEF f
<1>2. IsFiniteSet({}) /\ Cardinality({}) = 0 /\ Cardinality({i}) = 1
  BY FS_EmptySet, FS_Singleton
<1>3. SumFunctionOnSet(f, {} \cup {i}) = SumFunctionOnSet(f, {}) + f[i]
  BY <1>1, <1>2, SumAdd
<1>4. SumFunctionOnSet(f, {}) = 0 /\ {} \cup {i} = {i}
  BY SumEmpty
<1>5. SumFunctionOnSet(f, {i}) = f[i]
  BY <1>1, <1>3, <1>4
<1> QED
  BY <1>1, <1>2, <1>4, <1>5 DEF f

\* Approving or paying one milestone marks it.
LEMMA OneMarked ==
  ASSUME TypeOK, NEW e \in Escrows, NEW i, IsMilestone(e, i), NEW pays \in BOOLEAN,
         NEW from \in {"Submitted", "Approved"}, from = "Approved" => pays,
         milestones[e][i].status = from,
         SetMilestone(e, i, IF pays THEN PaidOut(milestones[e][i], 1)
                            ELSE [milestones[e][i] EXCEPT !.status = "Approved"])
  PROVE  /\ MarkedAs(e, {i}, from, pays)
         /\ \A f \in Escrows \ {e} : milestones'[f] = milestones[f]
         /\ DOMAIN milestones'[e] = DOMAIN milestones[e]
         /\ \A j \in DOMAIN milestones[e] : milestones'[e][j].amount = milestones[e][j].amount
<1> DEFINE ms == IF pays THEN PaidOut(milestones[e][i], 1)
                 ELSE [milestones[e][i] EXCEPT !.status = "Approved"]
<1>1. milestones[e][i] \in Milestone
  BY MilestoneOf
<1>2. /\ ms.status = (IF pays THEN "Released" ELSE "Approved")
      /\ ms.amount = milestones[e][i].amount
      /\ ms.payouts = milestones[e][i].payouts + (IF pays THEN 1 ELSE 0)
  <2>1. CASE pays
    BY <1>1, <2>1, PaidOutFields
  <2>2. CASE ~pays
    <3>1. milestones[e][i].payouts \in Nat
      BY <1>1 DEF Milestone
    <3>2. /\ [milestones[e][i] EXCEPT !.status = "Approved"].status = "Approved"
          /\ [milestones[e][i] EXCEPT !.status = "Approved"].amount = milestones[e][i].amount
          /\ [milestones[e][i] EXCEPT !.status = "Approved"].payouts = milestones[e][i].payouts
      BY <1>1 DEF Milestone
    <3> QED
      BY <2>2, <3>1, <3>2
  <2> QED
    BY <2>1, <2>2
<1>3. SetMilestone(e, i, ms)
  OBVIOUS
<1> HIDE DEF ms
<1>4. /\ i \in DOMAIN milestones[e] /\ DOMAIN milestones'[e] = DOMAIN milestones[e]
      /\ \A j \in DOMAIN milestones[e] :
              milestones'[e][j] = IF j = i THEN ms ELSE milestones[e][j]
      /\ \A f \in Escrows \ {e} : milestones'[f] = milestones[f]
  BY <1>3, MilestoneAt
<1> QED
  BY <1>2, <1>4 DEF MarkedAs

\* One approval, which pays when the time lock has run out.
LEMMA ApproveMilestoneWork ==
  ASSUME IInv, NEW e \in Escrows, NEW caller, NEW i, ApproveMilestone(caller, e, i)
  PROVE  Worked(e)
<1> DEFINE c == RentCollected(e)
           ms == milestones[e][i]
           pays == TimelockExpired(meta[e])
           approved == [c EXCEPT !.approved_count = @ + 1]
           m == IF pays THEN Released(approved, 1, ms.amount) ELSE approved
           completes == AllReleased(e, m) /\ m.approved_count = Len(milestones[e])
           amount == IF pays THEN ms.amount ELSE 0
<1>1. /\ TypeOK /\ IsMilestone(e, i) /\ ms.status = "Submitted" /\ Live(e)
      /\ Store(e, CompleteIf(completes, m), To("freelancer", amount), 0, 0)
      /\ SetMilestone(e, i, IF pays THEN PaidOut(ms, 1) ELSE [ms EXCEPT !.status = "Approved"])
      /\ UNCHANGED request
  BY DEF ApproveMilestone, IInv, Accessible
<1>2. c \in EscrowMeta /\ SameBooks(c, meta[e]) /\ c.status = meta[e].status
  BY CollectedBooks DEF IInv
<1>3. pays \in BOOLEAN
  BY DEF TimelockExpired
<1> HIDE DEF c, completes, pays
<1>4. /\ approved \in EscrowMeta /\ approved.status = c.status
      /\ approved.total_amount = c.total_amount /\ approved.allocated_amount = c.allocated_amount
      /\ approved.approved_count = c.approved_count + 1
      /\ approved.released_count = c.released_count
  BY <1>2, ApprovedBooks DEF ApprovedFrom
<1>5. ms.amount \in Nat /\ amount \in Nat
  BY <1>1, MilestoneOf
<1> HIDE DEF approved
<1>6. /\ m \in EscrowMeta /\ m.status = c.status
      /\ m.total_amount = c.total_amount /\ m.allocated_amount = c.allocated_amount
      /\ m.approved_count = c.approved_count + 1
      /\ m.released_count = c.released_count + (IF pays THEN 1 ELSE 0)
  <2>1. c.released_count \in Nat
    BY <1>2 DEF EscrowMeta
  <2> DEFINE a == ms.amount
  <2>2. a \in Int
    BY <1>5
  <2> HIDE DEF a
  <2>3. /\ Released(approved, 1, a) \in EscrowMeta
        /\ Released(approved, 1, a).status = approved.status
        /\ Released(approved, 1, a).total_amount = approved.total_amount
        /\ Released(approved, 1, a).allocated_amount = approved.allocated_amount
        /\ Released(approved, 1, a).approved_count = approved.approved_count
        /\ Released(approved, 1, a).released_count = approved.released_count + 1
    BY <1>4, <2>2, ReleasedBooks
  <2>4. CASE pays
    BY <1>4, <2>3, <2>4 DEF a
  <2>5. CASE ~pays
    BY <1>4, <2>1, <2>5
  <2> QED
    BY <2>4, <2>5
<1> HIDE DEF m
<1>7. /\ MarkedAs(e, {i}, "Submitted", pays)
      /\ \A f \in Escrows \ {e} : milestones'[f] = milestones[f]
      /\ DOMAIN milestones'[e] = DOMAIN milestones[e]
      /\ \A j \in DOMAIN milestones[e] : milestones'[e][j].amount = milestones[e][j].amount
  BY <1>1, <1>3, OneMarked
<1>8. /\ m.released_count = meta[e].released_count + Cardinality(Paying({i}, pays))
      /\ m.approved_count = meta[e].approved_count + Cardinality(Passing({i}, "Submitted"))
      /\ amount = SumFunctionOnSet(Amounts(milestones[e]), Paying({i}, pays))
  BY <1>1, <1>2, <1>6, OneName DEF SameBooks, Paying, Passing
<1> HIDE DEF amount
<1> QED
  BY <1>1, <1>2, <1>5, <1>6, <1>7, <1>8, MarkingStore DEF SameBooks

\* One release, by the client or, after the time lock, by anyone.
LEMMA ReleaseOneWork ==
  ASSUME IInv, NEW e \in Escrows, NEW caller, NEW i,
         ReleaseFunds(caller, e, i) \/ ReleaseWithTimelock(caller, e, i)
  PROVE  Worked(e)
<1> DEFINE c == RentCollected(e)
           ms == milestones[e][i]
           a == ms.amount
           m == Released(c, 1, a)
<1>1. /\ TypeOK /\ IsMilestone(e, i) /\ ms.status = "Approved" /\ Live(e)
      /\ SetMilestone(e, i, PaidOut(ms, 1)) /\ UNCHANGED request
  BY DEF ReleaseFunds, ReleaseWithTimelock, records, IInv, Accessible
<1>2. PICK condition : Store(e, CompleteIf(condition, m), To("freelancer", a), 0, 0)
  BY DEF ReleaseFunds, ReleaseWithTimelock
<1>3. c \in EscrowMeta /\ SameBooks(c, meta[e]) /\ c.status = meta[e].status
  BY CollectedBooks DEF IInv
<1> HIDE DEF c
<1>4. a \in Nat /\ a \in Int
  BY <1>1, MilestoneOf
<1> HIDE DEF a
<1>5. /\ m \in EscrowMeta /\ m.status = c.status
      /\ m.total_amount = c.total_amount /\ m.allocated_amount = c.allocated_amount
      /\ m.approved_count = c.approved_count /\ m.released_count = c.released_count + 1
  BY <1>3, <1>4, ReleasedBooks
<1> HIDE DEF m
<1>6. /\ MarkedAs(e, {i}, "Approved", TRUE)
      /\ \A f \in Escrows \ {e} : milestones'[f] = milestones[f]
      /\ DOMAIN milestones'[e] = DOMAIN milestones[e]
      /\ \A j \in DOMAIN milestones[e] : milestones'[e][j].amount = milestones[e][j].amount
  BY <1>1, OneMarked
<1>7. /\ m.released_count = meta[e].released_count + Cardinality(Paying({i}, TRUE))
      /\ m.approved_count = meta[e].approved_count + Cardinality(Passing({i}, "Approved"))
      /\ a = SumFunctionOnSet(Amounts(milestones[e]), Paying({i}, TRUE))
  <2>1. c.approved_count \in Nat
    BY <1>3 DEF EscrowMeta
  <2> QED
    BY <1>1, <1>3, <1>5, <2>1, OneName DEF SameBooks, Paying, Passing, a
<1>8. /\ m.status = meta[e].status /\ m.total_amount = meta[e].total_amount
      /\ m.allocated_amount = meta[e].allocated_amount
  BY <1>3, <1>5 DEF SameBooks
<1> QED
  BY <1>1, <1>2, <1>4, <1>5, <1>6, <1>7, <1>8, MarkingStore
\* What a batch makes of the milestones `ids` names: the amounts stay, and a list
\* without repetition marks the milestones it names.
LEMMA BatchMarked ==
  ASSUME TypeOK, NEW e \in Escrows, NEW ids \in BatchLists, NEW pays \in BOOLEAN,
         NEW from \in {"Submitted", "Approved"}, from = "Approved" => pays,
         \A k \in DOMAIN ids :
           IsMilestone(e, ids[k]) /\ milestones[e][ids[k]].status = from,
         NEW F, milestones' = [milestones EXCEPT ![e] = F],
         F = [i \in DOMAIN milestones[e] |->
                IF Times(i, ids) = 0 THEN milestones[e][i]
                ELSE IF pays THEN PaidOut(milestones[e][i], Times(i, ids))
                ELSE [milestones[e][i] EXCEPT !.status = "Approved"]]
  PROVE  /\ \A f \in Escrows \ {e} : milestones'[f] = milestones[f]
         /\ DOMAIN milestones'[e] = DOMAIN milestones[e]
         /\ \A j \in DOMAIN milestones[e] : milestones'[e][j].amount = milestones[e][j].amount
         /\ DistinctBatches => MarkedAs(e, {ids[k] : k \in DOMAIN ids}, from, pays)
<1> DEFINE S == {ids[k] : k \in DOMAIN ids}
<1>1. milestones \in [Escrows -> Seq(Milestone)] /\ ids \in Seq(Nat)
  BY ArgumentTypes DEF TypeOK, LedgerTypeOK
<1>2. milestones'[e] = F /\ \A f \in Escrows \ {e} : milestones'[f] = milestones[f]
  BY <1>1
<1>3. DOMAIN F = DOMAIN milestones[e]
  OBVIOUS
<1>4. ASSUME NEW i \in DOMAIN milestones[e]
      PROVE  /\ F[i].amount = milestones[e][i].amount
             /\ Times(i, ids) = 0 => F[i] = milestones[e][i]
             /\ Times(i, ids) = 1 =>
                  /\ F[i].status = IF pays THEN "Released" ELSE "Approved"
                  /\ F[i].payouts = milestones[e][i].payouts + (IF pays THEN 1 ELSE 0)
  <2> DEFINE n == Times(i, ids)
             ms == milestones[e][i]
  <2>1. n \in Nat /\ ms \in Milestone
    BY <1>1, TimesNat
  <2>2. F[i] = IF n = 0 THEN ms ELSE IF pays THEN PaidOut(ms, n)
               ELSE [ms EXCEPT !.status = "Approved"]
    OBVIOUS
  <2> HIDE DEF n, ms
  <2>3. /\ PaidOut(ms, n).status = "Released" /\ PaidOut(ms, n).amount = ms.amount
        /\ PaidOut(ms, n).payouts = ms.payouts + n
    BY <2>1, PaidOutFields
  <2>4. /\ [ms EXCEPT !.status = "Approved"].status = "Approved"
        /\ [ms EXCEPT !.status = "Approved"].amount = ms.amount
        /\ [ms EXCEPT !.status = "Approved"].payouts = ms.payouts
        /\ ms.payouts \in Nat
    BY <2>1 DEF Milestone
  <2> DEFINE x == F[i]
  <2>5. x = IF n = 0 THEN ms ELSE IF pays THEN PaidOut(ms, n)
            ELSE [ms EXCEPT !.status = "Approved"]
    BY <2>2
  <2> HIDE DEF x
  <2>6. CASE n = 0
    BY <2>5, <2>6 DEF x, n, ms
  <2>7. CASE n # 0 /\ pays
    <3>1. x = PaidOut(ms, n)
      BY <2>5, <2>7
    <3>2. /\ x.amount = ms.amount /\ x.status = "Released" /\ x.payouts = ms.payouts + n
      BY <2>3, <3>1
    <3>3. n = 1 => x.payouts = ms.payouts + 1
      BY <3>2
    <3> QED
      BY <2>7, <3>2, <3>3 DEF x, n, ms
  <2>8. CASE n # 0 /\ ~pays
    <3>1. x = [ms EXCEPT !.status = "Approved"]
      BY <2>5, <2>8
    <3>2. x.amount = ms.amount /\ x.status = "Approved" /\ x.payouts = ms.payouts + 0
      BY <2>4, <3>1
    <3> QED
      BY <2>8, <3>2 DEF x, n, ms
  <2> QED
    BY <2>6, <2>7, <2>8
<1>5. ASSUME DistinctBatches PROVE MarkedAs(e, S, from, pays)
  <2>1. /\ S \subseteq DOMAIN milestones[e]
        /\ \A i \in DOMAIN milestones[e] : Times(i, ids) = IF i \in S THEN 1 ELSE 0
    BY <1>5, BatchNames
  <2>2. \A i \in S : milestones[e][i].status = from
    OBVIOUS
  <2> HIDE DEF S
  <2>3. \A i \in DOMAIN milestones[e] \ S : milestones'[e][i] = milestones[e][i]
    <3>1. ASSUME NEW i \in DOMAIN milestones[e] \ S PROVE F[i] = milestones[e][i]
      BY <1>4, <2>1
    <3> QED
      BY <1>2, <3>1
  <2>4. \A i \in S :
          /\ milestones'[e][i].status = IF pays THEN "Released" ELSE "Approved"
          /\ milestones'[e][i].amount = milestones[e][i].amount
          /\ milestones'[e][i].payouts = milestones[e][i].payouts + (IF pays THEN 1 ELSE 0)
    <3>1. ASSUME NEW i \in S
          PROVE  /\ F[i].status = IF pays THEN "Released" ELSE "Approved"
                 /\ F[i].amount = milestones[e][i].amount
                 /\ F[i].payouts = milestones[e][i].payouts + (IF pays THEN 1 ELSE 0)
      BY <1>4, <2>1
    <3> QED
      BY <1>2, <3>1
  <2>5. DOMAIN milestones'[e] = DOMAIN milestones[e]
    BY <1>2, <1>3
  <2> QED
    BY <2>1, <2>2, <2>3, <2>4, <2>5 DEF MarkedAs
<1> QED
  BY <1>2, <1>3, <1>4, <1>5

\* A batch of approvals.
LEMMA BatchApproveWork ==
  ASSUME IInv, NEW e \in Escrows, NEW caller, NEW ids \in BatchLists,
         BatchApproveMilestones(caller, e, ids)
  PROVE  Worked(e)
<1> DEFINE c == RentCollected(e)
           S == {ids[k] : k \in DOMAIN ids}
           n == Len(ids)
           total == BatchTotal(e, ids)
           pays == TimelockExpired(meta[e])
           sub == Positive(c.submitted_count - n)
           approved == [c EXCEPT !.approved_count = c.approved_count + n,
                                 !.submitted_count = sub]
           m == IF pays THEN Released(approved, n, total) ELSE approved
           amount == IF pays THEN total ELSE 0
           condition == AllReleased(e, m)
           F == [i \in DOMAIN milestones[e] |->
                   IF Times(i, ids) = 0 THEN milestones[e][i]
                   ELSE IF pays THEN PaidOut(milestones[e][i], Times(i, ids))
                   ELSE [milestones[e][i] EXCEPT !.status = "Approved"]]
<1>1. c \in EscrowMeta /\ SameBooks(c, meta[e]) /\ c.status = meta[e].status
  BY CollectedBooks DEF IInv
<1>2. /\ TypeOK /\ Live(e)
      /\ \A k \in DOMAIN ids :
           IsMilestone(e, ids[k]) /\ milestones[e][ids[k]].status = "Submitted"
      /\ total \in 0..MAX_I128 /\ UNCHANGED request
  BY DEF BatchApproveMilestones, records, IInv, Accessible
<1>3. Store(e, CompleteIf(condition, m), To("freelancer", amount), 0, 0)
  BY <1>1 DEF BatchApproveMilestones, EscrowMeta
<1>4. milestones' = [milestones EXCEPT ![e] = F]
  BY <1>2 DEF BatchApproveMilestones, TypeOK, LedgerTypeOK
<1>5. n \in Nat /\ total \in Nat /\ total \in Int /\ amount \in Nat /\ sub \in Nat
  <2>1. MAX_I128 \in Nat /\ n \in Nat
    BY AmountAssumption, ArgumentTypes
  <2>2. c.submitted_count - n \in Int
    BY <1>1, <2>1 DEF EscrowMeta
  <2>3. sub \in Nat
    BY <2>2, PositiveNat
  <2> HIDE DEF total, sub, n
  <2> QED
    BY <1>2, <2>1, <2>3
<1>6. pays \in BOOLEAN
  BY DEF TimelockExpired
<1> HIDE DEF condition
<1>7. /\ \A f \in Escrows \ {e} : milestones'[f] = milestones[f]
      /\ DOMAIN milestones'[e] = DOMAIN milestones[e]
      /\ \A j \in DOMAIN milestones[e] : milestones'[e][j].amount = milestones[e][j].amount
      /\ DistinctBatches => MarkedAs(e, S, "Submitted", pays)
  <2> HIDE DEF pays, m, amount, approved, c
  <2> QED
    BY <1>2, <1>4, <1>6, BatchMarked
<1>8. DistinctBatches =>
        /\ Cardinality(S) = n /\ SumFunctionOnSet(Amounts(milestones[e]), S) = total
  BY <1>2, BatchNames
<1> HIDE DEF F, S, c, n, total, pays, sub
<1>9. /\ approved \in EscrowMeta /\ approved.status = c.status
      /\ approved.total_amount = c.total_amount /\ approved.allocated_amount = c.allocated_amount
      /\ approved.approved_count = c.approved_count + n
      /\ approved.released_count = c.released_count
  <2>1. ApprovedFrom(approved, c, n)
    BY <1>1, <1>5, ApprovedBooks
  <2> QED
    BY <2>1 DEF ApprovedFrom
<1> HIDE DEF approved
<1>10. /\ m \in EscrowMeta /\ m.status = c.status
       /\ m.total_amount = c.total_amount /\ m.allocated_amount = c.allocated_amount
       /\ m.approved_count = c.approved_count + n
       /\ m.released_count = c.released_count + (IF pays THEN n ELSE 0)
  <2>1. c.released_count \in Nat
    BY <1>1 DEF EscrowMeta
  <2>2. /\ Released(approved, n, total) \in EscrowMeta
        /\ Released(approved, n, total).status = approved.status
        /\ Released(approved, n, total).total_amount = approved.total_amount
        /\ Released(approved, n, total).allocated_amount = approved.allocated_amount
        /\ Released(approved, n, total).approved_count = approved.approved_count
        /\ Released(approved, n, total).released_count = approved.released_count + n
    BY <1>5, <1>9, ReleasedBooks
  <2>3. CASE pays
    BY <1>9, <2>2, <2>3
  <2>4. CASE ~pays
    BY <1>9, <2>1, <2>4
  <2> QED
    BY <2>3, <2>4
<1> HIDE DEF m
<1>11. DistinctBatches =>
         /\ MarkedAs(e, S, "Submitted", pays)
         /\ m.released_count = meta[e].released_count + Cardinality(Paying(S, pays))
         /\ m.approved_count = meta[e].approved_count + Cardinality(Passing(S, "Submitted"))
         /\ amount = SumFunctionOnSet(Amounts(milestones[e]), Paying(S, pays))
  <2>1. Cardinality({}) = 0 /\ SumFunctionOnSet(Amounts(milestones[e]), {}) = 0
    BY FS_EmptySet, SumEmpty
  <2> QED
    BY <1>1, <1>7, <1>8, <1>10, <2>1 DEF SameBooks, Paying, Passing
<1>12. /\ m.status = meta[e].status /\ m.total_amount = meta[e].total_amount
       /\ m.allocated_amount = meta[e].allocated_amount
  BY <1>1, <1>10 DEF SameBooks
<1> HIDE DEF amount
<1> QED
  BY <1>2, <1>3, <1>5, <1>7, <1>10, <1>11, <1>12, MarkingStore

\* A batch of releases.
LEMMA BatchReleaseWork ==
  ASSUME IInv, NEW e \in Escrows, NEW ids \in BatchLists, BatchReleaseFunds(e, ids)
  PROVE  Worked(e)
<1> DEFINE c == RentCollected(e)
           S == {ids[k] : k \in DOMAIN ids}
           n == Len(ids)
           total == BatchTotal(e, ids)
           m == Released(c, n, total)
           condition == AllReleased(e, m)
           F == [i \in DOMAIN milestones[e] |->
                   IF Times(i, ids) = 0 THEN milestones[e][i]
                   ELSE IF TRUE THEN PaidOut(milestones[e][i], Times(i, ids))
                   ELSE [milestones[e][i] EXCEPT !.status = "Approved"]]
<1>1. c \in EscrowMeta /\ SameBooks(c, meta[e]) /\ c.status = meta[e].status
  BY CollectedBooks DEF IInv
<1>2. /\ TypeOK /\ Live(e)
      /\ \A k \in DOMAIN ids :
           IsMilestone(e, ids[k]) /\ milestones[e][ids[k]].status = "Approved"
      /\ total \in 0..MAX_I128 /\ UNCHANGED request
  BY DEF BatchReleaseFunds, IInv, Accessible
<1>3. Store(e, CompleteIf(condition, m), To("freelancer", total), 0, 0)
  BY DEF BatchReleaseFunds
<1>4. milestones' = [milestones EXCEPT ![e] = F]
  BY <1>2 DEF BatchReleaseFunds, TypeOK, LedgerTypeOK
<1>5. n \in Nat /\ total \in Nat /\ total \in Int
  <2>1. MAX_I128 \in Nat /\ n \in Nat
    BY AmountAssumption, ArgumentTypes
  <2> HIDE DEF total, n
  <2> QED
    BY <1>2, <2>1
<1> HIDE DEF condition
<1>6. /\ \A f \in Escrows \ {e} : milestones'[f] = milestones[f]
      /\ DOMAIN milestones'[e] = DOMAIN milestones[e]
      /\ \A j \in DOMAIN milestones[e] : milestones'[e][j].amount = milestones[e][j].amount
      /\ DistinctBatches => MarkedAs(e, S, "Approved", TRUE)
  <2> HIDE DEF m, c
  <2> QED
    BY <1>2, <1>4, BatchMarked
<1>7. DistinctBatches =>
        /\ Cardinality(S) = n /\ SumFunctionOnSet(Amounts(milestones[e]), S) = total
  BY <1>2, BatchNames
<1> HIDE DEF F, S, c, n, total
<1>8. /\ m \in EscrowMeta /\ m.status = c.status
       /\ m.total_amount = c.total_amount /\ m.allocated_amount = c.allocated_amount
       /\ m.approved_count = c.approved_count
       /\ m.released_count = c.released_count + n
  BY <1>1, <1>5, ReleasedBooks
<1> HIDE DEF m
<1>9. DistinctBatches =>
         /\ MarkedAs(e, S, "Approved", TRUE)
         /\ m.released_count = meta[e].released_count + Cardinality(Paying(S, TRUE))
         /\ m.approved_count = meta[e].approved_count + Cardinality(Passing(S, "Approved"))
         /\ total = SumFunctionOnSet(Amounts(milestones[e]), Paying(S, TRUE))
  <2>1. Cardinality({}) = 0 /\ c.approved_count \in Nat
    BY <1>1, FS_EmptySet DEF EscrowMeta
  <2>2. Paying(S, TRUE) = S /\ Passing(S, "Approved") = {}
    BY DEF Paying, Passing
  <2>3. m.released_count = meta[e].released_count + n
        /\ m.approved_count = meta[e].approved_count + 0
    BY <1>1, <1>8, <2>1 DEF SameBooks
  <2> QED
    BY <1>6, <1>7, <2>1, <2>2, <2>3
<1>10. /\ m.status = meta[e].status /\ m.total_amount = meta[e].total_amount
       /\ m.allocated_amount = meta[e].allocated_amount
  BY <1>1, <1>8 DEF SameBooks
<1>11. Live(e) /\ UNCHANGED request /\ total \in Nat /\ m \in EscrowMeta
  BY <1>2, <1>5, <1>8
<1> QED
  BY <1>3, <1>6, <1>9, <1>10, <1>11, MarkingStore
-----------------------------------------------------------------------------
(* Then those that leave the marks alone. *)

\* Storing an escrow with its status.
LEMMA QuietSame ==
  ASSUME IInv, TypeOK', NEW e \in Escrows, Live(e), NEW m, NEW payment, NEW extra, NEW deposit,
         Store(e, m, payment, extra, deposit), payment["freelancer"] = 0,
         SameBooks(m, RentCollected(e)), m.status = RentCollected(e).status,
         UNCHANGED request[e], Unmarked(e)
  PROVE  Worked(e)
<1>1. TypeOK /\ RentClockBehind
  BY DEF IInv
<1>2. m.status = meta[e].status /\ m.status # "Absent"
  BY <1>1, CollectedBooks DEF Live, EscrowStatus
<1>3. meta'[e] = m
  BY <1>1, StoredAt
<1>4. Booked(e)' => Booked(e)
  BY <1>2, <1>3 DEF Booked
<1> QED
  BY <1>2, <1>4, QuietStore

\* Storing an escrow that is over, with nothing left to reopen it.
LEMMA QuietEnd ==
  ASSUME IInv, TypeOK', NEW e \in Escrows, Live(e), NEW m, NEW payment, NEW extra, NEW deposit,
         Store(e, m, payment, extra, deposit),
         SameBooks(m, RentCollected(e)), m.status \in {"Cancelled", "Completed"},
         request'[e] = None, Unmarked(e)
  PROVE  Worked(e)
<1>1. meta'[e] = m
  BY StoredAt DEF IInv
<1>2. ~Booked(e)'
  BY <1>1 DEF Booked, Open
<1> QED
  BY <1>2, QuietStore

\* An update of fields that say nothing of the work, by a call that pays nothing.
LEMMA OtherFieldsWork ==
  ASSUME IInv, TypeOK', NEW e \in Escrows, Live(e), NEW v, NEW w, NEW extra, NEW deposit,
         \/ Store(e, RentCollected(e), NoPayment, extra, deposit)
         \/ Store(e, [RentCollected(e) EXCEPT !.deadline = v, !.submitted_count = w],
                  NoPayment, extra, deposit)
         \/ Store(e, [RentCollected(e) EXCEPT !.submitted_count = v], NoPayment, extra, deposit)
         \/ Store(e, [RentCollected(e) EXCEPT !.timelock = v], NoPayment, extra, deposit)
         \/ Store(e, [RentCollected(e) EXCEPT !.lock_time = v], NoPayment, extra, deposit)
         \/ Store(e, [RentCollected(e) EXCEPT !.client = v], NoPayment, extra, deposit)
         \/ Store(e, [RentCollected(e) EXCEPT !.rent_balance = v], NoPayment, extra, deposit),
         UNCHANGED request[e], Unmarked(e)
  PROVE  Worked(e)
<1> DEFINE c == RentCollected(e)
<1>1. c \in EscrowMeta
  BY CollectedBooks DEF IInv
<1>2. NoPayment["freelancer"] = 0
  BY DEF NoPayment, Roles
<1>3. PICK m : /\ Store(e, m, NoPayment, extra, deposit)
               /\ SameBooks(m, c) /\ m.status = c.status
  <2> DEFINE Kept(m) == SameBooks(m, c) /\ m.status = c.status
  <2>1. /\ Kept(c)
        /\ Kept([c EXCEPT !.deadline = v, !.submitted_count = w])
        /\ Kept([c EXCEPT !.submitted_count = v]) /\ Kept([c EXCEPT !.timelock = v])
        /\ Kept([c EXCEPT !.lock_time = v]) /\ Kept([c EXCEPT !.client = v])
        /\ Kept([c EXCEPT !.rent_balance = v])
    <3> HIDE DEF c
    <3>1. SameBooks(c, c)
      BY DEF SameBooks
    <3>2. /\ SameBooks([c EXCEPT !.deadline = v, !.submitted_count = w], c)
          /\ SameBooks([c EXCEPT !.submitted_count = v], c)
          /\ SameBooks([c EXCEPT !.timelock = v], c)
          /\ SameBooks([c EXCEPT !.lock_time = v], c)
          /\ SameBooks([c EXCEPT !.client = v], c)
          /\ SameBooks([c EXCEPT !.rent_balance = v], c)
      BY <1>1, OtherFieldsBooks
    <3>3. /\ [c EXCEPT !.deadline = v, !.submitted_count = w].status = c.status
          /\ [c EXCEPT !.submitted_count = v].status = c.status
          /\ [c EXCEPT !.timelock = v].status = c.status
          /\ [c EXCEPT !.lock_time = v].status = c.status
          /\ [c EXCEPT !.client = v].status = c.status
          /\ [c EXCEPT !.rent_balance = v].status = c.status
      BY <1>1, OtherFieldsStatus
    <3> QED
      BY <3>1, <3>2, <3>3, Zenon
  <2>2. \A m : Kept(m) => SameBooks(m, c) /\ m.status = c.status
    OBVIOUS
  <2> HIDE DEF Kept
  <2>3. \E m : Store(e, m, NoPayment, extra, deposit) /\ Kept(m)
    BY <2>1, Zenon
  <2> QED
    BY <2>2, <2>3
<1> QED
  BY <1>2, <1>3, QuietSame

\* A call on an escrow leaves the other escrows' requests alone if it sets one.
LEMMA RequestAt ==
  ASSUME TypeOK, NEW e \in Escrows, NEW r, request' = [request EXCEPT ![e] = r]
  PROVE  request'[e] = r /\ \A f \in Escrows \ {e} : request'[f] = request[f]
BY DEF TypeOK, LedgerTypeOK

\* Submissions and rejections touch neither counter.
LEMMA SubmitRejectWork ==
  ASSUME IInv, TypeOK', NEW e \in Escrows, NEW i,
         SubmitMilestone(e, i) \/ RejectMilestone(e, i) \/ RejectMilestoneWithReason(e, i)
  PROVE  Worked(e)
<1>1. CASE SubmitMilestone(e, i)
  <2> DEFINE v == ExtendedDeadline(RentCollected(e))
             w == RentCollected(e).submitted_count + 1
  <2>1. /\ Live(e) /\ IsMilestone(e, i) /\ UNCHANGED request
        /\ milestones[e][i].status \notin {"Approved", "Released"}
        /\ SetMilestone(e, i, [milestones[e][i] EXCEPT !.status = "Submitted"])
        /\ StoreOnly(e, [RentCollected(e) EXCEPT !.deadline = v, !.submitted_count = @ + 1])
    BY <1>1 DEF SubmitMilestone, Submittable, Accessible, records
  <2>2. Store(e, [RentCollected(e) EXCEPT !.deadline = v, !.submitted_count = w],
              NoPayment, 0, 0)
    <3>1. RentCollected(e) \in EscrowMeta
      BY CollectedBooks DEF IInv
    <3> QED
      BY <2>1, <3>1 DEF StoreOnly, EscrowMeta
  <2> HIDE DEF v, w
  <2>3. Unmarked(e)
    BY <2>1, StatusUnmarked DEF IInv
  <2> QED
    BY <2>1, <2>2, <2>3, OtherFieldsWork
<1>2. CASE Reject(e, i)
  <2> DEFINE v == Positive(RentCollected(e).submitted_count - 1)
  <2>1. /\ Live(e) /\ IsMilestone(e, i) /\ UNCHANGED request
        /\ milestones[e][i].status \notin {"Approved", "Released"}
        /\ SetMilestone(e, i, [milestones[e][i] EXCEPT !.status = "Rejected"])
        /\ Store(e, [RentCollected(e) EXCEPT !.submitted_count = v], NoPayment, 0, 0)
    BY <1>2 DEF Reject, Accessible, records, StoreOnly
  <2> HIDE DEF v
  <2>2. TypeOK /\ "Rejected" \notin {"Approved", "Released"}
    BY DEF IInv
  <2>3. Unmarked(e)
    BY <2>1, <2>2, StatusUnmarked
  <2> QED
    BY <2>1, <2>3, OtherFieldsWork
<1> QED
  BY <1>1, <1>2 DEF RejectMilestone, RejectMilestoneWithReason

\* Nor do the locks and the change of client.
LEMMA LockingWork ==
  ASSUME IInv, TypeOK', NEW e \in Escrows, NEW t, NEW caller,
         \/ StartTimelock(caller, e, t) \/ ExtendLockTime(e, t) \/ SetTimelock(e, t)
         \/ TransferClientRole(e, t)
  PROVE  Worked(e)
<1>1. PICK v : 
        /\ Live(e) /\ UNCHANGED request /\ UNCHANGED milestones
        /\ \/ Store(e, RentCollected(e), NoPayment, 0, 0)
           \/ Store(e, [RentCollected(e) EXCEPT !.timelock = v], NoPayment, 0, 0)
           \/ Store(e, [RentCollected(e) EXCEPT !.lock_time = v], NoPayment, 0, 0)
           \/ Store(e, [RentCollected(e) EXCEPT !.client = v], NoPayment, 0, 0)
  BY DEF StartTimelock, ExtendLockTime, SetTimelock, TransferClientRole, StoreOnly, records,
         Accessible
<1>2. Unmarked(e)
  BY <1>1, UnchangedUnmarked
<1> QED
  BY <1>1, <1>2, OtherFieldsWork

\* Cancelling transfers the approved milestones' amounts, but the books are closed.
LEMMA CancelEscrowWork ==
  ASSUME IInv, TypeOK', NEW e \in Escrows, CancelEscrow(e)
  PROVE  Worked(e)
<1> DEFINE c == RentCollected(e)
           m == [c EXCEPT !.remaining_balance = 0, !.status = "Cancelled"]
           F == [i \in DOMAIN milestones[e] |->
                   IF milestones[e][i].status = "Approved" THEN Transferred(milestones[e][i], 1)
                   ELSE milestones[e][i]]
<1>1. TypeOK /\ c \in EscrowMeta /\ c.status = meta[e].status
  BY CollectedBooks DEF IInv
<1>2. /\ Live(e) /\ c.status = "Active" /\ UNCHANGED request
      /\ milestones' = [milestones EXCEPT ![e] = F]
  BY <1>1 DEF CancelEscrow, Accessible, TypeOK, LedgerTypeOK
<1>3. PICK payment : Store(e, m, payment, 0, 0)
  BY DEF CancelEscrow
<1> HIDE DEF c
<1>4. m.status = "Cancelled" /\ SameBooks(m, c)
  BY <1>1, ClosedBooks
<1> HIDE DEF m
<1>5. request[e] = None
  BY <1>1, <1>2, NothingBeside
<1>6. meta'[e] = m
  BY <1>1, <1>3, StoredAt
<1>7. ~Booked(e)'
  BY <1>2, <1>4, <1>5, <1>6 DEF Booked, Open
<1>8. milestones \in [Escrows -> Seq(Milestone)]
  BY <1>1 DEF TypeOK, LedgerTypeOK
<1>9. /\ milestones'[e] = F /\ \A f \in Escrows \ {e} : milestones'[f] = milestones[f]
      /\ \A i \in DOMAIN milestones[e] : milestones[e][i] \in Milestone
  BY <1>2, <1>8
<1>10. \A i \in DOMAIN milestones[e] :
         F[i].amount = milestones[e][i].amount /\ F[i].status = milestones[e][i].status
  BY <1>9, PaidOutFields
<1>11. DOMAIN F = DOMAIN milestones[e]
  OBVIOUS
<1> HIDE DEF F
<1>12. Unmarked(e)
  BY <1>2, <1>7, <1>9, <1>10, <1>11 DEF Unmarked
<1> QED
  BY <1>2, <1>3, <1>4, <1>5, <1>12, QuietEnd DEF c

\* A partial cancel keeps what is allocated to milestones.
LEMMA PartialCancelWork ==
  ASSUME IInv, TypeOK', NEW e \in Escrows, PartialCancel(e)
  PROVE  Worked(e)
<1> DEFINE c == RentCollected(e)
<1>1. c \in EscrowMeta
  BY CollectedBooks DEF IInv
<1>2. PICK b, a : /\ Live(e) /\ UNCHANGED request /\ UNCHANGED milestones
                  /\ Store(e, [c EXCEPT !.remaining_balance = b], To("client", a), 0, 0)
  BY DEF PartialCancel, Accessible, records
<1> HIDE DEF c
<1> DEFINE m == [c EXCEPT !.remaining_balance = b]
<1>3. SameBooks(m, c) /\ m.status = c.status
  BY <1>1, OtherFieldsBooks, OtherFieldsStatus
<1>4. To("client", a)["freelancer"] = 0
  BY DEF To, NoPayment, Roles
<1>5. Unmarked(e)
  BY <1>2, UnchangedUnmarked
<1>6. Store(e, m, To("client", a), 0, 0)
  BY <1>2
<1> HIDE DEF m
<1> QED
  BY <1>2, <1>3, <1>4, <1>5, <1>6, QuietSame DEF c

\* An expiry by deadline ends the escrow.
LEMMA TriggerExpiryWork ==
  ASSUME IInv, TypeOK', NEW e \in Escrows, TriggerExpiry(e)
  PROVE  Worked(e)
<1>1. TypeOK /\ meta \in [Escrows -> EscrowMeta] /\ paid \in [Escrows -> Payment]
  BY DEF IInv, TypeOK, LedgerTypeOK
<1> DEFINE m == [meta[e] EXCEPT !.remaining_balance = 0, !.status = "Cancelled"]
<1>2. /\ meta' = [meta EXCEPT ![e] = m] /\ meta[e].status = "Active"
      /\ UNCHANGED request /\ UNCHANGED milestones
  BY <1>1 DEF TriggerExpiry, records
<1>3. PICK payment : paid' = [paid EXCEPT ![e] = [r \in Roles |-> @[r] + payment[r]]]
  BY DEF TriggerExpiry, Transfer
<1>4. SameBooks(m, meta[e]) /\ m.status = "Cancelled"
  BY <1>1, ClosedBooks
<1> HIDE DEF m
<1>5. meta'[e] = m /\ \A f \in Escrows \ {e} : meta'[f] = meta[f] /\ paid'[f] = paid[f]
  BY <1>1, <1>2, <1>3
<1>6. request[e] = None
  BY <1>2, NothingBeside
<1>7. ~Booked(e)'
  BY <1>2, <1>4, <1>5, <1>6 DEF Booked, Open
<1>8. Live(e) /\ Unmarked(e)
  BY <1>2, UnchangedUnmarked DEF Live, EscrowStatus
<1> QED
  BY <1>1, <1>4, <1>5, <1>7, <1>8, UnmarkedWork
-----------------------------------------------------------------------------
(* Disputes and cancellations. *)

\* A dispute marks its milestone as disputed, never a finished one.
LEMMA RaiseDisputeWork ==
  ASSUME IInv, TypeOK', NEW e \in Escrows, NEW caller, NEW target, RaiseDispute(caller, e, target)
  PROVE  Worked(e)
<1> DEFINE c == RentCollected(e)
           status == IF target = None THEN None ELSE milestones[e][target].status
           k == IF status = "Submitted" THEN Positive(DisputeOpened(c).submitted_count - 1)
                ELSE DisputeOpened(c).submitted_count
           m == [DisputeOpened(c) EXCEPT !.submitted_count = k]
<1>1. TypeOK /\ c \in EscrowMeta /\ c.status = meta[e].status
  BY CollectedBooks DEF IInv
<1>2. /\ Live(e) /\ c.status = "Active" /\ UNCHANGED request
      /\ target # None => IsMilestone(e, target)
      /\ IF status \in {"Pending", "Submitted"}
         THEN SetMilestone(e, target, [milestones[e][target] EXCEPT !.status = "Disputed"])
         ELSE UNCHANGED milestones
  BY DEF RaiseDispute, Accessible
<1>3. Store(e, m, NoPayment, 0, 0)
  <2>1. StoreOnly(e, [DisputeOpened(c) EXCEPT
          !.submitted_count = IF status = "Submitted" THEN Positive(@ - 1) ELSE @])
    BY DEF RaiseDispute
  <2>2. "submitted_count" \in DOMAIN DisputeOpened(c)
    BY <1>1 DEF DisputeOpened, EscrowMeta
  <2> QED
    BY <2>1, <2>2 DEF StoreOnly
<1>4. Unmarked(e)
  <2>1. CASE target # None /\ milestones[e][target].status \in {"Pending", "Submitted"}
    <3>1. /\ IsMilestone(e, target)
          /\ milestones[e][target].status \notin {"Approved", "Released"}
          /\ SetMilestone(e, target, [milestones[e][target] EXCEPT !.status = "Disputed"])
          /\ "Disputed" \notin {"Approved", "Released"}
      BY <1>2, <2>1
    <3> QED
      BY <1>1, <1>2, <3>1, StatusUnmarked
  <2>2. CASE ~(target # None /\ milestones[e][target].status \in {"Pending", "Submitted"})
    <3>1. None \notin {"Pending", "Submitted"}
      BY NoneRecordAssumption DEF MilestoneStatus
    <3>2. UNCHANGED milestones
      BY <1>2, <2>2, <3>1
    <3> QED
      BY <1>2, <3>2, UnchangedUnmarked
  <2> QED
    BY <2>1, <2>2
<1> HIDE DEF c, status, k
<1>5. SameBooks(m, c) /\ m.status = "Disputed"
  BY <1>1 DEF SameBooks, DisputeOpened, EscrowMeta
<1> HIDE DEF m
<1>6. NoPayment["freelancer"] = 0
  BY DEF NoPayment, Roles
<1>7. Booked(e)
  BY <1>1, <1>2 DEF Booked, Open
<1> QED
  BY <1>2, <1>3, <1>4, <1>5, <1>6, <1>7, QuietStore DEF c

\* A settlement ends the escrow.
LEMMA SettleWork ==
  ASSUME IInv, TypeOK', NEW e \in Escrows, Live(e), NEW m \in EscrowMeta,
         SameBooks(m, RentCollected(e)), request[e] = None, NEW x, NEW y, Settle(e, m, x, y)
  PROVE  Worked(e)
<1> DEFINE k == [m EXCEPT !.remaining_balance = 0, !.status = "Completed"]
<1>1. PICK payment, extra : Store(e, k, payment, extra, 0)
  BY DEF Settle
<1>2. UNCHANGED milestones /\ UNCHANGED request
  BY DEF Settle
<1>3. SameBooks(k, m) /\ k.status = "Completed"
  BY ClosedBooks
<1> HIDE DEF k
<1>4. SameBooks(k, RentCollected(e))
  BY <1>3 DEF SameBooks
<1>5. Unmarked(e)
  BY <1>2, UnchangedUnmarked
<1> QED
  BY <1>1, <1>2, <1>3, <1>4, <1>5, QuietEnd

\* A dispute that can be settled has no cancellation request beside it.
LEMMA SettlementWork ==
  ASSUME IInv, TypeOK', NEW e \in Escrows, NEW caller, NEW share, NEW payload, NEW grace,
         \/ ClaimDisputeTimeout(caller, e) \/ ResolveDispute(caller, e, share)
         \/ OracleResolveDispute(e, payload, grace)
  PROVE  Worked(e)
<1> DEFINE c == RentCollected(e)
           d == [c EXCEPT !.dispute_started_ledger = None]
<1>1. /\ TypeOK /\ RentClockBehind /\ c \in EscrowMeta /\ c.status = meta[e].status
      /\ c.dispute_start_ledger = meta[e].dispute_start_ledger
  BY CollectedBooks, RentCollectedOrdinary DEF IInv, Ordinary
<1>2. /\ d \in EscrowMeta /\ SameBooks(d, c) /\ SameBooks(c, c) /\ d.status = c.status
      /\ d.dispute_start_ledger = c.dispute_start_ledger
  <2> HIDE DEF c
  <2>1. d \in EscrowMeta
    BY <1>1, PutDisputeStarted DEF OptTime
  <2>2. SameBooks(d, c) /\ d.status = c.status /\ d.dispute_start_ledger = c.dispute_start_ledger
    BY <1>1 DEF SameBooks, EscrowMeta
  <2>3. SameBooks(c, c)
    BY DEF SameBooks
  <2> QED
    BY <2>1, <2>2, <2>3
<1>3. CASE ClaimDisputeTimeout(caller, e)
  <2>1. /\ Live(e) /\ d.status = "Disputed" /\ meta[e].dispute_started_ledger # None
        /\ \E x, y : Settle(e, d, x, y)
    BY <1>3 DEF ClaimDisputeTimeout, TimeoutReached, Accessible
  <2> HIDE DEF c, d
  <2>2. request[e] = None
    BY <1>1, <1>2, <2>1, NothingBeside
  <2> QED
    BY <1>2, <2>1, <2>2, SettleWork DEF c
<1>4. CASE ResolveDispute(caller, e, share)
  <2>1. /\ Live(e) /\ d.status = "Disputed" /\ d.dispute_start_ledger # None
        /\ \E x, y : Settle(e, d, x, y)
    BY <1>4 DEF ResolveDispute, CooldownOver, Accessible
  <2> HIDE DEF c, d
  <2>2. request[e] = None
    BY <1>1, <1>2, <2>1, NothingBeside
  <2> QED
    BY <1>2, <2>1, <2>2, SettleWork DEF c
<1>5. CASE OracleResolveDispute(e, payload, grace)
  <2>1. /\ Live(e) /\ c.status = "Disputed" /\ c.dispute_start_ledger # None
        /\ \E x, y : Settle(e, c, x, y)
    BY <1>5 DEF OracleResolveDispute, Accessible
  <2> HIDE DEF c, d
  <2>2. request[e] = None
    BY <1>1, <2>1, NothingBeside
  <2> QED
    BY <1>1, <1>2, <2>1, <2>2, SettleWork DEF c
<1> QED
  BY <1>3, <1>4, <1>5

\* A request, disputed or not, keeps the books.
LEMMA CancellationRequestWork ==
  ASSUME IInv, TypeOK', NEW e \in Escrows, NEW caller,
         \/ RequestCancellation(caller, e) \/ DisputeCancellation(caller, e)
  PROVE  Worked(e)
<1> DEFINE c == RentCollected(e)
<1>1. TypeOK /\ c \in EscrowMeta /\ c.status = meta[e].status
  BY CollectedBooks DEF IInv
<1>2. /\ Live(e) /\ UNCHANGED milestones /\ Booked(e)
      /\ \A f \in Escrows \ {e} : request'[f] = request[f]
  BY <1>1, RequestAt DEF RequestCancellation, DisputeCancellation, Accessible, Booked, Open,
                         TypeOK, LedgerTypeOK
<1>3. PICK deposit, v, w :
        \/ v = "CancellationPending"
             /\ Store(e, [c EXCEPT !.status = v, !.rent_balance = w], NoPayment, 0, deposit)
        \/ v = "Disputed" /\ Store(e, [c EXCEPT !.status = v], NoPayment, 0, deposit)
  <2>1. CASE RequestCancellation(caller, e)
    <3>1. Store(e, [c EXCEPT !.status = "CancellationPending",
                             !.rent_balance = c.rent_balance + ReserveForEntries(1)],
                NoPayment, 0, ReserveForEntries(1))
      BY <1>1, <2>1 DEF RequestCancellation, EscrowMeta
    <3> QED
      BY <3>1
  <2>2. CASE DisputeCancellation(caller, e)
    BY <2>2 DEF DisputeCancellation, StoreOnly
  <2> QED
    BY <2>1, <2>2
<1> HIDE DEF c
<1>4. PICK m : /\ Store(e, m, NoPayment, 0, deposit) /\ SameBooks(m, c)
               /\ m.status \in {"CancellationPending", "Disputed"}
  <2> DEFINE one == [c EXCEPT !.status = v, !.rent_balance = w]
             two == [c EXCEPT !.status = v]
  <2>1. SameBooks(one, c) /\ SameBooks(two, c)
    BY <1>1, OtherFieldsBooks
  <2>2. one.status = v /\ two.status = v
    BY <1>1, OtherFieldsStatus
  <2>3. \/ v = "CancellationPending" /\ Store(e, one, NoPayment, 0, deposit)
        \/ v = "Disputed" /\ Store(e, two, NoPayment, 0, deposit)
    BY <1>3
  <2> HIDE DEF one, two
  <2> QED
    BY <2>1, <2>2, <2>3
<1>5. Unmarked(e) /\ NoPayment["freelancer"] = 0
  BY <1>2, UnchangedUnmarked DEF NoPayment, Roles
<1> QED
  BY <1>2, <1>4, <1>5, QuietStore DEF c

\* So does its approval.
LEMMA ApproveCancellationWork ==
  ASSUME IInv, TypeOK', NEW e \in Escrows, NEW caller, ApproveCancellation(caller, e)
  PROVE  Worked(e)
<1> DEFINE c == RentCollected(e)
           q == [request[e] EXCEPT !.counterparty_approved = TRUE]
<1>1. TypeOK /\ c \in EscrowMeta /\ c.status = meta[e].status
  BY CollectedBooks DEF IInv
<1>2. /\ Live(e) /\ UNCHANGED milestones /\ request[e] # None
      /\ Store(e, c, NoPayment, 0, 0) /\ request' = [request EXCEPT ![e] = q]
  BY <1>1 DEF ApproveCancellation, StoreOnly, Accessible, TypeOK, LedgerTypeOK
<1> HIDE DEF q
<1>3. \A f \in Escrows \ {e} : request'[f] = request[f]
  BY <1>1, <1>2, RequestAt
<1>4. Unmarked(e) /\ NoPayment["freelancer"] = 0
  BY <1>2, <1>3, UnchangedUnmarked DEF NoPayment, Roles
<1>5. Booked(e) /\ c.status # "Absent"
  BY <1>1, <1>2 DEF Booked, Live, EscrowStatus
<1>6. SameBooks(c, c)
  BY DEF SameBooks
<1> QED
  BY <1>2, <1>4, <1>5, <1>6, QuietStore

\* An executed request ends the escrow.
LEMMA ExecuteCancellationWork ==
  ASSUME IInv, TypeOK', NEW e \in Escrows, ExecuteCancellation(e)
  PROVE  Worked(e)
<1> DEFINE c == RentCollected(e)
           m == [c EXCEPT !.remaining_balance = 0, !.status = "Cancelled"]
<1>1. TypeOK /\ c \in EscrowMeta
  BY CollectedBooks DEF IInv
<1>2. Live(e) /\ UNCHANGED milestones /\ request' = [request EXCEPT ![e] = None]
  BY DEF ExecuteCancellation, RemoveRequest, Accessible
<1>3. PICK payment : Store(e, m, payment, 0, 0)
  BY DEF ExecuteCancellation
<1> HIDE DEF c
<1>4. m.status = "Cancelled" /\ SameBooks(m, c)
  BY <1>1, ClosedBooks
<1> HIDE DEF m
<1>5. request'[e] = None /\ \A f \in Escrows \ {e} : request'[f] = request[f]
  BY <1>1, <1>2, RequestAt
<1>6. Unmarked(e)
  BY <1>2, <1>5, UnchangedUnmarked
<1> QED
  BY <1>2, <1>3, <1>4, <1>5, <1>6, QuietEnd DEF c

\* What is held from a cancellation is paid after the books are closed.
LEMMA SlashWork ==
  ASSUME IInv, TypeOK', NEW e \in Escrows, NEW caller, NEW upheld,
         FinalizeSlash(e) \/ DisputeSlash(e) \/ ResolveSlashDispute(caller, e, upheld)
  PROVE  Worked(e)
<1>1. /\ TypeOK /\ meta \in [Escrows -> EscrowMeta] /\ paid \in [Escrows -> Payment]
      /\ RentCollected(e) \in EscrowMeta /\ RentCollected(e).status = meta[e].status
      /\ SameBooks(RentCollected(e), RentCollected(e))
  BY CollectedBooks DEF IInv, TypeOK, LedgerTypeOK, SameBooks
<1>2. UNCHANGED milestones /\ UNCHANGED request /\ slash[e] # None /\ Live(e)
  BY DEF FinalizeSlash, DisputeSlash, ResolveSlashDispute, Accessible
<1>3. meta[e].status \in {"Cancelled", "Completed"} /\ request[e] = None
  BY <1>2 DEF IInv, SlashFollowsCancellation
<1>4. Unmarked(e)
  BY <1>2, UnchangedUnmarked
<1>5. CASE FinalizeSlash(e)
  <2>1. UNCHANGED meta
    BY <1>5 DEF FinalizeSlash
  <2>2. PICK payment : paid' = [paid EXCEPT ![e] = [r \in Roles |-> @[r] + payment[r]]]
    BY <1>5 DEF FinalizeSlash, Transfer
  <2>3. \A f \in Escrows \ {e} : meta'[f] = meta[f] /\ paid'[f] = paid[f]
    BY <1>1, <2>1, <2>2
  <2>4. ~Booked(e)'
    BY <1>2, <1>3, <2>1 DEF Booked, Open
  <2>5. SameBooks(meta'[e], meta[e]) /\ meta'[e].status # "Absent"
    BY <1>3, <2>1 DEF SameBooks
  <2> QED
    BY <1>1, <1>2, <1>4, <2>3, <2>4, <2>5, UnmarkedWork
<1>6. CASE DisputeSlash(e) \/ ResolveSlashDispute(caller, e, upheld)
  <2>1. PICK payment : Store(e, RentCollected(e), payment, 0, 0)
    BY <1>6 DEF DisputeSlash, ResolveSlashDispute, StoreOnly
  <2> QED
    BY <1>1, <1>2, <1>3, <1>4, <2>1, QuietEnd
<1> QED
  BY <1>5, <1>6

-----------------------------------------------------------------------------
(* Storage rent and the admin. *)

\* The rent that is due, a top-up, a withdrawal and the switches change nothing of the
\* work, as long as the rent has not run out.
LEMMA RentWork ==
  ASSUME IInv, TypeOK', NEW e \in Escrows,
         \/ GetEscrowMeta(e)
         \/ CollectRent(e) /\ ~RentHasExpired(e, RentCollected(e))
         \/ \E periods \in RentPeriods : TopUpRent(e, periods)
         \/ \E amount \in RentPeriods : WithdrawRentOverpayment(e, amount)
         \/ FreezeEscrow(e) \/ UnfreezeEscrow(e)
  PROVE  Worked(e)
<1> DEFINE c == RentCollected(e)
<1>1. "rent_balance" \in DOMAIN c
  BY CollectedBooks DEF IInv, EscrowMeta
<1>2. Live(e) /\ UNCHANGED milestones /\ UNCHANGED request
  BY DEF GetEscrowMeta, CollectRent, TopUpRent, WithdrawRentOverpayment, FreezeEscrow,
         UnfreezeEscrow, SetFrozen, Accessible, records
<1>3. PICK v, extra, deposit :
        \/ Store(e, c, NoPayment, extra, deposit)
        \/ Store(e, [c EXCEPT !.rent_balance = v], NoPayment, extra, deposit)
  <2>1. CASE GetEscrowMeta(e)
    BY <2>1 DEF GetEscrowMeta, StoreOnly
  <2>2. CASE CollectRent(e) /\ ~RentHasExpired(e, RentCollected(e))
    BY <2>2 DEF CollectRent, StoreOnly
  <2>3. ASSUME NEW periods \in RentPeriods, TopUpRent(e, periods)
        PROVE  \E v, extra, deposit :
                 Store(e, [c EXCEPT !.rent_balance = v], NoPayment, extra, deposit)
    <3>1. Store(e, [c EXCEPT !.rent_balance = c.rent_balance + ActiveStorageEntries(e) * periods],
                NoPayment, 0, ActiveStorageEntries(e) * periods)
      BY <1>1, <2>3 DEF TopUpRent
    <3> HIDE DEF c
    <3> QED
      BY <3>1
  <2>4. ASSUME NEW amount \in RentPeriods, WithdrawRentOverpayment(e, amount)
        PROVE  \E v, extra, deposit :
                 Store(e, [c EXCEPT !.rent_balance = v], NoPayment, extra, deposit)
    <3>1. Store(e, [c EXCEPT !.rent_balance = c.rent_balance - amount], NoPayment, amount, 0)
      BY <1>1, <2>4 DEF WithdrawRentOverpayment
    <3> HIDE DEF c
    <3> QED
      BY <3>1
  <2>5. CASE FreezeEscrow(e) \/ UnfreezeEscrow(e)
    BY <2>5 DEF FreezeEscrow, UnfreezeEscrow, SetFrozen, StoreOnly
  <2> HIDE DEF c
  <2> QED
    BY <2>1, <2>2, <2>3, <2>4, <2>5
<1>4. UNCHANGED request[e] /\ Unmarked(e)
  BY <1>2, UnchangedUnmarked
<1> QED
  BY <1>2, <1>3, <1>4, OtherFieldsWork

\* Neither the platform fee nor the arbiter's fee is paid for work.
LEMMA FeeWork ==
  ASSUME IInv, TypeOK', NEW e \in Escrows, NEW bps, CollectEscrowFee(e) \/ SetArbiterFeeBps(e, bps)
  PROVE  Worked(e)
<1>1. /\ TypeOK /\ meta \in [Escrows -> EscrowMeta] /\ paid \in [Escrows -> Payment]
      /\ meta[e] \in EscrowMeta
  BY DEF IInv, TypeOK, LedgerTypeOK
<1>2. /\ Live(e) /\ meta[e].status # "Absent" /\ UNCHANGED milestones /\ UNCHANGED request
  BY DEF CollectEscrowFee, SetArbiterFeeBps, Live, EscrowStatus, records
<1>3. \A f \in Escrows \ {e} : meta'[f] = meta[f] /\ paid'[f] = paid[f]
  <2>1. CASE CollectEscrowFee(e)
    BY <1>1, <2>1 DEF CollectEscrowFee, Transfer
  <2>2. CASE SetArbiterFeeBps(e, bps)
    BY <1>1, <2>2 DEF SetArbiterFeeBps
  <2> QED
    BY <2>1, <2>2
<1>4. SameBooks(meta'[e], meta[e]) /\ meta'[e].status = meta[e].status
  <2>1. CASE CollectEscrowFee(e)
    BY <2>1 DEF CollectEscrowFee, SameBooks
  <2>2. CASE SetArbiterFeeBps(e, bps)
    <3>1. meta'[e] = [meta[e] EXCEPT !.arbiter_fee_bps = bps]
      BY <1>1, <2>2 DEF SetArbiterFeeBps
    <3>2. SameBooks([meta[e] EXCEPT !.arbiter_fee_bps = bps], meta[e])
      BY <1>1, OtherFieldsBooks
    <3>3. [meta[e] EXCEPT !.arbiter_fee_bps = bps].status = meta[e].status
      BY <1>1, OtherFieldsStatus
    <3> QED
      BY <3>1, <3>2, <3>3
  <2> QED
    BY <2>1, <2>2
<1>5. paid'[e]["freelancer"] = paid[e]["freelancer"]
  <2>1. CASE CollectEscrowFee(e)
    <3>1. paid'[e]["freelancer"] = paid[e]["freelancer"] + NoPayment["freelancer"]
      BY <1>1, <2>1 DEF CollectEscrowFee, Transfer, Roles
    <3>2. paid[e]["freelancer"] \in Int /\ NoPayment["freelancer"] = 0
      BY <1>1 DEF NoPayment, Payment, Roles
    <3> QED
      BY <3>1, <3>2
  <2>2. CASE SetArbiterFeeBps(e, bps)
    BY <2>2 DEF SetArbiterFeeBps
  <2> QED
    BY <2>1, <2>2
<1>6. Booked(e)' => Booked(e)
  BY <1>2, <1>4 DEF Booked
<1>7. Unmarked(e)
  BY <1>2, UnchangedUnmarked
<1> QED
  BY <1>1, <1>2, <1>3, <1>4, <1>5, <1>6, <1>7, UnmarkedWork

-----------------------------------------------------------------------------
(* Escrows that begin, grow and end. *)

\* A new escrow has no milestones and has paid nothing.
LEMMA CreateEscrowWork ==
  ASSUME IInv, NEW e \in Escrows, NEW terms \in Terms, CreateEscrow(e, terms), Allocated(e)
  PROVE  Elsewhere(e) /\ Allocated(e)' /\ Counted(e)' /\ PaidForWork(e)'
<1>1. /\ TypeOK /\ meta \in [Escrows -> EscrowMeta] /\ paid \in [Escrows -> Payment]
      /\ meta[e].status = "Absent"
  BY DEF IInv, TypeOK, LedgerTypeOK, CreateEscrow
<1>2. UNCHANGED milestones /\ UNCHANGED request
  BY DEF CreateEscrow
<1>3. DOMAIN milestones[e] = {} /\ request[e] = None /\ paid[e] = NoPayment
  BY <1>1 DEF IInv, Allocated
<1>4. /\ meta'[e].status = "Active" /\ meta'[e].total_amount = terms.total_amount
      /\ meta'[e].allocated_amount = 0
      /\ meta'[e].released_count = 0 /\ meta'[e].approved_count = 0
      /\ \A f \in Escrows \ {e} : meta'[f] = meta[f]
  BY <1>1 DEF CreateEscrow, NoMeta
<1>5. paid' = [paid EXCEPT ![e] = [r \in Roles |-> @[r] + NoPayment[r]]]
  BY DEF CreateEscrow, Transfer
<1>6. paid'[e]["freelancer"] = 0 /\ \A f \in Escrows \ {e} : paid'[f] = paid[f]
  BY <1>1, <1>3, <1>5 DEF NoPayment, Roles
<1>7. terms.total_amount \in Nat
  BY TermsTyped
<1>8. /\ DOMAIN milestones'[e] = {} /\ Finished(milestones'[e]) = {}
      /\ Passed(milestones'[e]) = {}
  BY <1>2, <1>3 DEF Finished, Passed
<1>9. Elsewhere(e)
  BY <1>2, <1>4, <1>6 DEF Elsewhere
<1>10. Allocated(e)'
  BY <1>4, <1>7, <1>8, SumEmpty DEF Allocated
<1>11. Counted(e)'
  BY <1>4, <1>8, FS_EmptySet DEF Counted
<1>12. PaidForWork(e)'
  BY <1>6, <1>8, SumEmpty DEF PaidForWork
<1> QED
  BY <1>9, <1>10, <1>11, <1>12

\* An escrow whose rent has run out is deleted with its milestones and its request.
LEMMA ExpiredWork ==
  ASSUME IInv, NEW e \in Escrows, CollectRent(e), RentHasExpired(e, RentCollected(e))
  PROVE  Elsewhere(e) /\ Allocated(e)' /\ Counted(e)' /\ PaidForWork(e)'
<1>1. /\ meta \in [Escrows -> EscrowMeta] /\ paid \in [Escrows -> Payment]
      /\ milestones \in [Escrows -> Seq(Milestone)]
      /\ request \in [Escrows -> CancellationRequest \cup {None}]
  BY DEF IInv, TypeOK, LedgerTypeOK
<1>2. PICK payment : Store(e, [NoMeta EXCEPT !.status = "Expired"], payment, 0, 0)
  BY DEF CollectRent
<1>3. meta'[e].status = "Expired" /\ \A f \in Escrows \ {e} : meta'[f] = meta[f]
  BY <1>1, <1>2 DEF Store, NoMeta
<1>4. \A f \in Escrows \ {e} : paid'[f] = paid[f]
  BY <1>1, <1>2 DEF Store, Transfer
<1>5. request' = [request EXCEPT ![e] = None] /\ milestones' = [milestones EXCEPT ![e] = <<>>]
  BY DEF CollectRent
<1>6. request'[e] = None
      /\ \A f \in Escrows \ {e} : request'[f] = request[f] /\ milestones'[f] = milestones[f]
  BY <1>1, <1>5
<1>7. ~Live(e)' /\ ~Booked(e)'
  BY <1>3, <1>6 DEF Live, EscrowStatus, Booked, Open
<1> QED
  BY <1>3, <1>4, <1>6, <1>7 DEF Elsewhere, Allocated, Counted, PaidForWork

\* The milestones `ms` with new ones for the amounts, and the ids of the new ones.
Grown(ms, amounts) == ms \o [k \in 1..Len(amounts) |-> PendingMilestone(amounts[k])]
NewIds(ms, amounts) == [k \in 1..Len(amounts) |-> Len(ms) + k]
NewOnes(ms, amounts) == {NewIds(ms, amounts)[k] : k \in DOMAIN amounts}

\* Each new milestone has an id of its own, beyond the ids there are.
LEMMA NewIdsDistinct ==
  ASSUME NEW ms, ms \in Seq(Milestone), NEW amounts \in Seq(Nat)
  PROVE  /\ IsFiniteSet(DOMAIN amounts)
         /\ \A k \in DOMAIN amounts :
              amounts[k] \in Nat /\ NewIds(ms, amounts)[k] = Len(ms) + k
         /\ \A j, k \in DOMAIN amounts :
              NewIds(ms, amounts)[j] = NewIds(ms, amounts)[k] => j = k
<1> DEFINE n == Len(ms)
           l == Len(amounts)
           at == NewIds(ms, amounts)
<1>1. n \in Nat /\ l \in Nat /\ DOMAIN amounts = 1..l
  OBVIOUS
<1>2. \A k \in 1..l : amounts[k] \in Nat
  BY <1>1
<1> HIDE DEF l, n
<1>3. at = [k \in 1..l |-> n + k]
  BY DEF n, l, NewIds
<1> HIDE DEF at
<1>4. \A k \in 1..l : at[k] = n + k
  BY <1>3
<1>5. \A j, k \in 1..l : at[j] = at[k] => j = k
  <2> SUFFICES ASSUME NEW j \in 1..l, NEW k \in 1..l, at[j] = at[k] PROVE j = k
    OBVIOUS
  <2>1. n + j = n + k
    BY <1>4
  <2>2. n \in Int /\ j \in Int /\ k \in Int
    BY <1>1
  <2> QED
    BY <2>1, <2>2
<1>6. IsFiniteSet(1..l)
  BY <1>1, FS_Interval
<1> QED
  BY <1>1, <1>2, <1>4, <1>5, <1>6 DEF at, n

\* The milestones there are stay under their ids, and the new ones are at theirs.
LEMMA GrownAt ==
  ASSUME NEW ms, ms \in Seq(Milestone), NEW amounts \in Seq(Nat)
  PROVE  /\ \A i : i \in DOMAIN ms => Grown(ms, amounts)[i] = ms[i]
         /\ \A k : k \in DOMAIN amounts =>
              Grown(ms, amounts)[NewIds(ms, amounts)[k]] = PendingMilestone(amounts[k])
<1> DEFINE l == Len(amounts)
           g == [k \in 1..l |-> PendingMilestone(amounts[k])]
<1>1. l \in Nat /\ \A k \in 1..l : amounts[k] \in Nat
  OBVIOUS
<1>2. g \in Seq(Milestone)
  <2>1. \A k \in 1..l : PendingMilestone(amounts[k]) \in Milestone
    BY <1>1 DEF PendingMilestone, Milestone, MilestoneStatus
  <2> QED
    BY <1>1, <2>1
<1>3. Len(g) = l /\ \A k \in 1..l : g[k] = PendingMilestone(amounts[k])
  BY <1>1
<1> HIDE DEF g
<1>4. /\ \A i \in DOMAIN ms : (ms \o g)[i] = ms[i]
      /\ \A k \in 1..l : (ms \o g)[Len(ms) + k] = g[k]
  BY <1>1, <1>2, <1>3
<1>5. DOMAIN amounts = 1..l /\ \A k \in DOMAIN amounts : NewIds(ms, amounts)[k] = Len(ms) + k
  BY NewIdsDistinct
<1> DEFINE new == ms \o g
           at == NewIds(ms, amounts)
<1>6. new = Grown(ms, amounts)
  BY DEF Grown, g
<1> HIDE DEF new, at, l
<1>7. \A k \in 1..l : new[at[k]] = PendingMilestone(amounts[k])
  BY <1>3, <1>4, <1>5 DEF new, at
<1> QED
  BY <1>4, <1>5, <1>6, <1>7 DEF new, at

\* New milestones come after the ones there are.
LEMMA Appended ==
  ASSUME NEW ms, ms \in Seq(Milestone), NEW amounts \in Seq(Nat), NEW M, M = DOMAIN ms
  PROVE  /\ DOMAIN Grown(ms, amounts) = M \cup NewOnes(ms, amounts)
         /\ M \cap NewOnes(ms, amounts) = {}
<1> DEFINE new == Grown(ms, amounts)
           at == NewIds(ms, amounts)
           D == DOMAIN amounts
           n == Len(ms)
           l == Len(amounts)
           g == [k \in 1..l |-> PendingMilestone(amounts[k])]
<1>1. n \in Nat /\ l \in Nat /\ M = 1..n /\ D = 1..l
  OBVIOUS
<1>2. g \in Seq(Milestone)
  <2>1. \A k \in 1..l : PendingMilestone(amounts[k]) \in Milestone
    BY <1>1 DEF PendingMilestone, Milestone, MilestoneStatus
  <2> QED
    BY <1>1, <2>1
<1>3. Len(g) = l
  BY <1>1
<1>4. \A k \in D : at[k] = n + k
  BY NewIdsDistinct
<1>5. NewOnes(ms, amounts) = {at[k] : k \in D}
  BY DEF NewOnes
<1> HIDE DEF g, l
<1>6. DOMAIN new = 1..(n + l)
  BY <1>1, <1>2, <1>3 DEF g, l, Grown
<1> HIDE DEF new, at, D, n
<1>7. \A k \in 1..l : at[k] = n + k /\ at[k] \in 1..(n + l) /\ at[k] \notin 1..n
  BY <1>1, <1>4
<1>8. ASSUME NEW i \in 1..(n + l), i \notin 1..n PROVE i \in {at[k] : k \in 1..l}
  <2>1. i - n \in 1..l /\ i = n + (i - n)
    BY <1>1, <1>8
  <2> QED
    BY <1>7, <2>1
<1>9. 1..n \subseteq 1..(n + l)
  BY <1>1
<1>10. 1..(n + l) = 1..n \cup {at[k] : k \in 1..l}
  BY <1>7, <1>8, <1>9
<1>11. DOMAIN new = M \cup NewOnes(ms, amounts) /\ M \cap NewOnes(ms, amounts) = {}
  BY <1>1, <1>5, <1>6, <1>7, <1>10
<1> QED
  BY <1>11 DEF new

\* New milestones are allocated, unmarked and unpaid.
LEMMA AddMilestonesWork ==
  ASSUME IInv, NEW e \in Escrows, NEW amounts \in AmountLists, AddMilestones(e, amounts),
         Allocated(e)
  PROVE  /\ Elsewhere(e) /\ Allocated(e)'
         /\ Counted(e) => Counted(e)'
         /\ PaidForWork(e) => PaidForWork(e)'
<1> DEFINE c == RentCollected(e)
           ms == milestones[e]
           new == milestones'[e]
           l == Len(amounts)
           D == DOMAIN amounts
           at == NewIds(ms, amounts)
           N == NewOnes(ms, amounts)
           allocated == AllocatedWith(c, amounts)
           rent == c.rent_balance + ReserveForEntries(l)
           m == [c EXCEPT !.allocated_amount = allocated, !.rent_balance = rent]
<1>1. /\ TypeOK /\ c \in EscrowMeta /\ SameBooks(c, meta[e]) /\ c.status = meta[e].status
      /\ ms \in Seq(Milestone) /\ amounts \in Seq(Nat)
  BY CollectedBooks, ArgumentTypes DEF IInv, TypeOK, LedgerTypeOK
<1>2. /\ Live(e) /\ c.status = "Active" /\ UNCHANGED request
      /\ allocated \in 0..c.total_amount
  BY DEF AddMilestones, Accessible, records
<1>3. Store(e, m, NoPayment, 0, ReserveForEntries(l))
  BY <1>1 DEF AddMilestones, EscrowMeta
<1>4. /\ new = Grown(ms, amounts)
      /\ \A f \in Escrows \ {e} : milestones'[f] = milestones[f]
  BY <1>1 DEF AddMilestones, Grown, TypeOK, LedgerTypeOK
<1>5. /\ m.status = c.status /\ m.total_amount = c.total_amount
      /\ m.allocated_amount = allocated
      /\ m.released_count = c.released_count /\ m.approved_count = c.approved_count
  BY <1>1 DEF EscrowMeta
<1> HIDE DEF c, allocated, rent, m
<1>6. /\ meta'[e] = m /\ paid'[e]["freelancer"] = paid[e]["freelancer"] + NoPayment["freelancer"]
      /\ \A f \in Escrows \ {e} : meta'[f] = meta[f] /\ paid'[f] = paid[f]
  BY <1>1, <1>3, StoredAt
<1>7. paid'[e]["freelancer"] = paid[e]["freelancer"]
  <2>1. paid[e]["freelancer"] \in Int /\ NoPayment["freelancer"] = 0
    BY <1>1 DEF TypeOK, LedgerTypeOK, Payment, NoPayment, Roles
  <2> QED
    BY <1>6, <2>1
<1>8. Elsewhere(e)
  BY <1>2, <1>4, <1>6 DEF Elsewhere
<1>9. /\ IsFiniteSet(D) /\ \A k \in D : amounts[k] \in Nat
      /\ DOMAIN new = DOMAIN ms \cup N
      /\ DOMAIN ms \cap N = {}
      /\ \A i \in DOMAIN ms : new[i] = ms[i]
      /\ \A k \in D : at[k] \in DOMAIN new /\ new[at[k]] = PendingMilestone(amounts[k])
      /\ \A j, k \in D : at[j] = at[k] => j = k
  <2> DEFINE M == DOMAIN ms
  <2>1. M = DOMAIN ms
    OBVIOUS
  <2> HIDE DEF ms, new, M
  <2>2. ms \in Seq(Milestone) /\ amounts \in Seq(Nat)
    BY <1>1
  <2>3. /\ IsFiniteSet(D) /\ \A k \in D : amounts[k] \in Nat
        /\ \A j, k \in D : at[j] = at[k] => j = k
    BY <2>2, NewIdsDistinct
  <2> DEFINE grown == Grown(ms, amounts)
  <2>4. DOMAIN grown = M \cup N /\ M \cap N = {}
    BY <2>2, <2>1, Appended
  <2>5. \A i \in M : grown[i] = ms[i]
    BY <2>2, <2>1, GrownAt
  <2>6. \A k \in D : grown[at[k]] = PendingMilestone(amounts[k])
    BY <2>2, GrownAt
  <2>7. \A k \in D : at[k] \in DOMAIN grown
    BY <2>4 DEF NewOnes
  <2>8. new = grown
    BY <1>4
  <2> HIDE DEF grown, D, at
  <2> QED
    BY <2>3, <2>4, <2>5, <2>6, <2>8, <2>1, <2>7
<1>10. N = {at[k] : k \in D}
  BY DEF NewOnes
<1> HIDE DEF new, at, D, N
<1>11. \A k \in D : /\ new[at[k]].status = "Pending" /\ new[at[k]].payouts = 0
                    /\ new[at[k]].amount = amounts[k]
  <2>1. \A x : /\ PendingMilestone(x).status = "Pending" /\ PendingMilestone(x).payouts = 0
               /\ PendingMilestone(x).amount = x
    BY DEF PendingMilestone
  <2>2. \A k \in D : new[at[k]] = PendingMilestone(amounts[k])
    BY <1>9
  <2> QED
    BY <2>1, <2>2
<1>12. \A i \in N : new[i].status = "Pending" /\ new[i].payouts = 0
  BY <1>11, <1>10
<1>13. Finished(new) = Finished(ms) /\ Passed(new) = Passed(ms)
  BY <1>9, <1>12 DEF Finished, Passed
<1>14. /\ IsFiniteSet(DOMAIN ms) /\ \A i \in DOMAIN ms : Amounts(ms)[i] \in Nat
       /\ Finished(ms) \subseteq DOMAIN ms /\ IsFiniteSet(Finished(ms))
  BY <1>1, MilestonesFinite DEF Finished
<1>15. \A i \in DOMAIN ms : Amounts(new)[i] = Amounts(ms)[i]
  BY <1>9 DEF Amounts
<1>16. SumFunctionOnSet(Amounts(new), DOMAIN ms) = SumFunctionOnSet(Amounts(ms), DOMAIN ms)
  <2> HIDE DEF ms
  <2> QED
    BY <1>14, <1>15, SumSame
<1>17. SumFunctionOnSet(Amounts(new), Finished(ms)) = SumFunctionOnSet(Amounts(ms), Finished(ms))
  <2> HIDE DEF ms
  <2> QED
    BY <1>14, <1>15, SumSame
<1>18. \A k \in D : amounts[k] \in Nat /\ Amounts(new)[at[k]] = amounts[k]
  BY <1>9, <1>11 DEF Amounts
<1>19. SumFunctionOnSet(Amounts(new), N) = SumFunction(amounts)
  <2> DEFINE f == Amounts(new)
  <2>1. SumFunction(amounts) = SumFunctionOnSet(amounts, D)
    BY DEF SumFunction, D
  <2>2. \A k \in D : amounts[k] \in Nat /\ f[at[k]] = amounts[k]
    BY <1>18
  <2> HIDE DEF f
  <2>3. SumFunctionOnSet(f, {at[k] : k \in D}) = SumFunctionOnSet(amounts, D)
    BY <1>9, <2>2, SumImage
  <2> QED
    BY <1>10, <2>1, <2>3 DEF f
<1>20. IsFiniteSet(N) /\ \A i \in DOMAIN ms \cup N : Amounts(new)[i] \in Nat
  <2>1. IsFiniteSet(N)
    <3>1. IsFiniteSet({at[k] : k \in D})
      BY <1>9, ImageSize
    <3> QED
      BY <1>10, <3>1
  <2>2. \A i \in N : Amounts(new)[i] \in Nat
    BY <1>18, <1>10
  <2> QED
    BY <1>14, <1>15, <2>1, <2>2
<1>21. SumFunctionOnSet(Amounts(new), DOMAIN new)
         = SumFunctionOnSet(Amounts(ms), DOMAIN ms) + SumFunction(amounts)
  <2> HIDE DEF ms
  <2> QED
    BY <1>9, <1>14, <1>16, <1>19, <1>20, SumDisjoint
<1>22. Allocated(e)'
  <2>1. m.allocated_amount = SumFunctionOnSet(Amounts(new), DOMAIN new)
    <3>1. allocated = meta[e].allocated_amount + SumFunction(amounts)
      BY <1>1 DEF SameBooks, AllocatedWith, allocated
    <3>2. meta[e].allocated_amount = SumFunctionOnSet(Amounts(ms), DOMAIN ms)
      BY <1>2 DEF Allocated
    <3> QED
      BY <1>5, <1>21, <3>1, <3>2
  <2>2. m.allocated_amount <= m.total_amount /\ m.status # "Absent"
    BY <1>1, <1>2, <1>5
  <2> QED
    BY <1>6, <2>1, <2>2 DEF Allocated, new
<1>23. Counted(e) => Counted(e)'
  BY <1>1, <1>2, <1>5, <1>6, <1>13 DEF Counted, SameBooks, new
<1>24. PaidForWork(e) => PaidForWork(e)'
  <2>1. Booked(e)
    BY <1>1, <1>2 DEF Booked, Open
  <2>2. ASSUME PaidForWork(e)
        PROVE  /\ paid'[e]["freelancer"] = SumFunctionOnSet(Amounts(new), Finished(new))
               /\ \A i \in DOMAIN new : new[i].payouts = IF i \in Finished(new) THEN 1 ELSE 0
    BY <1>7, <1>9, <1>12, <1>13, <1>14, <1>17, <2>1, <2>2 DEF PaidForWork
  <2> QED
    BY <2>2 DEF PaidForWork, new
<1> QED
  BY <1>8, <1>22, <1>23, <1>24

-----------------------------------------------------------------------------
(* All steps. *)

\* What a step does to the two invariants.
KeptWork ==
  /\ AllocatedInv => AllocatedInv'
  /\ DistinctBatches /\ WorkInv => WorkInv'

\* It keeps them if it keeps the work of one escrow and leaves the others alone.
LEMMA OneKept ==
  ASSUME NEW e \in Escrows, Elsewhere(e), Allocated(e) => Allocated(e)',
         DistinctBatches /\ Allocated(e) /\ Counted(e) /\ PaidForWork(e)
           => Counted(e)' /\ PaidForWork(e)'
  PROVE  KeptWork
<1>1. ASSUME NEW f \in Escrows
      PROVE  /\ Allocated(f) => Allocated(f)'
             /\ DistinctBatches /\ Allocated(f) /\ Counted(f) /\ PaidForWork(f)
                  => Counted(f)' /\ PaidForWork(f)'
  <2>1. CASE f = e
    BY <2>1
  <2>2. CASE f # e
    BY <1>1, <2>2, ElsewhereKeeps
  <2> QED
    BY <2>1, <2>2
<1>2. ASSUME AllocatedInv PROVE AllocatedInv'
  BY <1>1, <1>2 DEF AllocatedInv
<1>3. ASSUME DistinctBatches, WorkInv PROVE WorkInv'
  BY <1>1, <1>3 DEF WorkInv
<1> QED
  BY <1>2, <1>3 DEF KeptWork

\* A step on the milestones there are keeps them.
LEMMA WorkedKeeps ==
  ASSUME TypeOK, NEW e \in Escrows, Worked(e)
  PROVE  KeptWork
<1>1. Elsewhere(e) /\ SameWork(e) /\ (DistinctBatches => \E R, Q : Progress(e, R, Q))
  BY DEF Worked
<1>2. Allocated(e) => Allocated(e)'
  BY <1>1, SameWorkKeeps
<1>3. ASSUME DistinctBatches, Counted(e), PaidForWork(e)
      PROVE  Counted(e)' /\ PaidForWork(e)'
  <2>1. PICK R, Q : Progress(e, R, Q)
    BY <1>1, <1>3
  <2> QED
    BY <1>1, <1>3, <2>1, ProgressKeeps
<1> QED
  BY <1>1, <1>2, <1>3, OneKept

\* So does one that leaves all of it alone.
LEMMA NothingKeeps ==
  ASSUME UNCHANGED <<meta, milestones, request, paid>>
  PROVE  KeptWork
<1>1. ASSUME NEW f \in Escrows
      PROVE  /\ Allocated(f) => Allocated(f)'
             /\ Counted(f) => Counted(f)'
             /\ PaidForWork(f) => PaidForWork(f)'
  BY DEF Allocated, Counted, PaidForWork, Booked, Live
<1>2. ASSUME AllocatedInv PROVE AllocatedInv'
  BY <1>1, <1>2 DEF AllocatedInv
<1>3. ASSUME DistinctBatches, WorkInv PROVE WorkInv'
  BY <1>1, <1>3 DEF WorkInv
<1> QED
  BY <1>2, <1>3 DEF KeptWork

\* The calls on the milestones.
LEMMA MilestoneStepWork ==
  ASSUME IInv, TypeOK', NEW e \in Escrows, MilestoneStep(e)
  PROVE  KeptWork
<1>1. TypeOK
  BY DEF IInv
<1>2. ~Allocated(e) => KeptWork
  BY DEF KeptWork, AllocatedInv, WorkInv
<1>3. ASSUME NEW terms \in Terms, CreateEscrow(e, terms) PROVE KeptWork
  <2>1. CASE Allocated(e)
    BY <1>3, <2>1, CreateEscrowWork, OneKept
  <2> QED
    BY <1>2, <2>1
<1>4. ASSUME NEW amounts \in AmountLists, AddMilestones(e, amounts) PROVE KeptWork
  <2>1. CASE Allocated(e)
    BY <1>4, <2>1, AddMilestonesWork, OneKept
  <2> QED
    BY <1>2, <2>1
<1>5. ASSUME NEW i \in DOMAIN milestones[e],
             \/ SubmitMilestone(e, i) \/ RejectMilestone(e, i) \/ RejectMilestoneWithReason(e, i)
      PROVE  Worked(e)
  BY <1>5, SubmitRejectWork
<1>6. ASSUME NEW i \in DOMAIN milestones[e], NEW caller \in Accounts,
             ApproveMilestone(caller, e, i)
      PROVE  Worked(e)
  BY <1>6, ApproveMilestoneWork
<1>7. ASSUME NEW i \in DOMAIN milestones[e], NEW caller \in Accounts,
             ReleaseFunds(caller, e, i) \/ ReleaseWithTimelock(caller, e, i)
      PROVE  Worked(e)
  BY <1>7, ReleaseOneWork
<1>8. ASSUME NEW ids \in BatchLists, NEW caller \in Accounts,
             BatchApproveMilestones(caller, e, ids)
      PROVE  Worked(e)
  BY <1>8, BatchApproveWork
<1>9. ASSUME NEW ids \in BatchLists, BatchReleaseFunds(e, ids) PROVE Worked(e)
  BY <1>9, BatchReleaseWork
<1>10. ASSUME NEW t \in TimeArguments, NEW caller \in Accounts, StartTimelock(caller, e, t)
      PROVE  Worked(e)
  BY <1>10, LockingWork
<1>11. ASSUME NEW t \in TimeArguments, ExtendLockTime(e, t) \/ SetTimelock(e, t) PROVE Worked(e)
  BY <1>11, LockingWork
<1>12. ASSUME NEW newClient \in NewClients, TransferClientRole(e, newClient) PROVE Worked(e)
  BY <1>12, LockingWork
<1>13. ASSUME CancelEscrow(e) \/ PartialCancel(e) \/ TriggerExpiry(e) PROVE Worked(e)
  BY <1>13, CancelEscrowWork, PartialCancelWork, TriggerExpiryWork
<1>14. Worked(e) => KeptWork
  BY <1>1, WorkedKeeps
<1> QED
  BY <1>3, <1>4, <1>5, <1>6, <1>7, <1>8, <1>9, <1>10, <1>11, <1>12, <1>13, <1>14
     DEF MilestoneStep

\* The calls on disputes and cancellations.
LEMMA DisputeStepWork ==
  ASSUME IInv, TypeOK', NEW e \in Escrows, DisputeStep(e)
  PROVE  KeptWork
<1>1. TypeOK
  BY DEF IInv
<1>2. ASSUME NEW caller \in Accounts, NEW target, RaiseDispute(caller, e, target)
      PROVE  Worked(e)
  BY <1>2, RaiseDisputeWork
<1>3. ASSUME NEW caller \in Accounts, NEW share, NEW payload, NEW grace,
             \/ ClaimDisputeTimeout(caller, e) \/ ResolveDispute(caller, e, share)
             \/ OracleResolveDispute(e, payload, grace)
      PROVE  Worked(e)
  BY <1>3, SettlementWork
<1>4. ASSUME NEW caller \in Accounts, RequestCancellation(caller, e) \/ DisputeCancellation(caller, e)
      PROVE  Worked(e)
  BY <1>4, CancellationRequestWork
<1>5. ASSUME NEW caller \in Accounts, ApproveCancellation(caller, e) PROVE Worked(e)
  BY <1>5, ApproveCancellationWork
<1>6. ASSUME ExecuteCancellation(e) PROVE Worked(e)
  BY <1>6, ExecuteCancellationWork
<1>7. ASSUME NEW caller \in Accounts, NEW upheld \in BOOLEAN,
             FinalizeSlash(e) \/ DisputeSlash(e) \/ ResolveSlashDispute(caller, e, upheld)
      PROVE  Worked(e)
  BY <1>7, SlashWork
<1>8. Worked(e) => KeptWork
  BY <1>1, WorkedKeeps
<1>9. ADMIN \in Accounts /\ TRUE \in BOOLEAN
  BY ActorAssumption
<1> QED
  BY <1>2, <1>3, <1>4, <1>5, <1>6, <1>7, <1>8, <1>9 DEF DisputeStep

\* Every step of the contract.
LEMMA NextWork ==
  ASSUME IInv, TypeOK', [Next]_vars
  PROVE  KeptWork
<1>1. TypeOK
  BY DEF IInv
<1>2. ASSUME NEW e \in Escrows, MilestoneStep(e) \/ DisputeStep(e) PROVE KeptWork
  BY <1>2, MilestoneStepWork, DisputeStepWork
<1>3. ASSUME NEW e \in Escrows, RentStep(e) PROVE KeptWork
  <2>1. CASE CollectRent(e) /\ RentHasExpired(e, RentCollected(e))
    BY <2>1, ExpiredWork, OneKept
  <2>2. CASE ~(CollectRent(e) /\ RentHasExpired(e, RentCollected(e)))
    <3>1. Worked(e)
      BY <1>3, <2>2, RentWork DEF RentStep
    <3> QED
      BY <1>1, <3>1, WorkedKeeps
  <2> QED
    BY <2>1, <2>2
<1>4. CASE AdminStep
  <2>1. ASSUME NEW e \in Escrows, NEW bps,
               CollectEscrowFee(e) \/ SetArbiterFeeBps(e, bps)
        PROVE  KeptWork
    BY <1>1, <2>1, FeeWork, WorkedKeeps
  <2>2. ASSUME NEW e \in Escrows, FreezeEscrow(e) \/ UnfreezeEscrow(e)
        PROVE  KeptWork
    BY <1>1, <2>2, RentWork, WorkedKeeps
  <2>3. CASE Pause \/ Unpause
    BY <2>3, NothingKeeps DEF Pause, Unpause, records
  <2> QED
    BY <1>4, <2>1, <2>2, <2>3 DEF AdminStep
<1>5. CASE CloseLedger \/ UNCHANGED vars
  BY <1>5, NothingKeeps DEF CloseLedger, vars, records
<1> QED
  BY <1>2, <1>3, <1>4, <1>5 DEF Next

\* Nothing is created yet, so there is no work.
LEMMA InitWork == Init => AllocatedInv /\ WorkInv
<1> SUFFICES ASSUME Init, NEW e \in Escrows
             PROVE  Allocated(e) /\ Counted(e) /\ PaidForWork(e)
  BY DEF AllocatedInv, WorkInv
<1>1. /\ meta[e].status = "Absent" /\ milestones[e] = <<>> /\ request[e] = None
  BY DEF Init, NoMeta
<1>2. ~Live(e) /\ ~Booked(e) /\ DOMAIN milestones[e] = {}
  BY <1>1 DEF Live, EscrowStatus, Booked, Open
<1> QED
  BY <1>2 DEF Allocated, Counted, PaidForWork

-----------------------------------------------------------------------------
(* The theorems. *)

\* The milestones an escrow has been given never promise more than the principal the
\* client paid in, and allocated_amount, which the code compares with the principal
\* instead of the milestones, is exactly their sum.
THEOREM MilestonesAreFunded == Spec => []AllocationCovered
<1>1. AllocatedInv => AllocationCovered
  <2> SUFFICES ASSUME AllocatedInv, NEW e \in Escrows, Live(e)
               PROVE  /\ meta[e].allocated_amount <= meta[e].total_amount
                      /\ meta[e].allocated_amount
                           = SumFunction([i \in DOMAIN milestones[e] |-> milestones[e][i].amount])
    BY DEF AllocationCovered
  <2>1. SumFunction([i \in DOMAIN milestones[e] |-> milestones[e][i].amount])
          = SumFunctionOnSet(Amounts(milestones[e]), DOMAIN milestones[e])
    BY DEF SumFunction, Amounts
  <2> QED
    BY <2>1 DEF AllocatedInv, Allocated
<1>2. IInv /\ IInv' /\ [Next]_vars /\ AllocatedInv => AllocatedInv'
  BY NextWork DEF IInv, KeptWork
<1> QED
  BY <1>1, <1>2, InitWork, InvariantHolds, PTL DEF Spec

\* When no batch names a milestone twice, the invariant of the work holds.
LEMMA WorkHolds == ASSUME DistinctBatches PROVE Spec => []WorkInv
<1>1. IInv /\ IInv' /\ [Next]_vars /\ WorkInv => WorkInv'
  BY NextWork DEF IInv, KeptWork
<1> QED
  BY <1>1, InitWork, InvariantHolds, PTL DEF Spec

\* The two counters that decide whether an escrow is complete count the milestones
\* they are named after, provided no list given to a batch entry point repeats an id:
\* the code checks the ids of a batch one by one, before it changes any milestone.
THEOREM CountersCountMilestones ==
  ASSUME DistinctBatches PROVE Spec => []CountersExact
<1>1. WorkInv => CountersExact
  <2> SUFFICES ASSUME WorkInv, NEW e \in Escrows, Live(e)
               PROVE  /\ meta[e].released_count
                           = Cardinality({i \in DOMAIN milestones[e] :
                                            milestones[e][i].status \in {"Released"}})
                      /\ meta[e].approved_count
                           = Cardinality({i \in DOMAIN milestones[e] :
                                            milestones[e][i].status \in {"Approved", "Released"}})
    BY DEF CountersExact
  <2>1. Finished(milestones[e])
          = {i \in DOMAIN milestones[e] : milestones[e][i].status \in {"Released"}}
    BY DEF Finished
  <2> QED
    BY <2>1 DEF WorkInv, Counted, Passed
<1> QED
  BY <1>1, WorkHolds, PTL

\* While an escrow is open the freelancer has received exactly the released milestones,
\* each of them once, whichever of the paying entry points released them, under the
\* same proviso.
THEOREM FreelancerPaidOnce ==
  ASSUME DistinctBatches PROVE Spec => []FreelancerPaidForWork
<1>1. TypeOK /\ WorkInv => FreelancerPaidForWork
  <2> SUFFICES ASSUME TypeOK, WorkInv, NEW e \in Escrows, meta[e].status \in Open,
                      NEW released,
                      released = {i \in DOMAIN milestones[e] : milestones[e][i].status = "Released"}
               PROVE  /\ paid[e]["freelancer"]
                           = SumFunction([i \in released |-> milestones[e][i].amount])
                      /\ \A i \in DOMAIN milestones[e] :
                           milestones[e][i].payouts = IF i \in released THEN 1 ELSE 0
    BY DEF FreelancerPaidForWork
  <2> DEFINE f == [i \in released |-> milestones[e][i].amount]
             g == Amounts(milestones[e])
  <2>1. released = Finished(milestones[e]) /\ released \subseteq DOMAIN milestones[e]
    BY DEF Finished
  <2>2. PaidForWork(e) /\ Booked(e)
    BY DEF WorkInv, Booked
  <2>3. IsFiniteSet(released) /\ \A i \in released : g[i] \in Nat
    BY <2>1, MilestonesFinite
  <2>4. \A i \in released : f[i] = g[i]
    BY <2>1 DEF Amounts
  <2>5. SumFunction(f) = SumFunctionOnSet(f, released)
    BY DEF SumFunction
  <2>6. SumFunctionOnSet(f, released) = SumFunctionOnSet(g, released)
    <3> HIDE DEF f, g
    <3> QED
      BY <2>3, <2>4, SumSame
  <2> QED
    BY <2>1, <2>2, <2>5, <2>6 DEF PaidForWork
<1> QED
  BY <1>1, WorkHolds, TypeCorrect, PTL
=============================================================================
