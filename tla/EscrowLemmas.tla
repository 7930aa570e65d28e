----------------------------- MODULE EscrowLemmas -----------------------------
(***************************************************************************)
(* Lemmas for the proofs of the escrow contract: arithmetic, what settling *)
(* the rent does to an escrow, what a transfer does to the pool and to the *)
(* history, and which updates of an escrow leave its books in order.       *)
(***************************************************************************)
EXTENDS EscrowContract, FiniteSetTheorems, SequenceTheorems, TLAPS

-----------------------------------------------------------------------------
(* Types of the callers' arguments, one by one. *)

LEMMA ArgumentTypes ==
  /\ \A l \in AmountLists \cup BatchLists : l \in Seq(Nat) /\ Len(l) \in Nat
  /\ \A t \in TimeArguments \cup RentPeriods \cup ArbiterFees : t \in Nat
  /\ \A s \in ClientShares : s \in Int
  /\ \A a \in NewClients : a \in Accounts
<1>1. /\ AmountLists \subseteq Seq(Nat) /\ BatchLists \subseteq Seq(Nat)
      /\ TimeArguments \subseteq Nat /\ RentPeriods \subseteq Nat /\ ArbiterFees \subseteq Nat
      /\ ClientShares \subseteq Int /\ NewClients \subseteq Accounts
  BY InputAssumption
<1>2. \A l \in Seq(Nat) : Len(l) \in Nat
  OBVIOUS
<1> QED
  BY <1>1, <1>2

LEMMA TermsTyped ==
  ASSUME NEW terms \in Terms
  PROVE  /\ terms.client \in Accounts /\ terms.freelancer \in Accounts
         /\ terms.arbiter \in Accounts \cup {None} /\ terms.buyer_signers \in SUBSET Accounts
         /\ terms.total_amount \in Nat /\ terms.deadline \in OptTime
         /\ terms.lock_time \in OptTime /\ terms.timelock \in OptTime
         /\ terms.dispute_timeout_ledger \in OptTime
<1>1. terms \in [client : Accounts, freelancer : Accounts,
                 arbiter : Accounts \cup {None}, buyer_signers : SUBSET Accounts,
                 total_amount : Nat, deadline : OptTime, lock_time : OptTime,
                 timelock : OptTime, dispute_timeout_ledger : OptTime]
  BY TermsAssumption
<1> QED
  BY <1>1

-----------------------------------------------------------------------------
(* Arithmetic of the rent and of the fees. *)

\* Division by a positive number rounds down.
LEMMA DivFloor ==
  ASSUME NEW a \in Nat, NEW b \in Nat \ {0}
  PROVE  a \div b \in Nat /\ (a \div b) * b <= a
  OBVIOUS

\* Dividing less by the same number gives no more.
LEMMA DivMonotone ==
  ASSUME NEW a \in Nat, NEW c \in Nat, NEW b \in Nat \ {0}, a <= c
  PROVE  a \div b <= c \div b
  OBVIOUS

\* A product divided by one of its factors is the other one.
LEMMA DivExact ==
  ASSUME NEW q \in Nat, NEW b \in Nat \ {0}
  PROVE  (b * q) \div b = q
  OBVIOUS

\* The product of two naturals is a natural.
LEMMA NatProduct ==
  ASSUME NEW a \in Nat, NEW b \in Nat
  PROVE  a * b \in Nat
  OBVIOUS

\* Multiplication is monotone.
LEMMA ProductMonotone ==
  ASSUME NEW a \in Nat, NEW c \in Nat, NEW b \in Nat, a <= c
  PROVE  a * b <= c * b
  OBVIOUS

\* A share of an amount is a natural.
LEMMA ShareNat ==
  ASSUME NEW a \in Nat, NEW b \in Nat
  PROVE  (a * b) \div 10000 \in Nat
  BY NatProduct

\* Half of a balance, rounded toward zero, is an integer.
LEMMA HalfInt ==
  ASSUME NEW x \in Int
  PROVE  TruncDiv(x, 2) \in Int
  BY DEF TruncDiv

\* What the code keeps of an amount that may be negative.
LEMMA PositiveNat ==
  ASSUME NEW x \in Int
  PROVE  Positive(x) \in Nat
  BY DEF Positive

\* A share in basis points is a natural.
LEMMA BasisPointsNat ==
  ASSUME NEW bps \in BasisPoints
  PROVE  bps \in Nat
  BY SMTT(20) DEF BasisPoints

-----------------------------------------------------------------------------
(* Settling the rent. *)

\* An escrow has at least its own storage entry.
LEMMA EntriesPositive ==
  ASSUME TypeOK, NEW e \in Escrows
  PROVE  ActiveStorageEntries(e) \in Nat \ {0}
<1> DEFINE r == IF request[e] # None THEN 1 ELSE 0
           s == IF slash[e] # None THEN 1 ELSE 0
<1>1. Len(milestones[e]) \in Nat
  BY DEF TypeOK, LedgerTypeOK
<1>2. r \in {0, 1} /\ s \in {0, 1}
  OBVIOUS
<1>3. ActiveStorageEntries(e) = 1 + Len(milestones[e]) + r + s
  BY Zenon DEF ActiveStorageEntries
<1> HIDE DEF r, s
<1> QED
  BY <1>1, <1>2, <1>3

\* The rent due is part of the reserve, and settling it never moves the rent
\* clock past the ledger's.
LEMMA RentSettled ==
  ASSUME TypeOK, RentClockBehind, NEW e \in Escrows
  PROVE  /\ RentDue(e) \in 0..meta[e].rent_balance
         /\ (RentDue(e) \div ActiveStorageEntries(e)) * RENT_PERIOD_SECONDS \in Nat
         /\ meta[e].last_rent_collection_at
              + (RentDue(e) \div ActiveStorageEntries(e)) * RENT_PERIOD_SECONDS <= now
<1> DEFINE n == ActiveStorageEntries(e)
           age == now - meta[e].last_rent_collection_at
           q == ElapsedPeriods(meta[e])
           covered == RentDue(e) \div n
<1>1. n \in Nat \ {0}
  BY EntriesPositive
<1>2. age \in Nat /\ RENT_PERIOD_SECONDS \in Nat \ {0} /\ meta[e].rent_balance \in Nat
      /\ now \in Nat /\ meta[e].last_rent_collection_at \in Nat
  BY RentAssumption DEF TypeOK, LedgerTypeOK, EscrowMeta, RentClockBehind
<1>3. q \in Nat /\ q * RENT_PERIOD_SECONDS <= age
  BY <1>2, DivFloor DEF ElapsedPeriods
<1>4. n * q \in Nat /\ (n * q) \div n = q
  BY <1>1, <1>3, NatProduct, DivExact
<1>5. RentDue(e) \in 0..meta[e].rent_balance /\ RentDue(e) <= n * q
  BY <1>2, <1>4 DEF RentDue
<1>6. RentDue(e) \in Nat
  BY <1>5
<1>7. covered \in Nat /\ covered <= q
  BY <1>1, <1>4, <1>5, <1>6, DivFloor, DivMonotone
<1>8. covered * RENT_PERIOD_SECONDS \in Nat
      /\ covered * RENT_PERIOD_SECONDS <= q * RENT_PERIOD_SECONDS
  BY <1>2, <1>3, <1>7, NatProduct, ProductMonotone
<1>9. q * RENT_PERIOD_SECONDS \in Nat
  BY <1>2, <1>3, NatProduct
<1> HIDE DEF n, q, covered
<1>10. covered * RENT_PERIOD_SECONDS <= age
  BY <1>2, <1>3, <1>8, <1>9
<1>11. meta[e].last_rent_collection_at + covered * RENT_PERIOD_SECONDS <= now
  BY <1>2, <1>8, <1>10
<1> QED
  BY <1>5, <1>8, <1>11 DEF n, covered

-----------------------------------------------------------------------------
(* An escrow stays one when a field takes a value of its type. *)

\* A new status keeps an escrow an escrow.
LEMMA PutStatus ==
  ASSUME NEW m \in EscrowMeta, NEW v \in StoredStatus
  PROVE  [m EXCEPT !.status = v] \in EscrowMeta
  BY DEF EscrowMeta

\* A new client keeps an escrow an escrow.
LEMMA PutClient ==
  ASSUME NEW m \in EscrowMeta, NEW v \in OptAccount
  PROVE  [m EXCEPT !.client = v] \in EscrowMeta
  BY DEF EscrowMeta

\* A new allocated_amount keeps an escrow an escrow.
LEMMA PutAllocatedAmount ==
  ASSUME NEW m \in EscrowMeta, NEW v \in Nat
  PROVE  [m EXCEPT !.allocated_amount = v] \in EscrowMeta
  BY DEF EscrowMeta

\* A new remaining_balance keeps an escrow an escrow.
LEMMA PutRemainingBalance ==
  ASSUME NEW m \in EscrowMeta, NEW v \in Int
  PROVE  [m EXCEPT !.remaining_balance = v] \in EscrowMeta
  BY DEF EscrowMeta

\* A new approved_count keeps an escrow an escrow.
LEMMA PutApprovedCount ==
  ASSUME NEW m \in EscrowMeta, NEW v \in Nat
  PROVE  [m EXCEPT !.approved_count = v] \in EscrowMeta
  BY DEF EscrowMeta

\* A new released_count keeps an escrow an escrow.
LEMMA PutReleasedCount ==
  ASSUME NEW m \in EscrowMeta, NEW v \in Nat
  PROVE  [m EXCEPT !.released_count = v] \in EscrowMeta
  BY DEF EscrowMeta

\* A new submitted_count keeps an escrow an escrow.
LEMMA PutSubmittedCount ==
  ASSUME NEW m \in EscrowMeta, NEW v \in Nat
  PROVE  [m EXCEPT !.submitted_count = v] \in EscrowMeta
  BY DEF EscrowMeta

\* A new deadline keeps an escrow an escrow.
LEMMA PutDeadline ==
  ASSUME NEW m \in EscrowMeta, NEW v \in OptTime
  PROVE  [m EXCEPT !.deadline = v] \in EscrowMeta
  BY DEF EscrowMeta

\* A new lock_time keeps an escrow an escrow.
LEMMA PutLockTime ==
  ASSUME NEW m \in EscrowMeta, NEW v \in OptTime
  PROVE  [m EXCEPT !.lock_time = v] \in EscrowMeta
  BY DEF EscrowMeta

\* A new timelock keeps an escrow an escrow.
LEMMA PutTimelock ==
  ASSUME NEW m \in EscrowMeta, NEW v \in OptTime
  PROVE  [m EXCEPT !.timelock = v] \in EscrowMeta
  BY DEF EscrowMeta

\* A new freelancer keeps an escrow an escrow.
LEMMA PutFreelancer ==
  ASSUME NEW m \in EscrowMeta, NEW v \in OptAccount
  PROVE  [m EXCEPT !.freelancer = v] \in EscrowMeta
  BY DEF EscrowMeta

\* A new arbiter keeps an escrow an escrow.
LEMMA PutArbiter ==
  ASSUME NEW m \in EscrowMeta, NEW v \in OptAccount
  PROVE  [m EXCEPT !.arbiter = v] \in EscrowMeta
  BY DEF EscrowMeta

\* A new buyer_signers keeps an escrow an escrow.
LEMMA PutBuyerSigners ==
  ASSUME NEW m \in EscrowMeta, NEW v \in SUBSET Accounts
  PROVE  [m EXCEPT !.buyer_signers = v] \in EscrowMeta
  BY DEF EscrowMeta

\* A new total_amount keeps an escrow an escrow.
LEMMA PutTotalAmount ==
  ASSUME NEW m \in EscrowMeta, NEW v \in Nat
  PROVE  [m EXCEPT !.total_amount = v] \in EscrowMeta
  BY DEF EscrowMeta

\* A new dispute_timeout_ledger keeps an escrow an escrow.
LEMMA PutDisputeTimeout ==
  ASSUME NEW m \in EscrowMeta, NEW v \in OptTime
  PROVE  [m EXCEPT !.dispute_timeout_ledger = v] \in EscrowMeta
  BY DEF EscrowMeta

\* A new dispute_started_ledger keeps an escrow an escrow.
LEMMA PutDisputeStarted ==
  ASSUME NEW m \in EscrowMeta, NEW v \in OptTime
  PROVE  [m EXCEPT !.dispute_started_ledger = v] \in EscrowMeta
  BY DEF EscrowMeta

\* A new dispute_start_ledger keeps an escrow an escrow.
LEMMA PutDisputeStart ==
  ASSUME NEW m \in EscrowMeta, NEW v \in OptTime
  PROVE  [m EXCEPT !.dispute_start_ledger = v] \in EscrowMeta
  BY DEF EscrowMeta

\* A new rent_balance keeps an escrow an escrow.
LEMMA PutRentBalance ==
  ASSUME NEW m \in EscrowMeta, NEW v \in Nat
  PROVE  [m EXCEPT !.rent_balance = v] \in EscrowMeta
  BY DEF EscrowMeta

\* A new last_rent_collection_at keeps an escrow an escrow.
LEMMA PutLastRentCollectionAt ==
  ASSUME NEW m \in EscrowMeta, NEW v \in Nat
  PROVE  [m EXCEPT !.last_rent_collection_at = v] \in EscrowMeta
  BY DEF EscrowMeta

\* A new arbiter_fee_bps keeps an escrow an escrow.
LEMMA PutArbiterFeeBps ==
  ASSUME NEW m \in EscrowMeta, NEW v \in BasisPoints
  PROVE  [m EXCEPT !.arbiter_fee_bps = v] \in EscrowMeta
  BY DEF EscrowMeta

-----------------------------------------------------------------------------
(* Updates of an escrow that leave its books in order. *)

\* `m` is what an entry point makes of the stored escrow `old` while paying
\* `amount` of its principal, when it neither opens nor times a dispute: the
\* status stays or becomes "Completed", the balance loses what is paid.
Ordinary(m, old, amount) ==
  /\ m \in EscrowMeta /\ m.last_rent_collection_at <= now
  /\ m.status \in {old.status, "Completed"}
  /\ m.total_amount = old.total_amount
  /\ m.remaining_balance = old.remaining_balance - amount
  /\ m.dispute_start_ledger = old.dispute_start_ledger
  /\ m.dispute_started_ledger = old.dispute_started_ledger

\* Settling the rent is ordinary and pays no principal; it leaves the parties alone.
LEMMA RentCollectedOrdinary ==
  ASSUME TypeOK, RentClockBehind, NEW e \in Escrows
  PROVE  /\ Ordinary(RentCollected(e), meta[e], 0)
         /\ RentCollected(e).status = meta[e].status
<1> DEFINE due == meta[e].rent_balance - RentDue(e)
           last == meta[e].last_rent_collection_at
                     + (RentDue(e) \div ActiveStorageEntries(e)) * RENT_PERIOD_SECONDS
           m == [meta[e] EXCEPT !.rent_balance = due]
           c == [m EXCEPT !.last_rent_collection_at = last]
<1>1. meta[e] \in EscrowMeta
  BY DEF TypeOK, LedgerTypeOK
<1>2. due \in Nat
  BY <1>1, RentSettled DEF EscrowMeta
<1>3. last \in Nat /\ last <= now
  BY <1>1, RentSettled DEF EscrowMeta
<1>4. RentCollected(e) = c
  BY <1>1 DEF RentCollected, EscrowMeta
<1> HIDE DEF due, last
<1>5. m \in EscrowMeta
  BY <1>1, <1>2, PutRentBalance
<1>6. c \in EscrowMeta
  BY <1>3, <1>5, PutLastRentCollectionAt
<1>7. /\ c.last_rent_collection_at = last /\ c.status = meta[e].status
      /\ c.total_amount = meta[e].total_amount
      /\ c.remaining_balance = meta[e].remaining_balance
      /\ c.dispute_start_ledger = meta[e].dispute_start_ledger
      /\ c.dispute_started_ledger = meta[e].dispute_started_ledger
  BY <1>1, <1>5 DEF EscrowMeta
<1>8. meta[e].remaining_balance \in Int
  BY <1>1 DEF EscrowMeta
<1> HIDE DEF c, m
<1> QED
  BY <1>3, <1>4, <1>6, <1>7, <1>8 DEF Ordinary

\* Paying `n` milestones worth `amount` is ordinary.
LEMMA ReleasedOrdinary ==
  ASSUME NEW m, NEW old \in EscrowMeta, Ordinary(m, old, 0),
         NEW n \in Nat, NEW amount \in Int
  PROVE  /\ Ordinary(Released(m, n, amount), old, amount)
         /\ Released(m, n, amount).status = m.status
<1> DEFINE b == [m EXCEPT !.remaining_balance = m.remaining_balance - amount]
           c == [b EXCEPT !.released_count = m.released_count + n]
<1>1. m \in EscrowMeta /\ m.remaining_balance \in Int /\ m.released_count \in Nat
      /\ old.remaining_balance \in Int
  BY DEF Ordinary, EscrowMeta
<1>2. Released(m, n, amount) = c
  BY <1>1 DEF Released, EscrowMeta
<1>3. b \in EscrowMeta
  BY <1>1, PutRemainingBalance
<1>4. c \in EscrowMeta
  <2>1. m.released_count + n \in Nat
    BY <1>1
  <2> HIDE DEF b
  <2> QED
    BY <1>3, <2>1, PutReleasedCount
<1>5. /\ c.last_rent_collection_at = m.last_rent_collection_at /\ c.status = m.status
      /\ c.total_amount = m.total_amount
      /\ c.remaining_balance = m.remaining_balance - amount
      /\ c.dispute_start_ledger = m.dispute_start_ledger
      /\ c.dispute_started_ledger = m.dispute_started_ledger
  BY <1>1 DEF EscrowMeta
<1> HIDE DEF b, c
<1> QED
  BY <1>1, <1>2, <1>4, <1>5 DEF Ordinary

\* Completing an escrow is ordinary.
LEMMA CompletedOrdinary ==
  ASSUME NEW m, NEW old \in EscrowMeta, NEW a \in Int, Ordinary(m, old, a),
         NEW condition
  PROVE  Ordinary(CompleteIf(condition, m), old, a)
<1> DEFINE c == [m EXCEPT !.status = "Completed"]
<1>1. m \in EscrowMeta
  BY DEF Ordinary
<1>2. "Completed" \in StoredStatus
  BY DEF StoredStatus, EscrowStatus
<1>3. c \in EscrowMeta
  BY <1>1, <1>2, PutStatus
<1>4. /\ c.last_rent_collection_at = m.last_rent_collection_at /\ c.status = "Completed"
      /\ c.total_amount = m.total_amount
      /\ c.remaining_balance = m.remaining_balance
      /\ c.dispute_start_ledger = m.dispute_start_ledger
      /\ c.dispute_started_ledger = m.dispute_started_ledger
  BY <1>1 DEF EscrowMeta
<1> HIDE DEF c
<1>5. Ordinary(c, old, a)
  BY <1>3, <1>4 DEF Ordinary
<1> QED
  BY <1>5 DEF CompleteIf, c

\* Allocating more to milestones is ordinary.
LEMMA AllocatedOrdinary ==
  ASSUME NEW m, NEW old, NEW a, Ordinary(m, old, a), NEW v \in Nat
  PROVE  Ordinary([m EXCEPT !.allocated_amount = v], old, a)
<1>1. m \in EscrowMeta
  BY DEF Ordinary
<1>2. [m EXCEPT !.allocated_amount = v] \in EscrowMeta
  BY <1>1, PutAllocatedAmount
<1> QED
  BY <1>1, <1>2 DEF Ordinary, EscrowMeta

\* A change of the rent reserve is ordinary.
LEMMA RentBalanceOrdinary ==
  ASSUME NEW m, NEW old, NEW a, Ordinary(m, old, a), NEW v \in Nat
  PROVE  Ordinary([m EXCEPT !.rent_balance = v], old, a)
<1>1. m \in EscrowMeta
  BY DEF Ordinary
<1>2. [m EXCEPT !.rent_balance = v] \in EscrowMeta
  BY <1>1, PutRentBalance
<1> QED
  BY <1>1, <1>2 DEF Ordinary, EscrowMeta

\* Counting submissions is ordinary.
LEMMA SubmittedOrdinary ==
  ASSUME NEW m, NEW old, NEW a, Ordinary(m, old, a), NEW v \in Nat
  PROVE  Ordinary([m EXCEPT !.submitted_count = v], old, a)
<1>1. m \in EscrowMeta
  BY DEF Ordinary
<1>2. [m EXCEPT !.submitted_count = v] \in EscrowMeta
  BY <1>1, PutSubmittedCount
<1> QED
  BY <1>1, <1>2 DEF Ordinary, EscrowMeta

\* Counting approvals is ordinary.
LEMMA ApprovedOrdinary ==
  ASSUME NEW m, NEW old, NEW a, Ordinary(m, old, a), NEW v \in Nat
  PROVE  Ordinary([m EXCEPT !.approved_count = v], old, a)
<1>1. m \in EscrowMeta
  BY DEF Ordinary
<1>2. [m EXCEPT !.approved_count = v] \in EscrowMeta
  BY <1>1, PutApprovedCount
<1> QED
  BY <1>1, <1>2 DEF Ordinary, EscrowMeta

\* Moving the deadline is ordinary.
LEMMA DeadlineOrdinary ==
  ASSUME NEW m, NEW old, NEW a, Ordinary(m, old, a), NEW v \in OptTime
  PROVE  Ordinary([m EXCEPT !.deadline = v], old, a)
<1>1. m \in EscrowMeta
  BY DEF Ordinary
<1>2. [m EXCEPT !.deadline = v] \in EscrowMeta
  BY <1>1, PutDeadline
<1> QED
  BY <1>1, <1>2 DEF Ordinary, EscrowMeta

\* Moving the lock time is ordinary.
LEMMA LockTimeOrdinary ==
  ASSUME NEW m, NEW old, NEW a, Ordinary(m, old, a), NEW v \in OptTime
  PROVE  Ordinary([m EXCEPT !.lock_time = v], old, a)
<1>1. m \in EscrowMeta
  BY DEF Ordinary
<1>2. [m EXCEPT !.lock_time = v] \in EscrowMeta
  BY <1>1, PutLockTime
<1> QED
  BY <1>1, <1>2 DEF Ordinary, EscrowMeta

\* Starting the timelock is ordinary.
LEMMA TimelockOrdinary ==
  ASSUME NEW m, NEW old, NEW a, Ordinary(m, old, a), NEW v \in OptTime
  PROVE  Ordinary([m EXCEPT !.timelock = v], old, a)
<1>1. m \in EscrowMeta
  BY DEF Ordinary
<1>2. [m EXCEPT !.timelock = v] \in EscrowMeta
  BY <1>1, PutTimelock
<1> QED
  BY <1>1, <1>2 DEF Ordinary, EscrowMeta

\* Replacing the client is ordinary.
LEMMA ClientOrdinary ==
  ASSUME NEW m, NEW old, NEW a, Ordinary(m, old, a), NEW v \in OptAccount
  PROVE  Ordinary([m EXCEPT !.client = v], old, a)
<1>1. m \in EscrowMeta
  BY DEF Ordinary
<1>2. [m EXCEPT !.client = v] \in EscrowMeta
  BY <1>1, PutClient
<1> QED
  BY <1>1, <1>2 DEF Ordinary, EscrowMeta

-----------------------------------------------------------------------------
(* Payments. *)

\* Paying both parties is a payment.
LEMMA SplitType ==
  ASSUME NEW amount, NEW other, amount \in Int, other \in Int
  PROVE  Split(amount, other) \in Payment
<1>1. NoPayment \in Payment
  BY DEF NoPayment, Payment
<1> QED
  BY <1>1 DEF Split, Payment

\* So is paying one of them, and its sum is the amount.
LEMMA PaymentType ==
  ASSUME NEW role \in Roles, NEW amount, amount \in Int
  PROVE  /\ To(role, amount) \in Payment
         /\ Amount(To(role, amount)) = amount
<1>1. NoPayment \in Payment
  BY DEF NoPayment, Payment
<1>2. To(role, amount) \in Payment
  BY <1>1 DEF To, Payment
<1>3. Amount(To(role, amount)) = amount
  BY DEF To, NoPayment, Amount, Roles
<1> QED
  BY <1>2, <1>3

\* The history of an escrow after `payment`.
PaidWith(e, payment) == [r \in Roles |-> paid[e][r] + payment[r]]

\* What a payment adds to the history of its escrow is the sum it pays.
LEMMA PaidWithAmount ==
  ASSUME TypeOK, NEW e \in Escrows, NEW payment \in Payment
  PROVE  /\ PaidWith(e, payment) \in Payment
         /\ Amount(PaidWith(e, payment)) = Amount(paid[e]) + Amount(payment)
         /\ Amount(payment) \in Int /\ Amount(paid[e]) \in Int
<1>1. paid[e] \in Payment
  BY DEF TypeOK, LedgerTypeOK
<1>2. PaidWith(e, payment) \in Payment
  BY <1>1 DEF PaidWith, Payment
<1>3. \A r \in Roles : paid[e][r] \in Int /\ payment[r] \in Int
                       /\ PaidWith(e, payment)[r] = paid[e][r] + payment[r]
  BY <1>1 DEF PaidWith, Payment
<1>4. "client" \in Roles /\ "freelancer" \in Roles /\ "treasury" \in Roles
  BY DEF Roles
<1> DEFINE q == PaidWith(e, payment)
<1>5. /\ q["client"] = paid[e]["client"] + payment["client"]
      /\ q["freelancer"] = paid[e]["freelancer"] + payment["freelancer"]
      /\ q["treasury"] = paid[e]["treasury"] + payment["treasury"]
      /\ paid[e]["client"] \in Int /\ payment["client"] \in Int
      /\ paid[e]["freelancer"] \in Int /\ payment["freelancer"] \in Int
      /\ paid[e]["treasury"] \in Int /\ payment["treasury"] \in Int
  BY <1>3, <1>4
<1> HIDE DEF q
<1>6. /\ Amount(q) = Amount(paid[e]) + Amount(payment)
      /\ Amount(payment) \in Int /\ Amount(paid[e]) \in Int
  BY <1>5 DEF Amount
<1> QED
  BY <1>2, <1>6 DEF q

\* A transfer keeps the pool a natural and records its payment.
LEMMA TransferType ==
  ASSUME TypeOK, NEW e \in Escrows, NEW payment \in Payment, NEW extra \in Int,
         NEW deposit \in Nat, Transfer(e, payment, extra, deposit)
  PROVE  /\ pool' \in Nat
         /\ paid' = [paid EXCEPT ![e] = PaidWith(e, payment)]
<1>1. pool \in Nat /\ Amount(payment) \in Int
  BY PaidWithAmount DEF TypeOK, LedgerTypeOK
<1>2. pool' \in Nat
  BY <1>1 DEF Transfer
<1>3. paid' = [paid EXCEPT ![e] = [r \in Roles |-> paid[e][r] + payment[r]]]
  BY DEF Transfer, TypeOK, LedgerTypeOK
<1> QED
  BY <1>2, <1>3 DEF PaidWith

\* So does storing an escrow, which pays the rent due as well.
LEMMA StoreType ==
  ASSUME NEW e, NEW m, NEW payment, NEW extra, NEW deposit,
         TypeOK, RentClockBehind, e \in Escrows, payment \in Payment,
         extra \in Int, deposit \in Nat, Store(e, m, payment, extra, deposit)
  PROVE  /\ pool' \in Nat
         /\ meta' = [meta EXCEPT ![e] = m]
         /\ paid' = [paid EXCEPT ![e] = PaidWith(e, payment)]
<1>1. RentDue(e) + extra \in Int
  <2>1. meta[e].rent_balance \in Nat
    BY DEF TypeOK, LedgerTypeOK, EscrowMeta
  <2> QED
    BY <2>1, RentSettled
<1>2. Transfer(e, payment, RentDue(e) + extra, deposit)
  BY DEF Store
<1> QED
  BY <1>1, <1>2, TransferType DEF Store

-----------------------------------------------------------------------------
(* The inductive invariant, one escrow at a time. *)

\* What IInv says of one escrow, its request, its slash record and its history.
Good(m, r, s, p) ==
  /\ m.status \in Open \/ r # None => m.remaining_balance = m.total_amount - Amount(p)
  /\ m.status = "Disputed" => (m.dispute_start_ledger = None) = (r # None)
  /\ m.status = "Active" => r = None /\ m.dispute_start_ledger = None
                            /\ m.dispute_started_ledger = None
  /\ r # None => /\ m.dispute_start_ledger = None /\ m.dispute_started_ledger = None
                 /\ m.status \in {"CancellationPending", "Disputed", "Completed"}
  /\ r # None /\ r.disputed => m.status \in {"Disputed", "Completed"}
  /\ s # None => /\ m.status \in {"Cancelled", "Completed"}
                 /\ m.remaining_balance <= 0 /\ r = None
  /\ m.status = "Absent" => p = NoPayment /\ r = None

\* What IInv says of all of them.
AllGood == \A e \in Escrows : Good(meta[e], request[e], slash[e], paid[e])

\* The invariant is the types, the rent clocks and every escrow's record being good.
LEMMA InvariantByEscrow == IInv <=> TypeOK /\ RentClockBehind /\ AllGood
<1>1. ASSUME IInv, NEW e \in Escrows
      PROVE  Good(meta[e], request[e], slash[e], paid[e])
  BY <1>1 DEF IInv, Good, BooksExact, DisputeOrigin, DisputedRequestStatus,
              SlashFollowsCancellation
<1>2. ASSUME AllGood
      PROVE  /\ BooksExact /\ DisputeOrigin /\ DisputedRequestStatus
             /\ SlashFollowsCancellation
             /\ \A e \in Escrows :
                  /\ meta[e].status = "Absent" => paid[e] = NoPayment /\ request[e] = None
                  /\ meta[e].status = "Active" => /\ meta[e].dispute_start_ledger = None
                                                 /\ meta[e].dispute_started_ledger = None
                  /\ request[e] # None =>
                       meta[e].status \in {"CancellationPending", "Disputed", "Completed"}
  BY <1>2 DEF AllGood, Good, BooksExact, DisputeOrigin, DisputedRequestStatus,
              SlashFollowsCancellation
<1> QED
  BY <1>1, <1>2 DEF IInv, AllGood

\* The variables a step types without regard to the books.
RestTyped ==
  /\ milestones \in [Escrows -> Seq(Milestone)]
  /\ releaseTime \in [Escrows -> OptTime]
  /\ indexed \in [Escrows -> SUBSET EscrowStatus]
  /\ feeCollected \subseteq Escrows
  /\ frozen \subseteq Escrows
  /\ paused \in BOOLEAN

\* A step that changes the record of one escrow into a good one keeps the invariant.
LEMMA OneEscrowStep ==
  ASSUME NEW e, NEW m, NEW r, NEW s, NEW p,
         IInv, e \in Escrows, m \in EscrowMeta, m.last_rent_collection_at <= now,
         r \in CancellationRequest \cup {None}, s \in SlashRecord \cup {None},
         p \in Payment, Good(m, r, s, p),
         meta' = [meta EXCEPT ![e] = m], request' = [request EXCEPT ![e] = r],
         slash' = [slash EXCEPT ![e] = s], paid' = [paid EXCEPT ![e] = p],
         pool' \in Nat, RestTyped', UNCHANGED clock
  PROVE  IInv'
<1>1. TypeOK /\ RentClockBehind /\ AllGood
  BY InvariantByEscrow
<1>2. TypeOK'
  BY <1>1 DEF TypeOK, LedgerTypeOK, RestTyped, clock
<1>3. RentClockBehind'
  BY <1>1 DEF TypeOK, LedgerTypeOK, RentClockBehind, clock
<1>4. ASSUME NEW f \in Escrows
      PROVE  Good(meta[f], request[f], slash[f], paid[f])'
  <2>1. CASE f = e
    BY <1>1, <2>1 DEF TypeOK, LedgerTypeOK
  <2>2. CASE f # e
    <3>1. /\ meta'[f] = meta[f] /\ request'[f] = request[f]
          /\ slash'[f] = slash[f] /\ paid'[f] = paid[f]
      BY <1>1, <2>2 DEF TypeOK, LedgerTypeOK
    <3>2. Good(meta[f], request[f], slash[f], paid[f])
      BY <1>1 DEF AllGood
    <3> QED
      BY <3>1, <3>2
  <2> QED
    BY <2>1, <2>2
<1>5. AllGood'
  BY <1>4 DEF AllGood
<1> QED
  BY <1>2, <1>3, <1>5, InvariantByEscrow, PTL

\* A step that stores an ordinary update of a live escrow keeps the invariant.
LEMMA OrdinaryStep ==
  ASSUME IInv, NEW e \in Escrows, Live(e), NEW m, NEW payment \in Payment,
         NEW extra \in Int, NEW deposit \in Nat, Amount(payment) >= 0,
         Ordinary(m, meta[e], Amount(payment)), Store(e, m, payment, extra, deposit),
         UNCHANGED <<request, slash, clock>>, RestTyped'
  PROVE  IInv'
<1> DEFINE r == request[e]
           s == slash[e]
           p == PaidWith(e, payment)
<1>1. TypeOK /\ RentClockBehind /\ Good(meta[e], r, s, paid[e])
  BY InvariantByEscrow DEF AllGood
<1>2. /\ pool' \in Nat /\ meta' = [meta EXCEPT ![e] = m]
      /\ paid' = [paid EXCEPT ![e] = p]
  BY <1>1, StoreType
<1>3. /\ p \in Payment /\ Amount(p) = Amount(paid[e]) + Amount(payment)
      /\ Amount(payment) \in Int /\ Amount(paid[e]) \in Int
  BY <1>1, PaidWithAmount
<1>4. /\ r \in CancellationRequest \cup {None} /\ s \in SlashRecord \cup {None}
      /\ request' = [request EXCEPT ![e] = r] /\ slash' = [slash EXCEPT ![e] = s]
  BY <1>1 DEF TypeOK, LedgerTypeOK
<1>5. meta[e].total_amount \in Nat /\ meta[e].remaining_balance \in Int
  BY <1>1 DEF TypeOK, LedgerTypeOK, EscrowMeta
<1>6. meta[e].status \in EscrowStatus
  BY DEF Live
<1>7. m \in EscrowMeta /\ m.last_rent_collection_at <= now
  BY DEF Ordinary
<1> HIDE DEF r, s, p
<1>8. Good(m, r, s, p)
  <2>1. CASE m.status = meta[e].status
    BY <1>1, <1>3, <1>5, <1>6, <2>1 DEF Good, Ordinary, Open, EscrowStatus
  <2>2. CASE m.status = "Completed"
    BY <1>1, <1>3, <1>5, <1>6, <2>2 DEF Good, Ordinary, Open, EscrowStatus
  <2> QED
    BY <2>1, <2>2 DEF Ordinary
<1> QED
  BY <1>2, <1>3, <1>4, <1>7, <1>8, OneEscrowStep

\* In particular when no principal is paid.
LEMMA UnpaidStep ==
  ASSUME IInv, NEW e \in Escrows, Live(e), NEW m, NEW extra \in Int, NEW deposit \in Nat,
         Ordinary(m, meta[e], 0), Store(e, m, NoPayment, extra, deposit),
         UNCHANGED <<request, slash, clock>>, RestTyped'
  PROVE  IInv'
<1>1. NoPayment \in Payment /\ Amount(NoPayment) = 0
  BY DEF NoPayment, Amount, Roles, Payment
<1> QED
  BY <1>1, OrdinaryStep

\* And when one party is paid.
LEMMA PaidStep ==
  ASSUME IInv, NEW e \in Escrows, Live(e), NEW m, NEW role \in Roles, NEW amount \in Nat,
         Ordinary(m, meta[e], amount), Store(e, m, To(role, amount), 0, 0),
         UNCHANGED <<request, slash, clock>>, RestTyped'
  PROVE  IInv'
<1>1. To(role, amount) \in Payment /\ Amount(To(role, amount)) = amount
  BY PaymentType
<1> QED
  BY <1>1, OrdinaryStep

-----------------------------------------------------------------------------
(* Milestones and the other records keep their types. *)

\* A milestone whose status changes, or that is paid, is a milestone.
LEMMA MilestoneUpdate ==
  ASSUME NEW ms \in Milestone, NEW v \in MilestoneStatus, NEW n \in Nat
  PROVE  /\ [ms EXCEPT !.status = v] \in Milestone
         /\ Transferred(ms, n) \in Milestone
         /\ PaidOut(ms, n) \in Milestone
<1>1. ASSUME NEW x \in Milestone, NEW w \in MilestoneStatus
      PROVE  [x EXCEPT !.status = w] \in Milestone
  BY DEF Milestone
<1>2. ASSUME NEW x \in Milestone, NEW q \in Nat
      PROVE  [x EXCEPT !.payouts = q] \in Milestone
  BY DEF Milestone
<1>3. ms.payouts + n \in Nat
  BY DEF Milestone
<1>4. PaidOut(ms, n) = [[ms EXCEPT !.status = "Released"] EXCEPT !.payouts = ms.payouts + n]
  BY DEF PaidOut, Milestone
<1>5. "Released" \in MilestoneStatus
  BY DEF MilestoneStatus
<1>6. [ms EXCEPT !.status = "Released"] \in Milestone
  BY <1>1, <1>5
<1>7. [[ms EXCEPT !.status = "Released"] EXCEPT !.payouts = ms.payouts + n] \in Milestone
  BY <1>2, <1>3, <1>6
<1>8. PaidOut(ms, n) \in Milestone
  BY <1>4, <1>7
<1>9. Transferred(ms, n) \in Milestone
  BY <1>2, <1>3 DEF Transferred
<1> QED
  BY <1>1, <1>8, <1>9

\* The milestones of an escrow are milestones, with natural amounts.
LEMMA MilestoneOf ==
  ASSUME TypeOK, NEW e \in Escrows, NEW i, IsMilestone(e, i)
  PROVE  /\ milestones[e][i] \in Milestone
         /\ milestones[e][i].amount \in Nat
<1>1. milestones[e] \in Seq(Milestone) /\ i \in DOMAIN milestones[e]
  BY DEF TypeOK, LedgerTypeOK, IsMilestone
<1>2. milestones[e][i] \in Milestone
  BY <1>1
<1> QED
  BY <1>2 DEF Milestone

\* Replacing one milestone keeps the type of all of them.
LEMMA MilestoneReplaced ==
  ASSUME TypeOK, NEW e \in Escrows, NEW i, IsMilestone(e, i),
         NEW ms \in Milestone, SetMilestone(e, i, ms)
  PROVE  milestones' \in [Escrows -> Seq(Milestone)]
<1>1. milestones \in [Escrows -> Seq(Milestone)] /\ i \in DOMAIN milestones[e]
  BY DEF TypeOK, LedgerTypeOK, IsMilestone
<1>2. [milestones[e] EXCEPT ![i] = ms] \in Seq(Milestone)
  BY <1>1
<1>3. milestones' = [milestones EXCEPT ![e] = [milestones[e] EXCEPT ![i] = ms]]
  BY <1>1 DEF SetMilestone
<1> QED
  BY <1>1, <1>2, <1>3

\* So does changing each of them.
LEMMA MilestonesMapped ==
  ASSUME TypeOK, NEW e \in Escrows, NEW F \in [DOMAIN milestones[e] -> Milestone],
         milestones' = [milestones EXCEPT ![e] = F]
  PROVE  milestones' \in [Escrows -> Seq(Milestone)]
<1>1. milestones \in [Escrows -> Seq(Milestone)]
  BY DEF TypeOK, LedgerTypeOK
<1>2. DOMAIN milestones[e] = 1..Len(milestones[e]) /\ Len(milestones[e]) \in Nat
  BY <1>1
<1>3. F \in Seq(Milestone)
  BY <1>2
<1> QED
  BY <1>1, <1>3

\* The number of times a list names a milestone is a natural.
LEMMA TimesNat ==
  ASSUME NEW ids \in Seq(Nat), NEW i
  PROVE  Times(i, ids) \in Nat
<1> DEFINE named == {k \in DOMAIN ids : ids[k] = i}
<1>1. IsFiniteSet(1..Len(ids))
  BY FS_Interval
<1>2. IsFiniteSet(named)
  BY <1>1, FS_Subset
<1> QED
  BY <1>2, FS_CardinalityType DEF Times

\* The records a step leaves alone keep their types.
LEMMA RestKept ==
  ASSUME TypeOK, milestones' \in [Escrows -> Seq(Milestone)],
         UNCHANGED <<releaseTime, indexed, feeCollected, switches>>
  PROVE  RestTyped'
  BY DEF TypeOK, LedgerTypeOK, RestTyped, switches

\* Moving an escrow in the status index keeps the index's type.
LEMMA IndexMoved ==
  ASSUME TypeOK, NEW e \in Escrows, NEW from, NEW to \in EscrowStatus,
         MoveIndex(e, from, to) \/ UNCHANGED indexed
  PROVE  indexed' \in [Escrows -> SUBSET EscrowStatus]
<1>1. indexed \in [Escrows -> SUBSET EscrowStatus]
  BY DEF TypeOK, LedgerTypeOK
<1>2. (indexed[e] \ {from}) \cup {to} \in SUBSET EscrowStatus
  BY <1>1
<1>3. CASE MoveIndex(e, from, to)
  <2>1. indexed' = [indexed EXCEPT ![e] = (indexed[e] \ {from}) \cup {to}]
    BY <1>1, <1>3 DEF MoveIndex
  <2> QED
    BY <1>1, <1>2, <2>1
<1> QED
  BY <1>1, <1>3

\* The records a step leaves alone keep their types when the index changes.
LEMMA RestMoved ==
  ASSUME TypeOK, milestones' \in [Escrows -> Seq(Milestone)],
         indexed' \in [Escrows -> SUBSET EscrowStatus],
         feeCollected' \subseteq feeCollected,
         UNCHANGED <<releaseTime, switches>>
  PROVE  RestTyped'
  BY DEF TypeOK, LedgerTypeOK, RestTyped, switches

\* Paying the freelancer for milestones, and completing the escrow or not, keeps
\* the invariant, whether the index follows or not.
LEMMA ReleaseStep ==
  ASSUME IInv, NEW e \in Escrows, Live(e), NEW c, Ordinary(c, meta[e], 0),
         NEW n \in Nat, NEW amount \in Nat, NEW condition,
         Store(e, CompleteIf(condition, Released(c, n, amount)),
               To("freelancer", amount), 0, 0),
         milestones' \in [Escrows -> Seq(Milestone)],
         MoveIndex(e, "Active", "Completed") \/ UNCHANGED indexed,
         UNCHANGED <<request, slash, releaseTime, feeCollected, switches, clock>>
  PROVE  IInv'
<1>1. TypeOK /\ meta[e] \in EscrowMeta
  BY DEF IInv, TypeOK, LedgerTypeOK
<1>2. Ordinary(Released(c, n, amount), meta[e], amount)
  BY <1>1, ReleasedOrdinary
<1>3. Ordinary(CompleteIf(condition, Released(c, n, amount)), meta[e], amount)
  BY <1>1, <1>2, CompletedOrdinary
<1>4. indexed' \in [Escrows -> SUBSET EscrowStatus]
  BY <1>1, IndexMoved DEF EscrowStatus
<1>5. RestTyped'
  BY <1>1, <1>4, RestMoved
<1>6. "freelancer" \in Roles
  BY DEF Roles
<1> QED
  BY <1>3, <1>5, <1>6, PaidStep

-----------------------------------------------------------------------------
(* Steps that end an escrow. *)

\* An escrow whose books are closed, with the status it ends in.
LEMMA ClosedMeta ==
  ASSUME NEW m \in EscrowMeta, m.last_rent_collection_at <= now,
         NEW v \in {"Cancelled", "Completed"}
  PROVE  LET closed == [m EXCEPT !.remaining_balance = 0, !.status = v]
         IN  /\ closed \in EscrowMeta /\ closed.last_rent_collection_at <= now
             /\ closed.status = v /\ closed.remaining_balance = 0
<1> DEFINE b == [m EXCEPT !.remaining_balance = 0]
           closed == [b EXCEPT !.status = v]
<1>1. v \in StoredStatus
  BY DEF StoredStatus, EscrowStatus
<1>2. b \in EscrowMeta
  BY PutRemainingBalance
<1>3. closed \in EscrowMeta
  <2> HIDE DEF b
  <2> QED
    BY <1>1, <1>2, PutStatus
<1>4. /\ closed.last_rent_collection_at <= now
      /\ closed.status = v /\ closed.remaining_balance = 0
  BY DEF EscrowMeta
<1> QED
  BY <1>3, <1>4

\* A step after which an escrow has ended, without a request, keeps the invariant:
\* a slash may be held only if the escrow is stored and its books are closed.
LEMMA EndingStep ==
  ASSUME NEW e, NEW m, NEW payment, NEW s,
         IInv, e \in Escrows, m \in EscrowMeta, m.last_rent_collection_at <= now,
         m.status \in {"Cancelled", "Completed", "Expired"},
         payment \in Payment, s \in SlashRecord \cup {None},
         s # None => m.status # "Expired" /\ m.remaining_balance <= 0,
         pool' \in Nat, meta' = [meta EXCEPT ![e] = m],
         paid' = [paid EXCEPT ![e] = PaidWith(e, payment)],
         request' = [request EXCEPT ![e] = None], slash' = [slash EXCEPT ![e] = s],
         RestTyped', UNCHANGED clock
  PROVE  IInv'
<1>1. PaidWith(e, payment) \in Payment
  BY PaidWithAmount DEF IInv
<1>2. Good(m, None, s, PaidWith(e, payment))
  BY DEF Good, Open
<1> QED
  BY <1>1, <1>2, OneEscrowStep

\* An escrow has neither request nor slash record while it is active, or while it
\* is disputed in a dispute that is timed by either clock.
LEMMA NothingBeside ==
  ASSUME IInv, NEW e \in Escrows,
         \/ meta[e].status \in {"Active", "Absent"}
         \/ /\ meta[e].status = "Disputed"
            /\ \/ meta[e].dispute_start_ledger # None
               \/ meta[e].dispute_started_ledger # None
  PROVE  /\ request[e] = None /\ slash[e] = None
         /\ request = [request EXCEPT ![e] = None] /\ slash = [slash EXCEPT ![e] = None]
<1>1. TypeOK /\ Good(meta[e], request[e], slash[e], paid[e])
  BY InvariantByEscrow DEF AllGood
<1>2. request[e] = None /\ slash[e] = None
  BY <1>1 DEF Good
<1> QED
  BY <1>1, <1>2 DEF TypeOK, LedgerTypeOK

-----------------------------------------------------------------------------
(* Steps that change the status or the records beside an escrow. *)

\* Settling the rent and setting the status changes nothing else of an escrow.
LEMMA StatusSet ==
  ASSUME TypeOK, RentClockBehind, NEW e \in Escrows, NEW v \in StoredStatus
  PROVE  LET m == [RentCollected(e) EXCEPT !.status = v]
         IN  /\ m \in EscrowMeta /\ m.last_rent_collection_at <= now
             /\ m.status = v /\ m.total_amount = meta[e].total_amount
             /\ m.remaining_balance = meta[e].remaining_balance
             /\ m.dispute_start_ledger = meta[e].dispute_start_ledger
             /\ m.dispute_started_ledger = meta[e].dispute_started_ledger
<1> DEFINE c == RentCollected(e)
           m == [c EXCEPT !.status = v]
<1>1. Ordinary(c, meta[e], 0) /\ c \in EscrowMeta
  BY RentCollectedOrdinary DEF Ordinary
<1>2. meta[e].remaining_balance \in Int
  BY DEF TypeOK, LedgerTypeOK, EscrowMeta
<1>3. c.remaining_balance = meta[e].remaining_balance
  BY <1>1, <1>2 DEF Ordinary
<1> HIDE DEF c
<1>4. m \in EscrowMeta
  BY <1>1, PutStatus
<1>5. /\ m.status = v /\ m.total_amount = c.total_amount
      /\ m.remaining_balance = c.remaining_balance
      /\ m.last_rent_collection_at = c.last_rent_collection_at
      /\ m.dispute_start_ledger = c.dispute_start_ledger
      /\ m.dispute_started_ledger = c.dispute_started_ledger
  BY <1>1 DEF EscrowMeta
<1> HIDE DEF m
<1>6. /\ m.status = v /\ m.total_amount = meta[e].total_amount
      /\ m.remaining_balance = meta[e].remaining_balance
      /\ m.last_rent_collection_at <= now
      /\ m.dispute_start_ledger = meta[e].dispute_start_ledger
      /\ m.dispute_started_ledger = meta[e].dispute_started_ledger
  BY <1>1, <1>3, <1>5 DEF Ordinary
<1> QED
  BY <1>4, <1>6 DEF c, m

\* Storing an escrow without paying principal leaves its history alone.
LEMMA StoreUnpaid ==
  ASSUME NEW e, NEW m, NEW deposit,
         TypeOK, RentClockBehind, e \in Escrows, deposit \in Nat,
         Store(e, m, NoPayment, 0, deposit)
  PROVE  /\ pool' \in Nat /\ meta' = [meta EXCEPT ![e] = m]
         /\ paid' = [paid EXCEPT ![e] = paid[e]]
<1>1. NoPayment \in Payment /\ \A r \in Roles : NoPayment[r] = 0
  BY DEF NoPayment, Payment
<1>2. paid[e] \in Payment
  BY DEF TypeOK, LedgerTypeOK
<1>3. PaidWith(e, NoPayment) = paid[e]
  BY <1>1, <1>2 DEF PaidWith, Payment
<1> QED
  BY <1>1, <1>3, StoreType

\* What IInv says of one escrow and its records.
LEMMA GoodNow ==
  ASSUME IInv, NEW e \in Escrows
  PROVE  /\ TypeOK /\ RentClockBehind
         /\ Good(meta[e], request[e], slash[e], paid[e])
         /\ meta[e] \in EscrowMeta /\ paid[e] \in Payment
         /\ request[e] \in CancellationRequest \cup {None}
         /\ slash[e] \in SlashRecord \cup {None}
         /\ request = [request EXCEPT ![e] = request[e]]
         /\ slash = [slash EXCEPT ![e] = slash[e]]
         /\ paid = [paid EXCEPT ![e] = paid[e]]
         /\ meta = [meta EXCEPT ![e] = meta[e]]
<1>1. TypeOK /\ RentClockBehind
      /\ Good(meta[e], request[e], slash[e], paid[e])
  BY InvariantByEscrow DEF AllGood
<1> QED
  BY <1>1 DEF TypeOK, LedgerTypeOK
=============================================================================
