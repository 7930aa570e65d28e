--------------------------- MODULE BackendProofs ---------------------------
(***************************************************************************)
(* Five components of the API, proved safe for any number of requests in   *)
(* progress: the database transactions on an escrow, card payments, refresh *)
(* tokens, idempotency keys and the circuit breaker.                       *)
(***************************************************************************)
EXTENDS EscrowRows, FiatPayments, RefreshTokens, Idempotency, CircuitBreaker, SumTheorems

-----------------------------------------------------------------------------
(* Escrow rows: a serializable transaction commits on the row it read.      *)

Row == [status : {"none", "Active", "Disputed", "Completed", "Cancelled"},
        balance : Int, version : Nat]
Tx == [op : Ops \cup {"none"}, at : {"idle", "begun", "read"}, amount : Int,
       status : {"none", "Active", "Disputed", "Completed", "Cancelled"}, balance : Int,
       version : Nat, late : BOOLEAN, retries : Nat]

\* A transaction that read the present version of the row knows the row.
ReadsTrue(t) ==
  /\ tx[t].version <= escrow.version
  /\ tx[t].at = "read" /\ tx[t].version = escrow.version =>
       tx[t].status = escrow.status /\ tx[t].balance = escrow.balance

RowsInv ==
  /\ escrow \in Row /\ tx \in [Transactions -> Tx] /\ overdue \in BOOLEAN
  /\ \A t \in Transactions : ReadsTrue(t)
  /\ escrow.status \in {"none", "Active", "Cancelled"} => dispute = "none"

LEMMA RowFacts ==
  ASSUME RowsInv, NEW t \in Transactions
  PROVE  /\ tx[t] \in Tx /\ ReadsTrue(t)
         /\ tx[t].version \in Nat /\ tx[t].balance \in Int /\ tx[t].amount \in Int
         /\ escrow.version \in Nat /\ escrow.balance \in Int
  BY DEF RowsInv, Row, Tx

LEMMA IdleTx == Idle \in Tx
  BY DEF Idle, Tx

\* A transaction begins, reads, fails or gives up: the row stays.
LEMMA TxMoves ==
  ASSUME RowsInv, NEW t \in Transactions, NEW new \in Tx, tx' = [tx EXCEPT ![t] = new],
         UNCHANGED <<escrow, dispute, overdue>>, new.version <= escrow.version,
         new.at = "read" =>
           new.version = escrow.version /\ new.status = escrow.status
             /\ new.balance = escrow.balance
  PROVE  RowsInv'
<1>1. tx' \in [Transactions -> Tx] /\ tx'[t] = new
      /\ \A u \in Transactions \ {t} : tx'[u] = tx[u]
  BY DEF RowsInv
<1>2. \A u \in Transactions : ReadsTrue(u)'
  BY <1>1 DEF RowsInv, ReadsTrue
<1> QED
  BY <1>1, <1>2 DEF RowsInv

LEMMA IdleVersion ==
  ASSUME RowsInv
  PROVE  Idle.version <= escrow.version /\ Idle.at = "idle" /\ escrow.version \in Nat
  BY DEF RowsInv, Row, Idle

\* A transaction that commits leaves the others with an older version.
LEMMA TxCommits ==
  ASSUME RowsInv, NEW t \in Transactions, NEW status, NEW balance \in Int,
         UNCHANGED overdue, Write(status, balance), tx' = [tx EXCEPT ![t] = Idle],
         status \in {"none", "Active", "Disputed", "Completed", "Cancelled"},
         status \in {"none", "Active", "Cancelled"} => dispute' = "none"
  PROVE  RowsInv'
<1>1. escrow' \in Row /\ escrow'.version = escrow.version + 1 /\ escrow'.status = status
  BY DEF RowsInv, Row, Write
<1>2. tx' \in [Transactions -> Tx] /\ tx'[t] = Idle
      /\ \A u \in Transactions \ {t} : tx'[u] = tx[u]
  BY IdleTx DEF RowsInv
<1>3. ASSUME NEW u \in Transactions PROVE ReadsTrue(u)'
  <2>1. tx'[u].version <= escrow.version /\ tx'[u].version \in Nat
    BY <1>2, RowFacts, IdleVersion DEF ReadsTrue, Idle
  <2> QED
    BY <1>1, <2>1, RowFacts DEF ReadsTrue
<1> QED
  BY <1>1, <1>2, <1>3 DEF RowsInv

LEMMA RowsQuiet ==
  ASSUME RowsInv, NEW t \in Transactions,
         \/ \E op \in Ops, amount \in Amounts : Call(t, op, amount)
         \/ FindExpired(t) \/ Refuse(t)
  PROVE  RowsInv'
<1>1. CASE \E op \in Ops, amount \in Amounts : Call(t, op, amount)
  <2>1. PICK op \in Ops, amount \in Amounts : Call(t, op, amount)
    BY <1>1
  <2> DEFINE new == [Idle EXCEPT !.op = op, !.at = "begun", !.amount = amount]
  <2>2. new \in Tx /\ new.at = "begun" /\ new.version = Idle.version
    <3>1. amount \in Int /\ op \in Ops \cup {"none"}
      BY RowsAssumption
    <3> QED
      BY <3>1, IdleTx DEF Tx
  <2>3. tx' = [tx EXCEPT ![t] = new] /\ UNCHANGED <<escrow, dispute, overdue>>
    BY <2>1 DEF Call
  <2> HIDE DEF new
  <2> QED
    BY <2>2, <2>3, IdleVersion, TxMoves
<1>2. CASE FindExpired(t)
  <2> DEFINE new == [Idle EXCEPT !.op = "expire", !.at = "begun"]
  <2>1. new \in Tx /\ new.at = "begun" /\ new.version = Idle.version
    BY IdleTx DEF Tx, Ops
  <2>2. tx' = [tx EXCEPT ![t] = new] /\ UNCHANGED <<escrow, dispute, overdue>>
    BY <1>2 DEF FindExpired
  <2> HIDE DEF new
  <2> QED
    BY <2>1, <2>2, IdleVersion, TxMoves
<1>3. CASE Refuse(t)
  <2>1. tx' = [tx EXCEPT ![t] = Idle] /\ UNCHANGED <<escrow, dispute, overdue>>
    BY <1>3 DEF Refuse
  <2> QED
    BY <2>1, IdleTx, IdleVersion, TxMoves
<1> QED
  BY <1>1, <1>2, <1>3

LEMMA RowsRead ==
  ASSUME RowsInv, NEW t \in Transactions, ReadRow(t)
  PROVE  RowsInv'
<1> DEFINE new == [tx[t] EXCEPT !.at = "read", !.status = escrow.status,
                                !.balance = escrow.balance, !.version = escrow.version,
                                !.late = overdue]
<1>1. new \in Tx /\ new.at = "read" /\ new.version = escrow.version
      /\ new.status = escrow.status /\ new.balance = escrow.balance
  BY RowFacts DEF RowsInv, Row, Tx
<1>2. tx' = [tx EXCEPT ![t] = new] /\ UNCHANGED <<escrow, dispute, overdue>>
  BY DEF ReadRow, RowsInv
<1>3. new.version <= escrow.version
  BY <1>1, RowFacts
<1> HIDE DEF new
<1> QED
  BY <1>1, <1>2, <1>3, TxMoves

\* withRetry starts the transaction again, or gives up.
LEMMA RowsFail ==
  ASSUME RowsInv, NEW t \in Transactions, Fails(t)
  PROVE  RowsInv'
<1> DEFINE new == [tx[t] EXCEPT !.at = "begun", !.retries = tx[t].retries + 1]
<1>1. new \in Tx /\ new.at = "begun" /\ new.version = tx[t].version
  <2>1. tx[t] \in Tx /\ tx[t].retries + 1 \in Nat
    BY RowFacts DEF Tx
  <2> QED
    BY <2>1 DEF Tx
<1>2. tx' = [tx EXCEPT ![t] = new] \/ tx' = [tx EXCEPT ![t] = Idle]
  BY DEF Fails, Done, RowsInv
<1>3. UNCHANGED <<escrow, dispute, overdue>>
  BY DEF Fails
<1> HIDE DEF new
<1>4. CASE tx' = [tx EXCEPT ![t] = new]
  BY <1>1, <1>3, <1>4, RowFacts, TxMoves DEF ReadsTrue
<1>5. CASE tx' = [tx EXCEPT ![t] = Idle]
  BY <1>3, <1>5, IdleTx, IdleVersion, TxMoves
<1> QED
  BY <1>2, <1>4, <1>5

\* A serializable transaction that commits has read the present row.
LEMMA CommitsTrue ==
  ASSUME RowsInv, NEW t \in Transactions, NEW op \in {"raise", "resolve", "expire"},
         Commits(t, op)
  PROVE  tx[t].status = escrow.status /\ tx[t].balance = escrow.balance
<1>1. IsolationLevel(t) = "Serializable"
  BY DEF Commits, IsolationLevel, Isolation
<1> QED
  BY <1>1, RowFacts DEF Commits, Conflict, ReadsTrue

LEMMA RowsCommit ==
  ASSUME RowsInv, NEW t \in Transactions,
         ReleaseMilestone(t) \/ RaiseDispute(t) \/ ResolveDispute(t) \/ ExpireEscrow(t)
  PROVE  RowsInv'
<1>1. escrow.status \in {"none", "Active", "Disputed", "Completed", "Cancelled"}
  BY DEF RowsInv, Row
<1>2. CASE ReleaseMilestone(t)
  <2> DEFINE left == tx[t].balance - tx[t].amount
             status == IF left = 0 THEN "Completed" ELSE escrow.status
  <2>1. left \in Int /\ status \in {"Completed", escrow.status}
    BY RowFacts
  <2>2. Write(status, left) /\ tx' = [tx EXCEPT ![t] = Idle] /\ UNCHANGED <<dispute, overdue>>
    BY <1>2 DEF ReleaseMilestone, Done
  <2> HIDE DEF left, status
  <2>3. status \in {"none", "Active", "Cancelled"} => dispute' = "none"
    BY <2>1, <2>2 DEF RowsInv
  <2>4. status \in {"none", "Active", "Disputed", "Completed", "Cancelled"}
    BY <1>1, <2>1
  <2> QED
    BY <2>1, <2>2, <2>3, <2>4, TxCommits
<1>3. CASE RaiseDispute(t)
  <2>1. Write("Disputed", escrow.balance) /\ tx' = [tx EXCEPT ![t] = Idle] /\ UNCHANGED overdue
    BY <1>3 DEF RaiseDispute, Done
  <2> QED
    BY <2>1, RowFacts, TxCommits
<1>4. CASE ResolveDispute(t)
  <2>1. Write("Completed", 0) /\ tx' = [tx EXCEPT ![t] = Idle] /\ UNCHANGED overdue
    BY <1>4 DEF ResolveDispute, Done
  <2>2. 0 \in Int
    OBVIOUS
  <2> QED
    BY <2>1, <2>2, TxCommits
<1>5. CASE ExpireEscrow(t)
  <2>1. Write("Cancelled", escrow.balance) /\ tx' = [tx EXCEPT ![t] = Idle]
        /\ UNCHANGED <<dispute, overdue>>
    BY <1>5 DEF ExpireEscrow, Done
  <2>2. tx[t].status = "Active"
    BY <1>5 DEF ExpireEscrow, Commits, Allowed
  <2>3. dispute = "none"
    BY <1>5, <2>2, CommitsTrue DEF ExpireEscrow, RowsInv
  <2> QED
    BY <2>1, <2>3, RowFacts, TxCommits
<1> QED
  BY <1>2, <1>3, <1>4, <1>5

LEMMA RowsFund ==
  ASSUME RowsInv, FundEscrow
  PROVE  RowsInv'
<1>1. escrow' \in Row /\ escrow'.version = escrow.version + 1 /\ escrow'.status = "Active"
  BY RowsAssumption DEF RowsInv, Row, FundEscrow, Write
<1>2. \A t \in Transactions : ReadsTrue(t)'
  BY <1>1, RowFacts DEF FundEscrow, ReadsTrue
<1> QED
  BY <1>1, <1>2 DEF RowsInv, FundEscrow

LEMMA RowsStep ==
  ASSUME RowsInv, [RowsNext]_rowVars
  PROVE  RowsInv'
<1>1. CASE FundEscrow
  BY <1>1, RowsFund
<1>2. CASE DeadlinePasses \/ UNCHANGED rowVars
  BY <1>2 DEF DeadlinePasses, rowVars, RowsInv, ReadsTrue
<1>3. ASSUME NEW t \in Transactions,
             \/ \E op \in Ops, amount \in Amounts : Call(t, op, amount)
             \/ FindExpired(t) \/ ReadRow(t) \/ Refuse(t)
             \/ ReleaseMilestone(t) \/ RaiseDispute(t) \/ ResolveDispute(t) \/ ExpireEscrow(t)
             \/ Fails(t)
      PROVE  RowsInv'
  BY <1>3, RowsQuiet, RowsRead, RowsCommit, RowsFail
<1> QED
  BY <1>1, <1>2, <1>3 DEF RowsNext

LEMMA RowsStart ==
  ASSUME RowsInit
  PROVE  RowsInv
<1>1. \A t \in Transactions : tx[t] = Idle
  BY DEF RowsInit
<1>2. escrow \in Row /\ tx \in [Transactions -> Tx]
  BY IdleTx DEF RowsInit, Row
<1>3. \A t \in Transactions : ReadsTrue(t)
  <2>1. Idle.version = 0 /\ Idle.at = "idle" /\ escrow.version = 0
    BY DEF RowsInit, Idle
  <2>2. ASSUME NEW t \in Transactions PROVE ReadsTrue(t)
    <3>1. tx[t].version = 0 /\ tx[t].at = "idle"
      BY <1>1, <2>1
    <3> QED
      BY <2>1, <3>1 DEF ReadsTrue
  <2> QED
    BY <2>2
<1> QED
  BY <1>2, <1>3 DEF RowsInit, RowsInv

(* The expiry job never cancels an escrow under dispute, although            *)
(* expiryService.js finds the rows before its transactions and disputes are  *)
(* raised meanwhile.                                                         *)
THEOREM ExpiryRespectsDisputes == RowsSpec => []ExpiredNeverDisputed
<1>1. RowsInv => ExpiredNeverDisputed
  BY DEF RowsInv, ExpiredNeverDisputed
<1> QED
  BY <1>1, RowsStart, RowsStep, PTL DEF RowsSpec

(* resolveDispute of escrowService.js splits the balance of the row it ends, *)
(* whatever releases commit between its read and its commit.                 *)
THEOREM SettlementsExact == RowsSpec => SettlesExactly
<1>1. RowsInv /\ [RowsNext]_rowVars
        => [dispute # "resolved" /\ dispute' = "resolved" => payout' = escrow.balance]_rowVars
  <2> SUFFICES ASSUME RowsInv, RowsNext, dispute # "resolved", dispute' = "resolved"
               PROVE  payout' = escrow.balance
    OBVIOUS
  <2>1. PICK t \in Transactions : ResolveDispute(t)
    BY DEF RowsNext, FundEscrow, DeadlinePasses, Call, FindExpired, ReadRow, Refuse,
           ReleaseMilestone, RaiseDispute, ExpireEscrow, Fails
  <2>2. payout' = tx[t].amount /\ tx[t].amount = tx[t].balance
    BY <2>1 DEF ResolveDispute, Commits, Allowed
  <2> QED
    BY <2>1, <2>2, CommitsTrue DEF ResolveDispute
<1> QED
  BY <1>1, RowsStart, RowsStep, PTL DEF RowsSpec, SettlesExactly

-----------------------------------------------------------------------------
(* Card payments: the row follows Stripe. *)

\* Stripe's session and charge never go back, and no row is ahead of them.
FiatInv ==
  /\ charge # "none" => session = "complete" /\ checkout = "answered"
  /\ charge \in {"none", "paid", "refunded"}
  /\ payment \in [status : {"none", "Pending", "Completed", "Failed", "Refunded"},
                  hasIntent : BOOLEAN, hasRefund : BOOLEAN]
  /\ refunding \in [Refunders -> {"idle", "checked", "refunded"}]
  /\ \A r \in Refunders : refunding[r] = "refunded" => charge = "refunded"
  /\ payment.hasRefund \/ payment.status = "Refunded" => charge = "refunded"

LEMMA WebhookKeepsRow ==
  ASSUME FiatInv, NEW e \in EventTypes, HandleWebhook(e), UNCHANGED charge
  PROVE  /\ payment' \in [status : {"none", "Pending", "Completed", "Failed", "Refunded"},
                          hasIntent : BOOLEAN, hasRefund : BOOLEAN]
         /\ payment'.hasRefund \/ payment'.status = "Refunded" => charge' = "refunded"
<1>1. e = "session.completed" \/ e = "charge.refunded"
      \/ e = "session.expired" \/ e = "payment_failed"
  BY DEF EventTypes
<1>2. CASE e = "charge.refunded"
  BY <1>2 DEF FiatInv, HandleWebhook, Matches
<1>3. CASE e = "session.completed"
  BY <1>3 DEF FiatInv, HandleWebhook
<1>4. CASE e = "session.expired" \/ e = "payment_failed"
  BY <1>4 DEF FiatInv, HandleWebhook
<1> QED
  BY <1>1, <1>2, <1>3, <1>4

LEMMA FiatStep ==
  ASSUME FiatInv, [FiatNext]_fiatVars
  PROVE  FiatInv'
<1>1. CASE UNCHANGED fiatVars
  BY <1>1 DEF fiatVars, FiatInv
<1>2. CASE CreateSession
  BY <1>2 DEF CreateSession, FiatInv
<1>3. CASE CreatePayment
  BY <1>3 DEF CreatePayment, FiatInv, NoRow
<1>4. CASE Pay
  BY <1>4 DEF Pay, FiatInv
<1>5. CASE Decline \/ SessionExpires
  BY <1>5 DEF Decline, SessionExpires, FiatInv
<1>6. CASE PaymentCrash
  BY <1>6 DEF PaymentCrash, FiatInv
<1>7. ASSUME NEW e \in EventTypes, DeliverOnce(e) \/ DeliverAndRepeat(e) PROVE FiatInv'
  BY <1>7, WebhookKeepsRow DEF DeliverOnce, DeliverAndRepeat, FiatInv
<1>8. ASSUME NEW r \in Refunders, CheckRefundable(r) \/ RefundAtStripe(r) PROVE FiatInv'
  BY <1>8 DEF CheckRefundable, RefundAtStripe, FiatInv
<1>9. ASSUME NEW r \in Refunders, RecordRefund(r) PROVE FiatInv'
  BY <1>9 DEF RecordRefund, Recordable, StripeAgreed, FiatInv
<1> QED
  BY <1>1, <1>2, <1>3, <1>4, <1>5, <1>6, <1>7, <1>8, <1>9 DEF FiatNext

(* refund of paymentService.js writes "Refunded" after Stripe's answer, and   *)
(* charge.refunded matches a refundId only: whatever requests, repeats and   *)
(* crashes interleave, a refund that was not made is not recorded.           *)
THEOREM RefundsAreReal == FiatSpec => []RefundedAtStripe
<1>1. FiatInit => FiatInv
  BY DEF FiatInit, FiatInv, NoRow
<1>2. FiatInv => RefundedAtStripe
  BY DEF FiatInv, RefundedAtStripe
<1> QED
  BY <1>1, <1>2, FiatStep, PTL DEF FiatSpec

-----------------------------------------------------------------------------
(* Refresh tokens: a dead token stays dead. *)

Minting == {"userCheck", "spend", "deactivateOld", "count", "oldest", "evict", "insert"}
Spending == {"deactivateOld", "count", "oldest", "evict", "insert", "logoutRow"}

RequestRecord ==
  [at : Steps, token : 0..MaxTokens, wasActive : BOOLEAN, late : BOOLEAN,
   count : Int, victims : SUBSET Tokens]

\* What a request q may rely on, given the issued tokens, their families and
\* what has been revoked.
Consistent(q, issued, fam, listed, bad, all) ==
  /\ q.token \in issued \cup {0} /\ q.victims \subseteq issued
  /\ q.at = "ready" => ~q.late /\ q.token = 0
  /\ q.at \in Spending => q.token \in listed \cup {0}
  /\ q.at = "logoutRow" => q.token \in listed
  /\ q.late => /\ q.token \in issued /\ q.at \notin Minting
               /\ q.token \in listed \/ fam[q.token] \in bad \/ all

TokenRows ==
  /\ row \in [Tokens -> {"none", "active", "inactive"}]
  /\ family \in [Tokens -> 0..MaxTokens]
  /\ \E n \in 0..MaxTokens : Issued = 1..n

TokensInv ==
  /\ TokenRows /\ userRevoked \in BOOLEAN
  /\ spent \subseteq blacklist
  /\ request \in [Requests -> RequestRecord]
  /\ \A r \in Requests :
       Consistent(request[r], Issued, family, blacklist, badFamilies, userRevoked)

LEMMA ReadyConsistent ==
  ASSUME NEW issued, NEW fam, NEW listed, NEW bad, NEW all
  PROVE  /\ Consistent(Ready, issued, fam, listed, bad, all)
         /\ Ready \in RequestRecord
<1>1. Ready \in RequestRecord
  BY TokenAssumption DEF Ready, RequestRecord, Steps
<1>2. Ready.at = "ready" /\ Ready.token = 0 /\ Ready.late = FALSE /\ Ready.victims = {}
  BY DEF Ready
<1> QED
  BY <1>1, <1>2 DEF Consistent, Spending

\* Revocations and new rows never make a request inconsistent.
LEMMA ConsistentGrows ==
  ASSUME NEW q, NEW issued, NEW fam, NEW listed, NEW bad, NEW all \in BOOLEAN,
         NEW issued2, NEW fam2, NEW listed2, NEW bad2, NEW all2 \in BOOLEAN,
         issued \subseteq issued2, listed \subseteq listed2, bad \subseteq bad2, all => all2,
         \A i \in issued : fam2[i] = fam[i],
         Consistent(q, issued, fam, listed, bad, all)
  PROVE  Consistent(q, issued2, fam2, listed2, bad2, all2)
  BY DEF Consistent

LEMMA NewTokenIsNew ==
  ASSUME TokenRows
  PROVE  NewToken \notin Issued /\ NewToken \in Nat
         /\ Issued \cup {NewToken} = 1..NewToken
<1>1. PICK n \in 0..MaxTokens : Issued = 1..n
  BY DEF TokenRows
<1>2. n \in Nat
  BY TokenAssumption
<1>3. Cardinality(1..n) = n
  BY <1>2, FS_Interval
<1>4. NewToken = 1 + n
  BY <1>1, <1>3 DEF NewToken
<1> QED
  BY <1>1, <1>2, <1>4

\* The rows a request deactivates were issued: no row appears or disappears.
LEMMA DeactivationKeepsIssued ==
  ASSUME TokenRows, NEW ids, ids \cap Tokens \subseteq Issued, DeactivateAll(ids),
         UNCHANGED family
  PROVE  TokenRows' /\ Issued' = Issued
<1>1. row' \in [Tokens -> {"none", "active", "inactive"}]
  BY DEF DeactivateAll, TokenRows
<1>2. Issued' = Issued
  BY DEF DeactivateAll, TokenRows, Issued
<1> QED
  BY <1>1, <1>2 DEF TokenRows

\* One request moves to q; what is shared only grows.
LEMMA TokenMoves ==
  ASSUME TokensInv, NEW r \in Requests, NEW q \in RequestRecord,
         request' = [request EXCEPT ![r] = q], TokenRows',
         userRevoked' \in BOOLEAN,
         Issued \subseteq Issued', blacklist \subseteq blacklist', badFamilies \subseteq badFamilies',
         userRevoked => userRevoked', \A i \in Issued : family'[i] = family[i],
         spent' \subseteq blacklist',
         Consistent(q, Issued', family', blacklist', badFamilies', userRevoked')
  PROVE  TokensInv'
<1>1. request' \in [Requests -> RequestRecord]
  BY DEF TokensInv
<1>2. ASSUME NEW u \in Requests
      PROVE  Consistent(request'[u], Issued', family', blacklist', badFamilies', userRevoked')
  <2>1. CASE u = r
    BY <2>1 DEF TokensInv
  <2>2. CASE u # r
    <3>1. request'[u] = request[u]
          /\ Consistent(request[u], Issued, family, blacklist, badFamilies, userRevoked)
      BY <2>2 DEF TokensInv
    <3>2. userRevoked \in BOOLEAN
      BY DEF TokensInv
    <3> QED
      BY <3>1, <3>2, ConsistentGrows
  <2> QED
    BY <2>1, <2>2
<1> QED
  BY <1>1, <1>2 DEF TokensInv

\* A step that changes nothing but the request.
LEMMA TokenQuiet ==
  ASSUME TokensInv, NEW r \in Requests, NEW q \in RequestRecord,
         request' = [request EXCEPT ![r] = q],
         UNCHANGED <<row, family, blacklist, badFamilies, userRevoked, spent>>,
         Consistent(q, Issued, family, blacklist, badFamilies, userRevoked)
  PROVE  TokensInv'
<1>1. TokenRows' /\ Issued' = Issued /\ userRevoked' \in BOOLEAN
      /\ blacklist' = blacklist /\ badFamilies' = badFamilies /\ family' = family
      /\ userRevoked' = userRevoked /\ spent' \subseteq blacklist'
  BY DEF TokensInv, TokenRows, Issued
<1>2. Consistent(q, Issued', family', blacklist', badFamilies', userRevoked')
  BY <1>1
<1>3. Issued \subseteq Issued' /\ blacklist \subseteq blacklist' /\ badFamilies \subseteq badFamilies'
      /\ (userRevoked => userRevoked') /\ \A i \in Issued : family'[i] = family[i]
  BY <1>1
<1> QED
  BY <1>1, <1>2, <1>3, TokenMoves

LEMMA RequestFacts ==
  ASSUME TokensInv, NEW r \in Requests
  PROVE  /\ request[r] \in RequestRecord /\ Old(r) \in 0..MaxTokens
         /\ request[r].token = Old(r)
         /\ Consistent(request[r], Issued, family, blacklist, badFamilies, userRevoked)
         /\ Issued \subseteq Tokens /\ Active \subseteq Issued /\ 0 \notin Issued
         /\ request = [request EXCEPT ![r] = request[r]]
<1>1. 0 \notin Tokens
  BY TokenAssumption DEF Tokens
<1> QED
  BY <1>1 DEF TokensInv, TokenRows, RequestRecord, Old, Active, Issued

\* A request goes to a step it may be at.
LEMMA TokenGoto ==
  ASSUME TokensInv, NEW r \in Requests, NEW step \in Steps, Goto(r, step),
         UNCHANGED <<row, family, blacklist, badFamilies, userRevoked, spent>>,
         step \notin {"logoutRow", "ready"},
         step \in Spending => Old(r) \in blacklist \cup {0},
         step \in Minting => ~request[r].late
  PROVE  TokensInv'
<1> DEFINE q == [request[r] EXCEPT !.at = step]
<1>1. request' = [request EXCEPT ![r] = q]
  BY DEF Goto
<1>2. q \in RequestRecord
  BY RequestFacts DEF RequestRecord
<1>3. q.token = Old(r) /\ q.at = step /\ q.late = request[r].late
      /\ q.victims = request[r].victims
  BY RequestFacts DEF RequestRecord
<1>4. Consistent(q, Issued, family, blacklist, badFamilies, userRevoked)
  BY <1>3, RequestFacts DEF Consistent
<1> QED
  BY <1>1, <1>2, <1>4, TokenQuiet

LEMMA TokenEnds ==
  ASSUME TokensInv, NEW r \in Requests, End(r),
         UNCHANGED <<row, family, blacklist, badFamilies, userRevoked, spent>>
  PROVE  TokensInv'
  BY ReadyConsistent, TokenQuiet DEF End

\* createRefreshToken up to the insertion.
LEMMA TokenCreation ==
  ASSUME TokensInv, NEW r \in Requests,
         Login(r) \/ CountActive(r) \/ FindOldest(r) \/ EvictOldest(r)
  PROVE  TokensInv'
<1>0. MAX_ACTIVE_TOKENS_PER_USER \in Nat /\ IsFiniteSet(Active) /\ Cardinality(Active) \in Int
  <2>1. IsFiniteSet(Tokens)
    BY TokenAssumption, FS_Interval DEF Tokens
  <2>2. IsFiniteSet(Active)
    BY <2>1, FS_Subset DEF Active
  <2> QED
    BY <2>2, FS_CardinalityType, LimitAssumption
<1>1. CASE Login(r)
  <2>1. request[r].at = "ready" /\ ~request[r].late /\ Old(r) = 0
    BY <1>1, RequestFacts DEF Login, Consistent
  <2>2. "count" \in Steps /\ "count" \notin {"logoutRow", "ready"}
    BY DEF Steps
  <2> QED
    BY <1>1, <2>1, <2>2, TokenGoto DEF Login
<1>2. CASE CountActive(r)
  <2> DEFINE q == [request[r] EXCEPT !.count = Cardinality(Active),
                     !.at = IF Cardinality(Active) >= MAX_ACTIVE_TOKENS_PER_USER
                            THEN "oldest" ELSE "insert"]
  <2>1. request' = [request EXCEPT ![r] = q] /\ request[r].at = "count"
    BY <1>2, RequestFacts DEF CountActive, RequestRecord
  <2>2. q \in RequestRecord
    BY <1>0, RequestFacts DEF RequestRecord, Steps
  <2>3. q.at \in {"oldest", "insert"} /\ q.token = Old(r) /\ q.late = request[r].late
        /\ q.victims = request[r].victims
    BY RequestFacts DEF RequestRecord
  <2>4. Consistent(q, Issued, family, blacklist, badFamilies, userRevoked)
    BY <2>1, <2>3, RequestFacts DEF Consistent, Spending, Minting
  <2> QED
    BY <1>2, <2>1, <2>2, <2>4, TokenQuiet DEF CountActive
<1>3. CASE FindOldest(r)
  <2> DEFINE q == [request[r] EXCEPT !.at = "evict", !.victims = Oldest(Surplus(request[r].count))]
  <2>0. Oldest(Surplus(request[r].count)) \subseteq Active
    BY DEF Oldest
  <2>1. request' = [request EXCEPT ![r] = q] /\ request[r].at = "oldest"
    BY <1>3, RequestFacts DEF FindOldest, RequestRecord
  <2>2. q \in RequestRecord
    BY <2>0, RequestFacts DEF RequestRecord, Steps
  <2>3. q.at = "evict" /\ q.token = Old(r) /\ q.late = request[r].late
        /\ q.victims \subseteq Issued
    BY <2>0, RequestFacts DEF RequestRecord
  <2>4. Consistent(q, Issued, family, blacklist, badFamilies, userRevoked)
    BY <2>1, <2>3, RequestFacts DEF Consistent, Spending, Minting
  <2> QED
    BY <1>3, <2>1, <2>2, <2>4, TokenQuiet DEF FindOldest
<1>4. CASE EvictOldest(r)
  <2> DEFINE q == [request[r] EXCEPT !.at = "insert", !.victims = {}]
  <2>1. request' = [request EXCEPT ![r] = q] /\ request[r].at = "evict"
    BY <1>4, RequestFacts DEF EvictOldest, RequestRecord
  <2>2. q \in RequestRecord
    BY RequestFacts DEF RequestRecord, Steps
  <2>3. q.at = "insert" /\ q.token = Old(r) /\ q.late = request[r].late /\ q.victims = {}
    BY RequestFacts DEF RequestRecord
  <2>4. Consistent(q, Issued, family, blacklist, badFamilies, userRevoked)
    BY <2>1, <2>3, RequestFacts DEF Consistent, Spending, Minting
  <2>5. DeactivateAll(request[r].victims) /\ request[r].victims \subseteq Issued
        /\ UNCHANGED <<family, blacklist, badFamilies, userRevoked, spent>>
    BY <1>4, RequestFacts DEF EvictOldest, Consistent
  <2>6. TokenRows' /\ Issued' = Issued
    BY <2>5, DeactivationKeepsIssued DEF TokensInv
  <2> QED
    BY <2>1, <2>2, <2>4, <2>5, <2>6, TokenMoves DEF TokensInv
<1> QED
  BY <1>1, <1>2, <1>3, <1>4

\* The new token joins the family of the old one, which is in the blacklist.
LEMMA TokenInsertion ==
  ASSUME TokensInv, NEW r \in Requests, InsertToken(r)
  PROVE  TokensInv'
<1>1. request[r].at = "insert" /\ NewToken \in Tokens
      /\ row' = [row EXCEPT ![NewToken] = "active"]
      /\ family' = [family EXCEPT ![NewToken] = IF Old(r) = 0 THEN NewToken ELSE family[Old(r)]]
      /\ spent' = (IF Old(r) = 0 THEN spent ELSE spent \cup {Old(r)})
      /\ UNCHANGED <<blacklist, badFamilies, userRevoked>>
      /\ request' = [request EXCEPT ![r] = Ready]
  BY DEF InsertToken, End
<1>2. NewToken \notin Issued /\ Issued \cup {NewToken} = 1..NewToken
  BY NewTokenIsNew DEF TokensInv
<1>3. Issued' = Issued \cup {NewToken}
  BY <1>1 DEF Issued, TokensInv, TokenRows
<1>4. \A i \in Issued : family'[i] = family[i]
  BY <1>1, <1>2, RequestFacts DEF TokensInv, TokenRows
<1>5. Old(r) \in (Issued \cap blacklist) \cup {0}
  BY <1>1, RequestFacts DEF Consistent, Spending
<1>6. spent' \subseteq blacklist'
  BY <1>1, <1>5 DEF TokensInv
<1>7. TokenRows'
  <2>1. row' \in [Tokens -> {"none", "active", "inactive"}]
    BY <1>1 DEF TokensInv, TokenRows
  <2>2. (IF Old(r) = 0 THEN NewToken ELSE family[Old(r)]) \in 0..MaxTokens
    BY <1>1, <1>5, RequestFacts, TokenAssumption DEF TokensInv, TokenRows, Tokens
  <2>3. family' \in [Tokens -> 0..MaxTokens]
    BY <1>1, <2>2 DEF TokensInv, TokenRows
  <2>4. NewToken \in 0..MaxTokens /\ Issued' = 1..NewToken
    BY <1>1, <1>2, <1>3, TokenAssumption DEF Tokens
  <2> QED
    BY <2>1, <2>3, <2>4 DEF TokenRows
<1>8. Ready \in RequestRecord
      /\ Consistent(Ready, Issued', family', blacklist', badFamilies', userRevoked')
  BY ReadyConsistent
<1>9. userRevoked' \in BOOLEAN /\ Issued \subseteq Issued'
      /\ blacklist \subseteq blacklist' /\ badFamilies \subseteq badFamilies'
      /\ (userRevoked => userRevoked')
  BY <1>1, <1>3 DEF TokensInv
<1> QED
  BY <1>1, <1>4, <1>6, <1>7, <1>8, <1>9, TokenMoves

\* rotateRefreshToken: the read, the checks and the old token's end.
LEMMA TokenReads ==
  ASSUME TokensInv, NEW r \in Requests, NEW i \in Tokens, FindRow(r, i)
  PROVE  TokensInv'
<1>0. PICK late \in BOOLEAN, active \in BOOLEAN :
        late = Dead(i) /\ active = (row[i] = "active")
  <2>1. Dead(i) \in BOOLEAN
    BY DEF Dead
  <2>2. (row[i] = "active") \in BOOLEAN
    OBVIOUS
  <2> QED
    BY <2>1, <2>2, Zenon
<1>p. PICK p : p = Ready
  OBVIOUS
<1>q. PICK q : q = [p EXCEPT !.at = "blacklistCheck", !.token = i, !.late = late,
                             !.wasActive = active]
  OBVIOUS
<1>1. request' = [request EXCEPT ![r] = q] /\ i \in Issued
      /\ UNCHANGED <<row, family, blacklist, badFamilies, userRevoked, spent>>
  BY <1>0, <1>p, <1>q DEF FindRow
<1>2. Dead(i) \in BOOLEAN /\ (Dead(i) => i \in blacklist \/ family[i] \in badFamilies \/ userRevoked)
  BY DEF Dead, TokensInv
<1>3. q \in RequestRecord /\ q.at = "blacklistCheck" /\ q.token = i /\ q.late = late
      /\ q.victims = {}
  <2>1. p \in RequestRecord /\ p.victims = {}
    BY <1>p, ReadyConsistent DEF Ready
  <2>2. late \in BOOLEAN /\ active \in BOOLEAN
    BY <1>0
  <2>3. i \in 0..MaxTokens
    BY TokenAssumption DEF Tokens
  <2> QED
    BY <1>q, <2>1, <2>2, <2>3 DEF RequestRecord, Steps
<1>4. Consistent(q, Issued, family, blacklist, badFamilies, userRevoked)
  BY <1>0, <1>1, <1>2, <1>3 DEF Consistent, Spending, Minting
<1> QED
  BY <1>1, <1>3, <1>4, TokenQuiet

LEMMA TokenChecks ==
  ASSUME TokensInv, NEW r \in Requests, CheckBlacklist(r) \/ AreAllUserTokensBlacklisted(r)
  PROVE  TokensInv'
<1>1. UNCHANGED <<row, family, blacklist, badFamilies, userRevoked, spent>>
  BY DEF CheckBlacklist, AreAllUserTokensBlacklisted
<1>2. CASE End(r)
  BY <1>1, <1>2, TokenEnds
<1>3. CASE Goto(r, "familyRevoke")
  BY <1>1, <1>3, TokenGoto DEF Steps, Spending, Minting
<1>4. CASE Goto(r, "userCheck") /\ ~Blacklisted(Old(r))
  <2>1. ~request[r].late
    BY <1>4, RequestFacts DEF Consistent, Blacklisted, IsTokenBlacklisted
  <2> QED
    BY <1>1, <1>4, <2>1, TokenGoto DEF Steps, Spending
<1>5. CASE Goto(r, "spend") /\ request[r].at = "userCheck"
  <2>1. ~request[r].late
    BY <1>5, RequestFacts DEF Consistent, Minting
  <2> QED
    BY <1>1, <1>5, <2>1, TokenGoto DEF Steps, Spending
<1> QED
  BY <1>2, <1>3, <1>4, <1>5 DEF CheckBlacklist, AreAllUserTokensBlacklisted

\* The calls that change rows or the blacklist and go on to another step.
LEMMA TokenGrows ==
  ASSUME TokensInv, NEW r \in Requests, NEW step \in Steps, NEW token \in 0..MaxTokens,
         NEW victims \in SUBSET Tokens, victims \subseteq Issued,
         request' = [request EXCEPT ![r].at = step, ![r].token = token, ![r].victims = victims],
         step # "ready", token \in Issued \cup {0}, token = Old(r) \/ ~request[r].late,
         UNCHANGED <<row, family, spent>>,
         userRevoked' \in BOOLEAN,
         blacklist \subseteq blacklist', badFamilies \subseteq badFamilies',
         userRevoked => userRevoked',
         step \in Spending => token \in blacklist' \cup {0},
         step = "logoutRow" => token \in blacklist',
         step \in Minting => ~request[r].late
  PROVE  TokensInv'
<1> DEFINE q == [request[r] EXCEPT !.at = step, !.token = token, !.victims = victims]
<1>0. request[r] \in RequestRecord
  BY RequestFacts
<1>1. request' = [request EXCEPT ![r] = q] /\ q \in RequestRecord
  BY <1>0 DEF RequestRecord
<1>2. q.at = step /\ q.token = token /\ q.late = request[r].late /\ q.victims = victims
  BY <1>0 DEF RequestRecord
<1>3. TokenRows' /\ Issued' = Issued /\ family' = family /\ spent' \subseteq blacklist'
  BY DEF TokensInv, TokenRows, Issued
<1>4. Consistent(q, Issued', family', blacklist', badFamilies', userRevoked')
  BY <1>2, <1>3, RequestFacts DEF Consistent
<1> QED
  BY <1>1, <1>3, <1>4, TokenMoves

LEMMA TokenRevokes ==
  ASSUME TokensInv, NEW r \in Requests,
         \/ RevokeTokenFamily(r) \/ FindSiblings(r) \/ SpendToken(r)
         \/ RevokeAllUserTokens(r) \/ \E i \in Tokens : Logout(r, i)
  PROVE  TokensInv'
<1>0. /\ request[r].victims \subseteq Issued /\ request[r].victims \in SUBSET Tokens
      /\ Old(r) \in Issued \cup {0} /\ Old(r) \in 0..MaxTokens
      /\ userRevoked \in BOOLEAN
  BY RequestFacts DEF Consistent, TokensInv
<1>a. ASSUME NEW step, Goto(r, step)
      PROVE  request' = [request EXCEPT ![r].at = step, ![r].token = Old(r),
                                        ![r].victims = request[r].victims]
  <2>1. request[r] \in RequestRecord /\ request[r].token = Old(r)
        /\ request \in [Requests -> RequestRecord]
    BY RequestFacts DEF TokensInv
  <2>2. request' = [request EXCEPT ![r].at = step]
    BY <1>a DEF Goto
  <2> QED
    BY <2>1, <2>2 DEF RequestRecord
<1>1. CASE RevokeTokenFamily(r)
  <2>1. "siblings" \in Steps /\ "siblings" \notin Spending \cup Minting
        /\ "siblings" # "ready" /\ "siblings" # "logoutRow"
    BY DEF Steps, Spending, Minting
  <2>2. badFamilies \subseteq badFamilies' /\ Goto(r, "siblings")
        /\ UNCHANGED <<row, family, spent, blacklist, userRevoked>>
    BY <1>1 DEF RevokeTokenFamily
  <2> QED
    BY <1>0, <1>a, <2>1, <2>2, TokenGrows
<1>2. CASE FindSiblings(r)
  <2> DEFINE siblings == {i \in Active : family[i] = family[Old(r)]}
             q == [request[r] EXCEPT !.at = "deactivateSiblings", !.victims = siblings]
  <2>1. request' = [request EXCEPT ![r] = q] /\ request[r].at = "siblings"
    BY <1>2, RequestFacts DEF FindSiblings, RequestRecord
  <2>2. siblings \subseteq Issued
    BY RequestFacts
  <2>3. q \in RequestRecord
    BY <2>2, RequestFacts DEF RequestRecord, Steps
  <2>4. q.at = "deactivateSiblings" /\ q.token = Old(r) /\ q.late = request[r].late
        /\ q.victims \subseteq Issued
    BY <2>2, RequestFacts DEF RequestRecord
  <2>5. Consistent(q, Issued, family, blacklist, badFamilies, userRevoked)
    BY <2>4, RequestFacts DEF Consistent, Spending, Minting
  <2> QED
    BY <1>2, <2>1, <2>3, <2>5, TokenQuiet DEF FindSiblings
<1>3. CASE SpendToken(r)
  <2>1. "deactivateOld" \in Steps /\ "deactivateOld" # "ready" /\ "deactivateOld" # "logoutRow"
    BY DEF Steps
  <2>2. blacklist' = blacklist \cup {Old(r)} /\ Goto(r, "deactivateOld")
        /\ UNCHANGED <<row, family, spent, badFamilies, userRevoked>>
    BY <1>3 DEF SpendToken
  <2>3. ~request[r].late
    <3>1. "spend" \in Minting
      BY DEF Minting
    <3>2. Consistent(request[r], Issued, family, blacklist, badFamilies, userRevoked)
      BY RequestFacts
    <3> QED
      BY <1>3, <3>1, <3>2 DEF SpendToken, Consistent
  <2>4. request' = [request EXCEPT ![r].at = "deactivateOld", ![r].token = Old(r),
                                   ![r].victims = request[r].victims]
    BY <1>a, <2>2
  <2>5. Old(r) \in blacklist' \cup {0} /\ blacklist \subseteq blacklist'
        /\ UNCHANGED <<row, family, spent, badFamilies, userRevoked>>
    BY <2>2
  <2> QED
    BY <1>0, <2>1, <2>3, <2>4, <2>5, TokenGrows
<1>4. CASE RevokeAllUserTokens(r)
  <2>1. "revokeRows" \in Steps /\ "revokeRows" \notin Spending \cup Minting
        /\ "revokeRows" # "ready" /\ "revokeRows" # "logoutRow"
    BY DEF Steps, Spending, Minting
  <2>2. userRevoked' = TRUE /\ Goto(r, "revokeRows")
        /\ UNCHANGED <<row, family, spent, blacklist, badFamilies>>
    BY <1>4 DEF RevokeAllUserTokens
  <2> QED
    BY <1>0, <1>a, <2>1, <2>2, TokenGrows
<1>5. ASSUME NEW i \in Tokens, Logout(r, i) PROVE TokensInv'
  <2>1. "logoutRow" \in Steps /\ "logoutRow" \notin Minting /\ "logoutRow" # "ready"
    BY DEF Steps, Minting
  <2>2. request' = [request EXCEPT ![r].at = "logoutRow", ![r].token = i,
                                   ![r].victims = request[r].victims]
    <3>1. request[r] \in RequestRecord /\ request \in [Requests -> RequestRecord]
      BY RequestFacts DEF TokensInv
    <3>2. request' = [request EXCEPT ![r].at = "logoutRow", ![r].token = i]
      BY <1>5 DEF Logout
    <3> QED
      BY <3>1, <3>2 DEF RequestRecord
  <2>3. blacklist' = blacklist \cup {i} /\ i \in Issued /\ request[r].at = "ready"
        /\ UNCHANGED <<row, family, spent, badFamilies, userRevoked>>
    BY <1>5 DEF Logout
  <2>4. ~request[r].late /\ i \in 0..MaxTokens
    BY <2>3, RequestFacts, TokenAssumption DEF Consistent, Tokens
  <2> QED
    BY <1>0, <2>1, <2>2, <2>3, <2>4, TokenGrows
<1> QED
  BY <1>1, <1>2, <1>3, <1>4, <1>5

\* The calls that deactivate rows and go on or end.
LEMMA TokenDeactivates ==
  ASSUME TokensInv, NEW r \in Requests,
         DeactivateSiblings(r) \/ DeactivateOld(r) \/ LogoutRow(r) \/ RevokeRows(r)
  PROVE  TokensInv'
<1>1. /\ UNCHANGED <<family, blacklist, badFamilies, userRevoked>> /\ spent' \subseteq blacklist
      /\ \E ids : DeactivateAll(ids) /\ ids \cap Tokens \subseteq Issued
  <2>1. request[r].victims \subseteq Issued /\ {Old(r)} \cap Tokens \subseteq Issued
        /\ Active \subseteq Issued
    BY RequestFacts, TokenAssumption DEF Consistent, Tokens
  <2>2. LogoutRow(r) => Old(r) \in blacklist
    BY RequestFacts DEF LogoutRow, Consistent
  <2> QED
    BY <2>1, <2>2 DEF DeactivateSiblings, DeactivateOld, LogoutRow, RevokeRows, TokensInv
<1>2. TokenRows' /\ Issued' = Issued
  BY <1>1, DeactivationKeepsIssued DEF TokensInv
<1>3. PICK q \in RequestRecord :
        request' = [request EXCEPT ![r] = q]
        /\ Consistent(q, Issued, family, blacklist, badFamilies, userRevoked)
  <2>1. CASE End(r)
    BY <2>1, ReadyConsistent DEF End
  <2>2. CASE DeactivateOld(r)
    <3> DEFINE p == [request[r] EXCEPT !.at = "count"]
    <3>1. request' = [request EXCEPT ![r] = p] /\ request[r].at = "deactivateOld"
      BY <2>2 DEF DeactivateOld, Goto
    <3>2. p \in RequestRecord
      BY RequestFacts DEF RequestRecord, Steps
    <3>3. p.at = "count" /\ p.token = Old(r) /\ p.late = request[r].late
          /\ p.victims = request[r].victims
      BY RequestFacts DEF RequestRecord
    <3>4. Consistent(p, Issued, family, blacklist, badFamilies, userRevoked)
      BY <3>1, <3>3, RequestFacts DEF Consistent, Spending, Minting
    <3> QED
      BY <3>1, <3>2, <3>4
  <2> QED
    BY <2>1, <2>2 DEF DeactivateSiblings, LogoutRow, RevokeRows
<1>4. Consistent(q, Issued', family', blacklist', badFamilies', userRevoked')
      /\ userRevoked' \in BOOLEAN /\ family' = family /\ userRevoked' = userRevoked
      /\ blacklist' = blacklist /\ badFamilies' = badFamilies /\ spent' \subseteq blacklist'
  BY <1>1, <1>2, <1>3 DEF TokensInv
<1> QED
  BY <1>2, <1>3, <1>4, TokenMoves

LEMMA TokensStep ==
  ASSUME TokensInv, [TokensNext]_tokenVars
  PROVE  TokensInv'
<1>1. CASE UNCHANGED tokenVars
  BY <1>1 DEF tokenVars, TokensInv, TokenRows, Issued
<1>2. ASSUME NEW r \in Requests, Login(r) \/ TokenStep(r) \/ RevokeAllUserTokens(r)
                                  \/ \E i \in Tokens : Logout(r, i)
      PROVE  TokensInv'
  BY <1>2, TokenCreation, TokenInsertion, TokenChecks, TokenRevokes, TokenDeactivates
     DEF TokenStep
<1>3. ASSUME NEW r \in Requests, DatabaseFails(r) PROVE TokensInv'
  BY <1>3, TokenEnds DEF DatabaseFails
<1>4. ASSUME NEW r \in Requests, NEW i \in Tokens, FindRow(r, i) PROVE TokensInv'
  BY <1>4, TokenReads
<1> QED
  BY <1>1, <1>2, <1>3, <1>4 DEF TokensNext

LEMMA TokensStart ==
  ASSUME TokensInit
  PROVE  TokensInv
<1>1. TokenRows
  <2>1. Issued = 1..0 /\ 0 \in 0..MaxTokens
    BY TokenAssumption DEF TokensInit, Issued
  <2> QED
    BY <2>1, TokenAssumption DEF TokensInit, TokenRows
<1>2. request \in [Requests -> RequestRecord] /\ \A r \in Requests : request[r] = Ready
  BY ReadyConsistent DEF TokensInit
<1>3. \A r \in Requests :
        Consistent(request[r], Issued, family, blacklist, badFamilies, userRevoked)
  BY <1>2, ReadyConsistent
<1> QED
  BY <1>1, <1>2, <1>3 DEF TokensInit, TokensInv

(* rotateRefreshToken never mints from a token that was spent, logged out or  *)
(* revoked before the rotation read its row, however many requests            *)
(* interleave between its database and its cache calls.                       *)
THEOREM DeadTokensMintNothing == TokensSpec => []DeadTokenMintsNothing
<1>1. TokensInv => DeadTokenMintsNothing
  BY DEF TokensInv, Consistent, Minting, DeadTokenMintsNothing
<1> QED
  BY <1>1, TokensStart, TokensStep, PTL DEF TokensSpec

-----------------------------------------------------------------------------
(* Refresh tokens: how far the limit is overrun.                             *)

\* The n oldest of a set of tokens; Oldest takes them of the active ones.
OldestOf(A, n) == {i \in A : Cardinality({j \in A : j < i}) < n}

\* What request q is about to deactivate before it inserts: what it would find
\* now or, after it has looked, what it found.
VictimsOf(q, A) ==
  IF q.at = "oldest" THEN OldestOf(A, Surplus(q.count))
  ELSE IF q.at = "evict" THEN q.victims ELSE {}

Limiting == {"oldest", "evict", "insert"}
Creating == {r \in Requests : request[r].at \in Limiting}

\* What is left of the active tokens when the requests of S have evicted theirs.
LeftBy(S) == {i \in Active : \A r \in S : i \notin VictimsOf(request[r], Active)}

\* Whichever of the requests past the count go on, and in whatever order, they
\* end below the bound: they first take away what they know of, then add one each.
Within(S) ==
  Cardinality(LeftBy(S)) + Cardinality(S) <= MAX_ACTIVE_TOKENS_PER_USER + Cardinality(Requests) - 1
LimitInv == \A S \in SUBSET Creating : Within(S)

\* A finite set of integers that is not empty has a least element.
LEMMA LeastElement ==
  ASSUME NEW A \in SUBSET Int, IsFiniteSet(A), A # {}
  PROVE  \E m \in A : \A x \in A : m <= x
<1> DEFINE P == {B \in SUBSET A : B = {} \/ \E m \in B : \A x \in B : m <= x}
<1>1. {} \in P
  OBVIOUS
<1>2. ASSUME NEW B \in SUBSET A, NEW y \in A \ B, B \in P PROVE B \cup {y} \in P
  <2>1. CASE B = {}
    BY <2>1
  <2>2. ASSUME NEW m \in B, \A x \in B : m <= x PROVE B \cup {y} \in P
    <3>1. CASE m <= y
      BY <2>2, <3>1
    <3>2. CASE y < m
      BY <2>2, <3>2
    <3> QED
      BY <3>1, <3>2
  <2> QED
    BY <1>2, <2>1, <2>2
<1> HIDE DEF P
<1>3. A \in P
  BY <1>1, <1>2, SubsetInduction
<1> QED
  BY <1>3 DEF P

\* In a subset the n oldest include those among the n oldest of the whole.
LEMMA OldestOfFewer ==
  ASSUME NEW A, IsFiniteSet(A), NEW B \in SUBSET A, NEW n \in Int
  PROVE  OldestOf(A, n) \cap B \subseteq OldestOf(B, n)
<1> SUFFICES ASSUME NEW i \in B, i \in OldestOf(A, n) PROVE i \in OldestOf(B, n)
  OBVIOUS
<1> DEFINE before == {j \in A : j < i}
           left == {j \in B : j < i}
<1>1. IsFiniteSet(before) /\ left \in SUBSET before
  BY FS_Subset
<1>2. Cardinality(before) < n
  BY DEF OldestOf
<1> HIDE DEF before, left
<1>3. Cardinality(left) <= Cardinality(before) /\ Cardinality(left) \in Nat
      /\ Cardinality(before) \in Nat
  BY <1>1, FS_Subset, FS_CardinalityType
<1>4. Cardinality(left) < n
  BY <1>2, <1>3
<1> QED
  BY <1>4 DEF left, OldestOf

\* A token newer than all others displaces none of the oldest.
LEMMA OldestOfMore ==
  ASSUME NEW A \in SUBSET Int, NEW x \in Int, \A i \in A : i < x, NEW n
  PROVE  OldestOf(A, n) \subseteq OldestOf(A \cup {x}, n)
<1> SUFFICES ASSUME NEW i \in OldestOf(A, n) PROVE i \in OldestOf(A \cup {x}, n)
  OBVIOUS
<1>1. i \in A /\ Cardinality({j \in A : j < i}) < n
  BY DEF OldestOf
<1>2. {j \in A \cup {x} : j < i} = {j \in A : j < i}
  BY <1>1
<1> QED
  BY <1>1, <1>2 DEF OldestOf

\* Taking the n oldest away leaves all but n, if there are so many.
LEMMA OldestOfSize ==
  ASSUME NEW A \in SUBSET Int, IsFiniteSet(A), NEW n \in Int, n <= Cardinality(A)
  PROVE  Cardinality(A \ OldestOf(A, n)) <= Cardinality(A) - n
<1> DEFINE B == A \ OldestOf(A, n)
<1>1. B \subseteq A /\ IsFiniteSet(B)
  BY FS_Subset
<1>2. Cardinality(A) \in Nat /\ Cardinality(B) \in Nat
  BY <1>1, FS_CardinalityType
<1>3. CASE B = {}
  BY <1>2, <1>3, FS_EmptySet
<1>4. CASE B # {}
  <2>1. PICK m \in B : \A x \in B : m <= x
    BY <1>1, <1>4, LeastElement
  <2> DEFINE before == {j \in A : j < m}
  <2>2. ~(Cardinality(before) < n)
    BY <2>1 DEF OldestOf
  <2>3. before \in SUBSET A /\ IsFiniteSet(before)
    BY FS_Subset
  <2> HIDE DEF B
  <2>4. B \cap before = {}
    <3>1. \A x \in B : x \in Int /\ m \in Int /\ m <= x
      BY <1>1, <2>1
    <3> QED
      BY <3>1
  <2> HIDE DEF before
  <2>5. Cardinality(before) \in Nat /\ Cardinality({}) = 0
    BY <2>3, FS_CardinalityType, FS_EmptySet
  <2>6. Cardinality(B \cup before) = Cardinality(B) + Cardinality(before) - Cardinality(B \cap before)
    BY <1>1, <2>3, FS_Union
  <2>7. Cardinality(B \cup before) <= Cardinality(A)
    <3>1. B \cup before \in SUBSET A
      BY <1>1, <2>3
    <3> QED
      BY <3>1, FS_Subset
  <2>8. Cardinality(B \cup before) = Cardinality(B) + Cardinality(before)
    BY <1>2, <2>4, <2>5, <2>6
  <2> QED
    BY <1>2, <2>2, <2>5, <2>7, <2>8 DEF B
<1> QED
  BY <1>3, <1>4

\* The tokens, the requests and the sets in between are finite.
LEMMA LimitFacts ==
  ASSUME TokensInv
  PROVE  /\ Active \in SUBSET Int /\ IsFiniteSet(Active)
         /\ Cardinality(Requests) \in Nat /\ IsFiniteSet(Requests)
         /\ MAX_ACTIVE_TOKENS_PER_USER \in Nat \ {0}
         /\ \A r \in Requests : Surplus(request[r].count) \in Int
<1>1. Active \in SUBSET (1..MaxTokens) /\ MaxTokens \in Nat
  BY TokenAssumption DEF Active, Tokens
<1>2. IsFiniteSet(1..MaxTokens)
  BY <1>1, FS_Interval
<1>3. IsFiniteSet(Active)
  BY <1>1, <1>2, FS_Subset
<1>4. \A r \in Requests : request[r].count \in Int
  BY DEF TokensInv, RequestRecord
<1> QED
  BY <1>1, <1>3, <1>4, LimitAssumption, RequestAssumption, FS_CardinalityType DEF Surplus, TooMany

\* The sets that LimitInv counts.
LEMMA LeftFinite ==
  ASSUME TokensInv, NEW S \in SUBSET Requests
  PROVE  /\ IsFiniteSet(LeftBy(S)) /\ Cardinality(LeftBy(S)) \in Nat
         /\ IsFiniteSet(S) /\ Cardinality(S) \in 0..Cardinality(Requests)
<1>1. LeftBy(S) \in SUBSET Active
  BY DEF LeftBy
<1>2. IsFiniteSet(LeftBy(S)) /\ IsFiniteSet(S) /\ Cardinality(S) <= Cardinality(Requests)
  BY <1>1, LimitFacts, FS_Subset
<1> QED
  BY <1>2, LimitFacts, FS_CardinalityType

\* Fewer tokens: each request takes at least the same ones away.
LEMMA VictimsOfFewer ==
  ASSUME TokensInv, NEW B \in SUBSET Active, NEW r \in Requests
  PROVE  VictimsOf(request[r], Active) \cap B \subseteq VictimsOf(request[r], B)
BY LimitFacts, OldestOfFewer DEF VictimsOf

\* No more left, for no more requests, than there was for others of them.
LEMMA LessLeft ==
  ASSUME TokensInv, LimitInv, NEW S \in SUBSET Requests, NEW T \in SUBSET Creating,
         LeftBy(S)' \subseteq LeftBy(T), Cardinality(S) <= Cardinality(T)
  PROVE  Within(S)'
<1>1. T \in SUBSET Requests
  BY DEF Creating
<1>2. Cardinality(LeftBy(S)') <= Cardinality(LeftBy(T)) /\ IsFiniteSet(LeftBy(S)')
  BY <1>1, LeftFinite, FS_Subset
<1>3. Cardinality(LeftBy(S)') \in Nat /\ Cardinality(LeftBy(T)) \in Nat
      /\ Cardinality(S) \in Nat /\ Cardinality(T) \in Nat
  BY <1>1, <1>2, LeftFinite, FS_CardinalityType
<1>4. Within(T)
  BY DEF LimitInv
<1> QED
  BY <1>2, <1>3, <1>4, LimitFacts DEF Within

\* Requests that stay where they are leave no more when tokens are deactivated.
LEMMA ShrinkingWithin ==
  ASSUME TokensInv, LimitInv, Active' \subseteq Active,
         NEW S \in SUBSET Creating, \A q \in S : request'[q] = request[q]
  PROVE  Within(S)'
<1>1. S \in SUBSET Requests
  BY DEF Creating
<1>2. LeftBy(S)' \subseteq LeftBy(S)
  <2> SUFFICES ASSUME NEW i \in LeftBy(S)', NEW q \in S, i \in VictimsOf(request[q], Active)
               PROVE  FALSE
    BY DEF LeftBy
  <2>1. i \in Active' /\ i \notin VictimsOf(request'[q], Active')
    BY DEF LeftBy
  <2>2. i \in VictimsOf(request[q], Active')
    BY <1>1, <2>1, VictimsOfFewer
  <2> QED
    BY <2>1, <2>2
<1>3. Cardinality(S) <= Cardinality(S)
  BY <1>1, LeftFinite
<1> QED
  BY <1>1, <1>2, <1>3, LessLeft

\* A request that is not creating a token afterwards only leaves less.
LEMMA ShrinkingKeepsLimit ==
  ASSUME TokensInv, LimitInv, NEW r \in Requests, Active' \subseteq Active,
         \A q \in Requests \ {r} : request'[q] = request[q],
         request'[r].at \notin Limiting
  PROVE  LimitInv'
<1> SUFFICES ASSUME NEW S \in SUBSET Creating' PROVE Within(S)'
  BY DEF LimitInv
<1>1. \A q \in S : q \in Requests /\ request'[q] = request[q]
  BY DEF Creating
<1>2. S \in SUBSET Creating
  BY <1>1 DEF Creating
<1> QED
  BY <1>1, <1>2, ShrinkingWithin

\* Rows are deactivated or stay as they are.
LEMMA ActiveShrinks ==
  ASSUME TokensInv, UNCHANGED row \/ \E ids : DeactivateAll(ids)
  PROVE  Active' \subseteq Active
BY DEF TokensInv, TokenRows, Active, DeactivateAll

\* The count is taken: the request is to leave less than the limit.
LEMMA CountKeepsLimit ==
  ASSUME TokensInv, LimitInv, NEW r \in Requests, CountActive(r)
  PROVE  LimitInv'
<1> DEFINE n == Cardinality(Active)
           m == MAX_ACTIVE_TOKENS_PER_USER
           q == [request[r] EXCEPT !.count = n, !.at = IF n >= m THEN "oldest" ELSE "insert"]
<1>1. request' = [request EXCEPT ![r] = q] /\ Active' = Active
  BY RequestFacts DEF CountActive, RequestRecord, Active
<1>2. request'[r] = q /\ \A p \in Requests \ {r} : request'[p] = request[p]
  BY <1>1 DEF TokensInv
<1>3. q.count = n /\ q.at = IF n >= m THEN "oldest" ELSE "insert"
  BY RequestFacts DEF RequestRecord
<1>4. n \in Nat /\ m \in Nat \ {0}
  BY LimitFacts, FS_CardinalityType
<1> HIDE DEF q, n, m
<1>5. Active \ VictimsOf(q, Active) \in SUBSET Active
      /\ Cardinality(Active \ VictimsOf(q, Active)) <= m - 1
  <2>1. CASE n >= m
    <3>1. VictimsOf(q, Active) = OldestOf(Active, n - m + 1)
      BY <1>3, <2>1 DEF VictimsOf, Surplus, TooMany, m
    <3>2. Cardinality(Active \ OldestOf(Active, n - m + 1)) <= n - (n - m + 1)
      BY <1>4, LimitFacts, OldestOfSize DEF n
    <3> QED
      BY <1>4, <3>1, <3>2
  <2>2. CASE ~(n >= m)
    <3>1. Active \ VictimsOf(q, Active) = Active
      BY <1>3, <2>2 DEF VictimsOf
    <3> QED
      BY <1>4, <2>2, <3>1 DEF n
  <2> QED
    BY <2>1, <2>2
<1> SUFFICES ASSUME NEW S \in SUBSET Creating' PROVE Within(S)'
  BY DEF LimitInv
<1>6. CASE r \notin S
  <2>1. S \in SUBSET Creating /\ \A p \in S : request'[p] = request[p]
    BY <1>2, <1>6 DEF Creating
  <2> QED
    BY <1>1, <2>1, ShrinkingWithin
<1>7. CASE r \in S
  <2>1. LeftBy(S)' \in SUBSET (Active \ VictimsOf(q, Active))
    BY <1>1, <1>2, <1>7 DEF LeftBy
  <2>2. IsFiniteSet(Active \ VictimsOf(q, Active))
    BY <1>5, LimitFacts, FS_Subset
  <2>3. Cardinality(LeftBy(S)') <= Cardinality(Active \ VictimsOf(q, Active))
        /\ IsFiniteSet(LeftBy(S)')
    BY <2>1, <2>2, FS_Subset
  <2>4. Cardinality(LeftBy(S)') \in Nat /\ Cardinality(Active \ VictimsOf(q, Active)) \in Nat
    BY <2>2, <2>3, FS_CardinalityType
  <2>5. Cardinality(S) \in 0..Cardinality(Requests) /\ Cardinality(Requests) \in Nat
    BY LeftFinite, LimitFacts DEF Creating
  <2> QED
    BY <1>4, <1>5, <2>3, <2>4, <2>5 DEF Within, m
<1> QED
  BY <1>6, <1>7

\* The oldest are found: what was to be found becomes what was found.
LEMMA FindKeepsLimit ==
  ASSUME TokensInv, LimitInv, NEW r \in Requests, FindOldest(r)
  PROVE  LimitInv'
<1> DEFINE victims == Oldest(Surplus(request[r].count))
           q == [request[r] EXCEPT !.at = "evict", !.victims = victims]
<1>1. request' = [request EXCEPT ![r] = q] /\ request[r].at = "oldest" /\ Active' = Active
  BY RequestFacts DEF FindOldest, RequestRecord, Active
<1>2. request'[r] = q /\ \A p \in Requests \ {r} : request'[p] = request[p]
  BY <1>1 DEF TokensInv
<1>3. q.at = "evict" /\ q.victims = victims
  BY RequestFacts DEF RequestRecord
<1>4. victims = OldestOf(Active, Surplus(request[r].count))
  BY DEF Oldest, OldestOf
<1> HIDE DEF victims, q
<1>5. VictimsOf(q, Active) = VictimsOf(request[r], Active)
  BY <1>1, <1>3, <1>4 DEF VictimsOf
<1> SUFFICES ASSUME NEW S \in SUBSET Creating' PROVE Within(S)'
  BY DEF LimitInv
<1>6. S \in SUBSET Creating /\ S \in SUBSET Requests
  BY <1>1, <1>2 DEF Creating, Limiting
<1>7. LeftBy(S)' \subseteq LeftBy(S)
  BY <1>1, <1>2, <1>5, <1>6 DEF LeftBy
<1>8. Cardinality(S) <= Cardinality(S)
  BY <1>6, LeftFinite
<1> QED
  BY <1>6, <1>7, <1>8, LessLeft

\* The oldest are evicted: the others had to reckon with it.
LEMMA EvictionKeepsLimit ==
  ASSUME TokensInv, LimitInv, NEW r \in Requests, EvictOldest(r)
  PROVE  LimitInv'
<1> DEFINE q == [request[r] EXCEPT !.at = "insert", !.victims = {}]
<1>1. request' = [request EXCEPT ![r] = q] /\ request[r].at = "evict"
      /\ DeactivateAll(request[r].victims)
  BY RequestFacts DEF EvictOldest, RequestRecord
<1>2. \A p \in Requests \ {r} : request'[p] = request[p]
  BY <1>1 DEF TokensInv
<1>3. Active' \in SUBSET Active /\ Active' \cap request[r].victims = {}
  BY <1>1, ActiveShrinks DEF Active, DeactivateAll, TokensInv, TokenRows
<1>4. VictimsOf(request[r], Active) = request[r].victims
  BY <1>1 DEF VictimsOf
<1> HIDE DEF q
<1> SUFFICES ASSUME NEW S \in SUBSET Creating' PROVE Within(S)'
  BY DEF LimitInv
<1> DEFINE T == S \cup {r}
<1>5. S \in SUBSET Requests /\ T \in SUBSET Creating /\ T \in SUBSET Requests
  BY <1>1, <1>2 DEF Creating, Limiting
<1>6. LeftBy(S)' \subseteq LeftBy(T)
  <2> SUFFICES ASSUME NEW i \in LeftBy(S)', NEW p \in T, i \in VictimsOf(request[p], Active)
               PROVE  FALSE
    BY <1>3 DEF LeftBy
  <2>1. i \in Active' /\ p \in Requests
    BY <1>5 DEF LeftBy
  <2>2. CASE p = r
    BY <1>3, <1>4, <2>1, <2>2
  <2>3. CASE p # r
    <3>1. p \in S /\ request'[p] = request[p]
      BY <1>2, <2>1, <2>3
    <3>2. i \in VictimsOf(request[p], Active')
      BY <1>3, <2>1, VictimsOfFewer
    <3> QED
      BY <3>1, <3>2 DEF LeftBy
  <2> QED
    BY <2>2, <2>3
<1>7. Cardinality(S) <= Cardinality(T)
  BY <1>5, LeftFinite, FS_Subset
<1> QED
  BY <1>5, <1>6, <1>7, LessLeft

\* A token is inserted, and one request fewer is about to insert.
LEMMA InsertionKeepsLimit ==
  ASSUME TokensInv, LimitInv, NEW r \in Requests, InsertToken(r)
  PROVE  LimitInv'
<1>1. /\ request' = [request EXCEPT ![r] = Ready] /\ request[r].at = "insert"
      /\ NewToken \in Tokens /\ row' = [row EXCEPT ![NewToken] = "active"]
  BY DEF InsertToken, End
<1>2. request'[r] = Ready /\ \A p \in Requests \ {r} : request'[p] = request[p]
  BY <1>1 DEF TokensInv
<1>3. Active' = Active \cup {NewToken}
  BY <1>1 DEF Active, TokensInv, TokenRows
<1>4. NewToken \in Int /\ \A i \in Active : i < NewToken
  <2>1. Active \subseteq Issued /\ NewToken \notin Issued /\ Issued \cup {NewToken} = 1..NewToken
        /\ NewToken \in Nat
    BY NewTokenIsNew, RequestFacts DEF TokensInv
  <2> HIDE DEF NewToken
  <2>2. \A i \in Active : i \in 1..NewToken /\ i # NewToken
    BY <2>1
  <2> QED
    BY <2>1, <2>2
<1>5. \A p \in Requests : VictimsOf(request[p], Active) \subseteq VictimsOf(request[p], Active')
  BY <1>3, <1>4, LimitFacts, OldestOfMore DEF VictimsOf
<1> SUFFICES ASSUME NEW S \in SUBSET Creating' PROVE Within(S)'
  BY DEF LimitInv
<1> DEFINE T == S \cup {r}
<1>6. r \notin S /\ S \in SUBSET Requests /\ T \in SUBSET Creating /\ T \in SUBSET Requests
      /\ \A p \in S : request'[p] = request[p]
  BY <1>1, <1>2 DEF Creating, Limiting, Ready
<1>7. LeftBy(S)' \in SUBSET (LeftBy(T) \cup {NewToken})
  <2> SUFFICES ASSUME NEW i \in LeftBy(S)', i # NewToken PROVE i \in LeftBy(T)
    OBVIOUS
  <2>1. i \in Active /\ \A p \in S : i \notin VictimsOf(request'[p], Active')
    BY <1>3 DEF LeftBy
  <2>2. \A p \in S : i \notin VictimsOf(request[p], Active)
    BY <1>5, <1>6, <2>1
  <2>3. VictimsOf(request[r], Active) = {}
    BY <1>1 DEF VictimsOf
  <2> QED
    BY <2>1, <2>2, <2>3 DEF LeftBy
<1>8. Cardinality(T) = Cardinality(S) + 1
  BY <1>6, LeftFinite, FS_AddElement
<1>9. IsFiniteSet(LeftBy(T) \cup {NewToken})
      /\ Cardinality(LeftBy(T) \cup {NewToken}) <= Cardinality(LeftBy(T)) + 1
      /\ Cardinality(LeftBy(T)) \in Nat /\ Cardinality(S) \in Nat
  <2>1. IsFiniteSet(LeftBy(T)) /\ Cardinality(LeftBy(T)) \in Nat /\ Cardinality(S) \in Nat
    BY <1>6, LeftFinite
  <2>2. /\ IsFiniteSet(LeftBy(T) \cup {NewToken})
        /\ Cardinality(LeftBy(T) \cup {NewToken})
             = IF NewToken \in LeftBy(T) THEN Cardinality(LeftBy(T)) ELSE Cardinality(LeftBy(T)) + 1
    BY <2>1, FS_AddElement
  <2> QED
    BY <2>1, <2>2
<1>10. Cardinality(LeftBy(S)') <= Cardinality(LeftBy(T) \cup {NewToken})
       /\ Cardinality(LeftBy(S)') \in Nat /\ Cardinality(LeftBy(T) \cup {NewToken}) \in Nat
  BY <1>7, <1>9, FS_Subset, FS_CardinalityType
<1>11. Within(T)
  BY <1>6 DEF LimitInv
<1> HIDE DEF T
<1> QED
  BY <1>8, <1>9, <1>10, <1>11, LimitFacts DEF Within

\* All other steps create nothing and let a request go on, or end it.
LEMMA OthersKeepLimit ==
  ASSUME TokensInv, LimitInv, NEW r \in Requests,
         \/ Login(r) \/ DatabaseFails(r) \/ RevokeAllUserTokens(r)
         \/ \E i \in Tokens : FindRow(r, i) \/ Logout(r, i)
         \/ CheckBlacklist(r) \/ RevokeTokenFamily(r) \/ FindSiblings(r) \/ DeactivateSiblings(r)
         \/ AreAllUserTokensBlacklisted(r) \/ SpendToken(r) \/ DeactivateOld(r) \/ LogoutRow(r)
         \/ RevokeRows(r)
  PROVE  LimitInv'
<1> DEFINE quiet == {"ready", "blacklistCheck", "familyRevoke", "siblings", "deactivateSiblings",
                     "userCheck", "spend", "deactivateOld", "count", "logoutRow", "revokeRows"}
<1>1. Active' \subseteq Active
  BY ActiveShrinks DEF Login, DatabaseFails, RevokeAllUserTokens, FindRow, Logout, CheckBlacklist,
     RevokeTokenFamily, FindSiblings, DeactivateSiblings, AreAllUserTokensBlacklisted, SpendToken,
     DeactivateOld, LogoutRow, RevokeRows
<1>2. request \in [Requests -> RequestRecord]
  BY DEF TokensInv
<1>3. ASSUME NEW step \in quiet, Goto(r, step)
      PROVE  request'[r].at \in quiet /\ \A q \in Requests \ {r} : request'[q] = request[q]
  BY <1>2, <1>3 DEF Goto, RequestRecord
<1>4. ASSUME End(r)
      PROVE  request'[r].at \in quiet /\ \A q \in Requests \ {r} : request'[q] = request[q]
  BY <1>2, <1>4 DEF End, Ready
<1>5. ASSUME NEW i \in Tokens, FindRow(r, i)
      PROVE  request'[r].at \in quiet /\ \A q \in Requests \ {r} : request'[q] = request[q]
  BY <1>2, <1>5 DEF FindRow, Ready
<1>6. ASSUME NEW i \in Tokens, Logout(r, i)
      PROVE  request'[r].at \in quiet /\ \A q \in Requests \ {r} : request'[q] = request[q]
  BY <1>2, <1>6 DEF Logout, RequestRecord
<1>7. ASSUME FindSiblings(r)
      PROVE  request'[r].at \in quiet /\ \A q \in Requests \ {r} : request'[q] = request[q]
  BY <1>2, <1>7 DEF FindSiblings, RequestRecord
<1>8. request'[r].at \in quiet /\ \A q \in Requests \ {r} : request'[q] = request[q]
  BY <1>3, <1>4, <1>5, <1>6, <1>7
     DEF Login, DatabaseFails, RevokeAllUserTokens, CheckBlacklist, RevokeTokenFamily,
         DeactivateSiblings, AreAllUserTokensBlacklisted, SpendToken, DeactivateOld, LogoutRow,
         RevokeRows
<1>9. request'[r].at \notin Limiting
  BY <1>8 DEF Limiting
<1> QED
  BY <1>1, <1>8, <1>9, ShrinkingKeepsLimit

\* Every step keeps the bound for every set of requests.
LEMMA LimitStep ==
  ASSUME TokensInv, LimitInv, [TokensNext]_tokenVars
  PROVE  LimitInv'
<1>1. CASE UNCHANGED tokenVars
  BY <1>1 DEF tokenVars, LimitInv, Within, LeftBy, Creating, Active
<1>2. ASSUME NEW r \in Requests,
             \/ Login(r) \/ DatabaseFails(r) \/ RevokeAllUserTokens(r)
             \/ \E i \in Tokens : FindRow(r, i) \/ Logout(r, i)
             \/ TokenStep(r)
      PROVE  LimitInv'
  BY <1>2, CountKeepsLimit, FindKeepsLimit, EvictionKeepsLimit, InsertionKeepsLimit,
     OthersKeepLimit DEF TokenStep
<1> QED
  BY <1>1, <1>2 DEF TokensNext

(* However logins, rotations and revocations interleave, the active tokens    *)
(* exceed the limit by at most one per other request: two requests may count  *)
(* before each other's insert, but each then evicts for the count it took.    *)
THEOREM LimitNearlyKept == TokensSpec => []ActiveTokensBounded
<1>1. TokensInit => LimitInv
  <2> SUFFICES ASSUME TokensInit, NEW S \in SUBSET Creating PROVE Within(S)
    BY DEF LimitInv
  <2>1. S = {} /\ LeftBy(S) = {}
    BY DEF TokensInit, Creating, Limiting, Ready, LeftBy, Active
  <2>2. Cardinality(S) = 0 /\ Cardinality(LeftBy(S)) = 0
    BY <2>1, FS_EmptySet
  <2>3. MAX_ACTIVE_TOKENS_PER_USER \in Nat \ {0} /\ Cardinality(Requests) \in Nat
    BY TokensStart, LimitFacts
  <2> QED
    BY <2>2, <2>3 DEF Within
<1>2. TokensInv /\ LimitInv => ActiveTokensBounded
  <2> SUFFICES ASSUME TokensInv, LimitInv PROVE ActiveTokensBounded
    OBVIOUS
  <2>1. {} \in SUBSET Creating /\ LeftBy({}) = Active
    BY DEF LeftBy
  <2>2. Cardinality({}) = 0
    BY FS_EmptySet
  <2>3. Cardinality(Active) + 0 <= MAX_ACTIVE_TOKENS_PER_USER + Cardinality(Requests) - 1
    BY <2>1, <2>2 DEF LimitInv, Within
  <2> QED
    BY <2>3, LimitFacts, FS_CardinalityType DEF ActiveTokensBounded
<1>3. TokensInv /\ LimitInv /\ [TokensNext]_tokenVars => TokensInv' /\ LimitInv'
  BY TokensStep, LimitStep
<1> QED
  BY <1>1, <1>2, <1>3, TokensStart, PTL DEF TokensSpec

-----------------------------------------------------------------------------
(* Idempotency keys: how often a key may run. *)

HttpState == {NoRequest} \cup [at : {"handler", "flushing"}, hash : Payloads]
Handlers == {c \in Clients : http[c].at = "handler"}
Flushing == {c \in Clients : http[c].at = "flushing"}

\* The runs that can begin without another error: one if the key is free, and
\* one for each 'finish' event to come, unless the key holds a response.
Openings ==
  IF entry.kind = "cached" THEN 0
  ELSE Cardinality(Flushing) + (IF entry.kind = "none" THEN 1 ELSE 0)

KeyInv ==
  /\ entry.kind \in {"none", "inFlight", "cached"}
  /\ http \in [Clients -> HttpState]
  /\ performed \in Nat /\ failedRuns \in Nat
  /\ performed + Cardinality(Handlers) + Openings <= 1 + failedRuns * Cardinality(Clients)

LEMMA CountsAreNat ==
  ASSUME IsFiniteSet(Clients)
  PROVE  /\ Cardinality(Clients) \in Nat
         /\ IsFiniteSet(Handlers) /\ Cardinality(Handlers) \in Nat
         /\ IsFiniteSet(Flushing) /\ Cardinality(Flushing) \in Nat
<1>1. Handlers \subseteq Clients /\ Flushing \subseteq Clients
  BY DEF Handlers, Flushing
<1> QED
  BY <1>1, FS_Subset, FS_CardinalityType

\* One request moves from its step to another.
LEMMA RequestMoves ==
  ASSUME NEW c \in Clients, \A d \in Clients \ {c} : http'[d] = http[d]
  PROVE  /\ Handlers' = IF http'[c].at = "handler" THEN Handlers \cup {c} ELSE Handlers \ {c}
         /\ Flushing' = IF http'[c].at = "flushing" THEN Flushing \cup {c} ELSE Flushing \ {c}
BY DEF Handlers, Flushing

LEMMA Moved ==
  ASSUME IsFiniteSet(Clients), NEW c \in Clients, \A d \in Clients \ {c} : http'[d] = http[d]
  PROVE  /\ Cardinality(Handlers') = Cardinality(Handlers)
              + (IF http'[c].at = "handler" THEN 1 ELSE 0) - (IF http[c].at = "handler" THEN 1 ELSE 0)
         /\ Cardinality(Flushing') = Cardinality(Flushing)
              + (IF http'[c].at = "flushing" THEN 1 ELSE 0) - (IF http[c].at = "flushing" THEN 1 ELSE 0)
<1>1. c \in Handlers <=> http[c].at = "handler"
  BY DEF Handlers
<1>2. c \in Flushing <=> http[c].at = "flushing"
  BY DEF Flushing
<1>3. /\ Handlers' = IF http'[c].at = "handler" THEN Handlers \cup {c} ELSE Handlers \ {c}
      /\ Flushing' = IF http'[c].at = "flushing" THEN Flushing \cup {c} ELSE Flushing \ {c}
  BY RequestMoves
<1>4. ASSUME NEW S, IsFiniteSet(S)
      PROVE  /\ Cardinality(S \cup {c}) = Cardinality(S) + (IF c \in S THEN 0 ELSE 1)
             /\ Cardinality(S \ {c}) = Cardinality(S) - (IF c \in S THEN 1 ELSE 0)
  BY <1>4, FS_AddElement, FS_RemoveElement, FS_CardinalityType
<1>5. /\ IsFiniteSet(Handlers) /\ Cardinality(Handlers) \in Nat
      /\ IsFiniteSet(Flushing) /\ Cardinality(Flushing) \in Nat
  BY CountsAreNat
<1>6. Cardinality(Handlers') = Cardinality(Handlers)
        + (IF http'[c].at = "handler" THEN 1 ELSE 0) - (IF http[c].at = "handler" THEN 1 ELSE 0)
  <2>1. CASE http'[c].at = "handler"
    <3>1. Cardinality(Handlers') = Cardinality(Handlers) + (IF c \in Handlers THEN 0 ELSE 1)
      BY <1>3, <1>4, <1>5, <2>1
    <3> QED
      BY <1>1, <1>5, <2>1, <3>1
  <2>2. CASE http'[c].at # "handler"
    <3>1. Cardinality(Handlers') = Cardinality(Handlers) - (IF c \in Handlers THEN 1 ELSE 0)
      BY <1>3, <1>4, <1>5, <2>2
    <3> QED
      BY <1>1, <1>5, <2>2, <3>1
  <2> QED
    BY <2>1, <2>2
<1>7. Cardinality(Flushing') = Cardinality(Flushing)
        + (IF http'[c].at = "flushing" THEN 1 ELSE 0) - (IF http[c].at = "flushing" THEN 1 ELSE 0)
  <2>1. CASE http'[c].at = "flushing"
    <3>1. Cardinality(Flushing') = Cardinality(Flushing) + (IF c \in Flushing THEN 0 ELSE 1)
      BY <1>3, <1>4, <1>5, <2>1
    <3> QED
      BY <1>2, <1>5, <2>1, <3>1
  <2>2. CASE http'[c].at # "flushing"
    <3>1. Cardinality(Flushing') = Cardinality(Flushing) - (IF c \in Flushing THEN 1 ELSE 0)
      BY <1>3, <1>4, <1>5, <2>2
    <3> QED
      BY <1>2, <1>5, <2>2, <3>1
  <2> QED
    BY <2>1, <2>2
<1> QED
  BY <1>6, <1>7

\* A request that runs the handler is not being flushed.
LEMMA NotAllFlushing ==
  ASSUME IsFiniteSet(Clients), NEW c \in Clients, http[c].at # "flushing"
  PROVE  Cardinality(Flushing) + 1 <= Cardinality(Clients)
<1>1. Flushing \subseteq Clients \ {c}
  BY DEF Flushing
<1>2. Cardinality(Clients \ {c}) = Cardinality(Clients) - 1 /\ IsFiniteSet(Clients \ {c})
  BY FS_RemoveElement
<1>3. Cardinality(Flushing) <= Cardinality(Clients \ {c})
  BY <1>1, <1>2, FS_Subset
<1> QED
  BY <1>2, <1>3, CountsAreNat

LEMMA KeyStep ==
  ASSUME IsFiniteSet(Clients), KeyInv, [IdempotencyNext]_idempotencyVars
  PROVE  KeyInv'
<1> DEFINE N == Cardinality(Clients)
           H == Cardinality(Handlers)
           F == Cardinality(Flushing)
<1>1. /\ N \in Nat /\ H \in Nat /\ F \in Nat /\ performed \in Nat /\ failedRuns \in Nat
      /\ http \in [Clients -> HttpState]
      /\ failedRuns * N \in Nat /\ (failedRuns + 1) * N = failedRuns * N + N
  BY CountsAreNat DEF KeyInv
<1>2. NoRequest \in HttpState /\ NoRequest.at = "none"
  BY DEF NoRequest, HttpState
<1>3. ASSUME NEW c \in Clients, NEW p \in Payloads, Request(c, p) PROVE KeyInv'
  <2> DEFINE new == [at |-> "handler", hash |-> p]
  <2>1. new \in HttpState /\ new.at = "handler"
    BY DEF HttpState
  <2>2. http' = [http EXCEPT ![c] = new] /\ http[c].at = "none"
    BY <1>2, <1>3 DEF Request
  <2>3. /\ http' \in [Clients -> HttpState] /\ http'[c].at = "handler"
        /\ \A d \in Clients \ {c} : http'[d] = http[d]
    BY <1>1, <2>1, <2>2
  <2>4. H' = H + 1 /\ F' = F
    BY <1>1, <2>2, <2>3, Moved
  <2>5. entry.kind = "none" /\ entry'.kind = "inFlight"
    BY <1>3 DEF Request, RunsHandler, Miss, NoEntry, InFlight
  <2> QED
    BY <1>1, <1>3, <2>3, <2>4, <2>5 DEF KeyInv, Openings, Request
<1>4. ASSUME NEW c \in Clients, Respond(c) \/ RespondError(c) PROVE KeyInv'
  <2> DEFINE new == [http[c] EXCEPT !.at = "flushing"]
  <2>1. http[c] \in [at : {"handler", "flushing"}, hash : Payloads] /\ http[c].at = "handler"
    BY <1>1, <1>4 DEF Respond, RespondError, Handling, HttpState
  <2>2. new \in HttpState /\ new.at = "flushing"
    BY <2>1 DEF HttpState
  <2>3. http' = [http EXCEPT ![c] = new]
    BY <1>4 DEF Respond, RespondError
  <2>4. /\ http' \in [Clients -> HttpState] /\ http'[c].at = "flushing"
         /\ \A d \in Clients \ {c} : http'[d] = http[d]
    BY <1>1, <2>2, <2>3
  <2>5. H' = H - 1 /\ F' = F + 1
    BY <1>1, <2>1, <2>4, Moved
  <2>6. CASE Respond(c)
    <3>1. entry'.kind = "cached"
      BY <2>6 DEF Respond, Response
    <3> QED
      BY <1>1, <2>4, <2>5, <2>6, <3>1 DEF KeyInv, Openings, Respond
  <2>7. CASE RespondError(c)
    <3>1. entry'.kind = "none"
      BY <2>7 DEF RespondError, NoEntry
    <3>2. F + 1 <= N
      BY <2>1, NotAllFlushing
    <3> QED
      BY <1>1, <2>4, <2>5, <2>7, <3>1, <3>2 DEF KeyInv, Openings, RespondError
  <2> QED
    BY <1>4, <2>6, <2>7
<1>5. ASSUME NEW c \in Clients, Flushed(c) PROVE KeyInv'
  <2>1. http' = [http EXCEPT ![c] = NoRequest]
    BY <1>5 DEF Flushed
  <2>2. /\ http' \in [Clients -> HttpState] /\ http'[c].at = "none"
         /\ \A d \in Clients \ {c} : http'[d] = http[d]
    BY <1>1, <1>2, <2>1
  <2>3. /\ H' = H - (IF http[c].at = "handler" THEN 1 ELSE 0)
        /\ F' = F - (IF http[c].at = "flushing" THEN 1 ELSE 0)
    BY <1>1, <2>2, Moved
  <2>4. entry'.kind = IF entry.kind = "inFlight" THEN "none" ELSE entry.kind
    BY <1>5 DEF Flushed, NoEntry
  <2>5. CASE http[c].at = "handler"
    <3>1. failedRuns' = failedRuns + 1 /\ performed' = performed
      BY <1>2, <1>5, <2>5 DEF Flushed, Handling
    <3>2. F + 1 <= N
      BY <2>5, NotAllFlushing
    <3> QED
      BY <1>1, <2>2, <2>3, <2>4, <2>5, <3>1, <3>2 DEF KeyInv, Openings
  <2>6. CASE http[c].at = "flushing"
    <3>1. failedRuns' = failedRuns /\ performed' = performed
      BY <1>5, <2>6 DEF Flushed, Handling
    <3> QED
      BY <1>1, <2>2, <2>3, <2>4, <2>6, <3>1 DEF KeyInv, Openings
  <2> QED
    BY <1>1, <1>5, <2>5, <2>6 DEF Flushed, HttpState
<1>6. CASE DropEntry
  <2>1. H = 0 /\ F = 0
    <3>1. Handlers = {} /\ Flushing = {}
      BY <1>2, <1>6 DEF DropEntry, Handlers, Flushing
    <3> QED
      BY <3>1, FS_EmptySet
  <2>2. http' = http /\ Handlers' = Handlers /\ Flushing' = Flushing
    BY <1>6 DEF DropEntry, Handlers, Flushing
  <2>3. entry'.kind = "none"
    BY <1>6 DEF DropEntry, NoEntry
  <2>4. performed' = 0 /\ failedRuns' = 0
    BY <1>6 DEF DropEntry
  <2> QED
    BY <1>1, <2>1, <2>2, <2>3, <2>4 DEF KeyInv, Openings
<1>7. CASE UNCHANGED idempotencyVars
  BY <1>7 DEF KeyInv, Openings, Handlers, Flushing, idempotencyVars
<1> QED
  BY <1>3, <1>4, <1>5, <1>6, <1>7 DEF IdempotencyNext

(* A run without a response to replay frees its key for others; each lets in   *)
(* at most as many repetitions as there are requests in progress.  Without     *)
(* such a run the operation takes effect once.                                 *)
THEOREM RepeatedOnlyAfterErrors ==
  ASSUME IsFiniteSet(Clients)
  PROVE  IdempotencySpec => []TakesEffectOnce
<1>1. IdempotencyInit => KeyInv
  <2> SUFFICES ASSUME IdempotencyInit PROVE KeyInv
    OBVIOUS
  <2>1. \A c \in Clients : http[c].at = "none"
    BY DEF IdempotencyInit, NoRequest
  <2>2. Handlers = {} /\ Flushing = {}
    BY <2>1 DEF Handlers, Flushing
  <2>3. http \in [Clients -> HttpState] /\ entry.kind = "none"
    BY DEF IdempotencyInit, HttpState, NoEntry
  <2> QED
    BY <2>2, <2>3, FS_EmptySet, CountsAreNat DEF IdempotencyInit, KeyInv, Openings
<1>2. KeyInv => TakesEffectOnce
  BY CountsAreNat DEF KeyInv, Openings, TakesEffectOnce
<1> QED
  BY <1>1, <1>2, KeyStep, PTL DEF IdempotencySpec
-----------------------------------------------------------------------------
(* The circuit breaker: the failures a closed circuit has seen.              *)

BreakerInv == failures \in [Ages -> Nat] /\ ClosedBelowThreshold

\* The ages within the window.
LEMMA AgesFacts ==
  /\ windowSize \in Nat \ {0} /\ failureThreshold \in Nat \ {0}
  /\ IsFiniteSet(Ages) /\ 0 \in Ages /\ windowSize - 1 \in Ages
BY BreakerAssumption, FS_Interval DEF Ages

\* The number of recent failures is a natural.
LEMMA RecentIsNat ==
  ASSUME NEW f \in [Ages -> Nat] PROVE RecentFailures(f) \in Nat
BY AgesFacts, SumType DEF RecentFailures

\* As time passes the failures move up by one age and the oldest drop out.
LEMMA AgingForgets ==
  ASSUME NEW f \in [Ages -> Nat], NEW g \in [Ages -> Nat], g[0] = 0,
         \A a \in Ages \ {0} : g[a] = f[a - 1]
  PROVE  RecentFailures(g) <= RecentFailures(f)
<1> DEFINE last == windowSize - 1
           kept == Ages \ {last}
           next == [a \in kept |-> a + 1]
<1>1. IsFiniteSet(kept) /\ kept \in SUBSET Ages /\ IsFiniteSet(Ages \ {0})
      /\ 0 \in Ages /\ last \in Ages
  BY AgesFacts, FS_Subset
<1>2. \A a \in kept : next[a] = a + 1 /\ next[a] \in Ages \ {0} /\ g[next[a]] = f[a] /\ f[a] \in Nat
  BY AgesFacts DEF Ages
<1>3. \A a, b \in kept : next[a] = next[b] => a = b
  BY AgesFacts DEF Ages
<1>4. Ages \ {0} = {next[a] : a \in kept}
  <2>1. ASSUME NEW b \in Ages \ {0} PROVE \E a \in kept : b = next[a]
    <3>1. b - 1 \in kept /\ next[b - 1] = b
      BY AgesFacts DEF Ages
    <3> QED
      BY <3>1
  <2> HIDE DEF kept, next
  <2> QED
    BY <1>2, <2>1
<1> HIDE DEF next, kept
<1>5. SumFunctionOnSet(g, {next[a] : a \in kept}) = SumFunctionOnSet(f, kept)
  BY <1>1, <1>2, <1>3, SumImage
<1>6. SumFunctionOnSet(g, Ages) = SumFunctionOnSet(g, Ages \ {0}) + 0
  BY <1>1, AgesFacts, SumRemove
<1>7. SumFunctionOnSet(f, Ages) = SumFunctionOnSet(f, kept) + f[last]
  BY <1>1, AgesFacts, SumRemove DEF kept
<1>8. SumFunctionOnSet(f, kept) \in Nat /\ f[last] \in Nat
  BY <1>1, SumType
<1>9. SumFunctionOnSet(g, Ages) = SumFunctionOnSet(f, kept) + 0
  BY <1>4, <1>5, <1>6
<1> QED
  BY <1>7, <1>8, <1>9 DEF RecentFailures

\* No failures, no recent ones.
LEMMA NoneRecent == NoFailures \in [Ages -> Nat] /\ RecentFailures(NoFailures) = 0
<1>1. NoFailures \in [Ages -> Nat] /\ \A a \in Ages : NoFailures[a] = 0
  BY DEF NoFailures
<1> HIDE DEF NoFailures
<1> QED
  BY <1>1, AgesFacts, SumZero DEF RecentFailures

\* Time passes.
LEMMA AgingKeepsBreaker ==
  ASSUME BreakerInv, TimePasses PROVE BreakerInv'
<1>1. state' = state /\ failures \in [Ages -> Nat]
      /\ failures' = [a \in Ages |-> IF a = 0 THEN 0 ELSE failures[a - 1]]
  BY DEF TimePasses, BreakerInv
<1>2. failures'[0] = 0 /\ \A a \in Ages \ {0} : failures'[a] = failures[a - 1] /\ a - 1 \in Ages
  BY <1>1, AgesFacts DEF Ages
<1>3. failures' \in [Ages -> Nat]
  BY <1>1, <1>2
<1>4. RecentFailures(failures') <= RecentFailures(failures)
  BY <1>1, <1>2, <1>3, AgingForgets
<1>5. /\ RecentFailures(failures') \in Nat /\ RecentFailures(failures) \in Nat
      /\ failureThreshold \in Nat
  BY <1>1, <1>3, RecentIsNat, AgesFacts
<1> QED
  BY <1>1, <1>3, <1>4, <1>5 DEF BreakerInv, ClosedBelowThreshold

\* A failure is recorded: below the threshold the circuit may stay closed.
LEMMA FailureKeepsBreaker ==
  ASSUME BreakerInv, OnFailure PROVE BreakerInv'
<1> DEFINE recorded == [failures EXCEPT ![0] = @ + 1]
<1>1. failures \in [Ages -> Nat] /\ recorded \in [Ages -> Nat]
  BY AgesFacts DEF BreakerInv
<1>2. /\ failures' = recorded
      /\ \/ state' = "OPEN"
         \/ state' = state /\ ~TooManyFailures(recorded)
  BY DEF OnFailure, Open, KeepState
<1> HIDE DEF recorded
<1>3. RecentFailures(recorded) \in Nat /\ failureThreshold \in Nat
  BY <1>1, RecentIsNat, AgesFacts
<1> QED
  BY <1>1, <1>2, <1>3 DEF BreakerInv, ClosedBelowThreshold, TooManyFailures, ReachesThreshold

\* An answer closes the circuit on an empty window, or leaves the window alone.
LEMMA SuccessKeepsBreaker ==
  ASSUME BreakerInv,
         OnSuccess \/ Admit \/ UNCHANGED <<state, failures>>
  PROVE  BreakerInv'
<1>1. \/ UNCHANGED <<state, failures>>
      \/ state' = "HALF_OPEN" /\ UNCHANGED failures
      \/ state' = "CLOSED" /\ failures' = NoFailures
  BY DEF OnSuccess, Admit, Close, KeepState
<1>2. CASE UNCHANGED <<state, failures>> \/ (state' = "HALF_OPEN" /\ UNCHANGED failures)
  BY <1>2 DEF BreakerInv, ClosedBelowThreshold, RecentFailures
<1>3. CASE state' = "CLOSED" /\ failures' = NoFailures
  <2>1. failures' \in [Ages -> Nat] /\ RecentFailures(failures') = 0 /\ failureThreshold > 0
    BY <1>3, NoneRecent, AgesFacts
  <2> QED
    BY <2>1 DEF BreakerInv, ClosedBelowThreshold
<1> QED
  BY <1>1, <1>2, <1>3

\* Every step of time, of the dependency and of a caller.
LEMMA BreakerStep ==
  ASSUME BreakerInv, [BreakerNext]_breakerVars PROVE BreakerInv'
<1>1. ASSUME UNCHANGED breakerVars PROVE BreakerInv'
  BY <1>1, SuccessKeepsBreaker DEF breakerVars
<1>2. ASSUME HealthChanges PROVE BreakerInv'
  BY <1>2, SuccessKeepsBreaker DEF HealthChanges
<1>3. ASSUME NEW c \in Callers, CallerStep(c) PROVE BreakerInv'
  BY <1>3, SuccessKeepsBreaker, FailureKeepsBreaker
     DEF CallerStep, Execute, StartOperation, Retry, OperationSucceeds, OperationFails
<1> QED
  BY <1>1, <1>2, <1>3, AgingKeepsBreaker DEF BreakerNext

(* Whatever late answers, retries and probes do to it, and however many        *)
(* callers there are, a closed circuit has fewer failures in its window than   *)
(* the threshold: it opened with the failure that would have reached it, and   *)
(* closes again only on an empty window.                                       *)
THEOREM ClosedMeansBelow == BreakerSpec => []ClosedBelowThreshold
<1>1. BreakerInit => BreakerInv
  <2> SUFFICES ASSUME BreakerInit PROVE BreakerInv
    OBVIOUS
  <2>1. failures = NoFailures /\ failureThreshold > 0
    BY AgesFacts DEF BreakerInit
  <2> QED
    BY <2>1, NoneRecent DEF BreakerInv, ClosedBelowThreshold
<1>2. BreakerInv => ClosedBelowThreshold
  BY DEF BreakerInv
<1> QED
  BY <1>1, <1>2, BreakerStep, PTL DEF BreakerSpec
=============================================================================
