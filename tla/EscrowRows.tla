----------------------------- MODULE EscrowRows -----------------------------
(***************************************************************************)
(* The database transactions of the escrow service on the row of one       *)
(* escrow and on its dispute, with the expiry job that cancels an active   *)
(* escrow after its deadline.  Each transaction reads the row, decides,    *)
(* and writes; it names its isolation level.  Under Serializable, a        *)
(* transaction whose row was changed since it read it fails; under Read    *)
(* Committed, the default, it writes what it computed from the old row.    *)
(***************************************************************************)
EXTENDS Integers

CONSTANTS
  Transactions,   \* transactions in progress at once
  TOTAL_AMOUNT,
  Amounts,        \* amounts of milestone releases and of settlements
  MAX_RETRIES,
  MaxVersions     \* bound: writes to the escrow row

ASSUME RowsAssumption ==
  /\ TOTAL_AMOUNT \in Nat \ {0} /\ Amounts \subseteq 0..TOTAL_AMOUNT
  /\ MAX_RETRIES \in Nat /\ MaxVersions \in Nat

VARIABLES
  escrow,      \* status, remainingBalance and a version for its writes
  dispute,     \* the Dispute row: none, open or resolved
  payout,      \* clientAmount + freelancerAmount of the resolved dispute
  overdue,     \* the deadline has passed
  tx           \* per transaction: operation, step, the row it read, retries

rowVars == <<escrow, dispute, payout, overdue, tx>>

Idle == [op |-> "none", at |-> "idle", amount |-> 0, status |-> "none", balance |-> 0,
         version |-> 0, late |-> FALSE, retries |-> 0]
Ops == {"release", "raise", "resolve", "expire"}

RowsTypeOK ==
  /\ escrow \in [status : {"none", "Active", "Disputed", "Completed", "Cancelled"},
                 balance : 0..TOTAL_AMOUNT, version : 0..MaxVersions]
  /\ dispute \in {"none", "open", "resolved"}
  /\ payout \in 0..2 * TOTAL_AMOUNT /\ overdue \in BOOLEAN
  /\ \A t \in Transactions : /\ tx[t].at \in {"idle", "begun", "read"}
                             /\ tx[t].op \in Ops \cup {"none"}
                             /\ tx[t].retries \in 0..MAX_RETRIES

RowsInit ==
  /\ escrow = [status |-> "none", balance |-> 0, version |-> 0]
  /\ dispute = "none" /\ payout = 0 /\ overdue = FALSE
  /\ tx = [t \in Transactions |-> Idle]

Write(status, balance) ==
  escrow' = [status |-> status, balance |-> balance, version |-> escrow.version + 1]

FundEscrow ==
  /\ escrow.status = "none"
  /\ Write("Active", TOTAL_AMOUNT)
  /\ UNCHANGED <<dispute, payout, overdue, tx>>

DeadlinePasses ==
  /\ ~overdue /\ overdue' = TRUE
  /\ UNCHANGED <<escrow, dispute, payout, tx>>

\* A request arrives.
Call(t, op, amount) ==
  /\ tx[t].at = "idle" /\ escrow.status # "none"
  /\ op \in {"release", "raise", "resolve"}
  /\ tx' = [tx EXCEPT ![t] = [Idle EXCEPT !.op = op, !.at = "begun", !.amount = amount]]
  /\ UNCHANGED <<escrow, dispute, payout, overdue>>

\* processExpiredEscrows: what this query finds is read again in the transaction.
Expired == escrow.status = "Active" /\ overdue
FindExpired(t) ==
  /\ tx[t].at = "idle" /\ Expired
  /\ tx' = [tx EXCEPT ![t] = [Idle EXCEPT !.op = "expire", !.at = "begun"]]
  /\ UNCHANGED <<escrow, dispute, payout, overdue>>

ReadRow(t) ==
  /\ tx[t].at = "begun"
  /\ tx' = [tx EXCEPT ![t].at = "read", ![t].status = escrow.status, ![t].balance = escrow.balance,
                      ![t].version = escrow.version, ![t].late = overdue]
  /\ UNCHANGED <<escrow, dispute, payout, overdue>>

\* What each operation demands of the row it has read.
Allowed(t) ==
  CASE tx[t].op = "release" -> tx[t].status = "Active" /\ tx[t].amount <= tx[t].balance
    [] tx[t].op = "raise"   -> tx[t].status = "Active"
    [] tx[t].op = "resolve" -> tx[t].status = "Disputed" /\ tx[t].amount = tx[t].balance
    [] tx[t].op = "expire"  -> tx[t].status = "Active" /\ tx[t].late

Refuse(t) ==
  /\ tx[t].at = "read" /\ ~Allowed(t)
  /\ tx' = [tx EXCEPT ![t] = Idle]
  /\ UNCHANGED <<escrow, dispute, payout, overdue>>

Isolation(t) == IF tx[t].op = "release" THEN "ReadCommitted" ELSE "Serializable"
DefaultIsolation(t) == "ReadCommitted"
IsolationLevel(t) == Isolation(t)

Conflict(t) == IsolationLevel(t) = "Serializable" /\ escrow.version # tx[t].version
Commits(t, op) == tx[t].at = "read" /\ tx[t].op = op /\ Allowed(t) /\ ~Conflict(t)
                  /\ escrow.version < MaxVersions
Done(t) == tx' = [tx EXCEPT ![t] = Idle]

\* The status is written with the balance only when nothing is left.
ReleaseMilestone(t) ==
  /\ Commits(t, "release")
  /\ LET left == tx[t].balance - tx[t].amount IN
       Write(IF left = 0 THEN "Completed" ELSE escrow.status, left)
  /\ Done(t)
  /\ UNCHANGED <<dispute, payout, overdue>>

\* The Dispute row is unique per escrow: a second insert fails.
RaiseDispute(t) ==
  /\ Commits(t, "raise") /\ dispute = "none"
  /\ Write("Disputed", escrow.balance)
  /\ dispute' = "open"
  /\ Done(t)
  /\ UNCHANGED <<payout, overdue>>

ResolveDispute(t) ==
  /\ Commits(t, "resolve")
  /\ Write("Completed", 0)
  /\ dispute' = "resolved" /\ payout' = tx[t].amount
  /\ Done(t)
  /\ UNCHANGED overdue

ExpireEscrow(t) ==
  /\ Commits(t, "expire")
  /\ Write("Cancelled", escrow.balance)
  /\ Done(t)
  /\ UNCHANGED <<dispute, payout, overdue>>

\* withRetry: a serialization failure or a deadlock starts the transaction
\* again while it has retries, any other error ends it.
Fails(t) ==
  /\ tx[t].at = "read"
  /\ \/ /\ tx[t].retries < MAX_RETRIES
        /\ tx' = [tx EXCEPT ![t].at = "begun", ![t].retries = @ + 1]
     \/ Done(t)
  /\ UNCHANGED <<escrow, dispute, payout, overdue>>

RowsNext ==
  \/ FundEscrow
  \/ DeadlinePasses
  \/ \E t \in Transactions :
       \/ \E op \in Ops, amount \in Amounts : Call(t, op, amount)
       \/ FindExpired(t)
       \/ ReadRow(t)
       \/ Refuse(t)
       \/ ReleaseMilestone(t)
       \/ RaiseDispute(t)
       \/ ResolveDispute(t)
       \/ ExpireEscrow(t)
       \/ Fails(t)

RowsSpec == RowsInit /\ [][RowsNext]_rowVars

-----------------------------------------------------------------------------
(* Properties. *)

(* A settlement splits exactly the balance of the row it ends: a milestone    *)
(* released between the reading of the balance and the commit makes it fail. *)
SettlesExactly ==
  [][dispute # "resolved" /\ dispute' = "resolved" => payout' = escrow.balance]_rowVars

(* The expiry job never cancels an escrow under dispute, although its query,  *)
(* its transaction and the dispute's transaction interleave.                  *)
ExpiredNeverDisputed == escrow.status = "Cancelled" => dispute = "none"
=============================================================================
