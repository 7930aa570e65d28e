------------------------------ MODULE MCEscrow ------------------------------
(* Small instances of the escrow contract for TLC. *)
EXTENDS EscrowClaims

CONSTANTS alice, bob, arb, admin, keeper

MCAccounts == {alice, bob, arb, admin, keeper}

MCFeeTiers == <<[min |-> 0, bps |-> 200], [min |-> 1000, bps |-> 150]>>
NoFees == <<>>

BaseTerms == [client |-> alice, freelancer |-> bob, arbiter |-> arb, buyer_signers |-> {},
              total_amount |-> 100, deadline |-> None, lock_time |-> None,
              timelock |-> None, dispute_timeout_ledger |-> 1]

PaymentTerms == {
  [BaseTerms EXCEPT !.deadline = 1, !.timelock = 2],
  [BaseTerms EXCEPT !.lock_time = 2, !.arbiter = None] }
PlainTerms == {BaseTerms}
DisputeTerms == {BaseTerms, [BaseTerms EXCEPT !.dispute_timeout_ledger = None,
                                              !.total_amount = 51]}
Shares == {-10, 0, 51}
OneNewClient == {keeper}

TwoAmounts == {<<30, 60>>}
OneHalf == {<<50>>}
DistinctIds == {<<1>>, <<1, 2>>, <<2, 1>>}

Signed == {[client_bps |-> 2500, expires_at |-> 7]}
NoPayload == {}
=============================================================================
