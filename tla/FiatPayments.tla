---------------------------- MODULE FiatPayments ----------------------------
(***************************************************************************)
(* One card payment: the checkout that creates a Stripe session and then   *)
(* the Payment row, Stripe's events about it, and refunds.  Stripe is      *)
(* external: it delivers every event at least once and in any order, until *)
(* the webhook answers 2xx.  The process may crash between a Stripe call   *)
(* and the database write that records it.                                 *)
(***************************************************************************)
EXTENDS Integers

CONSTANTS
  Refunders,     \* refund requests that may be in progress at once
  MaxRepeats,    \* bound: deliveries beyond the first of an event
  MaxPayCrashes  \* bound: crashes of the process

ASSUME FiatAssumption == MaxRepeats \in Nat /\ MaxPayCrashes \in Nat

VARIABLES
  checkout,    \* the checkout request
  session,     \* Stripe's session
  charge,      \* Stripe's charge: none, paid or refunded
  payment,     \* the Payment row: status, and which Stripe ids it holds
  mail,        \* Stripe events still to be delivered
  refunding,   \* step of each refund request
  repeats, payCrashes

fiatVars == <<checkout, session, charge, payment, mail, refunding, repeats, payCrashes>>

EventTypes == {"session.completed", "session.expired", "payment_failed", "charge.refunded"}
NoRow == [status |-> "none", hasIntent |-> FALSE, hasRefund |-> FALSE]

FiatTypeOK ==
  /\ checkout \in {"started", "sessionMade", "answered", "dead"}
  /\ session \in {"none", "open", "complete", "expired"}
  /\ charge \in {"none", "paid", "refunded"}
  /\ payment \in [status : {"none", "Pending", "Completed", "Failed", "Refunded"},
                  hasIntent : BOOLEAN, hasRefund : BOOLEAN]
  /\ mail \subseteq EventTypes
  /\ refunding \in [Refunders -> {"idle", "checked", "refunded"}]
  /\ repeats \in 0..MaxRepeats /\ payCrashes \in 0..MaxPayCrashes

FiatInit ==
  /\ checkout = "started" /\ session = "none" /\ charge = "none"
  /\ payment = NoRow
  /\ mail = {}
  /\ refunding = [r \in Refunders |-> "idle"]
  /\ repeats = 0 /\ payCrashes = 0

-----------------------------------------------------------------------------
(* createCheckoutSession *)

CreateSession ==
  /\ checkout = "started"
  /\ checkout' = "sessionMade" /\ session' = "open"
  /\ UNCHANGED <<charge, payment, mail, refunding, repeats, payCrashes>>

CreatePayment ==
  /\ checkout = "sessionMade"
  /\ checkout' = "answered"
  /\ payment' = [NoRow EXCEPT !.status = "Pending"]
  /\ UNCHANGED <<session, charge, mail, refunding, repeats, payCrashes>>

-----------------------------------------------------------------------------
(* Stripe.  The payer needs the session's url, which the answer carries.     *)

Pay ==
  /\ session = "open" /\ checkout = "answered"
  /\ session' = "complete" /\ charge' = "paid"
  /\ mail' = mail \cup {"session.completed"}
  /\ UNCHANGED <<checkout, payment, refunding, repeats, payCrashes>>

Decline ==
  /\ session = "open" /\ checkout = "answered"
  /\ mail' = mail \cup {"payment_failed"}
  /\ UNCHANGED <<checkout, session, charge, payment, refunding, repeats, payCrashes>>

SessionExpires ==
  /\ session = "open"
  /\ session' = "expired"
  /\ mail' = mail \cup {"session.expired"}
  /\ UNCHANGED <<checkout, charge, payment, refunding, repeats, payCrashes>>

-----------------------------------------------------------------------------
(* handleWebhook: updateMany on the rows an event matches, whatever their     *)
(* status; an event that matches none is acknowledged all the same.          *)

RowExists == payment.status # "none"
MatchesSession == RowExists
MatchesIntent == payment.hasIntent
CompletionMatches == MatchesSession

Matches(e) ==
  CASE e = "session.completed" -> CompletionMatches
    [] e = "session.expired"   -> MatchesSession
    [] e = "payment_failed"    -> MatchesIntent
    [] e = "charge.refunded"   -> payment.hasRefund

HandleWebhook(e) ==
  payment' =
    IF ~Matches(e) THEN payment
    ELSE CASE e = "session.completed" -> [payment EXCEPT !.status = "Completed", !.hasIntent = TRUE]
           [] e = "charge.refunded"   -> [payment EXCEPT !.status = "Refunded"]
           [] OTHER                   -> [payment EXCEPT !.status = "Failed"]

DeliverOnce(e) ==
  /\ e \in mail
  /\ HandleWebhook(e)
  /\ mail' = mail \ {e}
  /\ UNCHANGED <<checkout, session, charge, refunding, repeats, payCrashes>>

\* The answer is lost: Stripe will deliver the event again.
DeliverAndRepeat(e) ==
  /\ e \in mail /\ repeats < MaxRepeats
  /\ HandleWebhook(e)
  /\ repeats' = repeats + 1
  /\ UNCHANGED <<checkout, session, charge, mail, refunding, payCrashes>>

-----------------------------------------------------------------------------
(* refund: check the row, refund at Stripe, record it.                       *)

CheckRefundable(r) ==
  /\ refunding[r] = "idle" /\ payment.status = "Completed"
  /\ refunding' = [refunding EXCEPT ![r] = "checked"]
  /\ UNCHANGED <<checkout, session, charge, payment, mail, repeats, payCrashes>>

\* Stripe refuses to refund a charge twice: the request ends with its error.
RefundAtStripe(r) ==
  /\ refunding[r] = "checked"
  /\ IF charge = "paid"
     THEN /\ charge' = "refunded" /\ mail' = mail \cup {"charge.refunded"}
          /\ refunding' = [refunding EXCEPT ![r] = "refunded"]
     ELSE /\ refunding' = [refunding EXCEPT ![r] = "idle"] /\ UNCHANGED <<charge, mail>>
  /\ UNCHANGED <<checkout, session, payment, repeats, payCrashes>>

StripeAgreed(r) == refunding[r] = "refunded"
StripeAsked(r) == refunding[r] \in {"checked", "refunded"}
Recordable(r) == StripeAgreed(r)

RecordRefund(r) ==
  /\ Recordable(r)
  /\ payment' = [payment EXCEPT !.status = "Refunded", !.hasRefund = TRUE]
  /\ refunding' = [refunding EXCEPT ![r] = "idle"]
  /\ UNCHANGED <<checkout, session, charge, mail, repeats, payCrashes>>

\* The requests in progress die; Stripe and the row keep what was done.
PaymentCrash ==
  /\ payCrashes < MaxPayCrashes
  /\ payCrashes' = payCrashes + 1
  /\ checkout' = IF checkout \in {"started", "sessionMade"} THEN "dead" ELSE checkout
  /\ refunding' = [r \in Refunders |-> "idle"]
  /\ UNCHANGED <<session, charge, payment, mail, repeats>>

FiatNext ==
  \/ CreateSession
  \/ CreatePayment
  \/ Pay
  \/ Decline
  \/ SessionExpires
  \/ PaymentCrash
  \/ \E e \in EventTypes : DeliverOnce(e) \/ DeliverAndRepeat(e)
  \/ \E r \in Refunders : CheckRefundable(r) \/ RefundAtStripe(r) \/ RecordRefund(r)

\* Stripe retries an event until it is acknowledged.
FiatFairness == \A e \in EventTypes : WF_fiatVars(DeliverOnce(e))

FiatSpec == FiatInit /\ [][FiatNext]_fiatVars /\ FiatFairness

-----------------------------------------------------------------------------
(* Properties. *)

(* The row says "Refunded" only when the money has gone back: neither two     *)
(* refund requests nor repeated and late events record a refund Stripe did    *)
(* not make.                                                                  *)
RefundedAtStripe == payment.status = "Refunded" => charge = "refunded"

(* A payment Stripe has taken does not stay pending, whatever is lost or      *)
(* crashes: the session's row exists before the payer can reach the session. *)
PaidIsRecorded == charge = "paid" ~> payment.status # "Pending"
=============================================================================
