----------------------------- MODULE MCServices -----------------------------
(***************************************************************************)
(* Four components of the API without common state, checked in one run: a  *)
(* behaviour belongs to one of them, chosen at the start, under that       *)
(* component's fairness.                                                   *)
(***************************************************************************)
EXTENDS CircuitBreaker, ResponseCache, FiatPayments, WebhookDelivery

VARIABLE part

allVars == <<part, breakerVars, cacheVars, fiatVars, webhookVars>>

MCInit ==
  /\ part \in {"breaker", "cache", "fiat", "webhooks"}
  /\ BreakerInit /\ CacheInit /\ FiatInit /\ WebhookInit
  /\ part # "cache" => redisReady

OfBreaker(A) == A /\ part = "breaker" /\ UNCHANGED <<part, cacheVars, fiatVars, webhookVars>>
OfCache(A) == A /\ part = "cache" /\ UNCHANGED <<part, breakerVars, fiatVars, webhookVars>>
OfFiat(A) == A /\ part = "fiat" /\ UNCHANGED <<part, breakerVars, cacheVars, webhookVars>>
OfWebhooks(A) == A /\ part = "webhooks" /\ UNCHANGED <<part, breakerVars, cacheVars, fiatVars>>

MCNext ==
  \/ OfBreaker(BreakerNext)
  \/ OfCache(CacheNext)
  \/ OfFiat(FiatNext)
  \/ OfWebhooks(WebhookNext)

\* BreakerFairness, CacheFairness, FiatFairness and WebhookFairness.
MCFairness ==
  /\ WF_allVars(OfBreaker(TimePasses))
  /\ \A c \in Callers : SF_allVars(OfBreaker(CallerStep(c)))
  /\ \A r \in Readers : WF_allVars(OfCache(ReaderStep(r)))
  /\ \A w \in Writers : WF_allVars(OfCache(WriterStep(w)))
  /\ \A b \in Backends : WF_allVars(OfCache(ExpireEntry(b)))
  /\ \A e \in EventTypes : WF_allVars(OfFiat(DeliverOnce(e)))
  /\ \A e \in Events : WF_allVars(OfWebhooks(ApiWebhookStep(e)))
                       /\ WF_allVars(OfWebhooks(WorkerStep(e)))

MCSpec == MCInit /\ [][MCNext]_allVars /\ MCFairness
=============================================================================
