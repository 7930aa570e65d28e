----------------------------- MODULE MCIndexing -----------------------------
(***************************************************************************)
(* The two indexers, checked in one run: a behaviour belongs to the        *)
(* indexer of the API with the webhook rows and jobs it creates, or to the *)
(* cluster of stand-alone indexers, under that component's fairness.       *)
(***************************************************************************)
EXTENDS EventIndexer, IndexerCluster, TLC

CONSTANTS t1, t2, n1, n2

Emitted(type, amount) == [type |-> type, amount |-> amount]
MCHistories == {
  <<Emitted("esc_crt", 0), Emitted("funds_rel", 3), Emitted("dis_rai", 0)>>,
  <<Emitted("esc_crt", 0), Emitted("dis_rai", 0), Emitted("dis_res", 0)>>,
  <<Emitted("esc_crt", 0), Emitted("mil_add", 0), Emitted("mil_sub", 0)>> }
MCNodeOf == t1 :> n1 @@ t2 :> n2
MCKeys == {Main} \cup Ranges

VARIABLE part

allVars == <<part, allIndexerVars, allClusterVars>>

MCInit ==
  /\ part \in {"indexer", "cluster"}
  /\ IndexerInit /\ ClusterInit
  /\ part # "indexer" => history = CHOOSE h \in Histories : TRUE

OfIndexer(A) == A /\ part = "indexer" /\ UNCHANGED <<part, allClusterVars>>
OfCluster(A) == A /\ part = "cluster" /\ UNCHANGED <<part, allIndexerVars>>

MCNext ==
  \/ OfIndexer(IndexerNext)
  \/ OfCluster(ClusterNext)

\* IndexerFairness and ClusterFairness.
MCFairness ==
  /\ \A t \in Ticks : WF_allVars(OfIndexer(TickStep(t)))
  /\ \A e \in Events : WF_allVars(OfIndexer(Deliver(e)))
  /\ \A t \in RunningTicks : SF_allVars(OfCluster(ClusterStep(t)))
  /\ WF_allVars(OfCluster(Expire(Main) /\ UNCHANGED clusterVars))

MCSpec == MCInit /\ [][MCNext]_allVars /\ MCFairness
=============================================================================
