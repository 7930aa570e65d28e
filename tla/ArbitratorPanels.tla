-------------------------- MODULE ArbitratorPanels --------------------------
(***************************************************************************)
(* The panels of three arbitrators that governance selects for disputes:   *)
(* the least loaded of the registry, each with a window to accept, and a   *)
(* replacement for whoever declines or lets the window pass.               *)
(***************************************************************************)
EXTENDS ArbitratorStakes, SequencesExt

CONSTANTS
  Disputes,
  PANEL_SIZE,
  ACCEPT_WINDOW_SECS,
  MaxLoad            \* bound: assignments counted for one arbitrator

ASSUME PanelAssumption ==
  PANEL_SIZE \in Nat \ {0} /\ ACCEPT_WINDOW_SECS \in Nat /\ MaxLoad \in Nat

VARIABLES
  registry,   \* ArbKey::Registry, in order
  load,       \* ArbKey::Load of each arbitrator
  panel       \* the slots of ArbKey::Panel that are not Rotated: those are never read

panelVars == <<registry, load, panel>>
allPanelVars == <<stakeVars, panelVars>>

Slots == [arbitrator : Members, status : {"Pending", "Accepted"}, deadline : Nat]

PanelsTypeOK ==
  /\ registry \in Seq(Members) /\ IsInjective(registry)
  /\ load \in [Members -> 0..MaxLoad]
  /\ panel \in [Disputes -> SUBSET Slots]

PanelsInit ==
  /\ registry = <<>>
  /\ load = [m \in Members |-> 0]
  /\ panel = [d \in Disputes |-> {}]

\* Adding twice is a no-op.
RegistryAdd(m) ==
  /\ m \in whitelisted /\ m \notin ToSet(registry)
  /\ registry' = Append(registry, m)
  /\ UNCHANGED <<stakeVars, load, panel>>

\* The list holds nobody twice, so one entry goes.
RegistryRemove(m) ==
  /\ \E i \in DOMAIN registry : registry[i] = m /\ registry' = RemoveAt(registry, i)
  /\ UNCHANGED <<stakeVars, load, panel>>

NewSlot(m) == [arbitrator |-> m, status |-> "Pending", deadline |-> now + ACCEPT_WINDOW_SECS]

\* Nobody outside the selection has less load; equals are told apart by a seed.
LeastLoaded(S) ==
  /\ S \subseteq ToSet(registry) /\ Cardinality(S) = PANEL_SIZE
  /\ \A a \in S, b \in ToSet(registry) \ S : load[a] <= load[b]

\* Anybody may call, also for a dispute that has a panel: it is replaced, and
\* its members stay loaded.
SelectPanel(d, S) ==
  /\ LeastLoaded(S) /\ \A a \in S : load[a] < MaxLoad
  /\ panel' = [panel EXCEPT ![d] = {NewSlot(a) : a \in S}]
  /\ load' = [m \in Members |-> IF m \in S THEN load[m] + 1 ELSE load[m]]
  /\ UNCHANGED <<stakeVars, registry>>

AcceptArbitration(d, slot) ==
  /\ slot \in panel[d] /\ slot.status = "Pending" /\ now <= slot.deadline
  /\ panel' = [panel EXCEPT ![d] = (@ \ {slot}) \cup {[slot EXCEPT !.status = "Accepted"]}]
  /\ UNCHANGED <<stakeVars, registry, load>>

MembersOf(slots) == {s.arbitrator : s \in slots}
AcceptedOf(slots) == {s.arbitrator : s \in {t \in slots : t.status = "Accepted"}}
InPanel(slots) == MembersOf(slots)

\* The least loaded of the registry outside the panel, the first of equals.
IsReplacement(d, i) ==
  LET eligible == {j \in DOMAIN registry : registry[j] \notin InPanel(panel[d])}
  IN  /\ i \in eligible
      /\ \A j \in eligible :
           \/ load[registry[i]] < load[registry[j]]
           \/ load[registry[i]] = load[registry[j]] /\ i <= j

Decremented(n) == IF n > 0 THEN n - 1 ELSE 0
Reloaded(outgoing, new) == [load EXCEPT ![outgoing] = Decremented(@), ![new] = @ + 1]
ReloadedNoReplacement(outgoing, new) == [load EXCEPT ![outgoing] = Decremented(@)]
LoadAfterRotation(outgoing, new) == Reloaded(outgoing, new)

RotateSlot(d, slot) ==
  \E i \in DOMAIN registry :
    /\ IsReplacement(d, i) /\ load[registry[i]] < MaxLoad
    /\ load' = LoadAfterRotation(slot.arbitrator, registry[i])
    /\ panel' = [panel EXCEPT ![d] = (@ \ {slot}) \cup {NewSlot(registry[i])}]
    /\ UNCHANGED <<stakeVars, registry>>

\* A member may decline at any time before accepting, also after the deadline.
DeclineArbitration(d, slot) ==
  /\ slot \in panel[d] /\ slot.status = "Pending"
  /\ RotateSlot(d, slot)

RotateTimedOut(d, slot) ==
  /\ slot \in panel[d] /\ slot.status = "Pending" /\ now > slot.deadline
  /\ RotateSlot(d, slot)

PanelsNext ==
  \/ StakeStep /\ UNCHANGED panelVars
  \/ \E m \in Members : RegistryAdd(m) \/ RegistryRemove(m)
  \/ \E d \in Disputes, S \in kSubset(PANEL_SIZE, Members) : SelectPanel(d, S)
  \/ \E d \in Disputes : \E slot \in panel[d] :
       AcceptArbitration(d, slot) \/ DeclineArbitration(d, slot) \/ RotateTimedOut(d, slot)

PanelsSpec == StakesInit /\ PanelsInit /\ [][PanelsNext]_allPanelVars

-----------------------------------------------------------------------------
(* Properties. *)

(* However slots are declined, accepted and timed out, and whoever joins or   *)
(* leaves the registry meanwhile, a panel has PANEL_SIZE different members:   *)
(* "Guarantees no duplicate arbitrators in the same panel."                   *)
PanelComplete ==
  \A d \in Disputes : panel[d] # {} =>
    Cardinality(panel[d]) = PANEL_SIZE /\ Cardinality(MembersOf(panel[d])) = PANEL_SIZE

(* The counter that balances the assignments never misses one: an arbitrator  *)
(* in n panels has at least load n.  (It may have more: a panel that is       *)
(* selected again leaves its old members loaded, and nothing ends a panel.)   *)
LoadCoversPanels ==
  \A m \in Members :
    load[m] >= Cardinality({d \in Disputes : m \in MembersOf(panel[d])})
=============================================================================
