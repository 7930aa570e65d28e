-------------------------- MODULE GovernanceProofs --------------------------
(***************************************************************************)
(* The governance contract and the insurance contract proved safe for any  *)
(* number of holders, proposals, disputes and stakers: the deposits of     *)
(* proposals, the panels, the account that holds deposits, locks and       *)
(* stakes, and the pool and the yield of the insurance stakers.            *)
(***************************************************************************)
EXTENDS GovernanceProposals, ArbitratorPanels, InsuranceFund, SumTheorems, FunctionTheorems

-----------------------------------------------------------------------------
(* Deposits. *)

DepositsInv ==
  /\ DOMAIN proposal = Proposals /\ DOMAIN deposit = Proposals
  /\ \A p \in Proposals : "status" \in DOMAIN proposal[p]
  /\ DepositWhileActive

LEMMA DepositsInit ==
  ASSUME ProposalsInit PROVE DepositsInv
  BY DEF ProposalsInit, DepositsInv, DepositWhileActive, NoProposal

\* Only the status and the deposit matter; every other action keeps them.
LEMMA DepositsSame ==
  ASSUME DepositsInv, UNCHANGED <<proposal, deposit>> PROVE DepositsInv'
  BY DEF DepositsInv, DepositWhileActive

LEMMA CreateKeepsDeposits ==
  ASSUME DepositsInv, NEW p \in Proposals, NEW v \in Voters, NEW a \in Allocations,
         NEW s \in Supplies, CreateProposal(p, v, a, s)
  PROVE  DepositsInv'
<1>1. PROPOSER_FEE > 0
  BY FeeAssumption
<1>2. /\ DOMAIN proposal' = Proposals /\ DOMAIN deposit' = Proposals
      /\ \A q \in Proposals : "status" \in DOMAIN proposal'[q]
      /\ proposal'[p].status = "Active" /\ deposit'[p] = PROPOSER_FEE
      /\ \A q \in Proposals \ {p} : proposal'[q] = proposal[q] /\ deposit'[q] = deposit[q]
  BY DEF DepositsInv, CreateProposal, NoProposal
<1> QED
  BY <1>1, <1>2 DEF DepositsInv, DepositWhileActive

\* A vote leaves every status as it is.
LEMMA VoteKeepsDeposits ==
  ASSUME DepositsInv, NEW p \in Proposals, NEW v \in Voters, NEW support \in BOOLEAN,
         CastVote(p, v, support)
  PROVE  DepositsInv'
<1>1. /\ DOMAIN proposal' = Proposals /\ deposit' = deposit
      /\ \A q \in Proposals : "status" \in DOMAIN proposal'[q]
      /\ \A q \in Proposals : proposal'[q].status = proposal[q].status
  BY DEF DepositsInv, CastVote
<1> QED
  BY <1>1 DEF DepositsInv, DepositWhileActive

\* Whoever gets the deposit, the status that goes with it is not Active.
LEMMA SettlementKeepsDeposits ==
  ASSUME DepositsInv, NEW p \in Proposals, NEW to, PayDeposit(p, to), NEW st, st # "Active",
         proposal' = [proposal EXCEPT ![p].status = st]
  PROVE  DepositsInv'
<1>1. /\ DOMAIN proposal' = Proposals /\ DOMAIN deposit' = Proposals
      /\ \A q \in Proposals : "status" \in DOMAIN proposal'[q]
      /\ proposal'[p].status = st /\ deposit'[p] = 0
      /\ \A q \in Proposals \ {p} : proposal'[q] = proposal[q] /\ deposit'[q] = deposit[q]
  BY DEF DepositsInv, PayDeposit, SettleEntry, DepositRemoved
<1> QED
  BY <1>1 DEF DepositsInv, DepositWhileActive

LEMMA ExecutionKeepsDeposits ==
  ASSUME DepositsInv, NEW p \in Proposals, ExecuteProposal(p)
  PROVE  DepositsInv'
<1>1. /\ DOMAIN proposal' = Proposals /\ deposit' = deposit
      /\ \A q \in Proposals : "status" \in DOMAIN proposal'[q]
      /\ proposal[p].status = "Queued" /\ proposal'[p].status = "Executed"
      /\ \A q \in Proposals \ {p} : proposal'[q] = proposal[q]
  BY DEF DepositsInv, ExecuteProposal
<1> QED
  BY <1>1 DEF DepositsInv, DepositWhileActive

LEMMA DepositsStep ==
  ASSUME DepositsInv, [ProposalsNext]_allProposalVars PROVE DepositsInv'
<1>1. CASE UNCHANGED allProposalVars
  BY <1>1, DepositsSame DEF allProposalVars, proposalVars
<1>2. CASE StakeStep /\ UNCHANGED proposalVars
  BY <1>2, DepositsSame DEF proposalVars
<1>3. ASSUME NEW p \in Proposals, NEW v \in Voters, NEW a \in Allocations, NEW s \in Supplies,
             CreateProposal(p, v, a, s)
      PROVE  DepositsInv'
  BY <1>3, CreateKeepsDeposits
<1>4. ASSUME NEW p \in Proposals, NEW v \in Voters, NEW support \in BOOLEAN, CastVote(p, v, support)
      PROVE  DepositsInv'
  BY <1>4, VoteKeepsDeposits
<1>5. ASSUME NEW p \in Proposals, NEW v \in Voters, CancelProposal(p, v)
      PROVE  DepositsInv'
  BY <1>5, SettlementKeepsDeposits DEF CancelProposal
<1>6. ASSUME NEW p \in Proposals, FinalizeProposal(p)
      PROVE  DepositsInv'
  <2> DEFINE st == IF Evaluate(p) THEN "Queued" ELSE "Defeated"
             to == IF TotalVotes(p) >= (proposal[p].supply * FEE_DEPOSIT_QUORUM_BPS) \div 10000
                   THEN proposal[p].proposer ELSE Treasury
  <2>1. proposal' = [proposal EXCEPT ![p].status = st] /\ PayDeposit(p, to)
    BY <1>6 DEF FinalizeProposal
  <2>2. st # "Active"
    OBVIOUS
  <2> HIDE DEF st, to
  <2> QED
    BY <2>1, <2>2, SettlementKeepsDeposits
<1>7. ASSUME NEW p \in Proposals, ExecuteProposal(p)
      PROVE  DepositsInv'
  BY <1>7, ExecutionKeepsDeposits
<1>8. ASSUME UNCHANGED <<proposal, deposit>>
      PROVE  DepositsInv'
  BY <1>8, DepositsSame
<1>9. ASSUME NEW new \in Configs, UpdateConfig(new)
      PROVE  DepositsInv'
  BY <1>8, <1>9 DEF UpdateConfig
<1>10. ASSUME NEW v \in Voters, NEW amount, NEW t, CreateLock(v, amount, t) \/ ExtendLock(v, amount, t)
       PROVE  DepositsInv'
  BY <1>8, <1>10 DEF CreateLock, ExtendLock
<1>11. ASSUME NEW v \in Voters, WithdrawLock(v)
       PROVE  DepositsInv'
  BY <1>8, <1>11 DEF WithdrawLock
<1>12. ASSUME NEW from \in Voters, NEW to \in Voters, MoveTokens(from, to)
       PROVE  DepositsInv'
  BY <1>8, <1>12 DEF MoveTokens, proposalVars
<1> QED
  BY <1>1, <1>2, <1>3, <1>4, <1>5, <1>6, <1>7, <1>9, <1>10, <1>11, <1>12 DEF ProposalsNext

(* However finalisation and cancellation follow one another, a deposit is     *)
(* held exactly while its proposal is open: it is returned or forfeited once. *)
THEOREM DepositsReturnOnce == ProposalsSpec => []DepositWhileActive
<1>1. StakesInit /\ ProposalsInit => DepositsInv
  BY DepositsInit
<1>2. DepositsInv /\ [ProposalsNext]_allProposalVars => DepositsInv'
  BY DepositsStep
<1>3. DepositsInv => DepositWhileActive
  BY DEF DepositsInv
<1> QED
  BY <1>1, <1>2, <1>3, PTL DEF ProposalsSpec

-----------------------------------------------------------------------------
(* Panels.                                                                  *)

\* One slot for each member.
OneSlotEach(slots) == \A s, t \in slots : s.arbitrator = t.arbitrator => s = t

\* A panel by its members only.
PanelOf(slots) ==
  /\ OneSlotEach(slots) /\ MembersOf(slots) \subseteq Members
  /\ slots # {} => IsFiniteSet(MembersOf(slots)) /\ Cardinality(MembersOf(slots)) = PANEL_SIZE

PanelsOf(m) == {d \in Disputes : m \in MembersOf(panel[d])}

PanelsInv ==
  /\ registry \in Seq(Members) /\ load \in [Members -> Nat]
  /\ DOMAIN panel = Disputes /\ \A d \in Disputes : PanelOf(panel[d])
  /\ LoadCoversPanels

LEMMA SlotsAreMembers ==
  ASSUME NEW slots, OneSlotEach(slots), IsFiniteSet(MembersOf(slots))
  PROVE  IsFiniteSet(slots) /\ Cardinality(slots) = Cardinality(MembersOf(slots))
<1> DEFINE f == [s \in slots |-> s.arbitrator]
<1>1. f \in Injection(slots, MembersOf(slots))
  BY DEF OneSlotEach, MembersOf, Injection, IsInjective
<1>2. f \in Surjection(slots, MembersOf(slots))
  BY DEF MembersOf, Surjection
<1> QED
  BY <1>1, <1>2, FS_Injection

LEMMA PanelsComplete ==
  ASSUME PanelsInv PROVE PanelComplete
<1> SUFFICES ASSUME NEW d \in Disputes, panel[d] # {}
             PROVE  /\ Cardinality(panel[d]) = PANEL_SIZE
                    /\ Cardinality(MembersOf(panel[d])) = PANEL_SIZE
  BY DEF PanelComplete
<1> QED
  BY SlotsAreMembers DEF PanelsInv, PanelOf

LEMMA PanelsStart ==
  ASSUME PanelsInit, IsFiniteSet(Disputes) PROVE PanelsInv
<1>1. \A d \in Disputes : PanelOf(panel[d]) /\ MembersOf(panel[d]) = {}
  BY DEF PanelsInit, PanelOf, OneSlotEach, MembersOf
<1>2. \A m \in Members : PanelsOf(m) = {} /\ load[m] = 0
  BY <1>1 DEF PanelsInit, PanelsOf
<1>3. LoadCoversPanels
  BY <1>2, FS_EmptySet DEF LoadCoversPanels, PanelsOf
<1>4. registry \in Seq(Members) /\ load \in [Members -> Nat] /\ DOMAIN panel = Disputes
  BY DEF PanelsInit
<1> QED
  BY <1>1, <1>3, <1>4 DEF PanelsInv

\* What does not touch panels and loads keeps the invariant.
LEMMA PanelsSame ==
  ASSUME PanelsInv, registry' \in Seq(Members), UNCHANGED <<load, panel>>
  PROVE  PanelsInv'
  BY DEF PanelsInv, LoadCoversPanels

LEMMA RegistryIsFinite ==
  ASSUME PanelsInv PROVE IsFiniteSet(ToSet(registry)) /\ ToSet(registry) \subseteq Members
<1>1. Len(registry) \in Nat /\ registry \in [1..Len(registry) -> Members]
  BY DEF PanelsInv
<1>2. registry \in Surjection(1..Len(registry), ToSet(registry))
  BY <1>1 DEF ToSet, Surjection
<1>3. IsFiniteSet(1..Len(registry))
  BY <1>1, FS_Interval
<1>4. IsFiniteSet(ToSet(registry))
  BY <1>2, <1>3, FS_Surjection
<1>5. ToSet(registry) \subseteq Members
  BY <1>1 DEF ToSet
<1> QED
  BY <1>4, <1>5

\* The members of a panel of new slots.
LEMMA SelectedPanel ==
  ASSUME NEW S, S \subseteq Members, IsFiniteSet(S), Cardinality(S) = PANEL_SIZE
  PROVE  PanelOf({NewSlot(a) : a \in S}) /\ MembersOf({NewSlot(a) : a \in S}) = S
<1>1. \A a \in S : NewSlot(a).arbitrator = a
  BY DEF NewSlot
<1>2. MembersOf({NewSlot(a) : a \in S}) = S
  BY <1>1 DEF MembersOf
<1>3. OneSlotEach({NewSlot(a) : a \in S})
  BY <1>1 DEF OneSlotEach
<1> QED
  BY <1>2, <1>3 DEF PanelOf

LEMMA SelectKeepsPanels ==
  ASSUME PanelsInv, IsFiniteSet(Disputes), NEW d \in Disputes, NEW S, SelectPanel(d, S)
  PROVE  PanelsInv'
<1>1. S \subseteq Members /\ IsFiniteSet(S) /\ Cardinality(S) = PANEL_SIZE
  BY RegistryIsFinite, FS_Subset DEF SelectPanel, LeastLoaded
<1>2. /\ DOMAIN panel' = Disputes /\ panel'[d] = {NewSlot(a) : a \in S}
      /\ \A e \in Disputes \ {d} : panel'[e] = panel[e]
  BY DEF PanelsInv, SelectPanel
<1>3. PanelOf(panel'[d]) /\ MembersOf(panel'[d]) = S
  BY <1>1, <1>2, SelectedPanel
<1>4. \A m \in Members : load'[m] = IF m \in S THEN load[m] + 1 ELSE load[m]
  BY DEF SelectPanel
<1>5. load' \in [Members -> Nat]
  BY DEF PanelsInv, SelectPanel
<1>6. ASSUME NEW m \in Members
      PROVE  load'[m] >= Cardinality(PanelsOf(m)')
  <2>1. IsFiniteSet(PanelsOf(m)) /\ load[m] >= Cardinality(PanelsOf(m)) /\ load[m] \in Nat
    BY FS_Subset DEF PanelsInv, LoadCoversPanels, PanelsOf
  <2>2. Cardinality(PanelsOf(m)) \in Nat
    BY <2>1, FS_CardinalityType
  <2>3. CASE m \in S
    <3>1. PanelsOf(m)' \subseteq PanelsOf(m) \cup {d}
      BY <1>2 DEF PanelsOf
    <3>2. IsFiniteSet(PanelsOf(m) \cup {d})
          /\ Cardinality(PanelsOf(m) \cup {d}) =
               IF d \in PanelsOf(m) THEN Cardinality(PanelsOf(m)) ELSE Cardinality(PanelsOf(m)) + 1
      BY <2>1, FS_AddElement
    <3>3. IsFiniteSet(PanelsOf(m)') /\ Cardinality(PanelsOf(m)') <= Cardinality(PanelsOf(m) \cup {d})
      BY <3>1, <3>2, FS_Subset
    <3>4. Cardinality(PanelsOf(m)') \in Nat /\ Cardinality(PanelsOf(m) \cup {d}) \in Nat
      BY <3>2, <3>3, FS_CardinalityType
    <3> QED
      BY <1>4, <2>1, <2>2, <2>3, <3>2, <3>3, <3>4
  <2>4. CASE m \notin S
    <3>1. PanelsOf(m)' \subseteq PanelsOf(m)
      BY <1>2, <1>3, <2>4 DEF PanelsOf
    <3>2. IsFiniteSet(PanelsOf(m)') /\ Cardinality(PanelsOf(m)') <= Cardinality(PanelsOf(m))
      BY <2>1, <3>1, FS_Subset
    <3>3. Cardinality(PanelsOf(m)') \in Nat
      BY <3>2, FS_CardinalityType
    <3> QED
      BY <1>4, <2>1, <2>2, <2>4, <3>2, <3>3
  <2> QED
    BY <2>3, <2>4
<1>7. registry' \in Seq(Members)
  BY DEF PanelsInv, SelectPanel
<1>8. \A e \in Disputes : PanelOf(panel'[e])
  BY <1>2, <1>3 DEF PanelsInv
<1> QED
  BY <1>2, <1>5, <1>6, <1>7, <1>8 DEF PanelsInv, LoadCoversPanels, PanelsOf

\* Accepting changes a slot, not who sits in the panel.
LEMMA AcceptKeepsPanels ==
  ASSUME PanelsInv, NEW d \in Disputes, NEW slot \in panel[d], AcceptArbitration(d, slot)
  PROVE  PanelsInv'
<1> DEFINE accepted == [slot EXCEPT !.status = "Accepted"]
<1>1. /\ DOMAIN panel' = Disputes /\ panel'[d] = (panel[d] \ {slot}) \cup {accepted}
      /\ \A e \in Disputes \ {d} : panel'[e] = panel[e]
  BY DEF PanelsInv, AcceptArbitration
<1>2. accepted.arbitrator = slot.arbitrator
  OBVIOUS
<1>3. OneSlotEach(panel[d]) /\ PanelOf(panel[d])
  BY DEF PanelsInv, PanelOf
<1>4. MembersOf(panel'[d]) = MembersOf(panel[d])
  BY <1>1, <1>2 DEF MembersOf
<1>5. OneSlotEach(panel'[d])
  BY <1>1, <1>2, <1>3 DEF OneSlotEach
<1>6. PanelOf(panel'[d])
  BY <1>3, <1>4, <1>5 DEF PanelOf, MembersOf
<1>7. \A m \in Members : PanelsOf(m)' = PanelsOf(m)
  BY <1>1, <1>4 DEF PanelsOf
<1>8. registry' \in Seq(Members) /\ load' = load
  BY DEF PanelsInv, AcceptArbitration
<1> QED
  BY <1>1, <1>6, <1>7, <1>8 DEF PanelsInv, LoadCoversPanels, PanelsOf

\* The members after a slot was given to somebody new.
LEMMA RotatedPanel ==
  ASSUME NEW slots, PanelOf(slots), NEW slot \in slots, NEW new \in Members,
         new \notin MembersOf(slots)
  PROVE  /\ PanelOf((slots \ {slot}) \cup {NewSlot(new)})
         /\ MembersOf((slots \ {slot}) \cup {NewSlot(new)})
              = (MembersOf(slots) \ {slot.arbitrator}) \cup {new}
<1> DEFINE after == (slots \ {slot}) \cup {NewSlot(new)}
           rest == MembersOf(slots) \ {slot.arbitrator}
<1>1. NewSlot(new).arbitrator = new
  BY DEF NewSlot
<1>2. OneSlotEach(slots) /\ slot.arbitrator \in MembersOf(slots)
  BY DEF PanelOf, MembersOf
<1>3. MembersOf(after) = rest \cup {new}
  BY <1>1, <1>2 DEF MembersOf, OneSlotEach
<1>4. OneSlotEach(after)
  BY <1>1, <1>2 DEF MembersOf, OneSlotEach
<1>5. IsFiniteSet(MembersOf(slots)) /\ Cardinality(MembersOf(slots)) = PANEL_SIZE
  BY DEF PanelOf
<1>6. IsFiniteSet(rest) /\ Cardinality(rest) = PANEL_SIZE - 1
  BY <1>2, <1>5, FS_RemoveElement
<1>7. IsFiniteSet(rest \cup {new}) /\ Cardinality(rest \cup {new}) = Cardinality(rest) + 1
  BY <1>6, FS_AddElement
<1>8. PANEL_SIZE \in Nat
  BY PanelAssumption
<1>9. IsFiniteSet(MembersOf(after)) /\ Cardinality(MembersOf(after)) = PANEL_SIZE
  BY <1>3, <1>6, <1>7, <1>8
<1>10. MembersOf(after) \subseteq Members
  BY <1>3 DEF PanelOf
<1> QED
  BY <1>3, <1>4, <1>9, <1>10 DEF PanelOf

LEMMA RotationKeepsPanels ==
  ASSUME PanelsInv, IsFiniteSet(Disputes), NEW d \in Disputes, NEW slot \in panel[d],
         RotateSlot(d, slot)
  PROVE  PanelsInv'
<1>1. PICK i \in DOMAIN registry :
        /\ registry[i] \notin MembersOf(panel[d])
        /\ load' = Reloaded(slot.arbitrator, registry[i])
        /\ panel' = [panel EXCEPT ![d] = (@ \ {slot}) \cup {NewSlot(registry[i])}]
        /\ UNCHANGED registry
  BY DEF RotateSlot, IsReplacement, InPanel, LoadAfterRotation, panelVars
<1> DEFINE out == slot.arbitrator
           new == registry[i]
<1>2. new \in Members
  BY <1>1 DEF PanelsInv
<1>3. PanelOf(panel[d]) /\ out \in MembersOf(panel[d]) /\ out \in Members
  BY DEF PanelsInv, PanelOf, MembersOf
<1>4. /\ DOMAIN panel' = Disputes
      /\ panel'[d] = (panel[d] \ {slot}) \cup {NewSlot(new)}
      /\ \A e \in Disputes \ {d} : panel'[e] = panel[e]
  BY <1>1 DEF PanelsInv
<1>5. PanelOf(panel'[d]) /\ MembersOf(panel'[d]) = (MembersOf(panel[d]) \ {out}) \cup {new}
  BY <1>1, <1>2, <1>3, <1>4, RotatedPanel
<1>6. out # new
  BY <1>1, <1>3
<1>7. /\ load' \in [Members -> Nat]
      /\ load'[out] = Decremented(load[out]) /\ load'[new] = load[new] + 1
      /\ \A m \in Members \ {out, new} : load'[m] = load[m]
  BY <1>1, <1>2, <1>3, <1>6 DEF PanelsInv, Reloaded, Decremented
<1>8. ASSUME NEW m \in Members
      PROVE  load'[m] >= Cardinality(PanelsOf(m)')
  <2>1. IsFiniteSet(PanelsOf(m)) /\ load[m] >= Cardinality(PanelsOf(m)) /\ load[m] \in Nat
    BY FS_Subset DEF PanelsInv, LoadCoversPanels, PanelsOf
  <2>2. Cardinality(PanelsOf(m)) \in Nat
    BY <2>1, FS_CardinalityType
  <2>3. CASE m = new
    <3>1. PanelsOf(m)' = PanelsOf(m) \cup {d} /\ d \notin PanelsOf(m)
      BY <1>1, <1>4, <1>5, <2>3 DEF PanelsOf
    <3>2. Cardinality(PanelsOf(m)') = Cardinality(PanelsOf(m)) + 1
      BY <2>1, <3>1, FS_AddElement
    <3> QED
      BY <1>7, <2>1, <2>2, <2>3, <3>2
  <2>4. CASE m = out
    <3>1. PanelsOf(m)' = PanelsOf(m) \ {d} /\ d \in PanelsOf(m)
      BY <1>3, <1>4, <1>5, <1>6, <2>4 DEF PanelsOf
    <3>2. Cardinality(PanelsOf(m)') = Cardinality(PanelsOf(m)) - 1
      BY <2>1, <3>1, FS_RemoveElement
    <3>3. Cardinality(PanelsOf(m)) # 0
      BY <2>1, <3>1, FS_EmptySet
    <3> QED
      BY <1>7, <2>1, <2>2, <2>4, <3>2, <3>3 DEF Decremented
  <2>5. CASE m \notin {out, new}
    <3>1. PanelsOf(m)' = PanelsOf(m)
      BY <1>4, <1>5, <2>5 DEF PanelsOf
    <3> QED
      BY <1>7, <2>1, <2>5, <3>1
  <2> QED
    BY <2>3, <2>4, <2>5
<1>9. \A e \in Disputes : PanelOf(panel'[e])
  BY <1>4, <1>5 DEF PanelsInv
<1> QED
  BY <1>1, <1>4, <1>7, <1>8, <1>9 DEF PanelsInv, LoadCoversPanels, PanelsOf

LEMMA RegistryKeepsPanels ==
  ASSUME PanelsInv, NEW m \in Members, RegistryAdd(m) \/ RegistryRemove(m)
  PROVE  PanelsInv'
<1>1. UNCHANGED <<load, panel>>
  BY DEF RegistryAdd, RegistryRemove
<1>2. CASE RegistryAdd(m)
  BY <1>1, <1>2, PanelsSame DEF RegistryAdd, PanelsInv
<1>3. CASE RegistryRemove(m)
  <2>1. registry' \in Seq(Members)
    <3>1. PICK i \in 1..Len(registry) : registry' = RemoveAt(registry, i)
      BY <1>3 DEF RegistryRemove, PanelsInv
    <3>2. SubSeq(registry, 1, i - 1) \in Seq(Members)
          /\ SubSeq(registry, i + 1, Len(registry)) \in Seq(Members)
      BY <3>1 DEF PanelsInv
    <3> QED
      BY <3>1, <3>2 DEF RemoveAt
  <2> QED
    BY <1>1, <2>1, PanelsSame
<1> QED
  BY <1>2, <1>3

LEMMA PanelsStep ==
  ASSUME PanelsInv, IsFiniteSet(Disputes), [PanelsNext]_allPanelVars PROVE PanelsInv'
<1>1. ASSUME UNCHANGED panelVars
      PROVE  PanelsInv'
  BY <1>1, PanelsSame DEF panelVars, PanelsInv
<1>2. ASSUME NEW m \in Members, RegistryAdd(m) \/ RegistryRemove(m)
      PROVE  PanelsInv'
  BY <1>2, RegistryKeepsPanels
<1>3. ASSUME NEW d \in Disputes, NEW S, SelectPanel(d, S)
      PROVE  PanelsInv'
  BY <1>3, SelectKeepsPanels
<1>4. ASSUME NEW d \in Disputes, NEW slot \in panel[d],
             AcceptArbitration(d, slot) \/ DeclineArbitration(d, slot) \/ RotateTimedOut(d, slot)
      PROVE  PanelsInv'
  BY <1>4, AcceptKeepsPanels, RotationKeepsPanels DEF DeclineArbitration, RotateTimedOut
<1> QED
  BY <1>1, <1>2, <1>3, <1>4 DEF PanelsNext, allPanelVars

(* Any number of disputes, arbitrators, refusals and time-outs: a panel keeps *)
(* PANEL_SIZE different members.                                              *)
THEOREM PanelsStayComplete ==
  ASSUME IsFiniteSet(Disputes)
  PROVE  PanelsSpec => []PanelComplete
<1>1. StakesInit /\ PanelsInit => PanelsInv
  BY PanelsStart
<1>2. PanelsInv /\ [PanelsNext]_allPanelVars => PanelsInv'
  BY PanelsStep
<1>3. PanelsInv => PanelComplete
  BY PanelsComplete
<1> QED
  BY <1>1, <1>2, <1>3, PTL DEF PanelsSpec

(* No rotation and no second selection loses an assignment of the counter     *)
(* that the next selection balances by.                                       *)
THEOREM LoadsNeverTooLow ==
  ASSUME IsFiniteSet(Disputes)
  PROVE  PanelsSpec => []LoadCoversPanels
<1>1. StakesInit /\ PanelsInit => PanelsInv
  BY PanelsStart
<1>2. PanelsInv /\ [PanelsNext]_allPanelVars => PanelsInv'
  BY PanelsStep
<1>3. PanelsInv => LoadCoversPanels
  BY DEF PanelsInv
<1> QED
  BY <1>1, <1>2, <1>3, PTL DEF PanelsSpec

-----------------------------------------------------------------------------
(* Custody: the types of the part about proposals. *)

ProposalRecords ==
  [status : {"none", "Active", "Defeated", "Queued", "Executed", "Cancelled"},
   proposer : Members, allocation : Nat, vote_start : Nat, vote_end : Nat, executable_at : Nat,
   votes_for : Nat, votes_against : Nat, supply : Nat]
LockRecords == [amount : Nat, unlock_time : Nat]

ProposalsTyped ==
  /\ config \in Configs /\ proposal \in [Proposals -> ProposalRecords]
  /\ hasVoted \in [Proposals -> SUBSET Voters]
  /\ deposit \in [Proposals -> {0, PROPOSER_FEE}] /\ lock \in [Voters -> LockRecords]

TypesInv == StakesTypeOK /\ ProposalsTyped

\* The initial state is well typed.
LEMMA TypesStart ==
  ASSUME StakesInit, ProposalsInit PROVE TypesInv
<1>1. StakesTypeOK
  <2>1. PICK w \in [Members -> Balances] : wallet = [a \in Accounts |-> IF a \in Members THEN w[a] ELSE 0]
    BY DEF StakesInit
  <2>2. wallet \in [Accounts -> Nat]
    BY <2>1, StakeAssumption
  <2> QED
    BY <2>2, StakeAssumption DEF StakesInit, StakesTypeOK
<1>2. ProposalsTyped
  <2>1. NoProposal \in ProposalRecords
    BY ProposalAssumption DEF NoProposal, ProposalRecords
  <2>2. NoLock \in LockRecords
    BY DEF NoLock, LockRecords
  <2> QED
    BY <2>1, <2>2 DEF ProposalsInit, ProposalsTyped
<1> QED
  BY <1>1, <1>2 DEF TypesInv

\* A transfer between two accounts: what each holds afterwards.
LEMMA TransferKeepsTypes ==
  ASSUME wallet \in [Accounts -> Nat], NEW from \in Accounts, NEW to \in Accounts,
         NEW amount \in Nat, from # to, Transfer(from, to, amount)
  PROVE  /\ wallet' \in [Accounts -> Nat]
         /\ wallet'[from] = wallet[from] - amount /\ wallet'[to] = wallet[to] + amount
         /\ \A a \in Accounts \ {from, to} : wallet'[a] = wallet[a]
<1>1. wallet[from] \in Nat /\ wallet[to] \in Nat /\ wallet[from] >= amount
  BY DEF Transfer
<1>2. wallet' = [wallet EXCEPT ![from] = @ - amount, ![to] = @ + amount]
  BY DEF Transfer
<1> QED
  BY <1>1, <1>2

\* Into the contract.
LEMMA TransferIn ==
  ASSUME wallet \in [Accounts -> Nat], NEW m \in Members, NEW amount \in Nat,
         Transfer(m, Governance, amount)
  PROVE  wallet' \in [Accounts -> Nat] /\ wallet'[Governance] = wallet[Governance] + amount
<1>1. m # Governance /\ m \in Accounts /\ Governance \in Accounts
  BY AccountAssumption DEF Accounts
<1> QED
  BY <1>1, TransferKeepsTypes

\* Out of the contract.
LEMMA TransferOut ==
  ASSUME wallet \in [Accounts -> Nat], NEW to \in Members \cup {Treasury}, NEW amount \in Nat,
         Transfer(Governance, to, amount)
  PROVE  wallet' \in [Accounts -> Nat] /\ wallet'[Governance] = wallet[Governance] - amount
<1>1. to # Governance /\ to \in Accounts /\ Governance \in Accounts
  BY AccountAssumption DEF Accounts, Governance, Treasury
<1> QED
  BY <1>1, TransferKeepsTypes

\* A slash takes at most the stake.
LEMMA SlashBound ==
  ASSUME NEW s \in Nat, NEW x, x = (s * SLASH_PERCENT) \div 100
  PROVE  x \in Nat /\ x <= s
<1>1. SLASH_PERCENT \in 0..100
  BY StakeAssumption
<1>2. s * SLASH_PERCENT \in Nat /\ s * SLASH_PERCENT <= 100 * s
  BY <1>1
<1> DEFINE y == s * SLASH_PERCENT
<1>3. y \in Nat /\ y <= 100 * s /\ x = y \div 100
  BY <1>2
<1> HIDE DEF y
<1> QED
  BY <1>3

-----------------------------------------------------------------------------
(* What the contract owes. *)

Locked == [v \in Voters |-> lock[v].amount]

\* The contract holds at least what it owes.
Covered == wallet[Governance] >= Owed
NothingExecuted == \A p \in Proposals : proposal[p].status = "Executed" => proposal[p].allocation = 0

CustodyInv == TypesInv /\ (NothingExecuted => Covered)

\* Voters are members, hence finitely many.
LEMMA VotersFinite == IsFiniteSet(Voters)
  BY ProposalAssumption, MembersAssumption, FS_Subset

\* The three sums are naturals.
LEMMA OwedTypes ==
  ASSUME TypesInv
  PROVE  /\ Owed = SumFunctionOnSet(deposit, Proposals) + SumFunctionOnSet(Locked, Voters)
                     + SumFunctionOnSet(stake, Members)
         /\ SumFunctionOnSet(deposit, Proposals) \in Nat
         /\ SumFunctionOnSet(Locked, Voters) \in Nat /\ SumFunctionOnSet(stake, Members) \in Nat
         /\ \A p \in Proposals : deposit[p] \in Nat
         /\ \A v \in Voters : Locked[v] \in Nat /\ Locked[v] = lock[v].amount
         /\ \A m \in Members : stake[m] \in Nat
<1>1. \A p \in Proposals : deposit[p] \in Nat
  BY FeeAssumption DEF TypesInv, ProposalsTyped
<1>2. \A v \in Voters : Locked[v] \in Nat /\ Locked[v] = lock[v].amount
  BY DEF TypesInv, ProposalsTyped, LockRecords, Locked
<1>3. \A m \in Members : stake[m] \in Nat
  BY DEF TypesInv, StakesTypeOK
<1>4. /\ SumFunctionOnSet(deposit, Proposals) \in Nat
      /\ SumFunctionOnSet(Locked, Voters) \in Nat /\ SumFunctionOnSet(stake, Members) \in Nat
  BY <1>1, <1>2, <1>3, SumType, FiniteAssumption, VotersFinite, MembersAssumption
<1> QED
  BY <1>1, <1>2, <1>3, <1>4 DEF Owed, Locked

\* One deposit, one lock and one stake change the debt by as much.
LEMMA OwedDeposit ==
  ASSUME TypesInv, TypesInv', NEW p \in Proposals, NEW d, deposit' = [deposit EXCEPT ![p] = d],
         UNCHANGED <<lock, stake>>
  PROVE  Owed' = Owed + d - deposit[p]
<1>1. \A q \in Proposals : deposit[q] \in Nat /\ deposit'[q] \in Nat
  BY OwedTypes, FeeAssumption DEF TypesInv, ProposalsTyped
<1>2. deposit'[p] = d /\ \A q \in Proposals \ {p} : deposit'[q] = deposit[q]
  BY DEF TypesInv, ProposalsTyped
<1>3. SumFunctionOnSet(deposit', Proposals) = SumFunctionOnSet(deposit, Proposals) + deposit'[p] - deposit[p]
  <2> DEFINE f == deposit
             g == deposit'
  <2>1. /\ \A q \in Proposals : f[q] \in Nat /\ g[q] \in Nat
        /\ \A q \in Proposals \ {p} : g[q] = f[q]
    BY <1>1, <1>2
  <2> HIDE DEF f, g
  <2>2. SumFunctionOnSet(g, Proposals) = SumFunctionOnSet(f, Proposals) + g[p] - f[p]
    BY <2>1, SumChange, FiniteAssumption
  <2> QED
    BY <2>2 DEF f, g
<1>4. Owed' = SumFunctionOnSet(deposit', Proposals) + SumFunctionOnSet(Locked, Voters)
                + SumFunctionOnSet(stake, Members)
  BY DEF Owed, Locked
<1>5. d \in Nat /\ deposit[p] \in Nat
  BY <1>1, <1>2
<1> QED
  BY <1>2, <1>3, <1>4, <1>5, OwedTypes

\* A changed lock changes what the contract owes by the difference of the amounts.
LEMMA OwedLock ==
  ASSUME TypesInv, TypesInv', NEW v \in Voters, NEW r, lock' = [lock EXCEPT ![v] = r],
         UNCHANGED <<deposit, stake>>
  PROVE  Owed' = Owed + r.amount - lock[v].amount
<1>1. \A x \in Voters : Locked[x] \in Nat /\ Locked'[x] \in Nat
  BY OwedTypes DEF TypesInv, ProposalsTyped, LockRecords, Locked
<1>2. Locked'[v] = r.amount /\ Locked[v] = lock[v].amount
      /\ \A x \in Voters \ {v} : Locked'[x] = Locked[x]
  BY DEF TypesInv, ProposalsTyped, Locked
<1>3. SumFunctionOnSet(Locked', Voters) = SumFunctionOnSet(Locked, Voters) + Locked'[v] - Locked[v]
  BY <1>1, <1>2, SumChange, VotersFinite
<1>4. Owed' = SumFunctionOnSet(deposit, Proposals) + SumFunctionOnSet(Locked', Voters)
                + SumFunctionOnSet(stake, Members)
  BY DEF Owed, Locked
<1>5. r.amount \in Nat /\ lock[v].amount \in Nat
  BY <1>1, <1>2
<1> QED
  BY <1>2, <1>3, <1>4, <1>5, OwedTypes

\* So does a changed stake.
LEMMA OwedStake ==
  ASSUME TypesInv, TypesInv', NEW m \in Members, NEW s, stake' = [stake EXCEPT ![m] = s],
         UNCHANGED <<deposit, lock>>
  PROVE  Owed' = Owed + s - stake[m]
<1>1. \A x \in Members : stake[x] \in Nat /\ stake'[x] \in Nat
  BY DEF TypesInv, StakesTypeOK
<1>2. stake'[m] = s /\ \A x \in Members \ {m} : stake'[x] = stake[x]
  BY DEF TypesInv, StakesTypeOK
<1>3. SumFunctionOnSet(stake', Members) = SumFunctionOnSet(stake, Members) + stake'[m] - stake[m]
  <2> DEFINE f == stake
             g == stake'
  <2>1. /\ \A x \in Members : f[x] \in Nat /\ g[x] \in Nat
        /\ \A x \in Members \ {m} : g[x] = f[x]
    BY <1>1, <1>2
  <2> HIDE DEF f, g
  <2>2. SumFunctionOnSet(g, Members) = SumFunctionOnSet(f, Members) + g[m] - f[m]
    BY <2>1, SumChange, MembersAssumption
  <2> QED
    BY <2>2 DEF f, g
<1>4. Owed' = SumFunctionOnSet(deposit, Proposals) + SumFunctionOnSet(Locked, Voters)
                + SumFunctionOnSet(stake', Members)
  BY DEF Owed, Locked
<1>5. s \in Nat /\ stake[m] \in Nat
  BY <1>1, <1>2
<1> QED
  BY <1>2, <1>3, <1>4, <1>5, OwedTypes

-----------------------------------------------------------------------------
(* Every call keeps the types. *)

\* The facts about the state that the calls start from.
LEMMA TypeFacts ==
  ASSUME TypesInv
  PROVE  /\ wallet \in [Accounts -> Nat] /\ stake \in [Members -> Nat] /\ whitelisted \subseteq Members
         /\ now \in Nat /\ now \in 0..MaxTime /\ Voters \subseteq Members
         /\ deposit \in [Proposals -> {0, PROPOSER_FEE}] /\ PROPOSER_FEE \in Nat \ {0}
         /\ proposal \in [Proposals -> ProposalRecords] /\ lock \in [Voters -> LockRecords]
         /\ config \in Configs /\ hasVoted \in [Proposals -> SUBSET Voters]
         /\ MAX_LOCK_DURATION \in Nat \ {0}
<1>1. 0..MaxTime \subseteq Nat
  BY StakeAssumption
<1>2. Voters \subseteq Members /\ MAX_LOCK_DURATION \in Nat \ {0} /\ PROPOSER_FEE \in Nat \ {0}
  BY ProposalAssumption, FeeAssumption
<1> QED
  BY <1>1, <1>2 DEF TypesInv, StakesTypeOK, ProposalsTyped

\* Staking moves the amount into the contract's account.
LEMMA StakeArbitratorTypes ==
  ASSUME TypesInv, NEW m \in Members, NEW amount \in StakeAmounts, StakeArbitrator(m, amount),
         UNCHANGED proposalVars
  PROVE  TypesInv' /\ wallet'[Governance] = wallet[Governance] + amount
<1>1. amount \in Nat
  BY StakeAssumption
<1>2. wallet' \in [Accounts -> Nat] /\ wallet'[Governance] = wallet[Governance] + amount
  BY <1>1, TypeFacts, TransferIn DEF StakeArbitrator
<1>3. stake' \in [Members -> Nat] /\ whitelisted' \subseteq Members /\ now' = now
  BY <1>1, TypeFacts DEF StakeArbitrator
<1> QED
  BY <1>2, <1>3 DEF TypesInv, StakesTypeOK, ProposalsTyped, proposalVars

\* A slash takes no more out of the account than out of the stake.
LEMMA SlashArbitratorTypes ==
  ASSUME TypesInv, NEW m \in Members, SlashArbitrator(m, Treasury), UNCHANGED proposalVars
  PROVE  /\ TypesInv'
         /\ \E amount, left \in Nat :
              /\ amount + left <= stake[m] /\ stake' = [stake EXCEPT ![m] = left]
              /\ wallet'[Governance] = wallet[Governance] - amount
<1> DEFINE amount == (stake[m] * SLASH_PERCENT) \div 100
           remaining == Remaining(m, amount)
           left == IF remaining < MIN_STAKE THEN 0 ELSE remaining
<1>1. stake[m] \in Nat
  BY TypeFacts
<1>2. amount \in Nat /\ amount <= stake[m]
  BY <1>1, SlashBound
<1>3. remaining = stake[m] - amount
  BY DEF Remaining, RemainingStake
<1>4. Transfer(Governance, Treasury, amount) /\ stake' = [stake EXCEPT ![m] = left]
      /\ whitelisted' \subseteq whitelisted /\ now' = now
  BY DEF SlashArbitrator
<1> HIDE DEF amount
<1>5. left \in Nat /\ amount + left <= stake[m]
  BY <1>1, <1>2, <1>3
<1> HIDE DEF left, remaining
<1>6. wallet' \in [Accounts -> Nat] /\ wallet'[Governance] = wallet[Governance] - amount
  BY <1>2, <1>4, TypeFacts, TransferOut
<1>7. stake' \in [Members -> Nat] /\ whitelisted' \subseteq Members
  BY <1>4, <1>5, TypeFacts
<1>8. TypesInv'
  BY <1>4, <1>6, <1>7 DEF TypesInv, StakesTypeOK, ProposalsTyped, proposalVars
<1> QED
  BY <1>2, <1>4, <1>5, <1>6, <1>8

\* Time passing keeps the types.
LEMMA CloseLedgerTypes ==
  ASSUME TypesInv, CloseLedger, UNCHANGED proposalVars
  PROVE  TypesInv' /\ UNCHANGED <<wallet, stake>>
<1>1. now' \in 0..MaxTime /\ UNCHANGED <<wallet, stake, whitelisted>>
  BY TypeFacts, StakeAssumption DEF CloseLedger
<1> QED
  BY <1>1 DEF TypesInv, StakesTypeOK, ProposalsTyped, proposalVars

\* A new proposal brings the fee into the contract's account.
LEMMA CreateProposalTypes ==
  ASSUME TypesInv, NEW p \in Proposals, NEW v \in Voters, NEW a \in Allocations,
         NEW s \in Supplies, CreateProposal(p, v, a, s)
  PROVE  /\ TypesInv' /\ wallet'[Governance] = wallet[Governance] + PROPOSER_FEE
         /\ deposit' = [deposit EXCEPT ![p] = PROPOSER_FEE]
         /\ proposal'[p].status = "Active" /\ \A q \in Proposals \ {p} : proposal'[q] = proposal[q]
<1> DEFINE start == now + config.voting_delay
           end == start + config.voting_period
           r == [NoProposal EXCEPT !.status = "Active", !.proposer = v, !.allocation = a,
                   !.vote_start = start, !.vote_end = end,
                   !.executable_at = end + config.timelock_delay, !.supply = s]
<1>1. a \in Nat /\ s \in Nat /\ v \in Members
  BY ProposalAssumption
<1>2. config.voting_delay \in Nat /\ config.voting_period \in Nat /\ config.timelock_delay \in Nat
  <2>1. config \in Configs
    BY TypeFacts
  <2> QED
    BY <2>1, ConfigAssumption
<1>3. start \in Nat /\ end \in Nat /\ end + config.timelock_delay \in Nat
  BY <1>2, TypeFacts
<1>4. NoProposal \in ProposalRecords
  BY ProposalAssumption DEF NoProposal, ProposalRecords
<1>5. r \in ProposalRecords /\ r.status = "Active"
  <2> DEFINE executable == end + config.timelock_delay
  <2>1. executable \in Nat
    BY <1>3
  <2> HIDE DEF start, end, executable
  <2>2. ASSUME NEW x \in ProposalRecords
        PROVE  /\ [x EXCEPT !.status = "Active"] \in ProposalRecords
               /\ [x EXCEPT !.proposer = v] \in ProposalRecords
               /\ [x EXCEPT !.allocation = a] \in ProposalRecords
               /\ [x EXCEPT !.vote_start = start] \in ProposalRecords
               /\ [x EXCEPT !.vote_end = end] \in ProposalRecords
               /\ [x EXCEPT !.executable_at = executable] \in ProposalRecords
               /\ [x EXCEPT !.supply = s] \in ProposalRecords
    BY <1>1, <1>3, <2>1 DEF ProposalRecords
  <2>3. r = [[[[[[[NoProposal EXCEPT !.status = "Active"] EXCEPT !.proposer = v]
                EXCEPT !.allocation = a] EXCEPT !.vote_start = start] EXCEPT !.vote_end = end]
                EXCEPT !.executable_at = executable] EXCEPT !.supply = s]
    BY DEF executable
  <2>4. "status" \in DOMAIN NoProposal
    BY DEF NoProposal
  <2>5. r.status = "Active"
    BY <2>4
  <2> HIDE DEF r
  <2>6. r \in ProposalRecords
    BY <1>4, <2>2, <2>3
  <2> QED
    BY <2>5, <2>6
<1>6. /\ Transfer(v, Governance, PROPOSER_FEE) /\ deposit' = [deposit EXCEPT ![p] = PROPOSER_FEE]
      /\ proposal' = [proposal EXCEPT ![p] = r]
      /\ UNCHANGED <<stake, whitelisted, now, config, hasVoted, lock>>
  BY DEF CreateProposal, StakesKept
<1> HIDE DEF r
<1>7. wallet' \in [Accounts -> Nat] /\ wallet'[Governance] = wallet[Governance] + PROPOSER_FEE
  BY <1>1, <1>6, TypeFacts, TransferIn
<1>8. proposal' \in [Proposals -> ProposalRecords] /\ deposit' \in [Proposals -> {0, PROPOSER_FEE}]
  BY <1>5, <1>6, TypeFacts
<1>9. proposal'[p].status = "Active" /\ \A q \in Proposals \ {p} : proposal'[q] = proposal[q]
  BY <1>5, <1>6, TypeFacts
<1>10. TypesInv'
  BY <1>6, <1>7, <1>8 DEF TypesInv, StakesTypeOK, ProposalsTyped
<1> QED
  BY <1>6, <1>7, <1>9, <1>10

\* A voter's power is a natural number.
LEMMA VotingPowerType ==
  ASSUME TypesInv, NEW v \in Voters PROVE VotingPower(v) \in Nat
<1>1. lock[v].amount \in Nat /\ lock[v].unlock_time \in Nat /\ now \in Nat /\ MAX_LOCK_DURATION \in Nat \ {0}
  BY TypeFacts DEF LockRecords
<1>2. VeVotingPower(v) \in Nat
  <2>1. CASE lock[v].amount = 0 \/ now >= lock[v].unlock_time
    BY <2>1 DEF VeVotingPower
  <2>2. CASE ~(lock[v].amount = 0 \/ now >= lock[v].unlock_time)
    <3>1. lock[v].amount * (lock[v].unlock_time - now) \in Nat
      BY <1>1, <2>2
    <3>2. VeVotingPower(v) = (lock[v].amount * (lock[v].unlock_time - now)) \div MAX_LOCK_DURATION
      BY <2>2 DEF VeVotingPower
    <3> QED
      BY <1>1, <3>1, <3>2, Quotient
  <2> QED
    BY <2>1, <2>2
<1>3. wallet[v] \in Nat
  BY TypeFacts DEF Accounts
<1> QED
  BY <1>2, <1>3 DEF VotingPower

\* A vote keeps the types and moves nothing.
LEMMA CastVoteTypes ==
  ASSUME TypesInv, NEW p \in Proposals, NEW v \in Voters, NEW support \in BOOLEAN,
         CastVote(p, v, support)
  PROVE  TypesInv'
<1>1. VotingPower(v) \in Nat
  BY VotingPowerType
<1> DEFINE w == VotingPower(v)
           forIt == [proposal[p] EXCEPT !.votes_for = @ + w]
           againstIt == [proposal[p] EXCEPT !.votes_against = @ + w]
<1>2. forIt \in ProposalRecords /\ againstIt \in ProposalRecords
  <2>1. proposal[p] \in ProposalRecords
    BY TypeFacts
  <2> HIDE DEF w
  <2> QED
    BY <1>1, <2>1 DEF ProposalRecords, w
<1>3. proposal' = [proposal EXCEPT ![p] = forIt] \/ proposal' = [proposal EXCEPT ![p] = againstIt]
  BY TypeFacts DEF CastVote
<1> HIDE DEF forIt, againstIt
<1>4. proposal' \in [Proposals -> ProposalRecords]
  BY <1>2, <1>3, TypeFacts
<1>5. hasVoted' \in [Proposals -> SUBSET Voters] /\ UNCHANGED <<stakeVars, config, deposit, lock>>
  BY TypeFacts DEF CastVote
<1> QED
  BY <1>4, <1>5 DEF TypesInv, StakesTypeOK, ProposalsTyped, stakeVars

\* A change of status.
LEMMA StatusTypes ==
  ASSUME TypesInv, NEW p \in Proposals,
         NEW st \in {"Active", "Defeated", "Queued", "Executed", "Cancelled"},
         proposal' = [proposal EXCEPT ![p].status = st]
  PROVE  /\ proposal' \in [Proposals -> ProposalRecords]
         /\ proposal'[p].status = st /\ proposal'[p].allocation = proposal[p].allocation
         /\ \A q \in Proposals \ {p} : proposal'[q] = proposal[q]
<1>1. proposal \in [Proposals -> ProposalRecords] /\ proposal[p] \in ProposalRecords
  BY TypeFacts
<1>2. /\ [proposal[p] EXCEPT !.status = st] \in ProposalRecords
      /\ [proposal[p] EXCEPT !.status = st].status = st
      /\ [proposal[p] EXCEPT !.status = st].allocation = proposal[p].allocation
  BY <1>1 DEF ProposalRecords
<1>3. proposal' = [proposal EXCEPT ![p] = [proposal[p] EXCEPT !.status = st]]
  OBVIOUS
<1> QED
  BY <1>1, <1>2, <1>3

\* The deposit is paid out and its entry removed.
LEMMA PayDepositTypes ==
  ASSUME TypesInv, NEW p \in Proposals, NEW to \in Members \cup {Treasury}, PayDeposit(p, to)
  PROVE  /\ wallet' \in [Accounts -> Nat] /\ wallet'[Governance] = wallet[Governance] - deposit[p]
         /\ deposit' = [deposit EXCEPT ![p] = 0] /\ deposit' \in [Proposals -> {0, PROPOSER_FEE}]
<1>1. deposit' = [deposit EXCEPT ![p] = 0] /\ deposit' \in [Proposals -> {0, PROPOSER_FEE}]
  BY TypeFacts DEF PayDeposit, SettleEntry, DepositRemoved
<1>2. deposit[p] \in Nat /\ wallet \in [Accounts -> Nat] /\ wallet[Governance] \in Nat
  BY TypeFacts DEF Accounts
<1>3. CASE deposit[p] > 0
  BY <1>1, <1>2, <1>3, TransferOut DEF PayDeposit
<1>4. CASE ~(deposit[p] > 0)
  BY <1>1, <1>2, <1>4 DEF PayDeposit
<1> QED
  BY <1>3, <1>4

\* Finalising pays the proposal's deposit out of the account.
LEMMA FinalizeTypes ==
  ASSUME TypesInv, NEW p \in Proposals, FinalizeProposal(p)
  PROVE  /\ TypesInv' /\ wallet'[Governance] = wallet[Governance] - deposit[p]
         /\ deposit' = [deposit EXCEPT ![p] = 0]
         /\ \E st \in {"Defeated", "Queued"} : proposal' = [proposal EXCEPT ![p].status = st]
<1>1. PICK st \in {"Defeated", "Queued"} : proposal' = [proposal EXCEPT ![p].status = st]
  <2> DEFINE st == IF Evaluate(p) THEN "Queued" ELSE "Defeated"
  <2>1. proposal' = [proposal EXCEPT ![p].status = st]
    BY DEF FinalizeProposal
  <2>2. st \in {"Defeated", "Queued"}
    OBVIOUS
  <2> HIDE DEF st
  <2> QED
    BY <2>1, <2>2
<1>2. PICK to \in Members \cup {Treasury} : PayDeposit(p, to)
  <2>1. proposal[p].proposer \in Members
    BY TypeFacts DEF ProposalRecords
  <2> QED
    BY <2>1 DEF FinalizeProposal
<1>3. UNCHANGED <<stake, whitelisted, now, config, hasVoted, lock>>
  BY DEF FinalizeProposal, StakesKept
<1>4. proposal' \in [Proposals -> ProposalRecords]
  BY <1>1, StatusTypes
<1>5. TypesInv'
  BY <1>2, <1>3, <1>4, PayDepositTypes DEF TypesInv, StakesTypeOK, ProposalsTyped
<1> QED
  BY <1>1, <1>2, <1>5, PayDepositTypes

\* So does cancelling.
LEMMA CancelTypes ==
  ASSUME TypesInv, NEW p \in Proposals, NEW v \in Voters, CancelProposal(p, v)
  PROVE  /\ TypesInv' /\ wallet'[Governance] = wallet[Governance] - deposit[p]
         /\ deposit' = [deposit EXCEPT ![p] = 0]
         /\ proposal' = [proposal EXCEPT ![p].status = "Cancelled"]
<1>1. proposal' = [proposal EXCEPT ![p].status = "Cancelled"] /\ PayDeposit(p, proposal[p].proposer)
      /\ UNCHANGED <<stake, whitelisted, now, config, hasVoted, lock>>
  BY DEF CancelProposal, StakesKept
<1>2. proposal[p].proposer \in Members \cup {Treasury}
  BY TypeFacts DEF ProposalRecords
<1>3. proposal' \in [Proposals -> ProposalRecords]
  BY <1>1, StatusTypes
<1>4. TypesInv'
  BY <1>1, <1>2, <1>3, PayDepositTypes DEF TypesInv, StakesTypeOK, ProposalsTyped
<1> QED
  BY <1>1, <1>2, <1>4, PayDepositTypes

\* An execution keeps the types.
LEMMA ExecuteTypes ==
  ASSUME TypesInv, NEW p \in Proposals, ExecuteProposal(p)
  PROVE  /\ TypesInv' /\ wallet'[Governance] = wallet[Governance] - proposal[p].allocation
         /\ proposal' = [proposal EXCEPT ![p].status = "Executed"]
<1>1. /\ Transfer(Governance, Treasury, proposal[p].allocation)
      /\ proposal' = [proposal EXCEPT ![p].status = "Executed"]
      /\ UNCHANGED <<stake, whitelisted, now, config, hasVoted, deposit, lock>>
  BY DEF ExecuteProposal, StakesKept
<1>2. proposal[p].allocation \in Nat
  BY TypeFacts DEF ProposalRecords
<1>3. wallet' \in [Accounts -> Nat] /\ wallet'[Governance] = wallet[Governance] - proposal[p].allocation
  BY <1>1, <1>2, TypeFacts, TransferOut
<1>4. proposal' \in [Proposals -> ProposalRecords]
  BY <1>1, StatusTypes
<1> QED
  BY <1>1, <1>3, <1>4 DEF TypesInv, StakesTypeOK, ProposalsTyped

\* Tokens come into a lock, which is set or grows by as much.
LEMMA LockTypes ==
  ASSUME TypesInv, NEW v \in Voters, NEW amount \in Nat, NEW r \in LockRecords,
         Transfer(v, Governance, amount), lock' = [lock EXCEPT ![v] = r],
         StakesKept, UNCHANGED <<config, proposal, hasVoted, deposit>>
  PROVE  TypesInv' /\ wallet'[Governance] = wallet[Governance] + amount
<1>1. wallet' \in [Accounts -> Nat] /\ wallet'[Governance] = wallet[Governance] + amount
  BY TypeFacts, TransferIn
<1>2. lock' \in [Voters -> LockRecords]
  BY TypeFacts
<1> QED
  BY <1>1, <1>2 DEF TypesInv, StakesTypeOK, ProposalsTyped, StakesKept

\* A withdrawal of a lock pays out its amount.
LEMMA WithdrawLockTypes ==
  ASSUME TypesInv, NEW v \in Voters, WithdrawLock(v)
  PROVE  /\ TypesInv' /\ wallet'[Governance] = wallet[Governance] - lock[v].amount
         /\ lock' = [lock EXCEPT ![v] = NoLock]
<1>1. Transfer(Governance, v, lock[v].amount) /\ lock' = [lock EXCEPT ![v] = NoLock]
      /\ UNCHANGED <<stake, whitelisted, now, config, proposal, hasVoted, deposit>>
  BY DEF WithdrawLock, StakesKept
<1>2. lock[v].amount \in Nat /\ NoLock \in LockRecords /\ v \in Members \cup {Treasury}
  BY TypeFacts DEF LockRecords, NoLock
<1>3. wallet' \in [Accounts -> Nat] /\ wallet'[Governance] = wallet[Governance] - lock[v].amount
  BY <1>1, <1>2, TypeFacts, TransferOut
<1>4. lock' \in [Voters -> LockRecords]
  BY <1>1, <1>2, TypeFacts
<1> QED
  BY <1>1, <1>3, <1>4 DEF TypesInv, StakesTypeOK, ProposalsTyped

\* A transfer between holders leaves the contract's account alone.
LEMMA MoveTokensTypes ==
  ASSUME TypesInv, NEW from \in Voters, NEW to \in Voters, MoveTokens(from, to)
  PROVE  TypesInv' /\ wallet'[Governance] = wallet[Governance] /\ UNCHANGED <<stake, proposalVars>>
<1>1. from \in Accounts /\ to \in Accounts /\ Governance \in Accounts \ {from, to} /\ from # to
  BY TypeFacts, AccountAssumption DEF Accounts, MoveTokens
<1>2. wallet[from] \in Nat /\ wallet \in [Accounts -> Nat]
  BY <1>1, TypeFacts
<1>3. wallet' \in [Accounts -> Nat] /\ wallet'[Governance] = wallet[Governance]
  BY <1>1, <1>2, TransferKeepsTypes DEF MoveTokens
<1> QED
  BY <1>3 DEF MoveTokens, StakesKept, TypesInv, StakesTypeOK, ProposalsTyped, proposalVars

-----------------------------------------------------------------------------
(* Every call keeps the custody. *)

\* What the contract gains is at least what it owes more.
LEMMA CoveredSame ==
  ASSUME CustodyInv, TypesInv', NEW x \in Int, NEW y \in Int, y <= x,
         wallet'[Governance] = wallet[Governance] + x, Owed' = Owed + y,
         NothingExecuted' => NothingExecuted
  PROVE  CustodyInv'
<1>1. wallet[Governance] \in Nat
  BY TypeFacts DEF CustodyInv, Accounts
<1>2. Owed \in Nat
  BY OwedTypes DEF CustodyInv
<1> QED
  BY <1>1, <1>2 DEF CustodyInv, Covered

\* Proposals that were executed stay as they are.
LEMMA ExecutedSame ==
  ASSUME NEW p \in Proposals, proposal[p].status # "Executed",
         \A q \in Proposals \ {p} : proposal'[q] = proposal[q]
  PROVE  NothingExecuted' => NothingExecuted
BY DEF NothingExecuted

\* Stakes come and go with the tokens behind them.
LEMMA StakesKeepCustody ==
  ASSUME CustodyInv, StakeStep, UNCHANGED proposalVars
  PROVE  CustodyInv'
<1>1. TypesInv /\ (NothingExecuted' => NothingExecuted) /\ UNCHANGED <<deposit, lock>>
  BY DEF CustodyInv, NothingExecuted, proposalVars
<1>2. ASSUME NEW m \in Members, NEW amount \in StakeAmounts, StakeArbitrator(m, amount)
      PROVE  CustodyInv'
  <2>1. TypesInv' /\ wallet'[Governance] = wallet[Governance] + amount
    BY <1>1, <1>2, StakeArbitratorTypes
  <2>2. stake' = [stake EXCEPT ![m] = stake[m] + amount]
    BY <1>2 DEF StakeArbitrator
  <2>3. Owed' = Owed + (stake[m] + amount) - stake[m]
    BY <1>1, <2>1, <2>2, OwedStake
  <2>4. stake[m] \in Nat /\ amount \in Nat /\ Owed \in Nat
    BY <1>1, TypeFacts, OwedTypes, StakeAssumption
  <2>5. Owed' = Owed + amount
    BY <2>3, <2>4
  <2> QED
    BY <1>1, <2>1, <2>4, <2>5, CoveredSame
<1>3. ASSUME NEW m \in Members, SlashArbitrator(m, Treasury) PROVE CustodyInv'
  <2>1. TypesInv'
    BY <1>1, <1>3, SlashArbitratorTypes
  <2>2. PICK amount, left \in Nat :
          /\ amount + left <= stake[m] /\ stake' = [stake EXCEPT ![m] = left]
          /\ wallet'[Governance] = wallet[Governance] - amount
    BY <1>1, <1>3, SlashArbitratorTypes
  <2>3. Owed' = Owed + left - stake[m]
    BY <1>1, <2>1, <2>2, OwedStake
  <2>4. stake[m] \in Nat /\ Owed \in Nat /\ wallet[Governance] \in Nat
    BY <1>1, TypeFacts, OwedTypes DEF Accounts
  <2>5. Owed' = Owed + (left - stake[m]) /\ wallet'[Governance] = wallet[Governance] + (0 - amount)
        /\ left - stake[m] <= 0 - amount /\ left - stake[m] \in Int /\ 0 - amount \in Int
    BY <2>2, <2>3, <2>4
  <2> QED
    BY <1>1, <2>1, <2>5, CoveredSame
<1>4. ASSUME CloseLedger PROVE CustodyInv'
  <2>1. TypesInv' /\ UNCHANGED <<wallet, stake>>
    BY <1>1, <1>4, CloseLedgerTypes
  <2>2. Owed' = Owed
    BY <1>1, <2>1 DEF Owed
  <2> QED
    BY <1>1, <2>1, <2>2 DEF CustodyInv, Covered
<1> QED
  BY <1>2, <1>3, <1>4 DEF StakeStep

\* A proposal's deposit comes with the fee.
LEMMA CreateKeepsCustody ==
  ASSUME CustodyInv, NEW p \in Proposals, NEW v \in Voters, NEW a \in Allocations,
         NEW s \in Supplies, CreateProposal(p, v, a, s)
  PROVE  CustodyInv'
<1>1. TypesInv
  BY DEF CustodyInv
<1>2. /\ TypesInv' /\ wallet'[Governance] = wallet[Governance] + PROPOSER_FEE
      /\ deposit' = [deposit EXCEPT ![p] = PROPOSER_FEE]
      /\ \A q \in Proposals \ {p} : proposal'[q] = proposal[q]
  BY <1>1, CreateProposalTypes
<1>3. NothingExecuted' => NothingExecuted
  BY <1>2, ExecutedSame DEF CreateProposal
<1>4. Owed' = Owed + PROPOSER_FEE - deposit[p]
  BY <1>1, <1>2, OwedDeposit DEF CreateProposal, StakesKept
<1>5. deposit[p] \in Nat /\ PROPOSER_FEE \in Nat /\ Owed \in Nat
  BY <1>1, TypeFacts, OwedTypes
<1>6. Owed' = Owed + (PROPOSER_FEE - deposit[p]) /\ PROPOSER_FEE - deposit[p] \in Int
      /\ PROPOSER_FEE - deposit[p] <= PROPOSER_FEE
  BY <1>4, <1>5
<1> QED
  BY <1>2, <1>3, <1>5, <1>6, CoveredSame

\* A deposit that is paid out is no longer owed.
LEMMA DepositKeepsCustody ==
  ASSUME CustodyInv, TypesInv', NEW p \in Proposals, proposal[p].status # "Executed",
         wallet'[Governance] = wallet[Governance] - deposit[p],
         deposit' = [deposit EXCEPT ![p] = 0], UNCHANGED <<lock, stake>>,
         \A q \in Proposals \ {p} : proposal'[q] = proposal[q]
  PROVE  CustodyInv'
<1>1. TypesInv
  BY DEF CustodyInv
<1>2. Owed' = Owed + 0 - deposit[p]
  BY <1>1, OwedDeposit
<1>3. deposit[p] \in Nat /\ Owed \in Nat /\ wallet[Governance] \in Nat
  BY <1>1, TypeFacts, OwedTypes DEF Accounts
<1>4. Owed' = Owed + (0 - deposit[p]) /\ wallet'[Governance] = wallet[Governance] + (0 - deposit[p])
      /\ 0 - deposit[p] \in Int
  BY <1>2, <1>3
<1>5. NothingExecuted' => NothingExecuted
  BY ExecutedSame
<1> QED
  BY <1>4, <1>5, CoveredSame

\* A deposit leaves the account and the debts together.
LEMMA SettlementKeepsCustody ==
  ASSUME CustodyInv, NEW p \in Proposals,
         FinalizeProposal(p) \/ \E v \in Voters : CancelProposal(p, v)
  PROVE  CustodyInv'
<1>1. TypesInv
  BY DEF CustodyInv
<1>2. ASSUME FinalizeProposal(p) PROVE CustodyInv'
  <2>1. /\ TypesInv' /\ wallet'[Governance] = wallet[Governance] - deposit[p]
        /\ deposit' = [deposit EXCEPT ![p] = 0]
    BY <1>1, <1>2, FinalizeTypes
  <2>2. PICK st \in {"Defeated", "Queued"} : proposal' = [proposal EXCEPT ![p].status = st]
    BY <1>1, <1>2, FinalizeTypes
  <2>3. \A q \in Proposals \ {p} : proposal'[q] = proposal[q]
    BY <1>1, <2>2, StatusTypes
  <2>4. proposal[p].status # "Executed" /\ UNCHANGED <<lock, stake>>
    BY <1>2 DEF FinalizeProposal, StakesKept
  <2> QED
    BY <2>1, <2>3, <2>4, DepositKeepsCustody
<1>3. ASSUME NEW v \in Voters, CancelProposal(p, v) PROVE CustodyInv'
  <2>1. /\ TypesInv' /\ wallet'[Governance] = wallet[Governance] - deposit[p]
        /\ deposit' = [deposit EXCEPT ![p] = 0]
        /\ proposal' = [proposal EXCEPT ![p].status = "Cancelled"]
    BY <1>1, <1>3, CancelTypes
  <2>2. \A q \in Proposals \ {p} : proposal'[q] = proposal[q]
    BY <1>1, <2>1, StatusTypes
  <2> QED
    BY <1>3, <2>1, <2>2, DepositKeepsCustody DEF CancelProposal, StakesKept
<1> QED
  BY <1>2, <1>3

\* An execution without an allocation moves nothing; with one it ends the promise.
LEMMA ExecutionKeepsCustody ==
  ASSUME CustodyInv, NEW p \in Proposals, ExecuteProposal(p)
  PROVE  CustodyInv'
<1>1. TypesInv
  BY DEF CustodyInv
<1>2. /\ TypesInv' /\ wallet'[Governance] = wallet[Governance] - proposal[p].allocation
      /\ proposal' = [proposal EXCEPT ![p].status = "Executed"]
  BY <1>1, ExecuteTypes
<1>3. /\ proposal'[p].status = "Executed" /\ proposal'[p].allocation = proposal[p].allocation
      /\ \A q \in Proposals \ {p} : proposal'[q] = proposal[q]
  BY <1>1, <1>2, StatusTypes
<1>4. Owed' = Owed
  BY DEF ExecuteProposal, StakesKept, Owed
<1>5. NothingExecuted' => NothingExecuted /\ proposal[p].allocation = 0
  BY <1>3, ExecutedSame DEF NothingExecuted, ExecuteProposal
<1>6. wallet[Governance] \in Nat
  BY <1>1, TypeFacts DEF Accounts
<1> QED
  BY <1>2, <1>4, <1>5, <1>6 DEF CustodyInv, Covered

\* Votes and configurations move no token.
LEMMA VotesKeepCustody ==
  ASSUME CustodyInv,
         \/ \E p \in Proposals, v \in Voters, support \in BOOLEAN : CastVote(p, v, support)
         \/ \E new \in Configs : UpdateConfig(new)
  PROVE  CustodyInv'
<1>1. TypesInv
  BY DEF CustodyInv
<1>2. UNCHANGED <<stakeVars, deposit, lock>>
  BY DEF CastVote, UpdateConfig
<1>3. Owed' = Owed /\ wallet' = wallet
  BY <1>2 DEF Owed, stakeVars
<1>4. ASSUME NEW p \in Proposals, NEW v \in Voters, NEW support \in BOOLEAN, CastVote(p, v, support)
      PROVE  CustodyInv'
  <2>1. TypesInv'
    BY <1>1, <1>4, CastVoteTypes
  <2>2. proposal[p].status # "Executed" /\ \A q \in Proposals \ {p} : proposal'[q] = proposal[q]
    BY <1>1, <1>4, TypeFacts DEF CastVote
  <2>3. NothingExecuted' => NothingExecuted
    BY <2>2, ExecutedSame
  <2> QED
    BY <1>3, <2>1, <2>3 DEF CustodyInv, Covered
<1>5. ASSUME NEW new \in Configs, UpdateConfig(new) PROVE CustodyInv'
  <2>1. TypesInv'
    BY <1>1, <1>5 DEF UpdateConfig, TypesInv, StakesTypeOK, ProposalsTyped, stakeVars
  <2>2. NothingExecuted' => NothingExecuted
    BY <1>5 DEF UpdateConfig, NothingExecuted
  <2> QED
    BY <1>3, <2>1, <2>2 DEF CustodyInv, Covered
<1> QED
  BY <1>4, <1>5

\* A lock takes in what it grows by.
LEMMA LockKeepsCustody ==
  ASSUME CustodyInv, NEW v \in Voters, NEW amount \in Nat, NEW r \in LockRecords,
         r.amount <= lock[v].amount + amount,
         Transfer(v, Governance, amount), lock' = [lock EXCEPT ![v] = r],
         StakesKept, UNCHANGED <<config, proposal, hasVoted, deposit>>
  PROVE  CustodyInv'
<1>1. TypesInv
  BY DEF CustodyInv
<1>2. TypesInv' /\ wallet'[Governance] = wallet[Governance] + amount
  BY <1>1, LockTypes
<1>3. Owed' = Owed + r.amount - lock[v].amount
  BY <1>1, <1>2, OwedLock DEF StakesKept
<1>4. r.amount \in Nat /\ lock[v].amount \in Nat /\ Owed \in Nat
  BY <1>1, TypeFacts, OwedTypes DEF LockRecords
<1>5. Owed' = Owed + (r.amount - lock[v].amount) /\ r.amount - lock[v].amount \in Int
      /\ r.amount - lock[v].amount <= amount
  BY <1>3, <1>4
<1>6. NothingExecuted' => NothingExecuted
  BY DEF NothingExecuted
<1> QED
  BY <1>2, <1>5, <1>6, CoveredSame

\* Locks are created, extended and withdrawn with the tokens behind them.
LEMMA LocksKeepCustody ==
  ASSUME CustodyInv, NEW v \in Voters,
         \/ \E amount \in LockAmounts, t \in 0..MaxTime : CreateLock(v, amount, t) \/ ExtendLock(v, amount, t)
         \/ ExtendLock(v, 0, now + MAX_LOCK_DURATION) \/ WithdrawLock(v)
  PROVE  CustodyInv'
<1>1. TypesInv /\ lock[v] \in LockRecords /\ lock \in [Voters -> LockRecords] /\ now \in Nat
      /\ MAX_LOCK_DURATION \in Nat /\ LockAmounts \subseteq Nat /\ 0..MaxTime \subseteq Nat
  <2>1. MAX_LOCK_DURATION \in Nat /\ LockAmounts \subseteq Nat /\ 0..MaxTime \subseteq Nat
    BY ProposalAssumption, StakeAssumption
  <2> QED
    BY <2>1, TypeFacts DEF CustodyInv
<1>2. ASSUME NEW amount \in LockAmounts, NEW t \in 0..MaxTime, CreateLock(v, amount, t)
      PROVE  CustodyInv'
  <2> DEFINE r == [amount |-> amount, unlock_time |-> now + t]
  <2>1. amount \in Nat /\ t \in Nat /\ lock[v].amount \in Nat
    BY <1>1 DEF LockRecords
  <2>2. r \in LockRecords /\ r.amount <= lock[v].amount + amount
    BY <1>1, <2>1 DEF LockRecords
  <2>3. Transfer(v, Governance, amount) /\ lock' = [lock EXCEPT ![v] = r]
        /\ StakesKept /\ UNCHANGED <<config, proposal, hasVoted, deposit>>
    BY <1>2 DEF CreateLock
  <2> HIDE DEF r
  <2> QED
    BY <2>1, <2>2, <2>3, LockKeepsCustody
<1>3. ASSUME NEW amount \in Nat, NEW t \in Nat, ExtendLock(v, amount, t) PROVE CustodyInv'
  <2> DEFINE r == [amount |-> lock[v].amount + amount,
                   unlock_time |-> IF t = 0 THEN lock[v].unlock_time ELSE t]
  <2>1. lock[v].amount \in Nat /\ lock[v].unlock_time \in Nat
    BY <1>1 DEF LockRecords
  <2>2. r \in LockRecords /\ r.amount <= lock[v].amount + amount
    BY <2>1 DEF LockRecords
  <2>3. Transfer(v, Governance, amount)
        /\ StakesKept /\ UNCHANGED <<config, proposal, hasVoted, deposit>>
    BY <1>3 DEF ExtendLock
  <2>4. lock' = [lock EXCEPT ![v] = r]
    <3>1. lock' = [lock EXCEPT ![v].amount = lock[v].amount + amount,
                               ![v].unlock_time = r.unlock_time]
      BY <1>1, <1>3 DEF ExtendLock, LockRecords
    <3> DEFINE n == lock[v].amount + amount
               u == r.unlock_time
    <3>2. \A x \in LockRecords, a \in Nat :
            /\ [x EXCEPT !.amount = a] = [amount |-> a, unlock_time |-> x.unlock_time]
            /\ [x EXCEPT !.unlock_time = a] = [amount |-> x.amount, unlock_time |-> a]
            /\ x.amount \in Nat /\ x.unlock_time \in Nat
      BY DEF LockRecords
    <3>3. lock' = [lock EXCEPT ![v] = [[lock[v] EXCEPT !.amount = n] EXCEPT !.unlock_time = u]]
      <4> HIDE DEF n, u
      <4>1. lock' = [lock EXCEPT ![v].amount = n, ![v].unlock_time = u]
        BY <3>1 DEF n, u
      <4> QED
        BY <1>1, <4>1
    <3>4. n \in Nat /\ u \in Nat
      BY <2>1
    <3>5. r = [amount |-> n, unlock_time |-> u]
      OBVIOUS
    <3> HIDE DEF n, u, r
    <3>6. [lock[v] EXCEPT !.amount = n] = [amount |-> n, unlock_time |-> lock[v].unlock_time]
      BY <1>1, <3>2, <3>4
    <3>7. [amount |-> n, unlock_time |-> lock[v].unlock_time] \in LockRecords
      BY <1>1, <3>2, <3>4 DEF LockRecords
    <3>8. [[lock[v] EXCEPT !.amount = n] EXCEPT !.unlock_time = u] = r
      <4> DEFINE y == [amount |-> n, unlock_time |-> lock[v].unlock_time]
      <4>1. y.amount = n
        OBVIOUS
      <4> HIDE DEF y
      <4>2. [y EXCEPT !.unlock_time = u] = [amount |-> y.amount, unlock_time |-> u]
        BY <3>2, <3>4, <3>7 DEF y
      <4>3. [y EXCEPT !.unlock_time = u] = r
        BY <3>5, <4>1, <4>2
      <4> QED
        BY <3>6, <4>3 DEF y
    <3> QED
      BY <3>3, <3>8
  <2> HIDE DEF r
  <2> QED
    BY <2>2, <2>3, <2>4, LockKeepsCustody
<1>4. ASSUME WithdrawLock(v) PROVE CustodyInv'
  <2>1. /\ TypesInv' /\ wallet'[Governance] = wallet[Governance] - lock[v].amount
        /\ lock' = [lock EXCEPT ![v] = NoLock]
    BY <1>1, <1>4, WithdrawLockTypes
  <2>2. Owed' = Owed + NoLock.amount - lock[v].amount
    BY <1>1, <1>4, <2>1, OwedLock DEF WithdrawLock, StakesKept
  <2>3. lock[v].amount \in Nat /\ Owed \in Nat /\ wallet[Governance] \in Nat /\ NoLock.amount = 0
    BY <1>1, TypeFacts, OwedTypes DEF Accounts, LockRecords, NoLock
  <2>4. Owed' = Owed + (0 - lock[v].amount) /\ 0 - lock[v].amount \in Int
        /\ wallet'[Governance] = wallet[Governance] + (0 - lock[v].amount)
    BY <2>1, <2>2, <2>3
  <2>5. NothingExecuted' => NothingExecuted
    BY <1>4 DEF NothingExecuted, WithdrawLock
  <2> QED
    BY <2>1, <2>4, <2>5, CoveredSame
<1>5. now + MAX_LOCK_DURATION \in Nat /\ 0 \in Nat
  BY <1>1
<1> QED
  BY <1>1, <1>2, <1>3, <1>4, <1>5

\* Transfers between holders are none of the contract's.
LEMMA MovesKeepCustody ==
  ASSUME CustodyInv, NEW from \in Voters, NEW to \in Voters, MoveTokens(from, to)
  PROVE  CustodyInv'
<1>1. TypesInv' /\ wallet'[Governance] = wallet[Governance] /\ UNCHANGED <<stake, proposalVars>>
  BY MoveTokensTypes DEF CustodyInv
<1>2. Owed' = Owed
  BY <1>1 DEF Owed, proposalVars
<1>3. NothingExecuted' => NothingExecuted
  BY <1>1 DEF NothingExecuted, proposalVars
<1> QED
  BY <1>1, <1>2, <1>3 DEF CustodyInv, Covered

\* Initially the contract owes nothing.
LEMMA CustodyStart ==
  ASSUME StakesInit, ProposalsInit PROVE CustodyInv
<1>1. TypesInv
  BY TypesStart
<1>2. \A p \in Proposals : deposit[p] = 0
  BY DEF ProposalsInit
<1>3. \A v \in Voters : Locked[v] = 0
  BY DEF ProposalsInit, Locked, NoLock
<1>4. \A m \in Members : stake[m] = 0
  BY DEF StakesInit
<1>5. /\ SumFunctionOnSet(deposit, Proposals) = 0 /\ SumFunctionOnSet(Locked, Voters) = 0
      /\ SumFunctionOnSet(stake, Members) = 0
  BY <1>2, <1>3, <1>4, SumZero, FiniteAssumption, VotersFinite, MembersAssumption
<1>6. Owed = 0
  BY <1>1, <1>5, OwedTypes
<1>7. wallet[Governance] \in Nat
  BY <1>1, TypeFacts DEF Accounts
<1> QED
  BY <1>1, <1>6, <1>7 DEF CustodyInv, Covered

\* Every step keeps the account covered until a proposal is executed.
LEMMA CustodyStep ==
  ASSUME CustodyInv, [ProposalsNext]_allProposalVars PROVE CustodyInv'
<1>1. ASSUME UNCHANGED allProposalVars PROVE CustodyInv'
  <2>1. UNCHANGED <<wallet, stake, whitelisted, now, config, proposal, hasVoted, deposit, lock>>
    BY <1>1 DEF allProposalVars, stakeVars, proposalVars
  <2>2. TypesInv' /\ (NothingExecuted' <=> NothingExecuted)
    BY <2>1 DEF CustodyInv, TypesInv, StakesTypeOK, ProposalsTyped, NothingExecuted
  <2>3. Covered' <=> Covered
    BY <2>1 DEF Covered, Owed
  <2> QED
    BY <2>2, <2>3 DEF CustodyInv
<1> QED
  BY <1>1, StakesKeepCustody, CreateKeepsCustody, SettlementKeepsCustody, ExecutionKeepsCustody,
     VotesKeepCustody, LocksKeepCustody, MovesKeepCustody DEF ProposalsNext

-----------------------------------------------------------------------------
(* What the account covers. *)

\* The type invariants of the governance contract's proposals, locks and stakes.
THEOREM GovernanceTypes == ProposalsSpec => [](StakesTypeOK /\ ProposalsTypeOK)
<1>1. StakesInit /\ ProposalsInit => CustodyInv
  BY CustodyStart
<1>2. CustodyInv /\ [ProposalsNext]_allProposalVars => CustodyInv'
  BY CustodyStep
<1>3. CustodyInv => StakesTypeOK /\ ProposalsTypeOK
  BY DEF CustodyInv, TypesInv, ProposalsTyped, ProposalRecords, LockRecords, ProposalsTypeOK
<1> QED
  BY <1>1, <1>2, <1>3, PTL DEF ProposalsSpec

\* Deposits, locks and stakes are covered as long as no allocation was executed.
THEOREM CustodyIsCovered == ProposalsSpec => []CustodyCovered
<1>1. StakesInit /\ ProposalsInit => CustodyInv
  BY CustodyStart
<1>2. CustodyInv /\ [ProposalsNext]_allProposalVars => CustodyInv'
  BY CustodyStep
<1>3. CustodyInv => CustodyCovered
  BY DEF CustodyInv, NothingExecuted, Covered, CustodyCovered
<1> QED
  BY <1>1, <1>2, <1>3, PTL DEF ProposalsSpec

-----------------------------------------------------------------------------
(* The insurance contract: what its stakers have coming. *)

Amounts == [k \in Stakers |-> stakeOf[k].amount]

\* What a staker has coming, in units of 1 / YIELD_PRECISION.
Accrued(k) == stakeOf[k].amount * (acc - stakeOf[k].reward_debt)
Accruals == [k \in Stakers |-> Accrued(k)]

StakingTyped ==
  /\ fund \in 0..MaxFund /\ stakeOf \in [Stakers -> [amount : Nat, reward_debt : 0..acc]]
  /\ nominal \in Nat /\ pool \in Nat /\ acc \in Nat /\ feesAdded \in Nat /\ yieldPaid \in Nat

ClaimRecords ==
  [status : {"none", "Pending", "Approved", "Rejected", "Paid", "Withdrawn"},
   votes_for : Nat, votes_against : Nat, amount : Nat, expired : BOOLEAN]
SlashRecords ==
  [status : {"none", "Pending", "Approved", "Rejected", "Executed"},
   votes_for : Nat, votes_against : Nat, slash_bps : 0..DEFAULT_MAX_SLASH_BPS]

VotingTyped ==
  /\ claim \in [Claims -> ClaimRecords] /\ slash \in [Slashes -> SlashRecords]
  /\ votedOn \in [Claims \cup Slashes -> SUBSET Governors] /\ governors \subseteq Governors
  /\ quorum \in Quorums

\* The fees cover, to the unit of the accumulator, what was paid and what accrued.
AccrualsCovered ==
  SumFunctionOnSet(Accruals, Stakers) + YIELD_PRECISION * yieldPaid <= YIELD_PRECISION * feesAdded

StakingInv == StakingTyped /\ PoolWithinStakes /\ AccrualsCovered

\* Each staker's amount and accrual are naturals, and so are their sums.
LEMMA StakerTypes ==
  ASSUME StakingTyped
  PROVE  /\ \A k \in Stakers : /\ stakeOf[k].amount \in Nat /\ Amounts[k] = stakeOf[k].amount
                               /\ acc - stakeOf[k].reward_debt \in Nat
                               /\ Accrued(k) \in Nat /\ Accruals[k] = Accrued(k)
         /\ SumFunctionOnSet(Accruals, Stakers) \in Nat
<1>1. ASSUME NEW k \in Stakers
      PROVE  /\ stakeOf[k].amount \in Nat /\ Amounts[k] = stakeOf[k].amount
             /\ acc - stakeOf[k].reward_debt \in Nat
             /\ Accrued(k) \in Nat /\ Accruals[k] = Accrued(k)
  <2>1. stakeOf[k].amount \in Nat /\ acc \in Nat /\ stakeOf[k].reward_debt \in 0..acc
    BY DEF StakingTyped
  <2> QED
    BY <2>1 DEF Amounts, Accruals, Accrued
<1>2. SumFunctionOnSet(Accruals, Stakers) \in Nat
  BY <1>1, SumType, StakersAssumption
<1> QED
  BY <1>1, <1>2

\* What a staker is paid is at most what accrued.
LEMMA PendingYieldBound ==
  ASSUME StakingTyped, NEW k \in Stakers
  PROVE  /\ PendingYield(k) \in Nat /\ YIELD_PRECISION * PendingYield(k) <= Accrued(k)
         /\ Settled(k) \in Nat /\ Settled(k) <= fund
         /\ YIELD_PRECISION * Settled(k) <= Accrued(k)
<1>1. YIELD_PRECISION \in Nat \ {0}
  BY InsuranceAssumption
<1>2. Accrued(k) \in Nat
  BY StakerTypes
<1>3. PendingYield(k) = Accrued(k) \div YIELD_PRECISION
  BY DEF PendingYield, Accrued
<1>4. PendingYield(k) \in Nat /\ YIELD_PRECISION * PendingYield(k) <= Accrued(k)
  BY <1>1, <1>2, <1>3, Quotient
<1>5. fund \in Nat
  BY InsuranceAssumption DEF StakingTyped
<1>6. Settled(k) \in {0, PendingYield(k)} /\ Settled(k) <= fund
  BY <1>4, <1>5 DEF Settled
<1> QED
  BY <1>1, <1>2, <1>4, <1>6

\* A share of the pool keeps the loss of the pool on both sides of the split:
\* (n - p) * (n - a) is not negative.
LEMMA ShareBounds ==
  ASSUME NEW n \in Nat \ {0}, NEW p \in Nat, NEW a \in Nat, p <= n, a <= n
  PROVE  /\ (a * p) \div n \in Nat /\ (a * p) \div n <= p
         /\ p - (a * p) \div n <= n - a
<1> DEFINE q == (a * p) \div n
<1>1. a * p \in Nat
  OBVIOUS
<1>2. q \in Nat /\ n * q <= a * p /\ a * p < n * q + n
  BY <1>1, Quotient
<1> HIDE DEF q
<1>3. a * p <= n * p
  OBVIOUS
<1>4. q <= p
  <2>1. n * q <= n * p
    BY <1>1, <1>2, <1>3
  <2> QED
    BY <1>2, <2>1, Cancel
<1>5. n * p + n * a <= n * n + a * p
  <2>1. (n - p) * (n - a) >= 0
    OBVIOUS
  <2>2. (n - p) * (n - a) = n * n - n * a - n * p + a * p
    OBVIOUS
  <2> QED
    BY <2>1, <2>2
<1>6. p + a < n + q + 1
  <2>1. n * (p + a) = n * p + n * a /\ n * (n + q + 1) = n * n + n * q + n
    BY <1>2
  <2>2. n * (p + a) < n * (n + q + 1)
    BY <1>2, <1>5, <2>1
  <2> QED
    BY <1>2, <2>2, CancelStrict
<1> QED
  BY <1>2, <1>4, <1>6 DEF q

-----------------------------------------------------------------------------
(* The votes and the types of what is voted on. *)

\* Initially nothing is claimed, proposed or voted on.
LEMMA VotingStart ==
  ASSUME InsuranceInit PROVE VotingTyped
<1>1. NoClaim \in ClaimRecords
  BY DEF NoClaim, ClaimRecords
<1>2. NoSlash \in SlashRecords
  BY DEF NoSlash, SlashRecords, DEFAULT_MAX_SLASH_BPS
<1> QED
  BY <1>1, <1>2 DEF InsuranceInit, VotingTyped

\* One more vote, and the outcome it has.
LEMMA ClaimVoteKeepsTypes ==
  ASSUME VotingTyped, NEW g \in Governors, NEW c \in Claims, NEW approve \in BOOLEAN,
         Vote(g, c, approve)
  PROVE  VotingTyped'
<1> DEFINE counted == Counted(claim[c], approve)
<1>1. counted \in ClaimRecords
  <2>1. claim[c] \in ClaimRecords
    BY DEF VotingTyped
  <2> QED
    BY <2>1 DEF Counted, ClaimRecords
<1>2. ClaimOutcome(counted) \in {"Pending", "Approved", "Rejected"}
  BY DEF ClaimOutcome
<1>3. claim' = [claim EXCEPT ![c] = [counted EXCEPT !.status = ClaimOutcome(counted)]]
  BY DEF Vote
<1> HIDE DEF counted
<1>4. [counted EXCEPT !.status = ClaimOutcome(counted)] \in ClaimRecords
  BY <1>1, <1>2 DEF ClaimRecords
<1>5. claim' \in [Claims -> ClaimRecords]
  BY <1>3, <1>4 DEF VotingTyped
<1>6. votedOn' \in [Claims \cup Slashes -> SUBSET Governors]
  BY DEF Vote, VotingTyped
<1> QED
  BY <1>5, <1>6 DEF Vote, VotingTyped

\* A vote on a slash counts on one side, once per governor.
LEMMA SlashVoteKeepsTypes ==
  ASSUME VotingTyped, NEW g \in Governors, NEW s \in Slashes, NEW approve \in BOOLEAN,
         VoteSlash(g, s, approve)
  PROVE  VotingTyped'
<1> DEFINE counted == Counted(slash[s], approve)
<1>1. counted \in SlashRecords
  <2>1. slash[s] \in SlashRecords
    BY DEF VotingTyped
  <2> QED
    BY <2>1 DEF Counted, SlashRecords
<1>2. SlashOutcome(counted) \in {"Pending", "Approved", "Rejected"}
  BY DEF SlashOutcome
<1>3. slash' = [slash EXCEPT ![s] = [counted EXCEPT !.status = SlashOutcome(counted)]]
  BY DEF VoteSlash
<1> HIDE DEF counted
<1>4. [counted EXCEPT !.status = SlashOutcome(counted)] \in SlashRecords
  BY <1>1, <1>2 DEF SlashRecords
<1>5. slash' \in [Slashes -> SlashRecords]
  BY <1>3, <1>4 DEF VotingTyped
<1>6. votedOn' \in [Claims \cup Slashes -> SUBSET Governors]
  BY DEF VoteSlash, VotingTyped
<1> QED
  BY <1>5, <1>6 DEF VoteSlash, VotingTyped

\* A claim or a slash that is new, withdrawn, expired, paid or executed.
LEMMA MotionKeepsTypes ==
  ASSUME VotingTyped, UNCHANGED <<votedOn, governors, quorum>>,
         \/ \E c \in Claims, r \in ClaimRecords : claim' = [claim EXCEPT ![c] = r] /\ slash' = slash
         \/ \E s \in Slashes, r \in SlashRecords : slash' = [slash EXCEPT ![s] = r] /\ claim' = claim
  PROVE  VotingTyped'
BY DEF VotingTyped

\* The other calls on a claim set its status, or start its votes at zero.
LEMMA ClaimCallsKeepTypes ==
  ASSUME VotingTyped, NEW c \in Claims,
         \/ \E amount \in ClaimAmounts : SubmitClaim(c, amount)
         \/ WithdrawClaim(c) \/ ClaimExpires(c) \/ ExecutePayout(c)
  PROVE  VotingTyped'
<1>1. claim[c] \in ClaimRecords /\ claim \in [Claims -> ClaimRecords]
  BY DEF VotingTyped
<1>2. ASSUME NEW amount \in ClaimAmounts, SubmitClaim(c, amount) PROVE VotingTyped'
  <2> DEFINE r == [NoClaim EXCEPT !.status = "Pending", !.amount = amount]
  <2>1. amount \in Nat
    BY InsuranceAssumption
  <2>2. r \in ClaimRecords
    BY <2>1 DEF NoClaim, ClaimRecords
  <2>3. claim' = [claim EXCEPT ![c] = r] /\ UNCHANGED <<slash, votedOn, governors, quorum>>
    BY <1>2 DEF SubmitClaim
  <2> HIDE DEF r
  <2> QED
    BY <2>2, <2>3, MotionKeepsTypes
<1>3. ASSUME WithdrawClaim(c) \/ ExecutePayout(c) PROVE VotingTyped'
  <2>1. PICK st \in {"Paid", "Withdrawn"} : claim' = [claim EXCEPT ![c].status = st]
    BY <1>3 DEF WithdrawClaim, ExecutePayout
  <2>2. [claim[c] EXCEPT !.status = st] \in ClaimRecords
    BY <1>1 DEF ClaimRecords
  <2>3. claim' = [claim EXCEPT ![c] = [claim[c] EXCEPT !.status = st]]
    BY <1>1, <2>1
  <2>4. UNCHANGED <<slash, votedOn, governors, quorum>>
    BY <1>3 DEF WithdrawClaim, ExecutePayout
  <2> QED
    BY <2>2, <2>3, <2>4, MotionKeepsTypes
<1>4. ASSUME ClaimExpires(c) PROVE VotingTyped'
  <2>1. [claim[c] EXCEPT !.expired = TRUE] \in ClaimRecords
    BY <1>1 DEF ClaimRecords
  <2>2. claim' = [claim EXCEPT ![c] = [claim[c] EXCEPT !.expired = TRUE]]
    BY <1>1, <1>4 DEF ClaimExpires
  <2>3. UNCHANGED <<slash, votedOn, governors, quorum>>
    BY <1>4 DEF ClaimExpires
  <2> QED
    BY <2>1, <2>2, <2>3, MotionKeepsTypes
<1> QED
  BY <1>2, <1>3, <1>4

\* So do the calls on a slash.
LEMMA SlashCallsKeepTypes ==
  ASSUME VotingTyped, NEW s \in Slashes,
         \/ \E g \in Governors, share \in SlashShares : ProposeSlash(g, s, share)
         \/ ExecuteSlash(s)
  PROVE  VotingTyped'
<1>1. slash[s] \in SlashRecords /\ slash \in [Slashes -> SlashRecords]
  BY DEF VotingTyped
<1>2. ASSUME NEW g \in Governors, NEW share \in SlashShares, ProposeSlash(g, s, share)
      PROVE  VotingTyped'
  <2> DEFINE r == [NoSlash EXCEPT !.status = "Pending", !.slash_bps = share]
  <2>1. share \in 0..DEFAULT_MAX_SLASH_BPS
    BY InsuranceAssumption DEF DEFAULT_MAX_SLASH_BPS
  <2>2. r \in SlashRecords
    <3>1. NoSlash \in SlashRecords
      BY DEF NoSlash, SlashRecords, DEFAULT_MAX_SLASH_BPS
    <3>2. ASSUME NEW q \in SlashRecords
          PROVE  /\ [q EXCEPT !.status = "Pending"] \in SlashRecords
                 /\ [q EXCEPT !.slash_bps = share] \in SlashRecords
      BY <2>1 DEF SlashRecords
    <3>3. r = [[NoSlash EXCEPT !.status = "Pending"] EXCEPT !.slash_bps = share]
      OBVIOUS
    <3> HIDE DEF r
    <3> QED
      BY <3>1, <3>2, <3>3
  <2>3. slash' = [slash EXCEPT ![s] = r] /\ UNCHANGED <<claim, votedOn, governors, quorum>>
    BY <1>2 DEF ProposeSlash
  <2> HIDE DEF r
  <2> QED
    BY <2>2, <2>3, MotionKeepsTypes
<1>3. ASSUME ExecuteSlash(s) PROVE VotingTyped'
  <2>1. [slash[s] EXCEPT !.status = "Executed"] \in SlashRecords
    BY <1>1 DEF SlashRecords
  <2>2. slash' = [slash EXCEPT ![s] = [slash[s] EXCEPT !.status = "Executed"]]
    BY <1>1, <1>3 DEF ExecuteSlash
  <2>3. UNCHANGED <<claim, votedOn, governors, quorum>>
    BY <1>3 DEF ExecuteSlash
  <2> QED
    BY <2>1, <2>2, <2>3, MotionKeepsTypes
<1> QED
  BY <1>2, <1>3

\* Every step keeps the types of claims and slashes.
LEMMA VotingStep ==
  ASSUME VotingTyped, [InsuranceNext]_insuranceVars PROVE VotingTyped'
<1>1. ASSUME UNCHANGED votingVars PROVE VotingTyped'
  BY <1>1 DEF votingVars, VotingTyped
<1>2. ASSUME \/ \E amount \in Contributions : Contribute(amount)
             \/ \E k \in Stakers, amount \in StakeArgs : Stake(k, amount) \/ Unstake(k, amount)
             \/ \E amount \in Fees : AddPlatformFees(amount)
             \/ \E k \in Stakers : ClaimYield(k)
             \/ UNCHANGED insuranceVars
      PROVE  VotingTyped'
  BY <1>1, <1>2 DEF Contribute, Stake, Unstake, AddPlatformFees, ClaimYield, insuranceVars
<1>3. ASSUME \/ \E g \in Governors : AddGovernor(g) \/ RemoveGovernor(g)
             \/ \E q \in Quorums : SetQuorum(q)
      PROVE  VotingTyped'
  BY <1>3 DEF AddGovernor, RemoveGovernor, SetQuorum, VotingTyped
<1> QED
  BY <1>2, <1>3, ClaimVoteKeepsTypes, SlashVoteKeepsTypes, ClaimCallsKeepTypes,
     SlashCallsKeepTypes DEF InsuranceNext

-----------------------------------------------------------------------------
(* The stakes under every call. *)

\* Initially nothing is staked, and nothing has accrued.
LEMMA StakingStart ==
  ASSUME InsuranceInit PROVE StakingInv
<1>1. StakingTyped
  BY InsuranceAssumption DEF InsuranceInit, StakingTyped, NoStakeRecord
<1> DEFINE zero == [k \in Stakers |-> 0]
<1>3. Amounts = zero /\ Accruals = zero
  BY <1>1 DEF InsuranceInit, Amounts, Accruals, Accrued, NoStakeRecord
<1>4. SumFunctionOnSet(zero, Stakers) = 0
  BY SumZero, StakersAssumption
<1>5. nominal = 0 /\ pool = 0 /\ yieldPaid = 0 /\ feesAdded = 0
  BY DEF InsuranceInit
<1> HIDE DEF zero
<1>6. PoolWithinStakes
  BY <1>3, <1>4, <1>5 DEF PoolWithinStakes, Amounts
<1>7. AccrualsCovered
  <2>1. SumFunctionOnSet(Accruals, Stakers) = 0
    BY <1>3, <1>4
  <2>2. YIELD_PRECISION \in Nat
    BY InsuranceAssumption
  <2> QED
    BY <1>5, <2>1, <2>2 DEF AccrualsCovered
<1> QED
  BY <1>1, <1>6, <1>7 DEF StakingInv

\* Calls that leave the stakes alone keep the invariant whatever they do to the fund.
LEMMA StakingSame ==
  ASSUME StakingInv, UNCHANGED stakingVars, fund' \in 0..MaxFund
  PROVE  StakingInv'
<1>1. StakingTyped' /\ PoolWithinStakes'
  BY DEF StakingInv, StakingTyped, PoolWithinStakes, stakingVars
<1>2. AccrualsCovered'
  BY DEF StakingInv, AccrualsCovered, Accruals, Accrued, stakingVars
<1> QED
  BY <1>1, <1>2 DEF StakingInv

\* Contributions and payouts move the fund within its bounds.
LEMMA FundCallsKeepStaking ==
  ASSUME StakingInv, VotingTyped,
         \/ \E amount \in Contributions : Contribute(amount)
         \/ \E c \in Claims : ExecutePayout(c)
  PROVE  StakingInv'
<1>1. fund \in 0..MaxFund /\ MaxFund \in Nat
  BY InsuranceAssumption DEF StakingInv, StakingTyped
<1>2. ASSUME NEW amount \in Contributions, Contribute(amount) PROVE StakingInv'
  <2>1. amount \in Nat
    BY InsuranceAssumption
  <2>2. fund' \in 0..MaxFund /\ UNCHANGED stakingVars
    BY <1>1, <1>2, <2>1 DEF Contribute
  <2> QED
    BY <2>2, StakingSame
<1>3. ASSUME NEW c \in Claims, ExecutePayout(c) PROVE StakingInv'
  <2>1. claim[c].amount \in Nat
    BY DEF VotingTyped, ClaimRecords
  <2>2. fund' \in 0..MaxFund /\ UNCHANGED stakingVars
    BY <1>1, <1>3, <2>1 DEF ExecutePayout
  <2> QED
    BY <2>2, StakingSame
<1> QED
  BY <1>2, <1>3

\* Claims, votes and the admin's calls leave the fund and the stakes alone.
LEMMA VotesKeepStaking ==
  ASSUME StakingInv,
         \/ \E c \in Claims :
              \/ \E amount \in ClaimAmounts : SubmitClaim(c, amount)
              \/ \E g \in Governors, approve \in BOOLEAN : Vote(g, c, approve)
              \/ WithdrawClaim(c) \/ ClaimExpires(c)
         \/ \E s \in Slashes, g \in Governors :
              \/ \E share \in SlashShares : ProposeSlash(g, s, share)
              \/ \E approve \in BOOLEAN : VoteSlash(g, s, approve)
         \/ \E g \in Governors : AddGovernor(g) \/ RemoveGovernor(g)
         \/ \E q \in Quorums : SetQuorum(q)
         \/ UNCHANGED insuranceVars
  PROVE  StakingInv'
<1>1. UNCHANGED <<stakingVars, fund>>
  BY DEF SubmitClaim, Vote, WithdrawClaim, ClaimExpires, ProposeSlash, VoteSlash, AddGovernor,
         RemoveGovernor, SetQuorum, insuranceVars
<1>2. fund' \in 0..MaxFund
  BY <1>1 DEF StakingInv, StakingTyped
<1> QED
  BY <1>1, <1>2, StakingSame

\* A slash takes at most its share of the pool, from both the pool and the fund.
LEMMA SlashKeepsStaking ==
  ASSUME StakingInv, VotingTyped, NEW s \in Slashes, ExecuteSlash(s)
  PROVE  StakingInv'
<1> DEFINE bps == slash[s].slash_bps
           due == (pool * bps) \div 10000
           taken == IF due <= fund THEN due ELSE fund
<1>1. bps \in 0..4000
  <2>1. slash[s] \in SlashRecords
    BY DEF VotingTyped
  <2>2. bps \in 0..DEFAULT_MAX_SLASH_BPS
    BY <2>1 DEF SlashRecords
  <2> HIDE DEF bps
  <2> QED
    BY <2>2 DEF DEFAULT_MAX_SLASH_BPS
<1>2. /\ fund \in 0..MaxFund /\ MaxFund \in Nat /\ pool \in Nat /\ nominal \in Nat
      /\ pool <= nominal
  BY InsuranceAssumption DEF StakingInv, StakingTyped, PoolWithinStakes
<1>3. due \in Nat /\ due <= pool
  <2> HIDE DEF bps
  <2>1. pool * bps \in Nat /\ pool * bps <= pool * 10000
    BY <1>1, <1>2
  <2> DEFINE x == pool * bps
  <2> HIDE DEF x
  <2>2. x \in Nat /\ x <= 10000 * pool
    BY <1>2, <2>1 DEF x
  <2>3. x \div 10000 \in Nat /\ x \div 10000 <= pool
    BY <1>2, <2>2
  <2> QED
    BY <2>3 DEF x
<1>4. fund' = fund - taken /\ pool' = pool - taken /\ UNCHANGED <<stakeOf, nominal, acc, feesAdded, yieldPaid>>
  BY DEF ExecuteSlash
<1> HIDE DEF due
<1>5. taken \in Nat /\ taken <= fund /\ taken <= pool
  BY <1>2, <1>3
<1> HIDE DEF taken
<1>6. fund' \in 0..MaxFund /\ pool' \in Nat /\ pool' <= nominal
  BY <1>2, <1>4, <1>5
<1>7. StakingTyped'
  BY <1>4, <1>6 DEF StakingInv, StakingTyped
<1>8. PoolWithinStakes'
  BY <1>4, <1>6 DEF StakingInv, PoolWithinStakes
<1>9. AccrualsCovered'
  BY <1>4 DEF StakingInv, AccrualsCovered, Accruals, Accrued
<1> QED
  BY <1>7, <1>8, <1>9 DEF StakingInv

\* A staker is settled: the accrual becomes 0, what was paid is at most what it
\* was, and the amount changes the sum by as much.
LEMMA SettledSums ==
  ASSUME StakingInv, NEW k \in Stakers, NEW r \in [amount : Nat, reward_debt : 0..acc],
         r.amount = 0 \/ r.reward_debt = acc,
         stakeOf' = [stakeOf EXCEPT ![k] = r], acc' = acc, feesAdded' = feesAdded,
         NEW y \in Nat, YIELD_PRECISION * y <= Accrued(k), yieldPaid' = yieldPaid + y
  PROVE  /\ stakeOf' \in [Stakers -> [amount : Nat, reward_debt : 0..acc']]
         /\ SumFunctionOnSet(Amounts', Stakers) = nominal + r.amount - stakeOf[k].amount
         /\ stakeOf[k].amount <= nominal
         /\ yieldPaid' \in Nat /\ AccrualsCovered'
<1>1. StakingTyped /\ stakeOf \in [Stakers -> [amount : Nat, reward_debt : 0..acc]]
      /\ acc \in Nat /\ yieldPaid \in Nat /\ feesAdded \in Nat
  BY DEF StakingInv, StakingTyped
<1>2. stakeOf' \in [Stakers -> [amount : Nat, reward_debt : 0..acc']]
  BY <1>1
<1>3. nominal = SumFunctionOnSet(Amounts, Stakers)
  BY DEF StakingInv, PoolWithinStakes, Amounts
<1>4. \A x \in Stakers : Amounts[x] \in Nat /\ Accruals[x] \in Nat
  BY <1>1, StakerTypes
<1>5. \A x \in Stakers : Amounts'[x] \in Nat /\ Accruals'[x] \in Nat
  <2>1. acc - r.reward_debt \in Nat /\ r.amount \in Nat
    BY <1>1
  <2>2. \A x \in Stakers \ {k} : Amounts'[x] = Amounts[x] /\ Accruals'[x] = Accruals[x]
    BY <1>1 DEF Amounts, Accruals, Accrued
  <2>3. Amounts'[k] = r.amount /\ Accruals'[k] = r.amount * (acc - r.reward_debt)
    BY <1>1 DEF Amounts, Accruals, Accrued
  <2> QED
    BY <1>4, <2>1, <2>2, <2>3
<1>6. SumFunctionOnSet(Amounts', Stakers) = nominal + r.amount - stakeOf[k].amount
  <2>1. \A x \in Stakers \ {k} : Amounts'[x] = Amounts[x]
    BY <1>1 DEF Amounts
  <2>2. Amounts'[k] = r.amount /\ Amounts[k] = stakeOf[k].amount
    BY <1>1 DEF Amounts
  <2>3. SumFunctionOnSet(Amounts', Stakers) = SumFunctionOnSet(Amounts, Stakers) + Amounts'[k] - Amounts[k]
    BY <1>4, <1>5, <2>1, SumChange, StakersAssumption
  <2> QED
    BY <1>3, <2>2, <2>3
<1>7. stakeOf[k].amount <= nominal
  <2>1. Amounts[k] <= SumFunctionOnSet(Amounts, Stakers)
    BY <1>4, SumMember, StakersAssumption
  <2>2. Amounts[k] = stakeOf[k].amount
    BY DEF Amounts
  <2> QED
    BY <1>3, <2>1, <2>2
<1>8. SumFunctionOnSet(Accruals', Stakers) = SumFunctionOnSet(Accruals, Stakers) - Accrued(k)
  <2>1. \A x \in Stakers \ {k} : Accruals'[x] = Accruals[x]
    BY <1>1 DEF Accruals, Accrued
  <2>2. Accruals'[k] = 0 /\ Accruals[k] = Accrued(k)
    <3>1. Accruals'[k] = r.amount * (acc - r.reward_debt)
      BY <1>1 DEF Accruals, Accrued
    <3>2. r.amount * (acc - r.reward_debt) = 0
      BY <1>1
    <3> QED
      BY <3>1, <3>2 DEF Accruals
  <2>3. SumFunctionOnSet(Accruals', Stakers) = SumFunctionOnSet(Accruals, Stakers) + Accruals'[k] - Accruals[k]
    BY <1>4, <1>5, <2>1, SumChange, StakersAssumption
  <2>4. SumFunctionOnSet(Accruals, Stakers) \in Nat /\ Accrued(k) \in Nat
    BY <1>1, StakerTypes
  <2> QED
    BY <2>2, <2>3, <2>4
<1>9. AccrualsCovered'
  <2>1. SumFunctionOnSet(Accruals, Stakers) \in Nat /\ Accrued(k) \in Nat
    BY <1>1, StakerTypes
  <2>2. YIELD_PRECISION \in Nat
    BY InsuranceAssumption
  <2>3. YIELD_PRECISION * yieldPaid' = YIELD_PRECISION * yieldPaid + YIELD_PRECISION * y
    BY <1>1, <2>2
  <2>4. YIELD_PRECISION * y \in Nat /\ YIELD_PRECISION * yieldPaid \in Nat
        /\ YIELD_PRECISION * feesAdded \in Nat /\ feesAdded' = feesAdded
    BY <1>1, <2>2
  <2>5. SumFunctionOnSet(Accruals, Stakers) + YIELD_PRECISION * yieldPaid <= YIELD_PRECISION * feesAdded
    BY DEF StakingInv, AccrualsCovered
  <2>6. SumFunctionOnSet(Accruals', Stakers) + YIELD_PRECISION * yieldPaid' <= YIELD_PRECISION * feesAdded'
    BY <1>8, <2>1, <2>3, <2>4, <2>5
  <2> QED
    BY <2>6 DEF AccrualsCovered
<1>10. yieldPaid' \in Nat
  BY <1>1
<1> QED
  BY <1>2, <1>6, <1>7, <1>9, <1>10

\* Stake, unstake and claim settle the staker they are about.
LEMMA StakeKeepsStaking ==
  ASSUME StakingInv, NEW k \in Stakers, NEW amount \in StakeArgs, Stake(k, amount)
  PROVE  StakingInv'
<1> DEFINE r == [amount |-> stakeOf[k].amount + amount, reward_debt |-> acc]
<1>1. /\ fund \in 0..MaxFund /\ MaxFund \in Nat /\ nominal \in Nat /\ pool \in Nat /\ acc \in Nat
      /\ feesAdded \in Nat /\ pool <= nominal /\ amount \in Nat
      /\ stakeOf \in [Stakers -> [amount : Nat, reward_debt : 0..acc]]
  BY InsuranceAssumption DEF StakingInv, StakingTyped, PoolWithinStakes
<1>2. Settled(k) \in Nat /\ Settled(k) <= fund /\ YIELD_PRECISION * Settled(k) <= Accrued(k)
  BY PendingYieldBound DEF StakingInv
<1>3. r \in [amount : Nat, reward_debt : 0..acc] /\ r.reward_debt = acc
      /\ r.amount = stakeOf[k].amount + amount
  BY <1>1
<1>4. /\ stakeOf' = [stakeOf EXCEPT ![k] = r]
      /\ acc' = acc /\ feesAdded' = feesAdded /\ yieldPaid' = yieldPaid + Settled(k)
  BY <1>1 DEF Stake, NewDebt, DebtCleared, stakingVars
<1> HIDE DEF r
<1>5. /\ stakeOf' \in [Stakers -> [amount : Nat, reward_debt : 0..acc']]
      /\ SumFunctionOnSet(Amounts', Stakers) = nominal + r.amount - stakeOf[k].amount
      /\ yieldPaid' \in Nat /\ AccrualsCovered'
  BY <1>2, <1>3, <1>4, SettledSums
<1>6. fund' \in 0..MaxFund
  BY <1>1, <1>2 DEF Stake
<1>7. nominal' = nominal + amount /\ pool' = pool + amount
  BY DEF Stake
<1>8. StakingTyped'
  BY <1>1, <1>4, <1>5, <1>6, <1>7 DEF StakingTyped
<1>9. PoolWithinStakes'
  <2>1. stakeOf[k].amount \in Nat
    BY <1>1
  <2>2. nominal' = SumFunctionOnSet(Amounts', Stakers)
    BY <1>1, <1>3, <1>5, <1>7, <2>1
  <2>3. 0 <= pool' /\ pool' <= nominal'
    BY <1>1, <1>7
  <2> QED
    BY <2>2, <2>3 DEF PoolWithinStakes, Amounts
<1> QED
  BY <1>5, <1>8, <1>9 DEF StakingInv

\* An unstaker gets at most the stake: the share of the pool is rounded down.
LEMMA UnstakeKeepsStaking ==
  ASSUME StakingInv, NEW k \in Stakers, NEW amount \in StakeArgs, Unstake(k, amount)
  PROVE  StakingInv'
<1> DEFINE r == IF stakeOf[k].amount = amount THEN NoStakeRecord
                ELSE [amount |-> stakeOf[k].amount - amount, reward_debt |-> acc]
<1>1. /\ fund \in 0..MaxFund /\ MaxFund \in Nat /\ nominal \in Nat /\ pool \in Nat /\ acc \in Nat
      /\ feesAdded \in Nat /\ pool <= nominal /\ amount \in Nat /\ amount > 0
      /\ stakeOf \in [Stakers -> [amount : Nat, reward_debt : 0..acc]]
  BY InsuranceAssumption DEF StakingInv, StakingTyped, PoolWithinStakes
<1>2. Settled(k) \in Nat /\ Settled(k) <= fund /\ YIELD_PRECISION * Settled(k) <= Accrued(k)
  BY PendingYieldBound DEF StakingInv
<1>3. amount <= stakeOf[k].amount /\ stakeOf[k].amount \in Nat
  BY <1>1 DEF Unstake
<1>4. r \in [amount : Nat, reward_debt : 0..acc] /\ (r.amount = 0 \/ r.reward_debt = acc)
      /\ r.amount = stakeOf[k].amount - amount
  BY <1>1, <1>3 DEF NoStakeRecord
<1>5. /\ stakeOf' = [stakeOf EXCEPT ![k] = r]
      /\ acc' = acc /\ feesAdded' = feesAdded /\ yieldPaid' = yieldPaid + Settled(k)
  BY <1>1 DEF Unstake
<1> HIDE DEF r
<1>6. /\ stakeOf' \in [Stakers -> [amount : Nat, reward_debt : 0..acc']]
      /\ SumFunctionOnSet(Amounts', Stakers) = nominal + r.amount - stakeOf[k].amount
      /\ stakeOf[k].amount <= nominal /\ yieldPaid' \in Nat /\ AccrualsCovered'
  BY <1>2, <1>4, <1>5, SettledSums
<1>7. /\ Returned(amount) \in Nat /\ Returned(amount) <= pool
      /\ pool - Returned(amount) <= nominal - amount
  <2>1. nominal \in Nat \ {0} /\ amount <= nominal
    BY <1>1, <1>3, <1>6
  <2>2. Returned(amount) = (amount * pool) \div nominal
    BY DEF Returned, ShareOfPool
  <2> QED
    BY <1>1, <2>1, <2>2, ShareBounds
<1>8. /\ fund - Settled(k) >= Returned(amount) /\ fund' = fund - Settled(k) - Returned(amount)
      /\ nominal' = nominal - amount /\ pool' = pool - Returned(amount)
  BY DEF Unstake
<1>9. fund' \in 0..MaxFund /\ nominal' \in Nat /\ pool' \in Nat /\ pool' <= nominal'
  BY <1>1, <1>2, <1>3, <1>6, <1>7, <1>8
<1>10. StakingTyped'
  BY <1>1, <1>5, <1>6, <1>9 DEF StakingTyped
<1>11. PoolWithinStakes'
  <2>1. nominal' = SumFunctionOnSet(Amounts', Stakers)
    BY <1>1, <1>3, <1>4, <1>6, <1>8
  <2> QED
    BY <1>9, <2>1 DEF PoolWithinStakes, Amounts
<1> QED
  BY <1>6, <1>10, <1>11 DEF StakingInv

\* A staker is paid at most what accrued, and the accrual starts anew.
LEMMA YieldKeepsStaking ==
  ASSUME StakingInv, NEW k \in Stakers, ClaimYield(k)
  PROVE  StakingInv'
<1> DEFINE r == [amount |-> stakeOf[k].amount, reward_debt |-> acc]
<1>1. /\ fund \in 0..MaxFund /\ MaxFund \in Nat /\ nominal \in Nat /\ pool \in Nat /\ acc \in Nat
      /\ feesAdded \in Nat /\ pool <= nominal
      /\ stakeOf \in [Stakers -> [amount : Nat, reward_debt : 0..acc]]
  BY InsuranceAssumption DEF StakingInv, StakingTyped, PoolWithinStakes
<1>2. PendingYield(k) \in Nat /\ YIELD_PRECISION * PendingYield(k) <= Accrued(k)
  BY PendingYieldBound DEF StakingInv
<1>3. r \in [amount : Nat, reward_debt : 0..acc] /\ r.reward_debt = acc
      /\ r.amount = stakeOf[k].amount
  BY <1>1
<1>4. /\ stakeOf' = [stakeOf EXCEPT ![k] = [stakeOf[k] EXCEPT !.reward_debt = acc]]
      /\ acc' = acc /\ feesAdded' = feesAdded /\ yieldPaid' = yieldPaid + PendingYield(k)
      /\ fund >= PendingYield(k) /\ fund' = fund - PendingYield(k)
      /\ nominal' = nominal /\ pool' = pool
  BY <1>1 DEF ClaimYield
<1>9. [stakeOf[k] EXCEPT !.reward_debt = acc] = r
  BY <1>1
<1> HIDE DEF r
<1>5. /\ stakeOf' \in [Stakers -> [amount : Nat, reward_debt : 0..acc']]
      /\ SumFunctionOnSet(Amounts', Stakers) = nominal + r.amount - stakeOf[k].amount
      /\ yieldPaid' \in Nat /\ AccrualsCovered'
  BY <1>2, <1>3, <1>4, <1>9, SettledSums
<1>6. fund' \in 0..MaxFund
  BY <1>1, <1>2, <1>4
<1>7. StakingTyped'
  BY <1>1, <1>4, <1>5, <1>6 DEF StakingTyped
<1>8. PoolWithinStakes'
  <2>1. stakeOf[k].amount \in Nat
    BY <1>1
  <2>2. nominal' = SumFunctionOnSet(Amounts', Stakers)
    BY <1>1, <1>3, <1>4, <1>5, <2>1
  <2>3. 0 <= pool' /\ pool' <= nominal'
    BY <1>1, <1>4
  <2> QED
    BY <2>2, <2>3 DEF PoolWithinStakes, Amounts
<1> QED
  BY <1>5, <1>7, <1>8 DEF StakingInv

\* The accumulator grows by the share of one token of the fees, rounded down:
\* over all the stakes that is at most the fees.
LEMMA FeesKeepStaking ==
  ASSUME StakingInv, NEW amount \in Fees, AddPlatformFees(amount)
  PROVE  StakingInv'
<1> DEFINE share == (amount * YIELD_PRECISION) \div nominal
<1>1. /\ nominal \in Nat \ {0} /\ acc \in Nat /\ feesAdded \in Nat /\ yieldPaid \in Nat
      /\ amount \in Nat /\ YIELD_PRECISION \in Nat /\ StakingTyped
      /\ stakeOf \in [Stakers -> [amount : Nat, reward_debt : 0..acc]]
  BY InsuranceAssumption DEF StakingInv, StakingTyped, AddPlatformFees
<1>2. share \in Nat /\ nominal * share <= amount * YIELD_PRECISION
  <2>1. amount * YIELD_PRECISION \in Nat
    BY <1>1
  <2> QED
    BY <1>1, <2>1, Quotient
<1>3. acc' = acc + share /\ feesAdded' = feesAdded + amount
      /\ UNCHANGED <<fund, stakeOf, nominal, pool, yieldPaid>>
  BY DEF AddPlatformFees
<1> HIDE DEF share
<1>4. StakingTyped'
  <2>1. 0..acc \subseteq 0..acc' /\ acc' \in Nat /\ feesAdded' \in Nat
    BY <1>1, <1>2, <1>3
  <2>2. \A x \in Stakers : stakeOf[x].amount \in Nat /\ stakeOf[x].reward_debt \in 0..acc'
    BY <1>1, <2>1
  <2>3. stakeOf' \in [Stakers -> [amount : Nat, reward_debt : 0..acc']]
    BY <1>1, <1>3, <2>2
  <2> QED
    BY <1>3, <2>1, <2>3 DEF StakingInv, StakingTyped
<1>5. PoolWithinStakes'
  BY <1>3 DEF StakingInv, PoolWithinStakes
<1>6. SumFunctionOnSet(Accruals', Stakers)
        = SumFunctionOnSet(Accruals, Stakers) + share * SumFunctionOnSet(Amounts, Stakers)
  <2>1. ASSUME NEW x \in Stakers
        PROVE  /\ Accruals[x] \in Nat /\ Amounts[x] \in Nat
               /\ Accruals'[x] = Accruals[x] + share * Amounts[x]
    <3>1. /\ Accruals[x] \in Nat /\ Amounts[x] \in Nat /\ Amounts[x] = stakeOf[x].amount
          /\ stakeOf[x].reward_debt \in Nat
      BY <1>1, StakerTypes
    <3>2. Accruals'[x] = stakeOf[x].amount * (acc + share - stakeOf[x].reward_debt)
      <4>1. Accruals'[x] = stakeOf'[x].amount * (acc' - stakeOf'[x].reward_debt)
        BY DEF Accruals, Accrued
      <4> QED
        BY <1>1, <1>2, <1>3, <3>1, <4>1
    <3>3. Accruals[x] = stakeOf[x].amount * (acc - stakeOf[x].reward_debt)
      BY DEF Accruals, Accrued
    <3>4. stakeOf[x].amount * (acc + share - stakeOf[x].reward_debt)
            = stakeOf[x].amount * (acc - stakeOf[x].reward_debt) + share * stakeOf[x].amount
      <4>1. \A a, b, c, d \in Int : a * (b + c - d) = a * (b - d) + c * a
        OBVIOUS
      <4>2. stakeOf[x].amount \in Int /\ acc \in Int /\ share \in Int /\ stakeOf[x].reward_debt \in Int
        BY <1>1, <1>2, <3>1
      <4> QED
        BY <4>1, <4>2
    <3> QED
      BY <3>1, <3>2, <3>3, <3>4
  <2>2. share \in Nat /\ IsFiniteSet(Stakers)
    BY <1>2, StakersAssumption
  <2>3. PICK f, g, h : f = Accruals /\ g = Accruals' /\ h = Amounts
    OBVIOUS
  <2>4. \A x \in Stakers : f[x] \in Nat /\ h[x] \in Nat /\ g[x] = f[x] + share * h[x]
    BY <2>1, <2>3
  <2>5. SumFunctionOnSet(g, Stakers) = SumFunctionOnSet(f, Stakers) + share * SumFunctionOnSet(h, Stakers)
    BY <2>2, <2>4, SumLinear
  <2> QED
    BY <2>3, <2>5
<1>7. AccrualsCovered'
  <2>1. nominal = SumFunctionOnSet(Amounts, Stakers)
    BY DEF StakingInv, PoolWithinStakes, Amounts
  <2>2. SumFunctionOnSet(Accruals, Stakers) \in Nat
    BY <1>1, StakerTypes
  <2>3. SumFunctionOnSet(Accruals, Stakers) + YIELD_PRECISION * yieldPaid <= YIELD_PRECISION * feesAdded
    BY DEF StakingInv, AccrualsCovered
  <2>4. YIELD_PRECISION * feesAdded' = YIELD_PRECISION * feesAdded + amount * YIELD_PRECISION
    BY <1>1, <1>3
  <2>5. share * nominal = nominal * share /\ nominal * share \in Nat /\ amount * YIELD_PRECISION \in Nat
        /\ YIELD_PRECISION * yieldPaid \in Nat /\ YIELD_PRECISION * feesAdded \in Nat
    BY <1>1, <1>2
  <2>6. SumFunctionOnSet(Accruals', Stakers) + YIELD_PRECISION * yieldPaid' <= YIELD_PRECISION * feesAdded'
    BY <1>2, <1>3, <1>6, <2>1, <2>2, <2>3, <2>4, <2>5
  <2> QED
    BY <2>6 DEF AccrualsCovered
<1> QED
  BY <1>4, <1>5, <1>7 DEF StakingInv

\* Every step keeps the stakes above the pool and the fees above the accruals.
LEMMA StakingStep ==
  ASSUME StakingInv, VotingTyped, [InsuranceNext]_insuranceVars PROVE StakingInv'
BY FundCallsKeepStaking, VotesKeepStaking, SlashKeepsStaking, StakeKeepsStaking,
   UnstakeKeepsStaking, YieldKeepsStaking, FeesKeepStaking DEF InsuranceNext

\* What is pending is what accrued, rounded down: with what was paid the fees cover it.
LEMMA FeesCoverYield ==
  ASSUME StakingInv PROVE YieldWithinFees
<1> DEFINE pending == [k \in Stakers |-> PendingYield(k)]
           owed == SumFunctionOnSet(pending, Stakers)
<1>1. YIELD_PRECISION \in Nat \ {0} /\ yieldPaid \in Nat /\ feesAdded \in Nat /\ StakingTyped
  BY InsuranceAssumption DEF StakingInv, StakingTyped
<1>2. \A k \in Stakers : /\ pending[k] \in Nat /\ Accruals[k] \in Nat
                         /\ YIELD_PRECISION * pending[k] <= Accruals[k]
  BY <1>1, PendingYieldBound, StakerTypes
<1> HIDE DEF pending
<1>3. owed \in Nat
  BY <1>2, SumType, StakersAssumption
<1>4. YIELD_PRECISION * owed <= SumFunctionOnSet(Accruals, Stakers)
  BY <1>1, <1>2, SumScaledBound, StakersAssumption
<1>5. SumFunctionOnSet(Accruals, Stakers) \in Nat
  BY <1>1, StakerTypes
<1> HIDE DEF owed
<1>6. YIELD_PRECISION * (yieldPaid + owed) <= YIELD_PRECISION * feesAdded
  <2>1. SumFunctionOnSet(Accruals, Stakers) + YIELD_PRECISION * yieldPaid <= YIELD_PRECISION * feesAdded
    BY DEF StakingInv, AccrualsCovered
  <2>2. YIELD_PRECISION * (yieldPaid + owed) = YIELD_PRECISION * yieldPaid + YIELD_PRECISION * owed
    BY <1>1, <1>3
  <2>3. YIELD_PRECISION * yieldPaid \in Nat /\ YIELD_PRECISION * owed \in Nat
        /\ YIELD_PRECISION * feesAdded \in Nat
    BY <1>1, <1>3
  <2> QED
    BY <1>4, <1>5, <2>1, <2>2, <2>3
<1>7. yieldPaid + owed <= feesAdded
  BY <1>1, <1>3, <1>6, Cancel
<1> QED
  BY <1>7 DEF YieldWithinFees, owed, pending

-----------------------------------------------------------------------------
(* The stakes, the pool and the yield. *)

\* The type invariant of the insurance contract.
THEOREM InsuranceTypes == InsuranceSpec => []InsuranceTypeOK
<1>1. InsuranceInit => StakingInv /\ VotingTyped
  BY StakingStart, VotingStart
<1>2. StakingInv /\ VotingTyped /\ [InsuranceNext]_insuranceVars => (StakingInv /\ VotingTyped)'
  BY StakingStep, VotingStep
<1>3. StakingInv /\ VotingTyped => InsuranceTypeOK
  <2> SUFFICES ASSUME StakingInv, VotingTyped PROVE InsuranceTypeOK
    OBVIOUS
  <2>1. \A c \in Claims : claim[c].status \in {"none", "Pending", "Approved", "Rejected", "Paid", "Withdrawn"}
    BY DEF VotingTyped, ClaimRecords
  <2>2. \A s \in Slashes : slash[s].status \in {"none", "Pending", "Approved", "Rejected", "Executed"}
    BY DEF VotingTyped, SlashRecords
  <2> QED
    BY <2>1, <2>2 DEF StakingInv, StakingTyped, VotingTyped, InsuranceTypeOK
<1> QED
  BY <1>1, <1>2, <1>3, PTL DEF InsuranceSpec

\* Whatever is staked, slashed and withdrawn, StakeTotal is the sum of the
\* records and the pool never exceeds it.
THEOREM StakesBackThePool == InsuranceSpec => []PoolWithinStakes
<1>1. InsuranceInit => StakingInv /\ VotingTyped
  BY StakingStart, VotingStart
<1>2. StakingInv /\ VotingTyped /\ [InsuranceNext]_insuranceVars => (StakingInv /\ VotingTyped)'
  BY StakingStep, VotingStep
<1>3. StakingInv => PoolWithinStakes
  BY DEF StakingInv
<1> QED
  BY <1>1, <1>2, <1>3, PTL DEF InsuranceSpec

\* Whatever the order of fees, stakes, withdrawals and claims, and whatever is
\* lost to rounding, what was paid and what is pending never exceeds the fees.
THEOREM FeesCoverAllYield == InsuranceSpec => []YieldWithinFees
<1>1. InsuranceInit => StakingInv /\ VotingTyped
  BY StakingStart, VotingStart
<1>2. StakingInv /\ VotingTyped /\ [InsuranceNext]_insuranceVars => (StakingInv /\ VotingTyped)'
  BY StakingStep, VotingStep
<1>3. StakingInv => YieldWithinFees
  BY FeesCoverYield
<1> QED
  BY <1>1, <1>2, <1>3, PTL DEF InsuranceSpec
=============================================================================
