------------------------ MODULE ActionPipelineProofs ------------------------
(***************************************************************************)
(* Proofs about ActionPipeline, for any pages, kinds of action, names and  *)
(* numbers of views and steps: what a layer lets through, what it counts.  *)
(***************************************************************************)
EXTENDS ActionPipeline, FiniteSetTheorems, SequenceTheorems, TLAPS

\* How an action may have ended once the guard has let it through to the meter.
Fair(o) ==
    /\ o.counted \in {0, 1}
    /\ o.hit # None => o.counted = 1
    /\ o.counted = 1 => session /\ o.code \notin Refused

USE DEF Ends

-----------------------------------------------------------------------------
(* The layers, from the page outwards *)

\* What reaches the page says ok or not found; it is never a refusal.
LEMMA DispatchEnds ==
    ASSUME NEW target, NEW o \in Dispatch(target)
    PROVE  o.code \in {"ok", "MISSING_LOCATOR", "TARGET_NOT_FOUND"}
<1>1. CASE target = None
  BY <1>1 DEF Dispatch
<1>2. CASE target # None
  <2>1. \/ o = Ends("TARGET_NOT_FOUND")
        \/ \E code \in {"ok", "TARGET_NOT_FOUND"}, i \in Matches(target.label) :
              o = [Ends(code) EXCEPT !.hit = page[i]]
    BY <1>2 DEF Dispatch
  <2>. QED
    BY <2>1
<1>. QED
  BY <1>1, <1>2

\* The meter counts one step for whatever the browser did not raise for.
LEMMA MeteredEnds ==
    ASSUME NEW action, NEW target, action.kind \in Allowed,
           NEW o \in Metered(action, target)
    PROVE  Fair(o)
<1>1. PICK b \in Browser(action, target) :
         o = [b EXCEPT !.counted = IF b.code = "raised" THEN 0 ELSE 1]
  BY DEF Metered
<1>2. CASE ~session \/ action.kind = "navigate"
  <2>1. b = Ends("raised")
    BY <1>2 DEF Browser
  <2>. QED
    BY <1>1, <2>1 DEF Fair
<1>3. CASE session /\ action.kind # "navigate"
  <2>1. b \in Dispatch(target)
    BY <1>3 DEF Browser
  <2>2. b.code \in {"ok", "MISSING_LOCATOR", "TARGET_NOT_FOUND"}
    BY <2>1, DispatchEnds
  <2>3. DOMAIN b = {"code", "hit", "counted"}
    BY <2>1 DEF Dispatch
  <2>4. o.counted = 1 /\ o.code = b.code
    BY <1>1, <2>2, <2>3
  <2>. QED
    BY <1>3, <2>2, <2>4 DEF Fair, Refused
<1>. QED
  BY <1>2, <1>3

LEMMA GuardedEnds ==
    ASSUME NEW action, NEW target, NEW o \in Guarded(action, target)
    PROVE  Fair(o)
<1>1. CASE Permits(action)
  BY <1>1, MeteredEnds DEF Guarded, Permits
<1>2. CASE ~Permits(action)
  BY <1>2 DEF Guarded, Fair
<1>. QED
  BY <1>1, <1>2

LEMMA ExecutorEnds ==
    ASSUME NEW action, NEW o \in Executor(action)
    PROVE  Fair(o)
<1>1. \/ \E code : o = Ends(code)
      \/ o \in Guarded(action, Resolve(view, action.ref))
  BY DEF Executor
<1>2. CASE \E code : o = Ends(code)
  BY <1>2 DEF Fair
<1>. QED
  BY <1>1, <1>2, GuardedEnds

-----------------------------------------------------------------------------
(* Steps *)

\* What a call that ends in o does to the meter and to the histories.
CallEnds(o) ==
    /\ steps' = steps + o.counted
    /\ uncounted' = IF o.hit = None \/ o.counted = 1 THEN uncounted
                    ELSE uncounted \cup {"execute"}
    /\ outcome' = [code |-> o.code, hit |-> o.hit, saw |-> proposal.saw]

\* A step that is no call: of what acts on the page it can only be goto.
NoCallStep ==
    /\ steps' = steps /\ outcome' = NoCall
    /\ uncounted' \in {uncounted, uncounted \cup {"goto"}}

LEMMA StepEnds ==
    ASSUME [Next]_vars
    PROVE  UNCHANGED vars \/ NoCallStep \/ \E o : Fair(o) /\ CallEnds(o)
<1>1. CASE Execute
  <2>1. PICK o \in Executor(proposal) : CallEnds(o)
    BY <1>1 DEF Execute, Call, CallEnds
  <2>. QED
    BY <2>1, ExecutorEnds
<1>2. CASE ExecuteDirectly
  <2>1. PICK o \in Guarded(proposal, None) : CallEnds(o)
    BY <1>2 DEF ExecuteDirectly, Call, CallEnds
  <2>. QED
    BY <2>1, GuardedEnds
<1>3. CASE PageChanges \/ Goto \/ CreateSession \/ CloseSession
  BY <1>3 DEF PageChanges, Goto, CreateSession, CloseSession, Shows, SessionIs, NoCallStep
<1>4. CASE Observe \/ Propose
  BY <1>4 DEF Observe, Propose, NoCallStep
<1>. QED
  BY <1>1, <1>2, <1>3, <1>4 DEF Next

\* The inductive invariant.
CountInv == steps \in Nat /\ OnlyGotoIsUncounted

LEMMA CountInvStep ==
    ASSUME CountInv, [Next]_vars
    PROVE  CountInv'
<1>1. CASE UNCHANGED vars
  BY <1>1 DEF CountInv, OnlyGotoIsUncounted, vars
<1>2. CASE NoCallStep
  BY <1>2 DEF CountInv, OnlyGotoIsUncounted, NoCallStep
<1>3. ASSUME NEW o, Fair(o), CallEnds(o)
      PROVE  CountInv'
  BY <1>3 DEF CountInv, OnlyGotoIsUncounted, Fair, CallEnds
<1>. QED
  BY <1>1, <1>2, <1>3, StepEnds

\* INV-8 of execute, for any pages and kinds: whatever the browser reports, it
\* never touches the page without a step being recorded.  goto does.
THEOREM TouchesCounted == Spec => []OnlyGotoIsUncounted
<1>1. Init => CountInv
  BY DEF Init, CountInv, OnlyGotoIsUncounted
<1>2. CountInv /\ [Next]_vars => CountInv'
  BY CountInvStep
<1>3. CountInv => OnlyGotoIsUncounted
  BY DEF CountInv
<1>. QED
  BY <1>1, <1>2, <1>3, PTL DEF Spec

\* INV-10, for any pages and kinds: what executor, guard or a browser without
\* a session refuses costs no step and does not reach the page.
THEOREM RefusalsFree == Spec => RefusedIsFree
<1>1. ASSUME CountInv, Next, ~UNCHANGED vars, steps' # steps \/ outcome'.hit # None
      PROVE  session /\ outcome'.code \notin Refused
  <2>1. ~NoCallStep
    BY <1>1 DEF NoCallStep, NoCall
  <2>2. PICK o : Fair(o) /\ CallEnds(o)
    BY <1>1, <2>1, StepEnds
  <2>3. o.counted = 1
    BY <1>1, <2>2 DEF Fair, CountInv, CallEnds
  <2>. QED
    BY <2>2, <2>3 DEF Fair, CallEnds
<1>2. Init => CountInv
  BY DEF Init, CountInv, OnlyGotoIsUncounted
<1>3. CountInv /\ [Next]_vars =>
        CountInv' /\ [(steps' # steps \/ outcome'.hit # None) =>
                        session /\ outcome'.code \notin Refused]_vars
  BY <1>1, CountInvStep
<1>. QED
  BY <1>2, <1>3, PTL DEF Spec, RefusedIsFree

-----------------------------------------------------------------------------
(* Parts of a sequence *)

\* at names the places in keep, each once, and what Kept has is there in s.
Places(at, s, keep) ==
    /\ at \in [1..Cardinality(keep) -> keep]
    /\ \A k, l \in 1..Cardinality(keep) : k # l => at[k] # at[l]
    /\ \A i \in keep : \E k \in 1..Cardinality(keep) : at[k] = i
    /\ Kept(s, keep) = [k \in 1..Cardinality(keep) |-> s[at[k]]]

LEMMA KeptPlaces ==
    ASSUME NEW s, NEW n \in Nat, NEW keep \in SUBSET (1..n)
    PROVE  /\ Cardinality(keep) \in Nat
           /\ \E at : Places(at, s, keep)
<1>. DEFINE N == Cardinality(keep)
            Rank(i) == Cardinality({j \in keep : j <= i})
            rank == [i \in keep |-> Rank(i)]
            at == [k \in 1..N |-> CHOOSE i \in keep : Rank(i) = k]
<1>1. IsFiniteSet(keep) /\ N \in Nat
  <2>1. IsFiniteSet(1..n)
    BY FS_Interval
  <2>2. IsFiniteSet(keep)
    BY <2>1, FS_Subset
  <2>. QED
    BY <2>2, FS_CardinalityType
<1>2. ASSUME NEW i \in keep
      PROVE  /\ IsFiniteSet({j \in keep : j <= i})
             /\ Rank(i) \in 1..N
  <2>1. {j \in keep : j <= i} \in SUBSET keep /\ i \in {j \in keep : j <= i}
    OBVIOUS
  <2>2. /\ IsFiniteSet({j \in keep : j <= i}) /\ Rank(i) <= N
    BY <1>1, <2>1, FS_Subset
  <2>3. Rank(i) \in Nat /\ Rank(i) # 0
    BY <2>1, <2>2, FS_CardinalityType, FS_EmptySet
  <2>. QED
    BY <1>1, <2>2, <2>3
<1>3. ASSUME NEW i \in keep, NEW j \in keep, i < j
      PROVE  Rank(i) # Rank(j)
  <2>1. /\ {k \in keep : k <= i} \in SUBSET {k \in keep : k <= j}
        /\ j \in {k \in keep : k <= j} /\ j \notin {k \in keep : k <= i}
    <3>1. \A k \in keep : k \in Int
      OBVIOUS
    <3>2. i \in Int /\ j \in Int /\ \A k \in keep : k <= i => k <= j
      BY <1>3, <3>1
    <3>3. {k \in keep : k <= i} \in SUBSET {k \in keep : k <= j}
      BY <3>2
    <3>4. j \in {k \in keep : k <= j} /\ j \notin {k \in keep : k <= i}
      BY <1>3, <3>2
    <3>. QED
      BY <3>3, <3>4
  <2>. QED
    BY <1>2, <2>1, FS_Subset
<1>4. ASSUME NEW i \in keep, NEW j \in keep, Rank(i) = Rank(j)
      PROVE  i = j
  BY <1>3, <1>4
<1>. HIDE DEF Rank, N
<1>5. ASSUME NEW k \in 1..N
      PROVE  \E i \in keep : Rank(i) = k
  <2>1. rank \in Injection(keep, 1..N)
    BY <1>2, <1>4 DEF Injection, IsInjective
  <2>2. IsFiniteSet(1..N) /\ Cardinality(1..N) = N
    BY <1>1, FS_Interval
  <2>. HIDE DEF rank
  <2>3. rank \in Surjection(keep, 1..N)
    BY <2>1, <2>2, FS_Injection DEF N
  <2>. QED
    BY <2>3 DEF Surjection, rank
<1>6. ASSUME NEW k \in 1..N
      PROVE  at[k] \in keep /\ Rank(at[k]) = k
  BY <1>5
<1>7. at \in [1..N -> keep] /\ \A k, l \in 1..N : k # l => at[k] # at[l]
  BY <1>6
<1>8. ASSUME NEW i \in keep
      PROVE  \E k \in 1..N : at[k] = i
  <2>1. Rank(i) \in 1..N
    BY <1>2 DEF Rank
  <2>2. at[Rank(i)] \in keep /\ Rank(at[Rank(i)]) = Rank(i)
    BY <1>6, <2>1
  <2>. QED
    BY <1>4, <2>1, <2>2 DEF Rank
<1>9. Kept(s, keep) = [k \in 1..N |-> s[at[k]]]
  BY DEF Kept, N, Rank
<1>. HIDE DEF at
<1>10. Places(at, s, keep)
  BY <1>7, <1>8, <1>9 DEF Places, N
<1>. QED
  BY <1>1, <1>10 DEF N

LEMMA KeptIs ==
    ASSUME NEW S, NEW s \in Seq(S), NEW keep \in SUBSET (DOMAIN s)
    PROVE  /\ Kept(s, keep) \in Seq(S)
           /\ \A k \in DOMAIN Kept(s, keep) : \E i \in keep : Kept(s, keep)[k] = s[i]
           /\ \E own \in Injection(keep, DOMAIN Kept(s, keep)) :
                 \A i \in keep : Kept(s, keep)[own[i]] = s[i]
           /\ \A k, l \in DOMAIN Kept(s, keep) : k # l =>
                 \E i, j \in keep : i # j /\ Kept(s, keep)[k] = s[i] /\ Kept(s, keep)[l] = s[j]
<1>. DEFINE N == Cardinality(keep)
<1>1. Len(s) \in Nat /\ keep \in SUBSET (1..Len(s)) /\ \A i \in keep : s[i] \in S
  BY LenProperties, ElementOfSeq
<1>2. N \in Nat /\ \E at : Places(at, s, keep)
  BY <1>1, KeptPlaces
<1>3. PICK at :
         /\ at \in [1..N -> keep]
         /\ \A k, l \in 1..N : k # l => at[k] # at[l]
         /\ \A i \in keep : \E k \in 1..N : at[k] = i
         /\ Kept(s, keep) = [k \in 1..N |-> s[at[k]]]
  BY <1>2 DEF Places
<1>. HIDE DEF N
<1>4. DOMAIN Kept(s, keep) = 1..N /\ \A k \in 1..N : Kept(s, keep)[k] = s[at[k]] /\ at[k] \in keep
  BY <1>3
<1>5. Kept(s, keep) \in Seq(S)
  <2>1. Kept(s, keep) \in [1..N -> S]
    BY <1>1, <1>3
  <2>. QED
    BY <1>2, <2>1, SeqDef
<1>. HIDE DEF Kept
<1>6. ASSUME NEW k \in DOMAIN Kept(s, keep)
      PROVE  \E i \in keep : Kept(s, keep)[k] = s[i]
  BY <1>4
<1>7. \E own \in Injection(keep, DOMAIN Kept(s, keep)) :
         \A i \in keep : Kept(s, keep)[own[i]] = s[i]
  <2>. DEFINE own == [i \in keep |-> CHOOSE k \in 1..N : at[k] = i]
  <2>1. ASSUME NEW i \in keep PROVE own[i] \in 1..N /\ at[own[i]] = i
    BY <1>3
  <2>2. own \in [keep -> 1..N]
    BY <2>1
  <2>. HIDE DEF own
  <2>3. own \in Injection(keep, 1..N)
    BY <2>1, <2>2 DEF Injection, IsInjective
  <2>4. \A i \in keep : Kept(s, keep)[own[i]] = s[i]
    BY <1>4, <2>1
  <2>. QED
    BY <1>4, <2>3, <2>4
<1>. QED
  BY <1>3, <1>4, <1>5, <1>6, <1>7

LEMMA LeastIn ==
    ASSUME NEW T \in SUBSET Nat, T # {}
    PROVE  \E m \in T : \A n \in T : m <= n
<1>1. PICK m \in T : \A n \in T : ~(<<n, m>> \in OpToRel(<, Nat))
  BY NatLessThanWellFounded, WFMin
<1>2. \A n \in T : ~(n < m)
  BY <1>1 DEF OpToRel
<1>. QED
  BY <1>2

-----------------------------------------------------------------------------
(* The targets of a view *)

LEMMA ElementIs ==
    ASSUME NEW shot \in Seq(Element), NEW i \in DOMAIN shot
    PROVE  /\ shot[i] \in Element /\ shot[i].frame \in Frame
           /\ shot[i].ax \in Label \cup {None} /\ shot[i].dom \in Label \cup {None}
<1>1. shot[i] \in Element
  BY ElementOfSeq, LenProperties
<1>. QED
  BY <1>1 DEF Element

\* The elements that are to be targets, numbered from start on.
Numbered(targets, epoch, start) ==
    /\ targets \in Seq(Target)
    /\ \A i \in DOMAIN targets : targets[i].ref = <<epoch, start + i - 1>>

\* The elements of the accessibility tree that are to be targets.
Ours(shot) ==
    {i \in DOMAIN shot : /\ shot[i].ax # None /\ shot[i].frame = MainFrame
                         /\ shot[i].ax.role \in InteractiveRole}

\* Each of them has a target of its own.
Owned(targets, shot) ==
    \E own \in Injection(Ours(shot), DOMAIN targets) : \A i \in Ours(shot) :
       /\ targets[own[i]].label = shot[i].ax
       /\ targets[own[i]].frame = MainFrame

LEMMA AxTargetsAre ==
    ASSUME NEW shot \in Seq(Element), NEW epoch \in Nat
    PROVE  /\ Numbered(AxTargets(shot, epoch), epoch, 1)
           /\ ~Truncated(shot) => Owned(AxTargets(shot, epoch), shot)
<1>. DEFINE nodes == AxNodes(shot)
            keep == Ours(shot)
            n == IF Truncated(shot) THEN MaxTargets ELSE Len(nodes)
            made == AxTargets(shot, epoch)
<1>1. /\ nodes \in Seq(Element)
      /\ \A k \in DOMAIN nodes : \E i \in keep : nodes[k] = shot[i]
      /\ \E own \in Injection(keep, DOMAIN nodes) : \A i \in keep : nodes[own[i]] = shot[i]
  <2>1. keep \in SUBSET (DOMAIN shot)
    BY DEF Ours
  <2>. HIDE DEF keep
  <2>2. nodes = Kept(shot, keep)
    <3>1. keep = {i \in DOMAIN shot : /\ shot[i].frame = MainFrame /\ shot[i].ax # None
                                      /\ shot[i].ax.role \in InteractiveRole}
      BY DEF Ours, keep
    <3>. QED
      BY <3>1 DEF AxNodes
  <2>. QED
    BY <2>1, <2>2, KeptIs
<1>2. n \in Nat /\ n <= Len(nodes) /\ DOMAIN nodes = 1..Len(nodes) /\ Len(nodes) \in Nat
  BY <1>1, LenProperties, ViewAssumption DEF Truncated
<1>3. made = [i \in 1..n |-> [ref |-> <<epoch, i>>, label |-> nodes[i].ax, frame |-> MainFrame]]
  BY DEF AxTargets
<1>4. ASSUME NEW k \in 1..n PROVE nodes[k].ax \in Label
  <2>1. k \in DOMAIN nodes
    BY <1>2
  <2>2. PICK i \in keep : nodes[k] = shot[i]
    BY <1>1, <2>1
  <2>. QED
    BY <2>2, ElementIs DEF Ours
<1>5. ~Truncated(shot) => n = Len(nodes)
  OBVIOUS
<1>. HIDE DEF nodes, n, made
<1>6. made \in [1..n -> Target]
  BY <1>2, <1>3, <1>4, ViewAssumption DEF Target
<1>7. Numbered(made, epoch, 1)
  BY <1>2, <1>3, <1>6, SeqDef DEF Numbered
<1>8. ASSUME ~Truncated(shot) PROVE Owned(made, shot)
  <2>1. PICK own \in Injection(keep, DOMAIN nodes) : \A i \in keep : nodes[own[i]] = shot[i]
    BY <1>1
  <2>2. DOMAIN nodes = 1..n /\ DOMAIN made = 1..n
    BY <1>2, <1>3, <1>5, <1>8
  <2>3. \A i \in keep : own[i] \in 1..n
    BY <2>1, <2>2 DEF Injection
  <2>4. \A i \in keep : made[own[i]].label = shot[i].ax /\ made[own[i]].frame = MainFrame
    BY <1>3, <2>1, <2>3
  <2>. QED
    BY <2>1, <2>2, <2>4 DEF Owned
<1>. QED
  BY <1>7, <1>8 DEF made

LEMMA DomTargetsAre ==
    ASSUME NEW shot \in Seq(Element), NEW epoch \in Nat, NEW start \in Nat \ {0}
    PROVE  /\ Numbered(DomTargets(shot, epoch, start), epoch, start)
           /\ \A i \in DOMAIN shot : shot[i].dom # None =>
                 \E k \in DOMAIN DomTargets(shot, epoch, start) :
                    /\ DomTargets(shot, epoch, start)[k].label = shot[i].dom
                    /\ DomTargets(shot, epoch, start)[k].frame = shot[i].frame
<1>. DEFINE nodes == DomNodes(shot)
            keep == {i \in DOMAIN shot : shot[i].dom # None}
            n == Len(nodes)
            made == DomTargets(shot, epoch, start)
<1>1. /\ nodes \in Seq(Element)
      /\ \A k \in DOMAIN nodes : \E i \in keep : nodes[k] = shot[i]
      /\ \E own \in Injection(keep, DOMAIN nodes) : \A i \in keep : nodes[own[i]] = shot[i]
  <2>1. keep \in SUBSET (DOMAIN shot)
    OBVIOUS
  <2>. HIDE DEF keep
  <2>2. nodes = Kept(shot, keep)
    BY DEF DomNodes, keep
  <2>. QED
    BY <2>1, <2>2, KeptIs
<1>2. n \in Nat /\ DOMAIN nodes = 1..n
  BY <1>1, LenProperties
<1>3. made = [i \in 1..n |-> [ref |-> <<epoch, start + i - 1>>,
                              label |-> nodes[i].dom, frame |-> nodes[i].frame]]
  BY DEF DomTargets
<1>4. ASSUME NEW k \in 1..n PROVE nodes[k].dom \in Label /\ nodes[k].frame \in Frame
  <2>1. k \in DOMAIN nodes
    BY <1>2
  <2>2. PICK i \in keep : nodes[k] = shot[i]
    BY <1>1, <2>1
  <2>. QED
    BY <2>2, ElementIs
<1>. HIDE DEF nodes, n, made
<1>5. \A i \in 1..n : start + i - 1 \in Nat
  BY <1>2
<1>6. made \in [1..n -> Target]
  BY <1>3, <1>4, <1>5 DEF Target
<1>7. Numbered(made, epoch, start)
  BY <1>2, <1>3, <1>6, SeqDef DEF Numbered
<1>8. ASSUME NEW i \in keep
      PROVE  \E k \in DOMAIN made : made[k].label = shot[i].dom /\ made[k].frame = shot[i].frame
  <2>1. PICK k \in DOMAIN nodes : nodes[k] = shot[i]
    BY <1>1 DEF Injection
  <2>. QED
    BY <1>2, <1>3, <2>1
<1>. QED
  BY <1>7, <1>8 DEF made

\* Merge drops no label and frame, and has each target of the two in one place.
LEMMA MergeHas ==
    ASSUME NEW ax \in Seq(Target), NEW dom \in Seq(Target)
    PROVE  /\ Merge(ax, dom) \in Seq(Target)
           /\ \A i \in DOMAIN ax : i \in DOMAIN Merge(ax, dom) /\ Merge(ax, dom)[i] = ax[i]
           /\ \A j \in DOMAIN dom :
                 \E k \in DOMAIN Merge(ax, dom) : SameKey(Merge(ax, dom)[k], dom[j])
           /\ \A k \in (DOMAIN Merge(ax, dom)) \ DOMAIN ax :
                 \E j \in DOMAIN dom : Merge(ax, dom)[k] = dom[j]
           /\ \A k, l \in (DOMAIN Merge(ax, dom)) \ DOMAIN ax : k # l =>
                 \E i, j \in DOMAIN dom :
                    i # j /\ Merge(ax, dom)[k] = dom[i] /\ Merge(ax, dom)[l] = dom[j]
<1>. DEFINE new == Kept(dom, Unseen(ax, dom))
            merged == Merge(ax, dom)
            n == Len(ax)
<1>1. Unseen(ax, dom) \in SUBSET (DOMAIN dom)
  BY DEF Unseen
<1>2. /\ new \in Seq(Target)
      /\ \A k \in DOMAIN new : \E i \in DOMAIN dom : new[k] = dom[i]
      /\ \A i \in Unseen(ax, dom) : \E k \in DOMAIN new : new[k] = dom[i]
      /\ \A k, l \in DOMAIN new : k # l =>
            \E i, j \in DOMAIN dom : i # j /\ new[k] = dom[i] /\ new[l] = dom[j]
  <2>1. PICK keep \in SUBSET (DOMAIN dom) : keep = Unseen(ax, dom)
    BY <1>1
  <2>2. new = Kept(dom, keep)
    BY <2>1
  <2>. HIDE DEF new
  <2>3. /\ new \in Seq(Target)
        /\ \A k \in DOMAIN new : \E i \in keep : new[k] = dom[i]
        /\ \A k, l \in DOMAIN new : k # l =>
              \E i, j \in keep : i # j /\ new[k] = dom[i] /\ new[l] = dom[j]
    BY <2>2, KeptIs
  <2>4. \A i \in keep : \E k \in DOMAIN new : new[k] = dom[i]
    <3>1. PICK own \in Injection(keep, DOMAIN Kept(dom, keep)) :
             \A i \in keep : Kept(dom, keep)[own[i]] = dom[i]
      BY KeptIs
    <3>. QED
      BY <2>2, <3>1 DEF Injection
  <2>. QED
    BY <2>1, <2>3, <2>4
<1>3. merged = ax \o new
  BY DEF Merge
<1>. HIDE DEF new, merged
<1>4. /\ n \in Nat /\ Len(new) \in Nat /\ DOMAIN ax = 1..n /\ DOMAIN new = 1..Len(new)
      /\ merged \in Seq(Target) /\ DOMAIN merged = 1..(n + Len(new))
      /\ \A i \in 1..n : merged[i] = ax[i]
      /\ \A i \in 1..Len(new) : merged[n + i] = new[i]
      /\ DOMAIN dom = 1..Len(dom) /\ Len(dom) \in Nat
  <2>1. /\ merged \in Seq(Target) /\ Len(merged) = n + Len(new)
        /\ \A i \in 1..(n + Len(new)) : merged[i] = IF i <= n THEN ax[i] ELSE new[i - n]
    BY <1>2, <1>3, ConcatProperties
  <2>2. n \in Nat /\ Len(new) \in Nat /\ Len(dom) \in Nat
    BY <1>2, LenProperties
  <2>. HIDE DEF n
  <2>3. \A i \in 1..n : merged[i] = ax[i]
    BY <2>1, <2>2
  <2>4. \A i \in 1..Len(new) : merged[n + i] = new[i]
    BY <2>1, <2>2
  <2>5. DOMAIN ax = 1..n /\ DOMAIN new = 1..Len(new) /\ DOMAIN dom = 1..Len(dom)
        /\ DOMAIN merged = 1..Len(merged)
    BY <1>2, <2>1, LenProperties DEF n
  <2>. QED
    BY <2>1, <2>2, <2>3, <2>4, <2>5
<1>. HIDE DEF n
<1>5. ASSUME NEW k \in (DOMAIN merged) \ DOMAIN ax
      PROVE  k - n \in DOMAIN new /\ merged[k] = new[k - n] /\ k \in Int
  <2>1. k \in 1..(n + Len(new)) /\ k \notin 1..n /\ n \in Nat /\ Len(new) \in Nat
    BY <1>4
  <2>2. k - n \in 1..Len(new) /\ n + (k - n) = k /\ k \in Int
    BY <2>1
  <2>3. merged[n + (k - n)] = new[k - n]
    BY <1>4, <2>2
  <2>. QED
    BY <1>4, <2>2, <2>3
<1>6. ASSUME NEW j \in DOMAIN dom
      PROVE  \E k \in DOMAIN merged : SameKey(merged[k], dom[j])
  <2>. DEFINE same == {i \in DOMAIN dom : SameKey(dom[i], dom[j])}
  <2>1. same \in SUBSET Nat /\ same # {}
    <3>1. SameKey(dom[j], dom[j])
      BY DEF SameKey
    <3>2. DOMAIN dom \in SUBSET Nat
      BY <1>4
    <3>. QED
      BY <3>1, <3>2
  <2>2. PICK m \in same : \A i \in same : m <= i
    BY <2>1, LeastIn
  <2>3. CASE \E i \in DOMAIN ax : SameKey(ax[i], dom[m])
    <3>1. PICK i \in DOMAIN ax : SameKey(ax[i], dom[m])
      BY <2>3
    <3>2. i \in DOMAIN merged /\ merged[i] = ax[i] /\ SameKey(ax[i], dom[j])
      BY <1>4, <2>2, <3>1 DEF SameKey
    <3>. QED
      BY <3>2
  <2>4. CASE ~ \E i \in DOMAIN ax : SameKey(ax[i], dom[m])
    <3>1. ASSUME NEW i \in 1..(m - 1) PROVE ~SameKey(dom[i], dom[m])
      <4>. SUFFICES ASSUME SameKey(dom[i], dom[m]) PROVE FALSE
        OBVIOUS
      <4>1. i \in DOMAIN dom /\ m \in Nat
        BY <1>4
      <4>2. i \in same
        BY <2>2, <4>1 DEF SameKey
      <4>. QED
        BY <2>2, <4>1, <4>2
    <3>2. m \in Unseen(ax, dom)
      BY <2>4, <3>1 DEF Unseen
    <3>3. PICK k \in DOMAIN new : new[k] = dom[m]
      BY <1>2, <3>2
    <3>4. n + k \in DOMAIN merged /\ merged[n + k] = dom[m]
      BY <1>4, <3>3
    <3>. QED
      BY <2>2, <3>4
  <2>. QED
    BY <2>3, <2>4
<1>7. ASSUME NEW k \in (DOMAIN merged) \ DOMAIN ax
      PROVE  \E j \in DOMAIN dom : merged[k] = dom[j]
  BY <1>2, <1>5
<1>8. ASSUME NEW k \in (DOMAIN merged) \ DOMAIN ax, NEW l \in (DOMAIN merged) \ DOMAIN ax, k # l
      PROVE  \E i, j \in DOMAIN dom : i # j /\ merged[k] = dom[i] /\ merged[l] = dom[j]
  <2>1. k - n # l - n
    BY <1>4, <1>5, <1>8
  <2>. QED
    BY <1>2, <1>5, <2>1
<1>9. \A i \in DOMAIN ax : i \in DOMAIN merged /\ merged[i] = ax[i]
  BY <1>4
<1>. QED
  BY <1>4, <1>6, <1>7, <1>8, <1>9 DEF merged

\* A view has what its two reads have shown, each target under a ref of its own.
ViewOK(v) ==
    /\ v = [epoch |-> v.epoch, targets |-> v.targets, unknowns |-> v.unknowns]
    /\ v.targets \in Seq(Target)
    /\ v.unknowns \subseteq {"ax_empty", "ax_truncated"}
    /\ \A i \in DOMAIN v.targets : v.targets[i].ref[1] = v.epoch
    /\ \A i, j \in DOMAIN v.targets : v.targets[i].ref = v.targets[j].ref => i = j

Has(targets, label, frame) ==
    \E k \in DOMAIN targets : targets[k].label = label /\ targets[k].frame = frame

HasAll(v, axPage, domPage) ==
    /\ \A i \in DOMAIN domPage :
          domPage[i].dom # None => Has(v.targets, domPage[i].dom, domPage[i].frame)
    /\ \/ v.unknowns # {}
       \/ axPage # None /\ Owned(v.targets, axPage)

LEMMA ViewIs ==
    ASSUME NEW axPage, axPage = None \/ axPage \in Seq(Element),
           NEW domPage \in Seq(Element), NEW epoch \in Nat
    PROVE  /\ ViewOK(BuildView(axPage, domPage, epoch))
           /\ BuildView(axPage, domPage, epoch).epoch = epoch
           /\ HasAll(BuildView(axPage, domPage, epoch), axPage, domPage)
<1>. DEFINE ax == IF axPage = None THEN <<>> ELSE AxTargets(axPage, epoch)
            dom == DomTargets(domPage, epoch, Len(ax) + 1)
            all == Merge(ax, dom)
            v == BuildView(axPage, domPage, epoch)
<1>1. /\ Numbered(ax, epoch, 1) /\ ax \in Seq(Target)
      /\ Len(ax) \in Nat /\ DOMAIN ax = 1..Len(ax)
  <2>1. Numbered(ax, epoch, 1)
    <3>1. CASE axPage = None
      BY <3>1, EmptySeq DEF Numbered
    <3>2. CASE axPage # None
      BY <3>2, AxTargetsAre
    <3>. QED
      BY <3>1, <3>2
  <2>. HIDE DEF ax
  <2>. QED
    BY <2>1, LenProperties DEF Numbered
<1>2. PICK start \in Nat \ {0} : start = Len(ax) + 1
  BY <1>1
<1>3. /\ Numbered(dom, epoch, start) /\ dom \in Seq(Target)
      /\ DOMAIN dom = 1..Len(dom) /\ Len(dom) \in Nat
      /\ \A i \in DOMAIN domPage : domPage[i].dom # None =>
            \E k \in DOMAIN dom : dom[k].label = domPage[i].dom /\ dom[k].frame = domPage[i].frame
  <2>1. dom = DomTargets(domPage, epoch, start)
    BY <1>2
  <2>. HIDE DEF dom
  <2>2. /\ Numbered(dom, epoch, start)
        /\ \A i \in DOMAIN domPage : domPage[i].dom # None =>
              \E k \in DOMAIN dom : dom[k].label = domPage[i].dom /\ dom[k].frame = domPage[i].frame
    BY <2>1, DomTargetsAre
  <2>. QED
    BY <2>2, LenProperties DEF Numbered
<1>4. /\ v = [epoch |-> epoch, targets |-> all, unknowns |-> v.unknowns]
      /\ v.unknowns \subseteq {"ax_empty", "ax_truncated"}
      /\ axPage = None => "ax_empty" \in v.unknowns
      /\ axPage # None /\ Truncated(axPage) => "ax_truncated" \in v.unknowns
  BY DEF BuildView
<1>5. ASSUME axPage # None, ~Truncated(axPage) PROVE Owned(ax, axPage)
  <2>1. ax = AxTargets(axPage, epoch) /\ axPage \in Seq(Element)
    BY <1>5
  <2>. HIDE DEF ax
  <2>. QED
    BY <1>5, <2>1, AxTargetsAre
<1>. HIDE DEF ax, dom, v
<1>6. /\ all \in Seq(Target)
      /\ \A i \in DOMAIN ax : i \in DOMAIN all /\ all[i] = ax[i]
      /\ \A j \in DOMAIN dom : \E k \in DOMAIN all : SameKey(all[k], dom[j])
      /\ \A k \in (DOMAIN all) \ DOMAIN ax : \E j \in DOMAIN dom : all[k] = dom[j]
      /\ \A k, l \in (DOMAIN all) \ DOMAIN ax : k # l =>
            \E i, j \in DOMAIN dom : i # j /\ all[k] = dom[i] /\ all[l] = dom[j]
  BY <1>1, <1>3, MergeHas
<1>. HIDE DEF all
<1>7. ASSUME NEW k \in DOMAIN all
      PROVE  \/ k \in DOMAIN ax /\ all[k].ref = <<epoch, k>>
             \/ /\ k \notin DOMAIN ax
                /\ \E j \in DOMAIN dom : all[k] = dom[j] /\ dom[j].ref = <<epoch, Len(ax) + j>>
  <2>1. CASE k \in DOMAIN ax
    <3>1. k \in Nat /\ ax[k].ref = <<epoch, 1 + k - 1>> /\ all[k] = ax[k]
      BY <1>1, <1>6, <2>1 DEF Numbered
    <3>2. 1 + k - 1 = k
      BY <3>1
    <3>. QED
      BY <2>1, <3>1, <3>2
  <2>2. CASE k \notin DOMAIN ax
    <3>1. PICK j \in DOMAIN dom : all[k] = dom[j]
      BY <1>6, <2>2
    <3>2. dom[j].ref = <<epoch, start + j - 1>> /\ j \in Nat
      BY <1>3 DEF Numbered
    <3>3. start + j - 1 = Len(ax) + j
      BY <1>1, <1>2, <3>2
    <3>. QED
      BY <2>2, <3>1, <3>2, <3>3
  <2>. QED
    BY <2>1, <2>2
<1>8. ASSUME NEW k \in DOMAIN all PROVE all[k].ref[1] = epoch
  <2>1. PICK m : all[k].ref = <<epoch, m>>
    BY <1>7
  <2>. QED
    BY <2>1
<1>9. ASSUME NEW k \in DOMAIN all, NEW l \in DOMAIN all, all[k].ref = all[l].ref
      PROVE  k = l
  <2>1. CASE k \in DOMAIN ax /\ l \in DOMAIN ax
    <3>1. all[k].ref = <<epoch, k>> /\ all[l].ref = <<epoch, l>>
      BY <1>7, <2>1
    <3>2. <<epoch, k>> = <<epoch, l>>
      BY <1>9, <3>1
    <3>. QED
      BY <3>2
  <2>2. CASE k \in DOMAIN ax /\ l \notin DOMAIN ax
    <3>1. PICK j \in DOMAIN dom : all[l].ref = <<epoch, Len(ax) + j>>
      BY <1>7, <2>2
    <3>2. all[k].ref = <<epoch, k>>
      BY <1>7, <2>2
    <3>3. <<epoch, Len(ax) + j>> = <<epoch, k>>
      BY <1>9, <3>1, <3>2
    <3>4. k = Len(ax) + j
      BY <3>3
    <3>. QED
      BY <1>1, <1>3, <2>2, <3>4
  <2>3. CASE k \notin DOMAIN ax /\ l \in DOMAIN ax
    <3>1. PICK j \in DOMAIN dom : all[k].ref = <<epoch, Len(ax) + j>>
      BY <1>7, <2>3
    <3>2. all[l].ref = <<epoch, l>>
      BY <1>7, <2>3
    <3>3. <<epoch, Len(ax) + j>> = <<epoch, l>>
      BY <1>9, <3>1, <3>2
    <3>4. l = Len(ax) + j
      BY <3>3
    <3>. QED
      BY <1>1, <1>3, <2>3, <3>4
  <2>4. CASE k \notin DOMAIN ax /\ l \notin DOMAIN ax
    <3>. SUFFICES ASSUME k # l PROVE FALSE
      OBVIOUS
    <3>1. PICK i \in DOMAIN dom, j \in DOMAIN dom : i # j /\ all[k] = dom[i] /\ all[l] = dom[j]
      BY <1>6, <2>4
    <3>2. dom[i].ref = <<epoch, start + i - 1>> /\ dom[j].ref = <<epoch, start + j - 1>>
      BY <1>3 DEF Numbered
    <3>3. start + i - 1 = start + j - 1
      BY <1>9, <3>1, <3>2
    <3>. QED
      BY <1>2, <1>3, <3>1, <3>3
  <2>. QED
    BY <2>1, <2>2, <2>3, <2>4
<1>10. v.epoch = epoch /\ v.targets = all
  BY <1>4
<1>11. ViewOK(v)
  BY <1>4, <1>6, <1>8, <1>9, <1>10 DEF ViewOK
<1>12. HasAll(v, axPage, domPage)
  <2>1. ASSUME NEW i \in DOMAIN domPage, domPage[i].dom # None
        PROVE  Has(all, domPage[i].dom, domPage[i].frame)
    <3>1. PICK j \in DOMAIN dom : dom[j].label = domPage[i].dom /\ dom[j].frame = domPage[i].frame
      BY <1>3, <2>1
    <3>2. PICK k \in DOMAIN all : SameKey(all[k], dom[j])
      BY <1>6
    <3>. QED
      BY <3>1, <3>2 DEF SameKey, Has
  <2>2. CASE axPage = None \/ Truncated(axPage)
    <3>1. v.unknowns # {}
      BY <1>4, <2>2
    <3>. QED
      BY <1>10, <2>1, <3>1 DEF HasAll
  <2>3. CASE axPage # None /\ ~Truncated(axPage)
    <3>1. Owned(all, axPage)
      <4>1. PICK own \in Injection(Ours(axPage), DOMAIN ax) : \A i \in Ours(axPage) :
               /\ ax[own[i]].label = axPage[i].ax
               /\ ax[own[i]].frame = MainFrame
        BY <1>5, <2>3 DEF Owned
      <4>2. \A i \in Ours(axPage) : own[i] \in DOMAIN ax
        BY <4>1 DEF Injection
      <4>3. own \in Injection(Ours(axPage), DOMAIN all)
        BY <1>6, <4>1, <4>2 DEF Injection
      <4>4. \A i \in Ours(axPage) : all[own[i]] = ax[own[i]]
        BY <1>6, <4>2
      <4>. QED
        BY <4>1, <4>3, <4>4 DEF Owned
    <3>2. Owned(v.targets, axPage)
      BY <1>10, <3>1
    <3>3. \A i \in DOMAIN domPage :
             domPage[i].dom # None => Has(v.targets, domPage[i].dom, domPage[i].frame)
      BY <1>10, <2>1
    <3>. QED
      BY <2>3, <3>2, <3>3 DEF HasAll
  <2>. QED
    BY <2>2, <2>3
<1>. QED
  BY <1>10, <1>11, <1>12 DEF v

-----------------------------------------------------------------------------
(* Who is touched *)

Codes == Refused \cup {"none", "ok", "MISSING_LOCATOR", "TARGET_NOT_FOUND"}

\* What an action with this target may have touched.
HitOf(o, target) ==
    /\ o.code \in Codes
    /\ o.hit # None => /\ target # None
                       /\ \E i \in Matches(target.label) : o.hit = page[i]

LEMMA DispatchHits ==
    ASSUME NEW target, NEW o \in Dispatch(target)
    PROVE  HitOf(o, target) /\ DOMAIN o = {"code", "hit", "counted"}
<1>1. CASE target = None
  BY <1>1 DEF Dispatch, HitOf, Codes
<1>2. CASE target # None
  <2>1. \/ o = Ends("TARGET_NOT_FOUND")
        \/ \E code \in {"ok", "TARGET_NOT_FOUND"}, i \in Matches(target.label) :
              o = [Ends(code) EXCEPT !.hit = page[i]]
    BY <1>2 DEF Dispatch
  <2>. QED
    BY <1>2, <2>1 DEF HitOf, Codes
<1>. QED
  BY <1>1, <1>2

LEMMA GuardedHits ==
    ASSUME NEW action, NEW target, NEW o \in Guarded(action, target)
    PROVE  HitOf(o, target)
<1>1. CASE ~Permits(action)
  BY <1>1 DEF Guarded, HitOf, Codes, Refused
<1>2. CASE Permits(action)
  <2>1. PICK b \in Browser(action, target) :
           o = [b EXCEPT !.counted = IF b.code = "raised" THEN 0 ELSE 1]
    BY <1>2 DEF Guarded, Metered
  <2>2. b \in Dispatch(target) \/ \E code \in {"raised", "UNSUPPORTED_KIND"} : b = Ends(code)
    BY DEF Browser
  <2>3. HitOf(b, target) /\ DOMAIN b = {"code", "hit", "counted"}
    <3>1. CASE b \in Dispatch(target)
      BY <3>1, DispatchHits
    <3>2. CASE \E code \in {"raised", "UNSUPPORTED_KIND"} : b = Ends(code)
      BY <3>2 DEF HitOf, Codes, Refused
    <3>. QED
      BY <2>2, <3>1, <3>2
  <2>4. o.code = b.code /\ o.hit = b.hit
    BY <2>1, <2>3
  <2>. QED
    BY <2>3, <2>4 DEF HitOf
<1>. QED
  BY <1>1, <1>2

\* The executor hands over the target under the ref in the latest view.
LEMMA ExecutorHits ==
    ASSUME NEW action, NEW o \in Executor(action)
    PROVE  /\ o.code \in Codes
           /\ o.hit # None => /\ ~Stale(view, action.ref)
                              /\ HitOf(o, Resolve(view, action.ref))
<1>1. \/ \E code \in Refused \cup {"TARGET_NOT_FOUND"} : o = Ends(code)
      \/ ~Stale(view, action.ref) /\ o \in Guarded(action, Resolve(view, action.ref))
  BY DEF Executor, Refused
<1>2. CASE \E code \in Refused \cup {"TARGET_NOT_FOUND"} : o = Ends(code)
  BY <1>2 DEF Codes
<1>3. CASE ~Stale(view, action.ref) /\ o \in Guarded(action, Resolve(view, action.ref))
  <2>1. HitOf(o, Resolve(view, action.ref))
    BY <1>3, GuardedHits
  <2>. QED
    BY <1>3, <2>1 DEF HitOf
<1>. QED
  BY <1>1, <1>2, <1>3

\* What the page shows for a plain name is that name.
LEMMA PlainMatch ==
    ASSUME page \in Seq(Element), NEW label \in Label, Plain(label), NEW i \in Matches(label)
    PROVE  page[i].ax = label /\ page[i] \in Element
<1>1. /\ i \in DOMAIN page /\ page[i].ax # None /\ page[i].ax.role = label.role
      /\ page[i].ax.name # None /\ <<label.name, page[i].ax.name>> \in PartOf
  BY DEF Matches, Plain
<1>2. page[i] \in Element /\ page[i].ax \in Label
  BY <1>1, ElementIs
<1>3. page[i].ax.name = label.name
  BY <1>1, <1>2 DEF Label, Plain
<1>. QED
  BY <1>1, <1>2, <1>3 DEF Label

-----------------------------------------------------------------------------
(* The inductive invariant of what the model means *)

\* As long as the model's ref is of the latest view, the target it saw is there.
Means ==
    proposal # None /\ proposal.saw # None =>
        /\ proposal.ref = proposal.saw.ref
        /\ proposal.ref[1] <= view.epoch
        /\ proposal.ref[1] = view.epoch =>
              \E i \in DOMAIN view.targets : view.targets[i] = proposal.saw

ViewInv == ViewOK(view) /\ HasAll(view, sources[1], sources[2])

MeantInv == TypeOK /\ ViewInv /\ Means /\ HitsWhatWasMeant

LEMMA ResolvesToSaw ==
    ASSUME ViewInv, Means, proposal # None, proposal.saw # None, ~Stale(view, proposal.ref)
    PROVE  Resolve(view, proposal.ref) = proposal.saw
<1>1. PICK i \in DOMAIN view.targets : view.targets[i] = proposal.saw
  BY DEF Means, Stale
<1>2. Found(view, proposal.ref) = {i}
  BY <1>1 DEF ViewInv, ViewOK, Means, Found
<1>3. i \in Nat
  BY LenProperties DEF ViewInv, ViewOK
<1>4. (CHOOSE k \in Found(view, proposal.ref) : \A j \in Found(view, proposal.ref) : k <= j) = i
  BY <1>2, <1>3
<1>. QED
  BY <1>1, <1>4 DEF Resolve

\* An end of a call that touches, if any, what the model saw.
Meant(o) ==
    /\ Fair(o) /\ o.code \in Codes /\ o.hit \in Element \cup {None}
    /\ o.hit # None /\ proposal.saw # None /\ Plain(proposal.saw.label) =>
          o.hit.ax = proposal.saw.label

LEMMA PagesTyped ==
    ASSUME TypeOK
    PROVE  /\ page \in Seq(Element)
           /\ proposal # None => proposal \in Proposal
           /\ proposal # None /\ proposal.saw # None =>
                 /\ proposal.saw.label \in Label /\ proposal.saw.ref \in Nat \X Nat
BY PipelineAssumption DEF TypeOK, Proposal, Target

LEMMA ExecutorMeant ==
    ASSUME MeantInv, proposal # None, NEW o \in Executor(proposal)
    PROVE  Meant(o)
<1>1. Fair(o) /\ o.code \in Codes
  BY ExecutorEnds, ExecutorHits
<1>2. CASE o.hit = None
  BY <1>1, <1>2 DEF Meant
<1>3. CASE o.hit # None
  <2>. DEFINE target == Resolve(view, proposal.ref)
  <2>1. ~Stale(view, proposal.ref) /\ HitOf(o, target)
    BY <1>3, ExecutorHits
  <2>. HIDE DEF target
  <2>2. PICK i \in Matches(target.label) : o.hit = page[i]
    BY <1>3, <2>1 DEF HitOf
  <2>3. page \in Seq(Element)
    BY PagesTyped DEF MeantInv
  <2>4. i \in DOMAIN page
    BY DEF Matches
  <2>5. o.hit \in Element
    BY <2>2, <2>3, <2>4, ElementIs
  <2>6. ASSUME proposal.saw # None, Plain(proposal.saw.label)
        PROVE  o.hit.ax = proposal.saw.label
    <3>1. target = proposal.saw
      BY <2>1, <2>6, ResolvesToSaw DEF MeantInv, target
    <3>2. proposal.saw.label \in Label
      BY <2>6, PagesTyped DEF MeantInv
    <3>. QED
      BY <2>2, <2>3, <2>6, <3>1, <3>2, PlainMatch
  <2>. QED
    BY <1>1, <2>5, <2>6 DEF Meant
<1>. QED
  BY <1>2, <1>3

LEMMA DirectMeant ==
    ASSUME NEW o \in Guarded(proposal, None)
    PROVE  Meant(o)
BY GuardedEnds, GuardedHits DEF HitOf, Meant

LEMMA CallMeant ==
    ASSUME MeantInv, NEW ends, \A o \in ends : Meant(o), Call(ends)
    PROVE  MeantInv'
<1>1. PICK o \in ends :
         /\ steps' = steps + o.counted
         /\ uncounted' = IF o.hit = None \/ o.counted = 1 THEN uncounted
                         ELSE uncounted \cup {"execute"}
         /\ outcome' = [code |-> o.code, hit |-> o.hit, saw |-> proposal.saw]
         /\ page' \in IF o.hit = None THEN {page} ELSE Pages
  BY DEF Call
<1>2. /\ proposal # None /\ proposal' = None /\ steps < MaxSteps
      /\ UNCHANGED <<session, view, sources>>
  BY DEF Call, viewVars
<1>3. Meant(o) /\ TypeOK
  BY DEF MeantInv
<1>4. TypeOK'
  <2>1. page' \in Pages /\ proposal' \in Proposal \cup {None}
    BY <1>1, <1>2, <1>3 DEF TypeOK
  <2>2. steps' \in 0..MaxSteps /\ uncounted' \subseteq {"execute", "goto"}
    BY <1>1, <1>2, <1>3, PipelineAssumption DEF TypeOK, Meant, Fair
  <2>3. outcome' \in [code : Codes, hit : Element \cup {None}, saw : Target \cup {None}]
    <3>1. proposal.saw \in Target \cup {None}
      BY <1>2, <1>3 DEF TypeOK, Proposal
    <3>. QED
      BY <1>1, <1>3, <3>1 DEF Meant
  <2>4. /\ session' = session /\ view' = view /\ sources' = sources
    BY <1>2
  <2>. QED
    BY <1>3, <2>1, <2>2, <2>3, <2>4 DEF TypeOK, Codes
<1>5. ViewInv'
  BY <1>2 DEF MeantInv, ViewInv
<1>6. Means'
  BY <1>2 DEF Means
<1>7. HitsWhatWasMeant'
  BY <1>1, <1>3 DEF HitsWhatWasMeant, Meant, Plain
<1>. QED
  BY <1>4, <1>5, <1>6, <1>7 DEF MeantInv

\* A view that has just been built.
LEMMA BuiltView ==
    ASSUME NEW ax \in Pages \cup {None}, NEW dom \in Pages \cup {<<>>},
           NEW epoch \in 0..MaxEpoch, NEW v, v = BuildView(ax, dom, epoch)
    PROVE  /\ ViewOK(v) /\ HasAll(v, ax, dom) /\ v.epoch = epoch
           /\ v \in [epoch : 0..MaxEpoch, targets : Seq(Target),
                    unknowns : SUBSET {"ax_empty", "ax_truncated"}]
<1>1. (ax = None \/ ax \in Seq(Element)) /\ dom \in Seq(Element) /\ epoch \in Nat
  <2>1. ax = None \/ ax \in Seq(Element)
    BY PipelineAssumption
  <2>2. dom \in Seq(Element)
    <3>1. <<>> \in Seq(Element)
      BY EmptySeq
    <3>. QED
      BY <3>1, PipelineAssumption
  <2>3. epoch \in Nat
    OBVIOUS
  <2>. QED
    BY <2>1, <2>2, <2>3
<1>2. ViewOK(v) /\ HasAll(v, ax, dom) /\ v.epoch = epoch
  BY <1>1, ViewIs
<1>. QED
  BY <1>2 DEF ViewOK

LEMMA InitMeant == Init => MeantInv
<1>. SUFFICES ASSUME Init PROVE MeantInv
  OBVIOUS
<1>1. 0 \in 0..MaxEpoch /\ 0 \in 0..MaxSteps
  BY PipelineAssumption
<1>2. /\ ViewOK(view) /\ HasAll(view, None, <<>>)
      /\ view \in [epoch : 0..MaxEpoch, targets : Seq(Target),
                   unknowns : SUBSET {"ax_empty", "ax_truncated"}]
  BY <1>1, BuiltView DEF Init
<1>3. TypeOK
  BY <1>1, <1>2 DEF Init, TypeOK, NoCall
<1>4. ViewInv
  BY <1>2 DEF Init, ViewInv
<1>5. Means /\ HitsWhatWasMeant
  BY DEF Init, Means, HitsWhatWasMeant, NoCall
<1>. QED
  BY <1>3, <1>4, <1>5 DEF MeantInv

LEMMA ObserveMeant ==
    ASSUME MeantInv, Observe
    PROVE  MeantInv'
<1>1. PICK ax \in Pages \cup {None}, dom \in {page, <<>>} :
         sources' = <<ax, dom>> /\ view' = BuildView(ax, dom, view.epoch + 1)
  BY DEF Observe
<1>2. /\ view.epoch < MaxEpoch /\ outcome' = NoCall
      /\ UNCHANGED <<page, session, proposal, steps, uncounted>>
  BY DEF Observe, browserVars
<1>3. /\ view.epoch \in Nat /\ view.epoch + 1 \in 0..MaxEpoch /\ dom \in Pages \cup {<<>>}
  BY <1>1, <1>2, PipelineAssumption DEF MeantInv, TypeOK
<1>4. /\ ViewOK(view') /\ HasAll(view', ax, dom) /\ view'.epoch = view.epoch + 1
      /\ view' \in [epoch : 0..MaxEpoch, targets : Seq(Target),
                    unknowns : SUBSET {"ax_empty", "ax_truncated"}]
  <2>1. PICK epoch \in 0..MaxEpoch : epoch = view.epoch + 1
    BY <1>3
  <2>2. view' = BuildView(ax, dom, epoch)
    BY <1>1, <2>1
  <2>3. /\ ViewOK(view') /\ HasAll(view', ax, dom) /\ view'.epoch = epoch
        /\ view' \in [epoch : 0..MaxEpoch, targets : Seq(Target),
                      unknowns : SUBSET {"ax_empty", "ax_truncated"}]
    BY <1>3, <2>2, BuiltView
  <2>. QED
    BY <2>1, <2>3
<1>5. TypeOK'
  BY <1>1, <1>2, <1>3, <1>4 DEF MeantInv, TypeOK, NoCall
<1>6. ViewInv'
  BY <1>1, <1>4 DEF ViewInv
<1>7. Means'
  <2>. SUFFICES ASSUME proposal # None, proposal.saw # None
                PROVE  /\ proposal.ref = proposal.saw.ref
                       /\ proposal.ref[1] < view'.epoch
    <3>1. \A x \in Int : x < view'.epoch => x # view'.epoch /\ x <= view'.epoch
      BY <1>3, <1>4
    <3>2. proposal # None /\ proposal.saw # None => proposal.ref[1] \in Int
      BY PagesTyped DEF MeantInv, Means
    <3>. QED
      BY <1>2, <3>1, <3>2 DEF Means
  <2>1. /\ proposal.ref = proposal.saw.ref /\ proposal.ref[1] <= view.epoch
        /\ proposal.ref[1] \in Nat
    BY PagesTyped DEF MeantInv, Means
  <2>. QED
    BY <1>3, <1>4, <2>1
<1>8. HitsWhatWasMeant'
  BY <1>2 DEF HitsWhatWasMeant, NoCall
<1>. QED
  BY <1>5, <1>6, <1>7, <1>8 DEF MeantInv

LEMMA ProposeMeant ==
    ASSUME MeantInv, Propose
    PROVE  MeantInv'
<1>1. PICK k \in Kind, text \in BOOLEAN :
         \/ \E i \in DOMAIN view.targets :
               proposal' = [kind |-> k, text |-> text, saw |-> view.targets[i],
                            ref |-> view.targets[i].ref]
         \/ \E r \in {None, <<view.epoch, MaxTargets + 1>>} :
               proposal' = [kind |-> k, text |-> text, saw |-> None, ref |-> r]
  BY DEF Propose
<1>2. outcome' = NoCall /\ UNCHANGED <<page, session, view, sources, steps, uncounted>>
  BY DEF Propose, browserVars, viewVars
<1>3. /\ view.targets \in Seq(Target) /\ view.epoch \in Nat /\ MaxTargets + 1 \in Nat
      /\ \A i \in DOMAIN view.targets : view.targets[i].ref[1] = view.epoch
  BY PipelineAssumption, ViewAssumption DEF MeantInv, TypeOK, ViewInv, ViewOK
<1>4. ASSUME NEW i \in DOMAIN view.targets
      PROVE  view.targets[i] \in Target /\ view.targets[i].ref \in Nat \X Nat
  <2>1. view.targets[i] \in Target
    BY <1>3, LenProperties, ElementOfSeq
  <2>. QED
    BY <2>1 DEF Target
<1>5. proposal' \in Proposal
  BY <1>1, <1>3, <1>4 DEF Proposal
<1>6. TypeOK'
  BY <1>2, <1>5 DEF MeantInv, TypeOK, NoCall
<1>7. Means'
  BY <1>1, <1>2, <1>3 DEF Means
<1>8. ViewInv' /\ HitsWhatWasMeant'
  BY <1>2 DEF MeantInv, ViewInv, HitsWhatWasMeant, NoCall
<1>. QED
  BY <1>6, <1>7, <1>8 DEF MeantInv

LEMMA MeantStep ==
    ASSUME MeantInv, [Next]_vars
    PROVE  MeantInv'
<1>1. CASE Execute
  BY <1>1, ExecutorMeant, CallMeant DEF Execute
<1>2. CASE ExecuteDirectly
  BY <1>2, DirectMeant, CallMeant DEF ExecuteDirectly
<1>3. CASE PageChanges \/ Goto \/ CreateSession \/ CloseSession
  <2>1. /\ page' \in Pages /\ session' \in BOOLEAN /\ outcome' = NoCall
        /\ UNCHANGED <<view, sources, proposal, steps>>
        /\ uncounted' \in {uncounted, uncounted \cup {"goto"}}
    BY <1>3 DEF PageChanges, Goto, CreateSession, CloseSession, Shows, SessionIs,
                viewVars, MeantInv, TypeOK
  <2>2. TypeOK'
    BY <2>1 DEF MeantInv, TypeOK, NoCall
  <2>3. ViewInv' /\ Means' /\ HitsWhatWasMeant'
    BY <2>1 DEF MeantInv, ViewInv, Means, HitsWhatWasMeant, NoCall
  <2>. QED
    BY <2>2, <2>3 DEF MeantInv
<1>4. CASE Observe \/ Propose
  BY <1>4, ObserveMeant, ProposeMeant
<1>5. CASE UNCHANGED vars
  BY <1>5 DEF vars, browserVars, viewVars, MeantInv, TypeOK, ViewInv, Means,
              HitsWhatWasMeant
<1>. QED
  BY <1>1, <1>2, <1>3, <1>4, <1>5 DEF Next

LEMMA AlwaysMeant == Spec => []MeantInv
BY InitMeant, MeantStep, PTL DEF Spec

\* For any pages and bounds: the type invariant.
THEOREM TypeCorrect == Spec => []TypeOK
<1>1. MeantInv => TypeOK
  BY DEF MeantInv
<1>. QED
  BY <1>1, AlwaysMeant, PTL

\* However often page and view have changed since the model saw its target, an
\* action touches only an element with the role and name the model saw.
THEOREM OnlyTheMeantIsHit == Spec => []HitsWhatWasMeant
<1>1. MeantInv => HitsWhatWasMeant
  BY DEF MeantInv
<1>. QED
  BY <1>1, AlwaysMeant, PTL

\* Unless a view says that its accessibility part is missing or cut off, each
\* interactive element of that part has a target of its own, and what the DOM
\* shows has a target with its role, name and frame.
THEOREM ViewsAreComplete == Spec => []NothingSilentlyMissing
<1>1. MeantInv => NothingSilentlyMissing
  BY DEF MeantInv, ViewInv, HasAll, Has, Owned, Ours, NothingSilentlyMissing
<1>. QED
  BY <1>1, AlwaysMeant, PTL
=============================================================================
