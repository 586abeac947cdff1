------------------------------ MODULE PageView ------------------------------
(***************************************************************************)
(* How perceive/ makes the targets a model can act on out of what a page   *)
(* shows: normalize_ax_snapshot, extract_dom_targets, build_page_view, and *)
(* act/locator.py, which finds a target again by its ref.                  *)
(*                                                                         *)
(* A page is its elements in document order.  An element has a label, role *)
(* and name, in the accessibility tree, in the DOM, in both or in neither; *)
(* the two differ for some (input type=number: spinbutton and textbox).    *)
(***************************************************************************)
EXTENDS Integers, Sequences, FiniteSets

CONSTANTS
    Role, Name, Frame,
    InteractiveRole,   \* _INTERACTIVE_ROLES
    MainFrame,         \* the frame the accessibility snapshot is taken of
    MaxTargets,        \* MAX_INTERACTIVE_TARGETS
    None

ASSUME ViewAssumption ==
    /\ InteractiveRole \subseteq Role
    /\ MainFrame \in Frame
    /\ MaxTargets \in Nat \ {0}
    /\ None \notin Name

Label   == [role : Role, name : Name \cup {None}]
Element == [ax : Label \cup {None}, dom : Label \cup {None}, frame : Frame]
Target  == [ref : Nat \X Nat, label : Label, frame : Frame]

\* What is at the places in keep, in the order it has in s.
Kept(s, keep) ==
    [k \in 1..Cardinality(keep) |->
        s[CHOOSE i \in keep : Cardinality({j \in keep : j <= i}) = k]]

AxNodes(page) ==
    Kept(page, {i \in DOMAIN page : /\ page[i].frame = MainFrame /\ page[i].ax # None
                                    /\ page[i].ax.role \in InteractiveRole})

Truncated(page) == Len(AxNodes(page)) > MaxTargets

AxTargets(page, epoch) ==
    LET nodes == AxNodes(page)
    IN  [i \in 1..(IF Truncated(page) THEN MaxTargets ELSE Len(nodes)) |->
            [ref |-> <<epoch, i>>, label |-> nodes[i].ax, frame |-> MainFrame]]

\* MUTANT: elements of any tag become targets.
AnyTag(page) == page

\* extract_dom_targets keeps the interactive tags.
DomNodes(page) == Kept(page, {i \in DOMAIN page : page[i].dom # None})

\* MUTANT: the numbers of the DOM targets start again at 1.
DomFromOne(page, epoch, start) ==
    LET nodes == DomNodes(page)
    IN  [i \in 1..Len(nodes) |->
            [ref |-> <<epoch, i>>, label |-> nodes[i].dom, frame |-> nodes[i].frame]]

DomTargets(page, epoch, start) ==
    LET nodes == DomNodes(page)
    IN  [i \in 1..Len(nodes) |->
            [ref |-> <<epoch, start + i - 1>>,
             label |-> nodes[i].dom, frame |-> nodes[i].frame]]

\* _target_key
SameKey(t, u) == t.label = u.label /\ t.frame = u.frame

\* merge_targets: of the DOM targets those with a key not seen before
Unseen(ax, dom) ==
    {j \in DOMAIN dom : /\ \A i \in DOMAIN ax : ~SameKey(ax[i], dom[j])
                        /\ \A i \in 1..(j - 1) : ~SameKey(dom[i], dom[j])}

\* MUTANT: the accessibility targets go through the loop too.
MergeAlike(ax, dom) == Kept(ax \o dom, Unseen(<<>>, ax \o dom))

\* The targets of the accessibility tree are all kept, alike or not.
Merge(ax, dom) == ax \o Kept(dom, Unseen(ax, dom))

\* The page of the accessibility snapshot, None if there was none, and the page
\* the DOM nodes were read from later; <<>> stands for no DOM nodes.
BuildView(axPage, domPage, epoch) ==
    LET ax  == IF axPage = None THEN <<>> ELSE AxTargets(axPage, epoch)
        dom == DomTargets(domPage, epoch, Len(ax) + 1)
        named == axPage # None /\ \E i \in DOMAIN axPage :
                    /\ axPage[i].frame = MainFrame /\ axPage[i].ax # None
                    /\ axPage[i].ax.role = "heading" /\ axPage[i].ax.name # None
    IN  [epoch    |-> epoch,
         targets  |-> Merge(ax, dom),
         unknowns |-> (IF ax = <<>> /\ ~named THEN {"ax_empty"} ELSE {})
                      \cup (IF axPage # None /\ Truncated(axPage)
                            THEN {"ax_truncated"} ELSE {})]

\* resolve_role_name_locator: the first target with the ref
Stale(view, ref) == ref[1] # view.epoch

Found(view, ref) == {i \in DOMAIN view.targets : view.targets[i].ref = ref}

Resolve(view, ref) ==
    view.targets[CHOOSE i \in Found(view, ref) : \A j \in Found(view, ref) : i <= j]
=============================================================================
