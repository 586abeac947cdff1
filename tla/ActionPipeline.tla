--------------------------- MODULE ActionPipeline ---------------------------
(***************************************************************************)
(* An action on its way to a page: TypedActionExecutor (act/executor.py),  *)
(* PolicyGuardedBrowser around MeteredBrowser (core/), stacked as the tests *)
(* stack them, around PlaywrightCdpBrowser.  The page belongs to the       *)
(* browser and changes whenever it likes: between the two reads a view is  *)
(* made of, while the model thinks, and before the action arrives.         *)
(***************************************************************************)
EXTENDS PageView, Functions

CONSTANTS
    Kind,        \* kinds of action the model proposes
    Pages,       \* what the page may show
    PartOf,      \* pairs of names, the first a part of the second
    MaxEpoch,    \* bound: views built
    MaxSteps     \* bound: steps recorded

ASSUME PipelineAssumption ==
    /\ Pages \subseteq Seq(Element)
    /\ PartOf \subseteq Name \X Name
    /\ \A n \in Name : <<n, n>> \in PartOf
    /\ {MaxEpoch, MaxSteps} \subseteq Nat

VARIABLES
    page,        \* what the browser shows
    session,     \* a task session is active
    view,        \* the latest PageView
    sources,     \* history: the pages it was made of
    proposal,    \* the action the model wants, or None
    steps,       \* recorded_total of the StepMeter
    uncounted,   \* history: the calls that acted on the page without a step
    outcome      \* history: how the step that was just taken, if a call, ended

browserVars == <<page, session>>
viewVars == <<view, sources>>
vars == <<browserVars, viewVars, proposal, steps, uncounted, outcome>>

\* text stands for a text that is there and not empty; saw is the target the
\* model means by its ref, None if it made the ref up.
Proposal == [kind : Kind, ref : (Nat \X Nat) \cup {None}, text : BOOLEAN,
             saw : Target \cup {None}]

Refused == {"UNSUPPORTED_KIND", "INVALID_ACTION", "STALE_REF",
            "POLICY_REJECTED", "raised"}

TypeOK ==
    /\ page \in Pages
    /\ session \in BOOLEAN
    /\ view \in [epoch : 0..MaxEpoch, targets : Seq(Target),
                 unknowns : SUBSET {"ax_empty", "ax_truncated"}]
    /\ sources \in (Pages \cup {None}) \X (Pages \cup {<<>>})
    /\ proposal \in Proposal \cup {None}
    /\ steps \in 0..MaxSteps
    /\ uncounted \subseteq {"execute", "goto"}
    /\ outcome \in [code : Refused \cup {"none", "ok", "MISSING_LOCATOR", "TARGET_NOT_FOUND"},
                    hit : Element \cup {None}, saw : Target \cup {None}]

NoCall == [code |-> "none", hit |-> None, saw |-> None]

Init ==
    /\ page \in Pages
    /\ session = FALSE
    /\ view = BuildView(None, <<>>, 0)
    /\ sources = <<None, <<>>>>
    /\ proposal = None
    /\ steps = 0
    /\ uncounted = {}
    /\ outcome = NoCall

-----------------------------------------------------------------------------
(* The browser and its session *)

Shows(p) ==
    /\ page' = p
    /\ outcome' = NoCall
    /\ UNCHANGED <<session, viewVars, proposal, steps>>

PageChanges == (\E p \in Pages \ {page} : Shows(p)) /\ UNCHANGED uncounted

\* goto, to a url the navigation policy allows.  No wrapper has a goto: it goes
\* past the guard and the meter, and may raise before or after the page is there.
Goto ==
    /\ session
    /\ \E p \in Pages : Shows(p)
    /\ uncounted' = uncounted \cup {"goto"}

SessionIs(s) ==
    /\ session' = s
    /\ outcome' = NoCall
    /\ UNCHANGED <<page, viewVars, proposal, steps, uncounted>>

\* A second session is refused.  A connection that fails leaves none; if the
\* probe of its capabilities raises, the session is there all the same.
CreateSession == ~session /\ SessionIs(TRUE)

\* The session is gone whatever its three handles say when they are closed.
CloseSession == session /\ SessionIs(FALSE)

-----------------------------------------------------------------------------
(* The caller: it builds views, numbered one up, and asks the model *)

\* The page may have changed since the accessibility snapshot was taken.
Observe ==
    /\ session
    /\ view.epoch < MaxEpoch
    /\ \E ax \in Pages \cup {None}, dom \in {page, <<>>} :
          /\ sources' = <<ax, dom>>
          /\ view' = BuildView(ax, dom, view.epoch + 1)
    /\ outcome' = NoCall
    /\ UNCHANGED <<browserVars, proposal, steps, uncounted>>

Propose ==
    /\ proposal = None
    /\ \E k \in Kind, text \in BOOLEAN :
          \/ \E i \in DOMAIN view.targets :
                proposal' = [kind |-> k, text |-> text, saw |-> view.targets[i],
                             ref |-> view.targets[i].ref]
          \/ \E r \in {None, <<view.epoch, MaxTargets + 1>>} :
                proposal' = [kind |-> k, text |-> text, saw |-> None, ref |-> r]
    /\ outcome' = NoCall
    /\ UNCHANGED <<browserVars, viewVars, steps, uncounted>>

-----------------------------------------------------------------------------
(* The layers: each returns what a call may end in *)

Ends(code) == [code |-> code, hit |-> None, counted |-> 0]

Allowed == {"click", "type", "scroll"}

\* get_by_role searches the main frame, by the accessible role and a part of
\* the name, by the role alone if there is no name.
Matches(label) ==
    {i \in DOMAIN page :
        /\ page[i].frame = MainFrame /\ page[i].ax # None
        /\ page[i].ax.role = label.role
        /\ \/ label.name = None
           \/ page[i].ax.name # None /\ <<label.name, page[i].ax.name>> \in PartOf}

\* dispatch_typed_action.  Playwright refuses to choose between several
\* matches.  It may raise before the element is touched, or after.
Dispatch(target) ==
    IF target = None THEN {Ends("MISSING_LOCATOR")}
    ELSE LET found == Matches(target.label)
         IN  {Ends("TARGET_NOT_FOUND")} \cup
             {[Ends(code) EXCEPT !.hit = page[i]] :
                 code \in {"ok", "TARGET_NOT_FOUND"},
                 i \in IF Cardinality(found) = 1 THEN found ELSE {}}

\* PlaywrightCdpBrowser.execute
Browser(action, target) ==
    IF ~session \/ action.kind = "navigate" THEN {Ends("raised")}
    ELSE IF action.kind \in Allowed THEN Dispatch(target)
    ELSE {Ends("UNSUPPORTED_KIND")}

\* MUTANT: only what went well is recorded.
MeterSuccess(action, target) ==
    {[o EXCEPT !.counted = IF o.code = "ok" THEN 1 ELSE 0] : o \in Browser(action, target)}

\* MeteredBrowser.execute, StepMeter.record: action based, one step each
Metered(action, target) ==
    {[o EXCEPT !.counted = IF o.code = "raised" THEN 0 ELSE 1] : o \in Browser(action, target)}

\* The scroll_mode of a scroll is not in the model: it has one value, INTO_VIEW.
Complete(action) == action.ref # None /\ (action.kind = "type" => action.text)

\* PolicyGate.evaluate; a locator is always by role and name
Permits(action) == action.kind \in Allowed /\ Complete(action)

\* MUTANT: the meter is outside of the guard.
MeterOutside(action, target) ==
    IF Permits(action) THEN Metered(action, target)
    ELSE {[Ends("POLICY_REJECTED") EXCEPT !.counted = 1]}

\* PolicyGuardedBrowser.execute
Guarded(action, target) ==
    IF Permits(action) THEN Metered(action, target) ELSE {Ends("POLICY_REJECTED")}

\* TypedActionExecutor.execute: its own checks come before the browser's
Executor(action) ==
    IF action.kind \notin Allowed THEN {Ends("UNSUPPORTED_KIND")}
    ELSE IF ~Complete(action) THEN {Ends("INVALID_ACTION")}
    ELSE IF Stale(view, action.ref) THEN {Ends("STALE_REF")}
    ELSE IF Found(view, action.ref) = {} THEN {Ends("TARGET_NOT_FOUND")}
    ELSE Guarded(action, Resolve(view, action.ref))

\* The call ends one of these ways, and a page that was touched may change.
Call(ends) ==
    /\ proposal # None
    /\ steps < MaxSteps
    /\ \E o \in ends :
          /\ steps' = steps + o.counted
          /\ uncounted' = IF o.hit = None \/ o.counted = 1 THEN uncounted
                          ELSE uncounted \cup {"execute"}
          /\ outcome' = [code |-> o.code, hit |-> o.hit, saw |-> proposal.saw]
          /\ page' \in IF o.hit = None THEN {page} ELSE Pages
    /\ proposal' = None
    /\ UNCHANGED <<session, viewVars>>

Execute == proposal # None /\ Call(Executor(proposal))

\* A caller that gives the action to the browser itself has no locator for it.
ExecuteDirectly == proposal # None /\ Call(Guarded(proposal, None))

Next ==
    \/ PageChanges \/ Goto \/ CreateSession \/ CloseSession
    \/ Observe \/ Propose
    \/ Execute \/ ExecuteDirectly

Spec == Init /\ [][Next]_vars

-----------------------------------------------------------------------------
(* Properties *)

\* INV-8, which the code keeps for all but navigation: whatever the browser
\* then reports, a success, a failure or a timeout, execute never touches the
\* page without a step being recorded.  Architecture 6.3 asks it of navigate
\* too; goto is what the code has for that, and is the exception.
OnlyGotoIsUncounted == uncounted \subseteq {"goto"}

\* INV-10: what the executor, the policy gate or a browser without a session
\* refuses costs no step and does not reach the page.
RefusedIsFree ==
    [][(steps' # steps \/ outcome'.hit # None) =>
          session /\ outcome'.code \notin Refused]_vars

\* A name nothing on any page could mistake for another.
Plain(label) ==
    /\ label.name # None
    /\ \A n \in Name : <<label.name, n>> \in PartOf => n = label.name

\* However often page and view have changed since the model has seen its
\* target, an action touches only an element with the role and name the model
\* saw under that ref, if that name is not a part of others.
HitsWhatWasMeant ==
    outcome.hit # None /\ outcome.saw # None /\ Plain(outcome.saw.label) =>
        outcome.hit.ax = outcome.saw.label

\* Unless the view says that the accessibility part is missing or cut off, each
\* interactive element of the accessibility tree has a target of its own, two
\* that are named alike too.  What the DOM shows has a target with its role,
\* name and frame, but not one each: elements that share all three share the
\* target that was met first, and no unknown says that there are more of them.
NothingSilentlyMissing ==
    LET targets == view.targets
        domPage == sources[2]
        axPage == sources[1]
        ours == {i \in DOMAIN axPage : /\ axPage[i].ax # None
                                       /\ axPage[i].frame = MainFrame
                                       /\ axPage[i].ax.role \in InteractiveRole}
    IN  /\ \A i \in DOMAIN domPage : domPage[i].dom # None =>
              \E k \in DOMAIN targets : /\ targets[k].label = domPage[i].dom
                                        /\ targets[k].frame = domPage[i].frame
        /\ \/ view.unknowns # {}
           \/ /\ axPage # None
              /\ \E own \in Injection(ours, DOMAIN targets) : \A i \in ours :
                    /\ targets[own[i]].label = axPage[i].ax
                    /\ targets[own[i]].frame = MainFrame
=============================================================================
