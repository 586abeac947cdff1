-------------------------- MODULE MCActionPipeline --------------------------
(* Instances of ActionPipeline for TLC. *)
EXTENDS ActionPipeline

El(ax, dom, frame) == [ax |-> ax, dom |-> dom, frame |-> frame]
L(role, name) == [role |-> role, name |-> name]

save   == L("button", "Save")
all    == L("button", "Save all")
plain  == L("button", "Send")
bare   == L("button", None)
title  == L("heading", "Form")
qty    == L("spinbutton", "Qty")
qtyDom == L("textbox", "Qty")

MCRole == {"button", "spinbutton", "textbox", "heading"}
MCInteractive == MCRole \ {"heading"}
MCName == {"Save", "Save all", "Send", "Form", "Qty"}
MCPartOf == {<<n, n>> : n \in MCName} \cup {<<"Save", "Save all">>}
MCKind == {"click", "type", "hover", "navigate"}

\* The same two buttons in either order; two buttons named alike in the
\* accessibility tree and two without a name that only the DOM has, a part of
\* their name in another frame; more targets than the limit of two, one of which
\* is a spinbutton in one read and a textbox in the other.
MCPages == {
    <<El(save, save, "main"), El(plain, plain, "main")>>,
    <<El(title, None, "main"), El(plain, plain, "main"), El(save, None, "main")>>,
    <<El(all, None, "main"), El(all, None, "main"), El(None, save, "sub"),
      El(None, bare, "main"), El(None, bare, "main")>>,
    <<El(plain, None, "main"), El(qty, qtyDom, "main"), El(all, all, "main")>> }
=============================================================================
