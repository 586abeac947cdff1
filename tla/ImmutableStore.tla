--------------------------- MODULE ImmutableStore ---------------------------
(***************************************************************************)
(* What an artifact store promises (architecture 19.2 and the W0-007 step  *)
(* of the execution plan): no two artifacts share an id or a path, and an  *)
(* artifact whose put has returned stays readable as it was, for ever.     *)
(* Artifacts nobody was told about may come and go.  ArtifactStore is      *)
(* shown to implement this.                                                *)
(***************************************************************************)
CONSTANT Request   \* records with the fields id, path and content

VARIABLES readable,   \* artifacts a reader would be given
          acked       \* artifacts whose put has returned

vars == <<readable, acked>>

Compatible(V) == \A r, q \in V : r # q => r.id # q.id /\ r.path # q.path

Init == readable = {} /\ acked = {}

Settle ==
    /\ readable' \in {V \in SUBSET Request : acked \subseteq V /\ Compatible(V)}
    /\ UNCHANGED acked

Ack(r) ==
    /\ r \in readable
    /\ acked' = acked \cup {r}
    /\ UNCHANGED readable

Next == Settle \/ \E r \in Request : Ack(r)

Spec == Init /\ [][Next]_vars
=============================================================================
