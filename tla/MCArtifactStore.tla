-------------------------- MODULE MCArtifactStore --------------------------
(* Small instances of ArtifactStore. *)
EXTENDS ArtifactStore, TLC

CONSTANTS a, b,      \* artifact ids
          f, g,      \* paths
          x, y,      \* contents
          s1, s2     \* stores

\* A first artifact, one with the same id, and one with the same path.
Conflicting == {[id |-> a, path |-> f, content |-> x],
                [id |-> a, path |-> g, content |-> y],
                [id |-> b, path |-> f, content |-> y]}

OneArtifact == {[id |-> a, path |-> f, content |-> x]}

Symmetry == Permutations(Store)
=============================================================================
