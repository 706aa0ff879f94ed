--------------------------- MODULE MCLeafIssuance ---------------------------
(***************************************************************************)
(* A small instance of LeafIssuance: two semantic connections, one to the  *)
(* native tools with a request on it, two calls of ApplyLatest, three      *)
(* revisions of the Environment of which the second has no tools, and two  *)
(* calls of the authority's Shutdown.                                      *)
(***************************************************************************)
EXTENDS LeafIssuance, TLC

CONSTANTS c1, c2, c3, r1, x1, x2, s1, s2

MCConnectionOf == [r \in Requests |-> c3]
MCServes       == [e \in 1..MaxHead |-> IF e = 2 THEN Connections \ Tools ELSE Connections]

Started(f, idle) == Cardinality({i \in DOMAIN f : f[i] # idle})

\* Bound: how many connections, requests, leaves, applies, creations, publications
\* and shutdowns meet in one behaviour.
MCFocus ==
    head - 1 + Started(conn, At("idle")) + Started(request, At("idle"))
        + Started(leaf, At("idle"))
        + Started(apply, NoApply) + Started(closer, "idle")
        + (IF stop = "running" THEN 0 ELSE 1) + (IF creating THEN 1 ELSE 0) <= 5

Interchangeable ==
    Permutations({c1, c2}) \union Permutations({x1, x2}) \union Permutations({s1, s2})
=============================================================================
