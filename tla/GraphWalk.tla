------------------------------- MODULE GraphWalk -------------------------------
(***************************************************************************)
(* Store::graph_neighborhood: from a root entity along relations in both   *)
(* directions, breadth first, with a limit on the entities and on the      *)
(* relations taken.  Entities and relations are read one after the other,  *)
(* so a relation may name an entity the first read did not know.           *)
(***************************************************************************)
EXTENDS Naturals, FiniteSets, Sequences

NoEntity == 0
Elements(s) == {s[i] : i \in DOMAIN s}

\* The end of relation e that lies across from the frontier.
Across(e, frontier) ==
  IF e.subject \in frontier THEN e.object
  ELSE IF e.object \in frontier THEN e.subject
  ELSE NoEntity

\* One relation of a hop: w holds what was taken so far.
FollowUnknown(w, e, known, limit) ==
  LET n == Across(e, w.frontier)
      new == n \notin w.nodes
      full == Len(w.edges) >= limit \/ Cardinality(w.nodes) >= limit
  IN IF n = NoEntity \/ (new /\ full) THEN w
     ELSE [w EXCEPT !.nodes = @ \cup {n}, !.next = IF new THEN @ \cup {n} ELSE @,
                    !.edges = IF e \in Elements(@) \/ Len(@) >= limit THEN @ ELSE Append(@, e)]
Follow(w, e, known, limit) ==
  LET n == Across(e, w.frontier)
      new == n \notin w.nodes
      full == Len(w.edges) >= limit \/ Cardinality(w.nodes) >= limit
  IN IF n \notin known \/ (new /\ full) THEN w
     ELSE [w EXCEPT !.nodes = @ \cup {n}, !.next = IF new THEN @ \cup {n} ELSE @,
                    !.edges = IF e \in Elements(@) \/ Len(@) >= limit THEN @ ELSE Append(@, e)]

Hop(w, known, relations, limit) ==
  LET walked[i \in 0..Len(relations)] ==
        IF i = 0 THEN [w EXCEPT !.next = {}]
        ELSE Follow(walked[i - 1], relations[i], known, limit)
      all == walked[Len(relations)]
  IN [all EXCEPT !.frontier = all.next]

Nowhere == [nodes |-> {}, edges |-> <<>>]

\* depth is 1 or 2.
Neighborhood(root, depth, limit, known, relations) ==
  LET start == [nodes |-> {root}, frontier |-> {root}, next |-> {}, edges |-> <<>>]
      once == Hop(start, known, relations, limit)
      walked == IF depth = 1 THEN once ELSE Hop(once, known, relations, limit)
  IN IF root \notin known THEN Nowhere
     ELSE [nodes |-> walked.nodes \cap known, edges |-> walked.edges]

--------------------------------------------------------------------------------
\* The definition a caller would write: what lies within d relations of root.
Within(root, d, known, relations) ==
  LET step[k \in 0..d] ==
        IF k = 0 THEN {root}
        ELSE step[k - 1] \cup
               {n \in known : \E e \in relations :
                   \/ e.subject \in step[k - 1] /\ e.object = n
                   \/ e.object \in step[k - 1] /\ e.subject = n}
  IN step[d]

Touching(nodes, known, relations) ==
  {e \in relations : /\ {e.subject, e.object} \subseteq known
                     /\ {e.subject, e.object} \cap nodes # {}}
================================================================================
