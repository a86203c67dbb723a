--------------------------------- MODULE MCReads ---------------------------------
(* Instance of Reads for TLC: three facts, three terms, four entities of   *)
(* which one is added during a call, and relations that cite facts.        *)
EXTENDS Reads

MCFacts == 1..3
MCTerms == {"t", "u", "v"}
MCWords == [t \in MCTerms |-> CASE t = "t" -> {1, 2} [] t = "u" -> {3} [] t = "v" -> {}]
MCContains == [t \in MCTerms |-> CASE t = "t" -> {1, 2} [] t = "u" -> {2, 3} [] t = "v" -> {1, 2, 3}]
MCRootOf == [t \in MCTerms |-> IF t = "t" THEN 1 ELSE 2]
MCSimilarity == [f \in MCFacts |-> IF f = 1 THEN 1 ELSE 2]
MCSession == [f \in MCFacts |-> IF f = 3 THEN "" ELSE "s"]
MCEntities == 1..4
Edge(s, o, f) == [subject |-> s, object |-> o, fact |-> f]
MCFirstRelations == <<Edge(1, 2, 3), Edge(3, 2, 1)>>
MCRelations == {Edge(1, 2, 3), Edge(3, 2, 1), Edge(4, 1, 2), Edge(2, 4, 0)}

Ask(tool, terms, limit, semantic, depth, strict, expand, asof) ==
  [tool |-> tool, terms |-> terms, limit |-> limit, semantic |-> semantic,
   depth |-> depth, strict |-> strict, expand |-> expand, asof |-> asof]

(* Searches of one term and recalls of two or none; the profiles give      *)
(* depth and strictness together: balanced, implementation, review and     *)
(* incident.                                                               *)
MCRequests ==
  {Ask("facts", <<"t">>, limit, semantic, profile[1], profile[2], 0, FALSE) :
      limit \in {1, 3}, semantic \in BOOLEAN,
      profile \in {<<0, FALSE>>, <<1, FALSE>>, <<2, TRUE>>}}
  \cup
  {Ask("facts", <<"t", "u">>, limit, FALSE, profile[1], profile[2], expand, FALSE) :
      limit \in {1, 2, 3}, profile \in {<<0, FALSE>>, <<1, TRUE>>}, expand \in {0, 1}}
  \cup
  {Ask("facts", <<"t">>, limit, TRUE, 1, strict, 1, TRUE) : limit \in {1, 3}, strict \in BOOLEAN}
  \cup
  {Ask("facts", <<>>, 3, semantic, 1, FALSE, 0, FALSE) : semantic \in BOOLEAN}
  \cup
  {Ask("diagnose", <<t>>, 1, FALSE, 0, strict, 0, FALSE) : t \in MCTerms, strict \in BOOLEAN}
  \cup
  {Ask("graph", <<"t">>, limit, FALSE, depth, FALSE, 0, FALSE) :
      limit \in {1, 2, 4}, depth \in {1, 2}}
================================================================================
