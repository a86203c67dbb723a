--------------------------------- MODULE Recall ---------------------------------
(***************************************************************************)
(* Reading facts: search_facts, compose_recall, semantic and graph         *)
(* retrieval with the fusion of their ranks, and search_graph.  A call     *)
(* makes many statements and no transaction holds them together, so other  *)
(* processes change facts, evidence and relations while it runs.  Facts    *)
(* are numbered in the order of their ids; what matches a term, vectors    *)
(* and similarity are given.                                               *)
(***************************************************************************)
EXTENDS GraphWalk

CONSTANTS Facts,            \* ids
          Terms,
          Words, Contains,  \* by term: facts the full text index finds, facts LIKE finds
          RootOf,           \* by term: the entity it names, or NoEntity
          Embedded, Similarity,  \* facts with a vector; by fact: cosine, as a rank
          Session,          \* by fact: its session, "" for none
          Resolved,         \* facts that have resolved evidence at first
          Entities, FirstEntities, Relations, FirstRelations,
          Requests,         \* the arguments of the calls made
          MaxChanges        \* bound: changes others make during a call

\* recall takes the words of a turn, of which there may be none.
Request(r) ==
  /\ r.tool \in {"facts", "graph", "diagnose"}
  /\ r.terms \in Seq(Terms) /\ (r.terms = <<>> => r.tool = "facts")
  /\ r.limit \in Nat \ {0} /\ r.expand \in Nat
  /\ r.depth \in 0..2 /\ (r.depth = 0 => r.tool # "graph")
  /\ {r.semantic, r.strict, r.asof} \subseteq BOOLEAN
  /\ r.asof => r.tool = "facts"                       \* asof: with a valid_at

ASSUME RecallAssumption ==
  /\ Facts \subseteq Nat \ {0} /\ IsFiniteSet(Facts)
  /\ Words \in [Terms -> SUBSET Facts] /\ Contains \in [Terms -> SUBSET Facts]
  /\ Similarity \in [Facts -> Nat] /\ Embedded \subseteq Facts /\ Resolved \subseteq Facts
  /\ NoEntity \notin Entities \cup FirstEntities
  /\ FirstRelations \in Seq(Relations) /\ \A e \in Relations : e.fact \in Facts \cup {0}
  /\ \A r \in Requests : Request(r)

VARIABLES state,      \* by fact, one of States
          late,       \* facts whose invalid_at is empty or not before the valid_at of the call
          anchored,   \* facts with resolved evidence
          entities, relations,
          query,       \* the call, at "begin" before and at "done" after it
          seen,       \* facts whose row could be answered at some moment of the call
          shown,      \* facts without the archived mark at some moment of it
          steady,     \* facts usable at every moment of it
          changes

recallVars ==
  <<state, late, anchored, entities, relations, query, seen, shown, steady, changes>>

(* stale is lifecycle degraded or validity pending.  A fact both invalid   *)
(* and forgotten is forgotten.  archived is what confirm_fact makes of a   *)
(* forgotten fact: active again, the archived mark still set.              *)
States == {"active", "stale", "invalid", "forgotten", "archived"}

\* The members of ids by what comes before what.
InOrder(ids, before) ==
  CHOOSE s \in [1..Cardinality(ids) -> ids] :
    \A i, j \in DOMAIN s : i < j => <<s[i], s[j]>> \in before
ById(ids) == InOrder(ids, {p \in ids \X ids : p[1] < p[2]})

AsRows(ids) == LET s == ById(ids)
               IN [i \in DOMAIN s |-> [id |-> s[i], state |-> state[s[i]]]]
Unread(ids) == [i \in DOMAIN ids |-> [id |-> ids[i], state |-> "unread"]]
First(s, n) == SubSeq(s, 1, IF n < Len(s) THEN n ELSE Len(s))

(* fact_is_eligible: lifecycle and validity are those of the row the call  *)
(* holds; the archived mark, invalid_at and the evidence are read again.   *)
(* An invalid fact is admitted to a call with a valid_at not after its     *)
(* invalid_at (valid_at_allows).                                           *)
Archived(f) == state[f] \in {"forgotten", "archived"}
HasEvidence(f) == f \in anchored
Admitted(row, asof) ==
  /\ ~Archived(row.id) /\ row.state # "forgotten"
  /\ row.state = "invalid" => asof /\ row.id \in late
Eligible(row, args) ==
  /\ Admitted(row, args.asof)
  /\ args.strict => HasEvidence(row.id)

\* The rows the statements of search_facts select.
Listed(s) == {f \in Facts : s[f] \in {"active", "stale", "archived"}}
\* What a call may answer of the rows s, and without the archived mark.
Open(s, l, asof) == Listed(s) \cup {f \in Facts : s[f] = "invalid" /\ asof /\ f \in l}
Unarchived(s) == {f \in Facts : s[f] \notin {"forgotten", "archived"}}
\* What a search must not miss, and what a diagnosis counts as active.
Usable(s, tool) ==
  {f \in Facts : s[f] \in {"active", IF tool = "diagnose" THEN "archived" ELSE "stale"}}

RecallInit ==
  /\ state \in {s \in [Facts -> States] : Cardinality({f \in Facts : s[f] # "active"}) <= 1}
  /\ \E early \in SUBSET {f \in Facts : state[f] = "invalid"} : late = Facts \ early
  /\ anchored = Resolved
  /\ entities = FirstEntities /\ relations = FirstRelations
  /\ seen = {} /\ shown = {} /\ steady = {} /\ changes = 0
  /\ \E r \in Requests :
       query = [at |-> "begin", args |-> r, term |-> 1, queue |-> <<>>, kept |-> <<>>,
               into |-> "lexical", lexical |-> <<>>, semantic |-> <<>>,
               lapsed |-> {}, graph |-> <<>>, checked |-> <<>>,
               edges |-> {}, found |-> <<>>, known |-> {},
               seeds |-> <<>>, expanded |-> 0, nodes |-> {}]

NoRecall ==
  /\ state = [f \in Facts |-> "active"] /\ late = Facts /\ anchored = {}
  /\ entities = {} /\ relations = <<>>
  /\ seen = {} /\ shown = {} /\ steady = {} /\ changes = 0
  /\ query = [at |-> "none"]

Becomes(c) ==
  /\ query' = c
  /\ UNCHANGED <<state, late, anchored, entities, relations, seen, shown, steady, changes>>

--------------------------------------------------------------------------------
\* Reciprocal rank fusion, over a common denominator.
Scale == LET product[n \in 0..Cardinality(Facts)] == IF n = 0 THEN 1 ELSE (60 + n) * product[n - 1]
         IN product[Cardinality(Facts)]
Contribution(s, f) ==
  LET ranks == {i \in DOMAIN s : s[i] = f}
  IN IF ranks = {} THEN 0 ELSE Scale \div (60 + CHOOSE i \in ranks : TRUE)

Fused(lexical, semantic, graph, limit) ==
  LET score(f) == Contribution(lexical, f) + Contribution(semantic, f) + Contribution(graph, f)
      all == Elements(lexical) \cup Elements(semantic) \cup Elements(graph)
      before == {p \in all \X all :
                   \/ score(p[1]) > score(p[2])
                   \/ score(p[1]) = score(p[2]) /\ p[1] < p[2]}
  IN First(InOrder(all, before), limit)

\* The hits are known; siblings of the same session may follow.
Chosen(c, hits) ==
  [c EXCEPT !.at = IF c.args.expand = 0 THEN "done" ELSE "sibling",
            !.kept = hits, !.seeds = hits, !.term = 1]

\* Rows read before: those of lapsed were invalid then, the others were not.
Held(ids, lapsed) ==
  [i \in DOMAIN ids |->
     [id |-> ids[i], state |-> IF ids[i] \in lapsed THEN "invalid" ELSE "active"]]
LookAt(c, rows, into) == [c EXCEPT !.at = "consider", !.queue = rows, !.kept = <<>>, !.into = into]

\* Before the ranks are fused the lexical and the semantic facts are checked again.
Graph(c) ==
  IF c.args.depth > 0 /\ c.args.terms # <<>> THEN [c EXCEPT !.at = "entities", !.term = 1]
  ELSE LookAt(c, Held(First(c.lexical, c.args.limit), {}), "again")

FusesRanks(c) == c.args.semantic \/ c.args.depth > 0

AfterLexical(c) ==
  LET lexical == [c EXCEPT !.lexical = c.kept]
  IN IF ~FusesRanks(c) THEN Chosen(lexical, First(c.kept, c.args.limit))
     ELSE IF c.args.semantic THEN [lexical EXCEPT !.at = "vectors"]
     ELSE Graph(lexical)

\* Of the vectors that passed, the most similar ones.
AfterVectors(c) ==
  LET all == Elements(c.kept)
      closer == {p \in all \X all :
                   \/ Similarity[p[1]] > Similarity[p[2]]
                   \/ Similarity[p[1]] = Similarity[p[2]] /\ p[1] < p[2]}
  IN Graph([c EXCEPT !.semantic = First(InOrder(all, closer), c.args.limit)])

\* What the call does when it has looked at every row of its list.
Settled(c) ==
  CASE c.into = "lexical" ->
         IF c.term < Len(c.args.terms) THEN [c EXCEPT !.at = "search", !.term = @ + 1]
         ELSE AfterLexical(c)
    [] c.into = "vectors" -> AfterVectors(c)
    [] c.into = "graph" ->
         LookAt([c EXCEPT !.graph = c.kept], Held(First(c.lexical, c.args.limit), {}), "again")
    [] c.into = "again" -> LookAt([c EXCEPT !.checked = c.kept], Held(c.semantic, c.lapsed), "last")
    [] c.into = "last" -> Chosen(c, Fused(c.checked, c.kept, c.graph, c.args.limit))
    [] c.into = "sibling" -> [c EXCEPT !.at = "sibling", !.term = @ + 1]

--------------------------------------------------------------------------------
FirstStep(tool) ==
  CASE tool = "facts" -> "search" [] tool = "graph" -> "entities" [] tool = "diagnose" -> "rows"

Begin ==
  /\ query.at = "begin"
  /\ query' = IF query.args.terms = <<>> THEN LookAt(query, <<>>, "lexical")
              ELSE [query EXCEPT !.at = FirstStep(query.args.tool)]
  /\ seen' = Open(state, late, query.args.asof) /\ shown' = Unarchived(state)
  /\ steady' = {f \in Usable(state, query.args.tool) : query.args.strict => f \in anchored}
  /\ UNCHANGED <<state, late, anchored, entities, relations, changes>>

(* search_facts for the next term: the full text index first and, if it    *)
(* returns no row, the texts that contain the term.                        *)
Hits(found) == {f \in found : f \in Listed(state)}
SearchAnew ==
  /\ query.at = "search"
  /\ LET hits == Hits(Words[query.args.terms[query.term]])
     IN Becomes(IF hits = {} THEN [query EXCEPT !.at = "fallback", !.kept = <<>>]
                ELSE LookAt(query, AsRows(hits), "lexical"))
Search ==
  /\ query.at = "search"
  /\ LET hits == Hits(Words[query.args.terms[query.term]])
     IN Becomes(IF hits = {} THEN [query EXCEPT !.at = "fallback"]
                ELSE [LookAt(query, AsRows(hits), "lexical") EXCEPT !.kept = query.kept])

Fallback ==
  /\ query.at = "fallback"
  /\ LET hits == Hits(Contains[query.args.terms[query.term]])
     IN Becomes([LookAt(query, AsRows(hits), "lexical") EXCEPT !.kept = query.kept])

Vectors ==
  /\ query.at = "vectors"
  /\ Becomes(LookAt(query, AsRows(Embedded), "vectors"))

\* A fact known by its id only is read first; one that is gone is passed over.
ReadRow ==
  /\ query.at = "consider" /\ query.queue # <<>> /\ query.queue[1].state = "unread"
  /\ Becomes([query EXCEPT !.queue[1].state = state[query.queue[1].id]])

\* The next row is looked at; a sibling is taken only while there is room.
Take(taken, full) ==
  Becomes([query EXCEPT
    !.queue = IF full THEN <<>> ELSE Tail(@),
    !.kept = IF taken /\ ~full THEN Append(@, query.queue[1].id) ELSE @,
    !.lapsed = IF taken /\ query.into = "vectors" /\ query.queue[1].state = "invalid"
               THEN @ \cup {query.queue[1].id} ELSE @,
    !.expanded = IF taken /\ ~full /\ query.into = "sibling" THEN @ + 1 ELSE @])
ConsiderAny ==
  /\ query.at = "consider" /\ query.queue # <<>> /\ query.queue[1].state # "unread"
  /\ Take(query.queue[1].id \notin Elements(query.kept), FALSE)
Consider ==
  /\ query.at = "consider" /\ query.queue # <<>> /\ query.queue[1].state # "unread"
  /\ Take(/\ query.queue[1].id \notin Elements(query.kept)
          /\ Eligible(query.queue[1], query.args),
          query.into = "sibling" /\ query.expanded >= query.args.expand)

AllConsidered ==
  /\ query.at = "consider" /\ query.queue = <<>>
  /\ Becomes(Settled(query))

ReadEntities ==
  /\ query.at = "entities"
  /\ Becomes([query EXCEPT !.at = "walk", !.known = entities])

\* The facts behind the relations walked, in order, up to the limit.
Cited(c, edges) ==
  LET found[i \in 0..Len(edges)] ==
        IF i = 0 THEN c.found
        ELSE IF edges[i] \in c.edges \/ edges[i].fact \in {0} \cup Elements(found[i - 1])
        THEN found[i - 1] ELSE Append(found[i - 1], edges[i].fact)
  IN found[Len(edges)]

\* graph_facts: one term after the other, until there are facts enough.
WalkForFacts ==
  /\ query.at = "walk" /\ query.args.tool = "facts"
  /\ LET c == query
         graph == Neighborhood(RootOf[c.args.terms[c.term]], c.args.depth, c.args.limit,
                               c.known, relations)
         found == First(Cited(c, graph.edges), c.args.limit)
         next == [c EXCEPT !.edges = @ \cup Elements(graph.edges), !.found = found]
     IN Becomes(IF c.term < Len(c.args.terms) /\ Len(found) < c.args.limit
                THEN [next EXCEPT !.at = "entities", !.term = @ + 1]
                ELSE LookAt(next, Unread(found), "graph"))

\* search_graph.
WalkForGraph ==
  /\ query.at = "walk" /\ query.args.tool = "graph"
  /\ LET graph == Neighborhood(RootOf[query.args.terms[1]], query.args.depth, query.args.limit,
                               query.known, relations)
     IN Becomes([query EXCEPT !.at = "done", !.nodes = graph.nodes, !.found = graph.edges])

OfSession(name) == {f \in Facts : Session[f] = name /\ state[f] # "forgotten"}

\* The facts of a hit's session: a hit of no session ends the expansion.
Sibling ==
  /\ query.at = "sibling"
  /\ LET over == \/ query.expanded >= query.args.expand
                 \/ query.term > Len(query.seeds)
                 \/ Session[query.seeds[query.term]] = ""
     IN Becomes(IF over THEN [query EXCEPT !.at = "done"]
                ELSE [LookAt(query, AsRows(OfSession(Session[query.seeds[query.term]])), "sibling")
                        EXCEPT !.kept = query.kept])

--------------------------------------------------------------------------------
(* Another process changes something.                                      *)
Change(newState, newLate, newAnchored) ==
  /\ query.at # "done" /\ changes < MaxChanges
  /\ changes' = changes + 1
  /\ state' = newState /\ late' = newLate /\ anchored' = newAnchored
  /\ IF query.at = "begin" THEN UNCHANGED <<seen, shown, steady>>
     ELSE /\ seen' = seen \cup Open(newState, newLate, query.args.asof)
          /\ shown' = shown \cup Unarchived(newState)
          /\ steady' = {f \in steady \cap Usable(newState, query.args.tool) :
                          query.args.strict => f \in newAnchored}
  /\ UNCHANGED query

(* forget_fact, restore_fact, sweep_freshness, set_fact_validity,          *)
(* invalidate_fact, which stamps invalid_at, and confirm_fact, which does  *)
(* not clear it, nor the archived mark.                                    *)
FactChanges(f) ==
  /\ \E to \in States \ {state[f]}, l \in {late \cup {f}, late \ {f}} :
       /\ to = "archived" => state[f] = "forgotten"
       /\ to = "invalid" => state[f] # "archived"
       /\ to # "invalid" => l = late
       /\ Change([state EXCEPT ![f] = to], l, anchored)
  /\ UNCHANGED <<entities, relations>>

AttachEvidence(f) ==
  /\ f \notin anchored
  /\ Change(state, late, anchored \cup {f})
  /\ UNCHANGED <<entities, relations>>

EntityAdded(x) ==
  /\ x \notin entities
  /\ Change(state, late, anchored)
  /\ entities' = entities \cup {x}
  /\ UNCHANGED relations

RelationAdded(e) ==
  /\ e \notin Elements(relations) /\ {e.subject, e.object} \subseteq entities
  /\ Change(state, late, anchored)
  /\ relations' = Append(relations, e)
  /\ UNCHANGED entities

RecallNext ==
  \/ Begin \/ Search \/ Fallback \/ Vectors \/ ReadRow \/ Consider \/ AllConsidered \/ ReadEntities
  \/ WalkForFacts \/ WalkForGraph \/ Sibling
  \/ \E f \in Facts : FactChanges(f) \/ AttachEvidence(f)
  \/ \E x \in Entities : EntityAdded(x)
  \/ \E e \in Relations : RelationAdded(e)

--------------------------------------------------------------------------------
FactsAnswered == query.at = "done" /\ query.args.tool = "facts"

(* No fact is answered that was forgotten or archived all through the      *)
(* call, or invalid all through it (at the valid_at, if one is asked for)  *)
(* or, under a strict profile, has no resolved evidence, whichever of the  *)
(* text, the vectors, the graph or the session it came from.  (The parts   *)
(* need not hold at one moment: fact_is_eligible joins an earlier row to   *)
(* the mark and the evidence of now.)                                      *)
NothingHiddenServed ==
  FactsAnswered =>
    /\ Elements(query.kept) \subseteq seen \cap shown
    /\ query.args.strict => Elements(query.kept) \subseteq anchored

(* An answer misses nothing if it is not full and the words alone did not  *)
(* find more than the limit: each fact that has a term and could be        *)
(* answered all through the call is in it, and each whose text merely      *)
(* contains the term if no fact that has it could be found meanwhile.      *)
NothingMissed ==
  FactsAnswered /\ Len(query.seeds) < query.args.limit /\ Len(query.lexical) <= query.args.limit =>
    \A i \in DOMAIN query.args.terms :
      LET t == query.args.terms[i]
      IN /\ Words[t] \cap steady \subseteq Elements(query.kept)
         /\ Words[t] \cap seen = {} => Contains[t] \cap steady \subseteq Elements(query.kept)

(* The answer of search_graph is a graph: edges join its nodes, every node *)
(* lies within the depth asked for along its edges, and unless a limit was *)
(* met it is all there is of the entities and relations that were there    *)
(* when the entities were read.                                            *)
GraphWhole ==
  query.at = "done" /\ query.args.tool = "graph" /\ query.nodes # {} =>
    LET root == RootOf[query.args.terms[1]]
        edges == Elements(query.found)
        some == Elements(FirstRelations)
    IN /\ \A e \in edges : {e.subject, e.object} \subseteq query.nodes
       /\ query.nodes \subseteq Within(root, query.args.depth, query.nodes, edges)
       /\ Cardinality(query.nodes) <= query.args.limit /\ Len(query.found) <= query.args.limit
       /\ Cardinality(query.nodes) < query.args.limit /\ Len(query.found) < query.args.limit =>
            /\ Within(root, query.args.depth, FirstEntities, some) \subseteq query.nodes
            /\ Touching(Within(root, query.args.depth - 1, FirstEntities, some),
                        FirstEntities, some) \subseteq edges
================================================================================
