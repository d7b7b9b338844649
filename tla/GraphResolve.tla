---------------------------- MODULE GraphResolve ----------------------------
(***************************************************************************)
(* One request to resolve the graph of records around a root: a breadth-   *)
(* first traversal, bounded in depth and in the number of records it asks  *)
(* for.  All records of a level are resolved concurrently; each answers    *)
(* with the links it has at that moment, or fails.  When the last one has  *)
(* ended, the level's records are gone through one by one, and the targets *)
(* not yet scheduled make up the next level.                               *)
(***************************************************************************)
EXTENDS Integers, FiniteSets

CONSTANTS
  Daid,       \* the records there are to link to
  Root,       \* the record the request names
  Links,      \* what a record may link to: [edges, references, imports]
  Restricted, \* a record that may not be shown
  Unavailable,\* a record that could not be fetched or verified
  MaxDepth,   \* the request's depth
  MaxNodes    \* the request's max_nodes

ASSUME RequestAssumption ==
  /\ Root \in Daid
  /\ MaxDepth \in Nat
  /\ MaxNodes \in Nat \ {0}

\* The targets of the relationships, the records these refer to, and the
\* record's linked_daids: lists, each of them.  References belong to a
\* relationship.
ASSUME LinksAssumption ==
  \A links \in Links :
    /\ links \in [edges: SUBSET Daid, references: SUBSET Daid, imports: SUBSET Daid]
    /\ IsFiniteSet(links.edges \union links.references \union links.imports)
    /\ links.references # {} => links.edges # {}
    /\ links \notin {Restricted, Unavailable}

VARIABLES
  status,      \* how the request was answered, "running" until then
  depth,       \* the level at work
  frontier,    \* its records
  outcome,     \* how the resolution of each of them ended so far
  scheduled,   \* every record of this level and of those before
  nodes,       \* the records resolved at earlier levels, with their links
  failures,    \* the records that failed at earlier levels, with the reason
  truncated    \* a target was left out for want of room

levelVars == <<depth, frontier, scheduled, nodes, failures, truncated>>
vars == <<status, levelVars, outcome>>

-----------------------------------------------------------------------------
Reason == {Restricted, Unavailable}

Targets(links) == links.edges \union links.references \union links.imports

Init ==
  /\ status = "running"
  /\ depth = 0
  /\ frontier = {Root}
  /\ outcome = [d \in {} |-> Unavailable]
  /\ scheduled = {Root}
  /\ nodes = [d \in {} |-> CHOOSE links \in Links : TRUE]
  /\ failures = [d \in {} |-> Unavailable]
  /\ truncated = FALSE

\* for depth in range(request.depth + 1), while there is a frontier
Traversing == status = "running" /\ frontier # {} /\ depth <= MaxDepth

\* f with the pairs of g.
With(f, g) ==
  [d \in DOMAIN f \union DOMAIN g |-> IF d \in DOMAIN f THEN f[d] ELSE g[d]]

\* _resolve_one(d) returns a verified record or raises.
Resolve(d, result) ==
  /\ Traversing
  /\ d \in frontier \ DOMAIN outcome
  /\ outcome' = With(outcome, [e \in {d} |-> result])
  /\ UNCHANGED <<status, levelVars>>

Resolved == {d \in frontier : outcome[d] \notin Reason}

\* Two wrong Candidates: no visited set, and linked_daids are not followed.
CandidatesAgain ==
  IF depth < MaxDepth THEN UNION {Targets(outcome[d]) : d \in Resolved} ELSE {}

CandidatesOfRelationships ==
  IF depth < MaxDepth
    THEN (UNION {outcome[d].edges \union outcome[d].references : d \in Resolved})
           \ scheduled
    ELSE {}

\* The targets a level may schedule, in whatever order it meets them.
Candidates ==
  IF depth < MaxDepth
    THEN (UNION {Targets(outcome[d]) : d \in Resolved}) \ scheduled
    ELSE {}

\* There is room for all candidates, or as many enter as there is room for.
NextFrontier(next) ==
  /\ next \subseteq Candidates
  /\ \/ next = Candidates /\ Cardinality(scheduled \union next) <= MaxNodes
     \/ next # Candidates /\ Cardinality(scheduled \union next) = MaxNodes

\* Two wrong EndLevels: only a level that finds no room at all is reported, and
\* the levels are neither counted nor kept apart from those before.
EndLevelSilently(next) ==
  /\ Traversing
  /\ DOMAIN outcome = frontier
  /\ NextFrontier(next)
  /\ frontier' = next
  /\ scheduled' = scheduled \union next
  /\ truncated' = (Candidates # {} /\ next = {})
  /\ nodes' = With(nodes, [d \in Resolved |-> outcome[d]])
  /\ failures' = With(failures, [d \in frontier \ Resolved |-> outcome[d]])
  /\ outcome' = [d \in {} |-> Unavailable]
  /\ depth' = depth + 1
  /\ UNCHANGED status

EndLevelForever(next) ==
  /\ Traversing
  /\ DOMAIN outcome = frontier
  /\ next = UNION {Targets(outcome[d]) : d \in Resolved}
  /\ frontier' = next
  /\ scheduled' = scheduled \union next
  /\ truncated' = (truncated \/ next # Candidates)
  /\ nodes' = With(nodes, [d \in Resolved |-> outcome[d]])
  /\ failures' = With(failures, [d \in frontier \ Resolved |-> outcome[d]])
  /\ outcome' = [d \in {} |-> Unavailable]
  /\ depth' = depth
  /\ UNCHANGED status

\* All of the level's resolutions have ended: its outcomes are gone through.
EndLevel(next) ==
  /\ Traversing
  /\ DOMAIN outcome = frontier
  /\ NextFrontier(next)
  /\ frontier' = next
  /\ scheduled' = scheduled \union next
  /\ truncated' = (truncated \/ next # Candidates)
  /\ nodes' = With(nodes, [d \in Resolved |-> outcome[d]])
  /\ failures' = With(failures, [d \in frontier \ Resolved |-> outcome[d]])
  /\ outcome' = [d \in {} |-> Unavailable]
  /\ depth' = depth + 1
  /\ UNCHANGED status

\* The response sorts references by (relationship_id, target).  The id is a
\* string for a relationship's reference and None for an import's, and Python
\* does not order the one before the other.
Sortable ==
  \/ \A d \in DOMAIN nodes : nodes[d].references = {}
  \/ \A d \in DOMAIN nodes : nodes[d].imports = {}

\* The traversal is over and the request answered.
Answer ==
  /\ status = "running"
  /\ ~Traversing
  /\ status' = IF Root \notin DOMAIN nodes
                 THEN IF failures[Root] = Restricted THEN "403" ELSE "502"
               ELSE IF Sortable THEN "200" ELSE "500"
  /\ UNCHANGED <<levelVars, outcome>>

\* A request that is answered stays so.
Done == status # "running" /\ UNCHANGED vars

Next ==
  \/ \E d \in Daid, result \in Links \union Reason : Resolve(d, result)
  \/ \E next \in SUBSET Daid : EndLevel(next)
  \/ Answer
  \/ Done

\* Every call of _resolve_one ends, for its request has a timeout, and the
\* event loop goes on with the handler.
Fairness ==
  /\ \A d \in Daid : WF_vars(\E result \in Links \union Reason : Resolve(d, result))
  /\ WF_vars(\E next \in SUBSET Daid : EndLevel(next))
  /\ WF_vars(Answer)

Spec == Init /\ [][Next]_vars /\ Fairness

-----------------------------------------------------------------------------
(* Properties *)

\* Every variable has its type; what is scheduled is resolved, failed or in
\* the frontier, and in no two of them.
TypeOK ==
  /\ status \in {"running", "200", "403", "500", "502"}
  /\ depth \in 0..(MaxDepth + 1)
  /\ DOMAIN outcome \subseteq frontier
  /\ \A d \in DOMAIN outcome : outcome[d] \in Links \union Reason
  /\ \A d \in DOMAIN nodes : nodes[d] \in Links
  /\ \A d \in DOMAIN failures : failures[d] \in Reason
  /\ truncated \in BOOLEAN
  /\ scheduled = frontier \union DOMAIN nodes \union DOMAIN failures
  /\ frontier \intersect (DOMAIN nodes \union DOMAIN failures) = {}
  /\ DOMAIN nodes \intersect DOMAIN failures = {}

\* The records within distance n of the root, by the links of what resolved.
Within[n \in Nat] ==
  IF n = 0 THEN {Root}
  ELSE Within[n - 1]
         \union UNION {Targets(nodes[d]) : d \in Within[n - 1] \intersect DOMAIN nodes}

Answered == status \notin {"running", "500"}

\* The records that were asked for are those within the requested depth, by
\* shortest paths, and truncated says whether some of these were left out: it
\* is set only if one was, also when it is linked again from elsewhere.
TruncationIsReported ==
  Answered =>
    /\ scheduled \subseteq Within[MaxDepth]
    /\ truncated <=> scheduled # Within[MaxDepth]

\* The response's complete.
Complete == DOMAIN failures = {} /\ ~truncated

\* complete means "all in-scope links were attempted and verified within
\* policy" (instance-dependency-network.md): every record within the depth is
\* in the response.
CompleteMeansAll ==
  status = "200" /\ Complete => Within[MaxDepth] = DOMAIN nodes

\* Every request is answered, also on cyclic graphs.
Terminates == <>(status # "running")

-----------------------------------------------------------------------------
(* What the documentation says of responses and the code does not ensure.  *)

\* architecture.md: "Imported links are resolved as import_reference graph links
\* and remain distinct from authority-signed relationships", in one response: a
\* root that was verified is answered.
VerifiedRootIsAnswered == Root \in DOMAIN nodes => status \in {"running", "200"}

=============================================================================
