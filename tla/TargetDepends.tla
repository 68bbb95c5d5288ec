----------------------------- MODULE TargetDepends ----------------------------
(***************************************************************************)
(* cmComputeTargetDepends and cmComputeComponentGraph: from what targets   *)
(* link and what add_dependencies names to the order in which generators   *)
(* may build them.  Both are sequential; TLC runs them on every project of *)
(* Projects and compares the outcome with reference definitions.  A graph  *)
(* gives each target the sequence of its edges.                            *)
(***************************************************************************)
EXTENDS Integers, Sequences, SequencesExt

CONSTANTS
  Target,    \* the targets, numbered
  Projects   \* sets of projects to try

TargetType == {"STATIC", "SHARED", "EXECUTABLE", "INTERFACE"}

Project == [
  type : [Target -> TargetType],
  links : [Target -> SUBSET Target],  \* target_link_libraries
  private : SUBSET Target,            \* those that link PRIVATE
  utils : [Target -> SUBSET Target],  \* add_dependencies
  optimize : SUBSET Target,           \* with OPTIMIZE_DEPENDENCIES
  effects : SUBSET Target,            \* with custom commands
  noCycles : BOOLEAN]                 \* GLOBAL_DEPENDS_NO_CYCLES

ASSUME ProjectsAssumption ==
  /\ Target \subseteq Nat \ {0}
  /\ \A S \in Projects : S \subseteq Project

VARIABLES
  project,
  initial, intermediate, final,  \* InitialGraph, IntermediateGraph, FinalGraph
  components,                    \* Components of the intermediate graph
  result                         \* what Compute returns, "none" before

vars == <<project, initial, intermediate, final, components, result>>

Ascending(S) == SetToSortSeq(S, <)
Edge(to, strong) == [to |-> to, strong |-> strong]

-----------------------------------------------------------------------------
(* CollectDepends. *)

\* A target that is not built is replaced by what it names in add_dependencies.
RECURSIVE TargetEdges(_, _, _)
TargetEdges(p, dependee, strong) ==
  IF p.type[dependee] = "INTERFACE"
  THEN FlattenSeq([k \in DOMAIN Ascending(p.utils[dependee]) |->
                     TargetEdges(p, Ascending(p.utils[dependee])[k], TRUE)])
  ELSE <<Edge(dependee, strong)>>

\* GetLinkInterface: what follows from linking a library.  Static libraries hand
\* on also what they link PRIVATE.
LinkInterface(p, lib) ==
  IF p.type[lib] = "SHARED" /\ lib \in p.private THEN {} ELSE p.links[lib]

\* AddTargetDepend and AddInterfaceDepends for each library not yet emitted.
RECURSIVE AddLibraries(_, _, _)
AddLibraries(p, libraries, acc) ==
  FoldLeft(LAMBDA a, lib :
             IF lib \in a.emitted THEN a
             ELSE IF p.type[lib] = "EXECUTABLE"
             THEN [a EXCEPT !.emitted = @ \cup {lib}]
             ELSE AddLibraries(p, LinkInterface(p, lib),
                    [emitted |-> a.emitted \cup {lib},
                     edges |-> a.edges \o TargetEdges(p, lib, FALSE)]),
           acc, Ascending(libraries))

CollectTargetDepends(p, i) ==
  IF p.type[i] = "INTERFACE" THEN <<>>
  ELSE LET utils == Ascending(p.utils[i] \ {i})
       IN AddLibraries(p, p.links[i], [emitted |-> {i}, edges |-> <<>>]).edges
          \o FlattenSeq([k \in DOMAIN utils |-> TargetEdges(p, utils[k], TRUE)])

-----------------------------------------------------------------------------
(* cmComputeComponentGraph: Tarjan's algorithm. *)

Enter(s, i) ==
  [s EXCEPT !.visited[i] = s.walk, !.root[i] = i, !.index = @ + 1,
            !.visitIndex[i] = s.index + 1, !.stack = Append(@, i)]

BetterRoot_Never(s, i, j) == s

BetterRoot(s, i, j) ==
  IF s.component[j] = 0 /\ s.visitIndex[s.root[j]] < s.visitIndex[s.root[i]]
  THEN [s EXCEPT !.root[i] = s.root[j]] ELSE s

\* The members of a new component are on the stack, from its root to the top.
PopComponent(s, i) ==
  LET from == CHOOSE k \in DOMAIN s.stack : s.stack[k] = i
      members == {s.stack[k] : k \in from .. Len(s.stack)}
      number == Len(s.components) + 1
  IN [s EXCEPT !.stack = SubSeq(@, 1, from - 1),
               !.components = Append(@, members),
               !.component = [j \in Target |-> IF j \in members THEN number ELSE @[j]]]

RECURSIVE TarjanVisit(_, _, _)
TarjanVisit(g, s, i) ==
  LET FollowEdge(a, edge) ==
        LET j == edge.to
        IN IF a.visited[j] > 0 /\ a.visited[j] < a.walk THEN a
           ELSE BetterRoot(IF a.visited[j] = 0 THEN TarjanVisit(g, a, j) ELSE a, i, j)
      t == FoldLeft(FollowEdge, Enter(s, i), g[i])
  IN IF t.root[i] = i THEN PopComponent(t, i) ELSE t

Tarjan(g) ==
  LET none == [j \in Target |-> 0]
  IN FoldLeft(LAMBDA s, i :
                IF s.visited[i] > 0 THEN s
                ELSE TarjanVisit(g, [s EXCEPT !.walk = @ + 1, !.index = 0], i),
              [walk |-> 0, index |-> 0, visited |-> none, root |-> none, visitIndex |-> none,
               component |-> none, stack |-> <<>>, components |-> <<>>],
              Ascending(Target))

\* TransferEdges: the edges between components, in the order of the targets.
ComponentEdges(g, t, c) ==
  FlattenSeq([k \in DOMAIN Ascending(t.components[c]) |->
    LET i == Ascending(t.components[c])[k]
        outside == SelectSeq(g[i], LAMBDA edge : t.component[edge.to] # c)
    IN [n \in DOMAIN outside |-> Edge(t.component[outside[n].to], outside[n].strong)]])

-----------------------------------------------------------------------------
(* CollectSideEffects and ComputeIntermediateGraph. *)

RECURSIVE SideEffectsFrom(_, _, _, _)
SideEffectsFrom(p, g, acc, i) ==
  IF i \in acc.visited THEN acc
  ELSE FoldLeft(LAMBDA a, edge :
                  LET b == SideEffectsFrom(p, g, a, edge.to)
                  IN [b EXCEPT !.of[i] = @ \cup b.of[edge.to]],
                [visited |-> acc.visited \cup {i}, of |-> [acc.of EXCEPT ![i] = @ \cup ({i} \cap p.effects)]],
                g[i])

SideEffects(p, g) ==
  FoldLeft(LAMBDA a, i : SideEffectsFrom(p, g, a, i),
           [visited |-> {}, of |-> [i \in Target |-> {}]], Ascending(Target)).of

\* Strong edges are kept, a link becomes edges to the targets with side effects.
OptimizeLinkDependencies(g, sideEffects, i) ==
  LET Keep(acc, edge) ==
        IF edge.strong THEN [acc EXCEPT !.edges = Append(@, edge)]
        ELSE LET new == Ascending(sideEffects[edge.to] \ acc.emitted)
             IN [emitted |-> acc.emitted \cup sideEffects[edge.to],
                 edges |-> acc.edges \o [k \in DOMAIN new |-> Edge(new[k], FALSE)]]
  IN FoldLeft(Keep, [emitted |-> {}, edges |-> <<>>], g[i]).edges

IntermediateGraph_NotTransitive(p, g) ==
  [i \in Target |-> IF i \in p.optimize /\ p.type[i] = "STATIC"
                    THEN OptimizeLinkDependencies(g, [j \in Target |-> {j} \cap p.effects], i) ELSE g[i]]

IntermediateGraph(p, g) ==
  LET sideEffects == SideEffects(p, g)
  IN [i \in Target |-> IF i \in p.optimize /\ p.type[i] = "STATIC"
                       THEN OptimizeLinkDependencies(g, sideEffects, i) ELSE g[i]]

CheckComponents_AnyType(p, t) ==
  \A c \in DOMAIN t.components :
    \/ Cardinality(t.components[c]) < 2
    \/ ~p.noCycles

CheckComponents(p, t) ==
  \A c \in DOMAIN t.components :
    \/ Cardinality(t.components[c]) < 2
    \/ ~p.noCycles /\ \A i \in t.components[c] : p.type[i] = "STATIC"

-----------------------------------------------------------------------------
(* ComputeFinalDepends. *)

\* The targets of a component are put before those already in its list, each
\* after what its strong edges lead to.  s.visited is of one walk, s.emitted of
\* the component.
RECURSIVE IntraComponent(_, _, _, _)
IntraComponent(g, members, s, i) ==
  IF i \in s.visited THEN [s EXCEPT !.ok = FALSE]
  ELSE IF i \in s.emitted THEN [s EXCEPT !.visited = @ \cup {i}]
  ELSE
    LET FollowEdge(a, edge) ==
          IF ~a.ok \/ edge.to \notin members \/ ~edge.strong THEN a
          ELSE IntraComponent(g, members,
                 [a EXCEPT !.final[i] = Append(@, edge)], edge.to)
        t == FoldLeft(FollowEdge, [s EXCEPT !.visited = @ \cup {i}, !.emitted = @ \cup {i}], g[i])
    IN IF ~t.ok THEN t
       ELSE IF t.head = 0 THEN [t EXCEPT !.tail = i, !.head = i]
       ELSE [t EXCEPT !.final[i] = Append(@, Edge(t.head, FALSE)), !.head = i]

Linearize(g, s, members) ==
  FoldRight(LAMBDA i, a : IF a.ok THEN IntraComponent(g, members, [a EXCEPT !.visited = {}], i) ELSE a,
            Ascending(members), [s EXCEPT !.head = 0, !.tail = 0, !.emitted = {}])

ComponentTail_Head(s, c) == s.heads[c]

ComponentTail(s, c) == s.tails[c]

ComputeFinalDepends(g, h, t) ==
  LET NextComponent(a, members) ==
        IF ~a.ok THEN a
        ELSE LET b == Linearize(g, a, members)
             IN [b EXCEPT !.heads = Append(@, b.head), !.tails = Append(@, b.tail)]
      s == FoldLeft(NextComponent,
             [ok |-> TRUE, final |-> [i \in Target |-> <<>>], visited |-> {}, emitted |-> {},
              head |-> 0, tail |-> 0, heads |-> <<>>, tails |-> <<>>], t.components)
      Between(i) ==
        IF ~\E c \in DOMAIN s.tails : ComponentTail(s, c) = i THEN <<>>
        ELSE LET edges == ComponentEdges(h, t, t.component[i])
             IN [k \in DOMAIN edges |-> Edge(s.heads[edges[k].to], edges[k].strong)]
  IN [ok |-> s.ok, final |-> [i \in Target |-> s.final[i] \o Between(i)]]

-----------------------------------------------------------------------------
NoGraph == [i \in Target |-> <<>>]

Init ==
  /\ \E S \in Projects : project \in S
  /\ initial = NoGraph /\ intermediate = NoGraph /\ final = NoGraph
  /\ components = <<>> /\ result = "none"

Fails == result' = "error" /\ UNCHANGED final

Compute ==
  /\ result = "none"
  /\ initial' = [i \in Target |-> CollectTargetDepends(project, i)]
  /\ IF ~CheckComponents(project, Tarjan(initial'))
     THEN Fails /\ UNCHANGED <<intermediate, components>>
     ELSE LET t == Tarjan(intermediate')
              order == ComputeFinalDepends(initial', intermediate', t)
          IN /\ intermediate' = IntermediateGraph(project, initial')
             /\ components' = t.components
             /\ IF CheckComponents(project, t) /\ order.ok
                THEN final' = order.final /\ result' = "ok" ELSE Fails
  /\ UNCHANGED project

Computed == result # "none" /\ UNCHANGED vars

Next == Compute \/ Computed

Spec == Init /\ [][Next]_vars

-----------------------------------------------------------------------------
(* Properties. *)

Successors(g, S) == S \cup {e.to : e \in UNION {ToSet(g[i]) : i \in S}}

\* The targets that S leads to in a graph: at most |Target| steps away.
Reachable(g, S) == FoldLeft(LAMBDA R, k : Successors(g, R), S, SetToSeq(Target))
LeadsTo(g, i, j) == \E e \in ToSet(g[i]) : j \in Reachable(g, {e.to})

StrongOnly(g) == [i \in Target |-> SelectSeq(g[i], LAMBDA e : e.strong)]
Mutual(g, i) == {i} \cup {j \in Target : LeadsTo(g, i, j) /\ LeadsTo(g, j, i)}

\* Tarjan's components are the classes of targets that lead to each other, and
\* they are numbered so that edges go to lower numbers only.
ComponentsExact ==
  components # <<>> =>
    LET t == Tarjan(intermediate)
    IN /\ ToSet(components) = {Mutual(intermediate, i) : i \in Target}
       /\ \A i, j \in Target : LeadsTo(intermediate, i, j) => t.component[i] >= t.component[j]

\* The dependencies that generators get have no cycle, and building by them a
\* target comes after all that it needed to begin with: every target of another
\* component, and within a component of static libraries what add_dependencies
\* named.
BuildOrderSafe ==
  result = "ok" => \A i \in Target :
    /\ ~LeadsTo(final, i, i)
    /\ \A e \in ToSet(intermediate[i]) :
         e.strong \/ e.to \notin Mutual(intermediate, i) => LeadsTo(final, i, e.to)

\* A project is refused only for a cycle that cannot be broken, or for a target
\* of a cycle that add_dependencies leads to in two ways; and always for a cycle
\* of add_dependencies or one with something else than static libraries.
Unbreakable(g) ==
  \/ \E i \in Target : Cardinality(Mutual(g, i)) > 1 /\
       (project.noCycles \/ \E j \in Mutual(g, i) : project.type[j] # "STATIC")
  \/ \E i \in Target : LeadsTo(StrongOnly(g), i, i)

TwoStrongWays(g) ==
  \E i \in Target : \E j, k \in DOMAIN StrongOnly(g)[i] : j # k /\
    \E d \in Mutual(g, i) :
      d \in Reachable(StrongOnly(g), {StrongOnly(g)[i][j].to})
            \cap Reachable(StrongOnly(g), {StrongOnly(g)[i][k].to})

CyclesRejected ==
  /\ result = "ok" => ~Unbreakable(initial)
  /\ result = "error" => Unbreakable(initial) \/ TwoStrongWays(initial)

\* OPTIMIZE_DEPENDENCIES never loses what a target needs: of the targets that
\* a target of a project without cycles leads to, those that run custom
\* commands are built before it.
SideEffectsKept ==
  result = "ok" /\ (\A i \in Target : ~LeadsTo(initial, i, i)) =>
    \A i \in Target : \A d \in project.effects : LeadsTo(initial, i, d) => LeadsTo(final, i, d)
=============================================================================
