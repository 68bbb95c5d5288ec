---------------------------- MODULE MCTargetDepends ----------------------------
EXTENDS TargetDepends, TLC

AllStatic == [i \in Target |-> "STATIC"]
Relation(pairs) == [i \in Target |-> {j \in Target : <<i, j>> \in pairs}]
Other(i) == Target \ {i}

\* Static libraries that link in a ring, in two pairs or in a row, with any
\* add_dependencies between them.
RingProjects == [
  type : {AllStatic}, private : {{}}, optimize : {{}}, effects : {{}}, noCycles : {FALSE},
  links : {Relation({<<1, 2>>, <<2, 3>>, <<3, 4>>, <<4, 1>>}),
           Relation({<<1, 2>>, <<2, 1>>, <<3, 4>>, <<4, 3>>, <<2, 3>>}),
           Relation({<<1, 2>>, <<2, 3>>})},
  utils : {u \in [Target -> SUBSET Target] : \A i \in Target : u[i] \subseteq Other(i)}]

\* Three targets of any type that link in any way, with some add_dependencies.
TypeProjects == [
  type : {t \in [Target -> TargetType] : t[4] = "STATIC"}, private : {{1}},
  optimize : {{}}, effects : {{}}, noCycles : BOOLEAN,
  links : {l \in [Target -> SUBSET {1, 2, 3}] : l[4] = {} /\ \A i \in Target : l[i] \subseteq Other(i)},
  utils : {Relation({}), Relation({<<1, 2>>}), Relation({<<2, 4>>, <<4, 1>>})}]

\* Static libraries, or one shared library among them, that link in any way
\* without a cycle.
OptimizeProjects == [
  type : {AllStatic, [AllStatic EXCEPT ![2] = "SHARED"]}, private : {{2}}, noCycles : {FALSE},
  links : {l \in [Target -> SUBSET Target] : \A i, j \in Target : j \in l[i] => i < j},
  utils : {Relation({}), Relation({<<2, 4>>})},
  optimize : SUBSET {1, 2, 3}, effects : SUBSET {2, 3, 4}]

MCProjects == {RingProjects, TypeProjects, OptimizeProjects}
================================================================================
