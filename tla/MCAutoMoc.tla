------------------------------ MODULE MCAutoMoc -------------------------------
\* One header that the target lists, one that only a moc_<name>.cpp include of
\* the C++ file leads to, and a plugin metadata file.
EXTENDS AutoMoc, TLC

CONSTANTS listed, found, main, meta

Macro(deps) == [macro |-> TRUE, deps |-> deps, incl |-> {}]
Includes(headers) == [macro |-> FALSE, deps |-> {}, incl |-> headers]

MCContents ==
  listed :> {Empty, Macro({}), Macro({meta})} @@ found :> {Macro({})} @@
  main :> {Includes({}), Includes({listed}), Includes({found})}
=============================================================================
