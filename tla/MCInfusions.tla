----------------------------- MODULE MCInfusions ------------------------------
EXTENDS Infusions, TLC

CONSTANTS base, lib, app, tool

MCNrClasses == [n \in Names |-> 2]
MCImport ==
  [n \in Names |-> IF n = base THEN NoName ELSE IF n = app THEN lib ELSE base]
MCNoRef == -1

\* lib and tool may be exchanged where app, which imports lib, is not among the Names.
HeapSymmetry == Permutations(Labels) \cup Permutations(Threads)
UnloadSymmetry == HeapSymmetry \cup Permutations({lib, tool})
==============================================================================
