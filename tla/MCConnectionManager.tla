------------------------ MODULE MCConnectionManager ------------------------
EXTENDS ConnectionManager, TLC

\* The specs are interchangeable: no action or property names one of them.
Symmetry == Permutations(Specs)
=============================================================================
