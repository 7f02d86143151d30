------------------------------ MODULE MCSettings ------------------------------
\* Settings for TLC: callers are interchangeable.
EXTENDS Settings, TLC

Symmetry == Permutations(Callers)
=============================================================================
