--------------------------- MODULE MCHandleTable ---------------------------
EXTENDS HandleTable, TLC

\* Type 2 derives from type 1, as Element does from Node.
MCTypes == {1, 2}
MCAccepts == {<<2, 1>>}
TokenSymmetry == Permutations(Tokens)
=============================================================================
