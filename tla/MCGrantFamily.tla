--------------------------- MODULE MCGrantFamily ---------------------------
EXTENDS GrantFamily, TLC

Symmetry == Permutations(Req) \cup Permutations(Node)

=============================================================================
