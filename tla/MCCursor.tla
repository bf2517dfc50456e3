------------------------------ MODULE MCCursor ------------------------------
EXTENDS Cursor, TLC

CONSTANTS p1, p2, s1, s2

\* An address says nothing of the image, nor an image of the address.
PointerSymmetry == Permutations({p1, p2}) \cup Permutations({s1, s2})
=============================================================================
