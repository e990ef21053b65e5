--------------------------- MODULE MCBranchStore ---------------------------
EXTENDS BranchStore

CONSTANTS main, dev, c1, c2, s1, s2
=============================================================================
