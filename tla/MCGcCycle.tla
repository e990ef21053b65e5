----------------------------- MODULE MCGcCycle -----------------------------
EXTENDS GcCycle

CONSTANTS f1, f2, w1
=============================================================================
