-------------------------- MODULE MCChunkedSuffix --------------------------
EXTENDS ChunkedSuffix

\* The entry at offset 0 is shared: every commit reaches it and itself, except
\* the second, which has a history of its own.
MCNeeds == [o \in Offsets |-> IF o = 1 THEN {1} ELSE {0, o}]
=============================================================================
