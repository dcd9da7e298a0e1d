--------------------------- MODULE MCBullPutSpread ---------------------------
\* One spread with two rungs, one recovery and the closers beside the opener.
EXTENDS BullPutSpread
=============================================================================
