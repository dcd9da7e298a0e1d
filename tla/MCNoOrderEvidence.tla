-------------------------- MODULE MCNoOrderEvidence --------------------------
\* NoOrderEvidence with one tick for ten seconds or less: the span is longer
\* than the pause, the call (or its reach) and the held read together.
EXTENDS NoOrderEvidence
=============================================================================
