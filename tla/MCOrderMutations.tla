-------------------------- MODULE MCOrderMutations --------------------------
\* A cancellation and a replacement of one order, and one reader.
EXTENDS OrderMutations

CONSTANTS c1, r1, t1, original

MCCancels == {c1}
MCReplaces == {r1}
MCReaders == {t1}
=============================================================================
