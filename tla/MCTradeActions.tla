--------------------------- MODULE MCTradeActions ---------------------------
EXTENDS TradeActions, TLC

Symmetry == Permutations(Actions)
=============================================================================
