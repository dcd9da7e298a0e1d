-------------------------- MODULE MCTradingIntents --------------------------
\* A small instance of TradingIntents: keys, payloads and requests are model
\* values.
EXTENDS TradingIntents
=============================================================================
