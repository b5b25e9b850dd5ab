---------------------------- MODULE MCCandleLoop ----------------------------
EXTENDS CandleLoop
=============================================================================
