---------------------------- MODULE MC_PairLedger ----------------------------
EXTENDS PairLedger
=============================================================================
