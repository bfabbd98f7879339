-------------------------- MODULE MC_EpochLineage --------------------------
EXTENDS EpochLineage
=============================================================================
