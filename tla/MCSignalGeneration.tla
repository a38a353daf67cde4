------------------------- MODULE MCSignalGeneration -------------------------
EXTENDS SignalGeneration
============================================================================
