---------------------------- MODULE MCTapProber ----------------------------
EXTENDS TapProber

============================================================================
