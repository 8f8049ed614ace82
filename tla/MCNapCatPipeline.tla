-------------------------- MODULE MCNapCatPipeline --------------------------
EXTENDS NapCatPipeline, TLC

CONSTANTS m1, m2, w1, w2, r1
=============================================================================
