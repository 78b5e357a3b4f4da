---------------------------- MODULE MCCheckpoint ----------------------------
EXTENDS Checkpoint

CONSTANTS b1, b2, b3, r1, none
=============================================================================
