---------------------------- MODULE MCMonitorTable ----------------------------
EXTENDS MonitorTable, TLC

LockSymmetry == Permutations(Objects)
==============================================================================
