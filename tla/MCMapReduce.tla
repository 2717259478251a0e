---------------------------- MODULE MCMapReduce -----------------------------
\* MapReduce for TLC.  One worker, Steady, stays for the whole job; the others
\* may die at any point or stop after Limit RPCs.
EXTENDS MapReduce, TLC

CONSTANT Steady

ASSUME SteadyAssumption == Steady \in Worker \ (Mortal \cup Limited)
=============================================================================
