------------------------------ MODULE MCLabrpc ------------------------------
\* Labrpc for TLC.  No symmetry: CallReturns is a liveness property.
EXTENDS Labrpc
=============================================================================
