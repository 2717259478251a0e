---------------------------- MODULE MCDiskStore -----------------------------
\* DiskStore for TLC.  Keys and values are interchangeable model values.
EXTENDS DiskStore, TLC

Symmetry == Permutations(Key) \cup Permutations(Value)
=============================================================================
