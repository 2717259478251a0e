----------------------------- MODULE MCServices -----------------------------
\* Services for TLC: two shard masters, the first of which may be killed.
EXTENDS Services, TLC

CONSTANTS m1, m2, v

MCMaster == <<m1, m2>>
MCMortal == {m1, v}
=============================================================================
