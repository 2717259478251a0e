----------------------------- MODULE MCRaftThree -----------------------------
\* Three servers for TLC, which explores two parts of their behaviours.
EXTENDS MCRaft

VARIABLE part   \* which of the two; it never changes

\* Two elections compete, with a crash; nothing is appended and no round starts.
\* Or leaders diverge and the last one repairs, without a crash.
Bounds ==
    IF part = "elections"
    THEN timeouts <= 2 /\ rounds = 0 /\ \A s \in Server : rf[s].Log = <<>>
    ELSE crashes = 0

MCInit == Init /\ part \in {"elections", "repair"}
MCNext == Next /\ UNCHANGED part /\ Bounds'
MCSpec == MCInit /\ [][MCNext]_<<vars, part>>

ElectionsOrRepair == part = "repair" => DivergeThenRepair
=============================================================================
