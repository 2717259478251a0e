------------------------------- MODULE MCRaft -------------------------------
\* Raft for TLC.  Servers and commands are interchangeable model values.
EXTENDS Raft, TLC

Symmetry == Permutations(Server) \cup Permutations(Value)

\* Search bounds.  A bound keeps a part of the behaviours and leaves out the
\* others; what it keeps are behaviours of Raft, from its own initial state.

\* At most one server waits for its election timeout at a time.
OneWaiter == Cardinality({s \in Server : loop[s] = "select"}) <= 1

\* A second election starts only once the first has produced a leader, and
\* requests of earlier elections are forgotten.
SuccessiveElections ==
    /\ OneWaiter
    /\ timeouts > 1 => elected # {}
    /\ \A m \in voteReq : m.Term > timeouts
    /\ Cardinality(voteReq \cup voteRep) <= 2
    /\ Cardinality(beat \cup appReq \cup appRep) <= 2

\* A second election starts only after a command was applied.
ElectionAfterApply ==
    /\ SuccessiveElections
    /\ timeouts > 1 => applied # {}

\* A second election starts only once there was a leader.
ElectionAfterLeader ==
    /\ OneWaiter
    /\ timeouts > 1 => elected # {}
    /\ Cardinality(voteReq \cup voteRep) <= 2

\* Leaders follow one another and append without sending, until the last one
\* finds logs that have gone apart and replicates its own.
DivergeThenRepair ==
    LET leaders == Cardinality(elected)
    IN /\ OneWaiter
       /\ \A s \in Server : loop[s] = "select" => timeouts = leaders /\ leaders < MaxTimeouts
       /\ timeouts <= 1 + leaders
       /\ \A m \in voteReq \cup voteRep : m.Term > timeouts
       /\ Cardinality(voteRep) <= 1
       /\ \A s \in Server : electing[s] # {} => voteReq \cup voteRep = {}
       /\ rounds > 0 => leaders = MaxTimeouts /\ voteReq = {}
       /\ Cardinality(appReq \cup appRep) <= 1

\* Two elections and a crash leave it at one round, and a third election starts
\* only when nothing was appended, sent or lost.
FewerRounds ==
    /\ timeouts > 1 /\ crashes > 0 => rounds <= 1
    /\ timeouts > 2 => rounds = 0 /\ crashes = 0 /\ \A s \in Server : rf[s].Log = <<>>
=============================================================================
