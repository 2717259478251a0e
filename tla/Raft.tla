-------------------------------- MODULE Raft --------------------------------
(***************************************************************************)
(* The Raft peer of src/raft/raft.go, run as a cluster over the simulated  *)
(* network of src/labrpc/labrpc.go and crashed and restarted the way       *)
(* src/raft/config.go does it.                                             *)
(*                                                                         *)
(* Every critical section of raft.mu is one action.  What happens between  *)
(* two critical sections is kept apart: the main loop of Make (loop), the  *)
(* goroutine of startElection that reads CurrentTerm and Log without the   *)
(* lock (electing), the goroutines of StartAppendLog (beat), and every RPC *)
(* in flight (voteReq, voteRep, appReq, appRep), which may be delivered    *)
(* late, in any order, or never.  A Call that returns false (the request or *)
(* the reply was dropped, or the server is down) ends its goroutine before *)
(* it changes anything, so it is a call that is never delivered.           *)
(*                                                                         *)
(* Go's Log[0] is a sentinel of term -1 that never changes, so it is left  *)
(* out: Log is a sequence whose element i is Go's Log[i] and whose length  *)
(* is Go's len(Log)-1, the last log index.                                 *)
(***************************************************************************)
EXTENDS Integers, Sequences, FiniteSets

CONSTANTS
    Server,      \* the peers
    Value,       \* the commands a client may Start
    None,        \* VoteFor = -1
    MaxTerm,     \* bound: no election beyond this term
    MaxTimeouts, \* bound: election timeouts in a behaviour
    MaxLog,      \* bound: no Start on a log of this length
    MaxRounds,   \* bound: heartbeat rounds in a behaviour
    MaxCrashes   \* bound: crashes in a behaviour

ASSUME ServerAssumption == IsFiniteSet(Server)
ASSUME NoneAssumption == None \notin Server
ASSUME BoundAssumption == MaxTerm \in Nat /\ MaxTimeouts \in Nat /\ MaxLog \in Nat
                          /\ MaxRounds \in Nat /\ MaxCrashes \in Nat

VARIABLES
    rf,        \* the Raft object of each server
    persister, \* what SaveRaftState last stored for each server
    up,        \* "up", "down" (crashed) or "panicked"
    loop,      \* where the goroutine started by Make is: "top" or "select"
    electing,  \* startElection goroutines that have not sent their requests
    ballot,    \* arg.Term and count, shared by the goroutines of an election
    voteReq, voteRep,      \* RequestVote calls in flight and their replies
    beat, appReq, appRep,  \* AppendEntries goroutines: about to build their
                           \* arguments, in flight, holding a reply
    timeouts, rounds, crashes,   \* how many timeouts, rounds and crashes so far
    granted,   \* history: the votes granted through RequestVote
    elected,   \* history: who became leader in which term
    applied    \* history: what was sent on an applyCh, by index

vars == <<rf, persister, up, loop, electing, ballot, voteReq, voteRep, beat,
          appReq, appRep, timeouts, rounds, crashes, granted,
          elected, applied>>

elections == <<electing, ballot, voteReq, voteRep>>
appends == <<beat, appReq, appRep>>
budget == <<timeouts, rounds, crashes>>

Entry == [Term : Nat, Command : Value]

\* raft.Log[i].Term, the sentinel's term -1 included.
TermAt(log, i) == IF i = 0 THEN -1 ELSE log[i].Term

GetLastLogIndex(r) == Len(r.Log)

LastLogTerm(r) == TermAt(r.Log, Len(r.Log))

\* Fault: half of the peers is enough.
Half(Q) == Cardinality(Q) >= Cardinality(Server) \div 2

\* count > len(peers)/2: count is kept as the set of the voters counted.
Majority(Q) == Cardinality(Q) > Cardinality(Server) \div 2

Peers(s) == Server \ {s}

-----------------------------------------------------------------------------
\* State transitions of one Raft object, called with raft.mu held.

BeFollower(r, term) ==
    [r EXCEPT !.CurrentTerm = term, !.State = "Follower", !.VoteFor = None]

\* The first step of every handler: a newer term makes the server a follower.
StepDown(r, term) == IF r.CurrentTerm < term THEN BeFollower(r, term) ELSE r

\* Fault: the candidate forgets to vote for itself.
BeCandidateNoVote(r, s) ==
    [r EXCEPT !.CurrentTerm = @ + 1, !.State = "Candidate", !.VoteFor = None]

BeCandidate(r, s) ==
    [r EXCEPT !.CurrentTerm = @ + 1, !.State = "Candidate", !.VoteFor = s]

\* Fault: the new leader does not wake its main loop.
BeLeaderAsleep(r) ==
    [r EXCEPT !.State = "Leader",
              !.NextIndex = [p \in Server |-> Len(r.Log) + 1],
              !.MatchIndex = [p \in Server |-> 0]]

\* BeLeader and the send(voteCh) that follows it at its only call.
BeLeader(r) ==
    [r EXCEPT !.State = "Leader",
              !.NextIndex = [p \in Server |-> Len(r.Log) + 1],
              !.MatchIndex = [p \in Server |-> 0],
              !.voteCh = TRUE]

\* Faults: one of the persistent fields is not encoded.
persistNoVote(r) == [CurrentTerm |-> r.CurrentTerm, VoteFor |-> None, Log |-> r.Log]

persistNoLog(r) == [CurrentTerm |-> r.CurrentTerm, VoteFor |-> r.VoteFor, Log |-> <<>>]

\* What persist() encodes and readPersist() decodes.
persist(r) ==
    [CurrentTerm |-> r.CurrentTerm, VoteFor |-> r.VoteFor, Log |-> r.Log]

\* updateLastApplied: the loop leaves LastApplied at CommitIndex unless it is
\* already past it, and sends the entries in between on applyCh.
updateLastApplied(r) ==
    [r EXCEPT !.LastApplied = IF @ < r.CommitIndex THEN r.CommitIndex ELSE @]

Sent(r) ==
    {[Index |-> i, Command |-> r.Log[i].Command] :
        i \in (r.LastApplied + 1)..r.CommitIndex}

\* A fresh Raft object that read p from its persister (Make).
Make(p) ==
    [State |-> "Follower", CurrentTerm |-> p.CurrentTerm, VoteFor |-> p.VoteFor,
     Log |-> p.Log, CommitIndex |-> 0, LastApplied |-> 0,
     NextIndex |-> [q \in Server |-> 0], MatchIndex |-> [q \in Server |-> 0],
     voteCh |-> FALSE, appendLogCh |-> FALSE]

\* An empty persister leaves Make's defaults in place.
Fresh == [CurrentTerm |-> 1, VoteFor |-> None, Log |-> <<>>]

NoBallot == [Term |-> 0, count |-> {}]

Init ==
    /\ persister = [s \in Server |-> Fresh]
    /\ rf = [s \in Server |-> Make(Fresh)]
    /\ up = [s \in Server |-> "up"]
    /\ loop = [s \in Server |-> "top"]
    /\ electing = [s \in Server |-> {}]
    /\ ballot = [s \in Server |-> [e \in 1..MaxTerm |-> NoBallot]]
    /\ voteReq = {} /\ voteRep = {}
    /\ beat = {} /\ appReq = {} /\ appRep = {}
    /\ timeouts = 0 /\ rounds = 0 /\ crashes = 0
    /\ granted = {} /\ elected = {} /\ applied = {}

-----------------------------------------------------------------------------
\* The goroutine started by Make.  It reads State under the lock, releases
\* the lock, and acts on what it read.

\* state is Follower or Candidate: enter the select.
AwaitElection(s) ==
    /\ up[s] = "up" /\ loop[s] = "top" /\ rf[s].State # "Leader"
    /\ loop' = [loop EXCEPT ![s] = "select"]
    /\ UNCHANGED <<rf, persister, up, elections, appends, budget, granted,
                   elected, applied>>

\* The select receives from voteCh or appendLogCh: the timer starts over.
VoteRefresh(s) ==
    /\ up[s] = "up" /\ loop[s] = "select" /\ rf[s].voteCh
    /\ loop' = [loop EXCEPT ![s] = "top"]
    /\ rf' = [rf EXCEPT ![s].voteCh = FALSE]
    /\ UNCHANGED <<persister, up, elections, appends, budget, granted,
                   elected, applied>>

AppendRefresh(s) ==
    /\ up[s] = "up" /\ loop[s] = "select" /\ rf[s].appendLogCh
    /\ loop' = [loop EXCEPT ![s] = "top"]
    /\ rf' = [rf EXCEPT ![s].appendLogCh = FALSE]
    /\ UNCHANGED <<persister, up, elections, appends, budget, granted,
                   elected, applied>>

\* The timer fires.  Neither a full channel nor a State that changed since
\* it was read stops the election: the select may choose the timer, and
\* nothing is looked at again once the lock is taken.
ElectionTimeout(s) ==
    /\ up[s] = "up" /\ loop[s] = "select"
    /\ rf[s].CurrentTerm < MaxTerm /\ timeouts < MaxTimeouts
    /\ timeouts' = timeouts + 1
    /\ loop' = [loop EXCEPT ![s] = "top"]
    /\ rf' = [rf EXCEPT ![s] = BeCandidate(rf[s], s)]
    /\ electing' = [electing EXCEPT ![s] =
           @ \cup {[e |-> rf[s].CurrentTerm + 1, Term |-> 0, LastLogIndex |-> -1]}]
    /\ UNCHANGED <<persister, up, ballot, voteReq, voteRep, appends, rounds, crashes,
                   granted, elected, applied>>

\* state is Leader: StartAppendLog spawns one goroutine per peer, then the
\* loop sleeps and reads State again.
StartAppendLog(s) ==
    /\ up[s] = "up" /\ loop[s] = "top" /\ rf[s].State = "Leader"
    /\ rounds < MaxRounds
    /\ rounds' = rounds + 1
    /\ beat' = beat \cup {[src |-> s, dst |-> p, n |-> rounds + 1] : p \in Peers(s)}
    /\ UNCHANGED <<rf, persister, up, loop, elections, appReq, appRep, timeouts,
                   crashes, granted, elected, applied>>

-----------------------------------------------------------------------------
\* startElection, a goroutine of its own, fills in RequestVoteArgs without
\* holding the lock: three reads, each of the state of its own moment.

ReadTerm(s, x) ==
    /\ up[s] = "up" /\ x \in electing[s] /\ x.Term = 0
    /\ electing' = [electing EXCEPT ![s] =
           (@ \ {x}) \cup {[x EXCEPT !.Term = rf[s].CurrentTerm]}]
    /\ UNCHANGED <<rf, persister, up, loop, ballot, voteReq, voteRep, appends,
                   budget, granted, elected, applied>>

ReadLastLogIndex(s, x) ==
    /\ up[s] = "up" /\ x \in electing[s] /\ x.Term # 0 /\ x.LastLogIndex = -1
    /\ electing' = [electing EXCEPT ![s] =
           (@ \ {x}) \cup {[x EXCEPT !.LastLogIndex = GetLastLogIndex(rf[s])]}]
    /\ UNCHANGED <<rf, persister, up, loop, ballot, voteReq, voteRep, appends,
                   budget, granted, elected, applied>>

\* The last read; then count starts at 1 (the candidate itself) and every
\* peer is sent the same arguments by a goroutine of its own.
SendRequestVotes(s, x) ==
    /\ up[s] = "up" /\ x \in electing[s] /\ x.LastLogIndex # -1
    /\ electing' = [electing EXCEPT ![s] = @ \ {x}]
    /\ ballot' = [ballot EXCEPT ![s][x.e] = [Term |-> x.Term, count |-> {s}]]
    /\ voteReq' = voteReq \cup
           {[src |-> s, dst |-> p, e |-> x.e, live |-> TRUE, Term |-> x.Term,
             LastLogIndex |-> x.LastLogIndex, LastLogTerm |-> LastLogTerm(rf[s])] :
                p \in Peers(s)}
    /\ UNCHANGED <<rf, persister, up, loop, voteRep, appends, budget, granted,
                   elected, applied>>

\* A vote is refused for an older term, when the vote of this term went to
\* another candidate, or when the candidate's log is behind.
Grants(r, m) ==
    /\ m.Term >= r.CurrentTerm
    /\ r.VoteFor \in {None, m.src}
    /\ ~ \/ m.LastLogTerm < LastLogTerm(r)
         \/ m.LastLogTerm = LastLogTerm(r) /\ m.LastLogIndex < GetLastLogIndex(r)

RequestVote(m) ==
    LET v == m.dst
        r == StepDown(rf[v], m.Term)
        grant == Grants(r, m)
        voted == [r EXCEPT !.VoteFor = m.src, !.voteCh = TRUE]
    IN /\ up[v] = "up"
       /\ rf' = [rf EXCEPT ![v] = IF grant THEN voted ELSE r]
       /\ persister' = IF grant THEN [persister EXCEPT ![v] = persist(voted)] ELSE persister
       /\ voteReq' = voteReq \ {m}
       /\ voteRep' = IF m.live
                     THEN voteRep \cup {[src |-> m.src, dst |-> v, e |-> m.e,
                                         Term |-> r.CurrentTerm, VoteGranted |-> grant]}
                     ELSE voteRep
       /\ granted' = IF grant
                     THEN granted \cup {[voter |-> v, Term |-> m.Term, candidate |-> m.src]}
                     ELSE granted
       /\ UNCHANGED <<up, loop, electing, ballot, appends, budget, elected, applied>>

\* The three outcomes of a reply to a RequestVote.
VoteReplyNewerTerm(m) ==
    /\ up[m.src] = "up" /\ m.Term > rf[m.src].CurrentTerm
    /\ rf' = [rf EXCEPT ![m.src] = BeFollower(rf[m.src], m.Term)]
    /\ voteRep' = voteRep \ {m}
    /\ UNCHANGED <<persister, up, loop, electing, ballot, voteReq, appends,
                   budget, granted, elected, applied>>

VoteReplyTooLate(m) ==
    LET r == rf[m.src] IN
    /\ up[m.src] = "up" /\ m.Term <= r.CurrentTerm
    /\ r.State # "Candidate" \/ r.CurrentTerm # ballot[m.src][m.e].Term
    /\ voteRep' = voteRep \ {m}
    /\ UNCHANGED <<rf, persister, up, loop, electing, ballot, voteReq, appends,
                   budget, granted, elected, applied>>

CountVote(m) ==
    LET s == m.src
        r == rf[s]
        b == ballot[s][m.e]
        count == IF m.VoteGranted THEN b.count \cup {m.dst} ELSE b.count
    IN /\ up[s] = "up" /\ m.Term <= r.CurrentTerm
       /\ r.State = "Candidate" /\ r.CurrentTerm = b.Term
       /\ ballot' = [ballot EXCEPT ![s][m.e].count = count]
       /\ rf' = [rf EXCEPT ![s] = IF Majority(count) THEN BeLeader(r) ELSE r]
       /\ elected' = IF Majority(count)
                     THEN elected \cup {[Term |-> r.CurrentTerm, leader |-> s]}
                     ELSE elected
       /\ voteRep' = voteRep \ {m}
       /\ UNCHANGED <<persister, up, loop, electing, voteReq, appends, budget,
                      granted, applied>>

-----------------------------------------------------------------------------
\* A goroutine of StartAppendLog: build the arguments under the lock, call,
\* handle the reply under the lock, and loop when the reply is a refusal.

\* raft.State != Leader: the goroutine returns.
BeatAbandoned(g) ==
    /\ up[g.src] = "up" /\ rf[g.src].State # "Leader"
    /\ beat' = beat \ {g}
    /\ UNCHANGED <<rf, persister, up, loop, elections, appReq, appRep, budget,
                   granted, elected, applied>>

SendAppendEntries(g) ==
    LET r == rf[g.src]
        next == r.NextIndex[g.dst]
    IN /\ up[g.src] = "up" /\ r.State = "Leader" /\ next - 1 \in 0..Len(r.Log)
       /\ beat' = beat \ {g}
       /\ appReq' = appReq \cup
              {[src |-> g.src, dst |-> g.dst, n |-> g.n, live |-> TRUE,
                Term |-> r.CurrentTerm, PrevLogIndex |-> next - 1,
                PrevLogTerm |-> TermAt(r.Log, next - 1),
                Entries |-> SubSeq(r.Log, next, Len(r.Log)),
                LeaderCommit |-> r.CommitIndex]}
       /\ UNCHANGED <<rf, persister, up, loop, elections, appRep, budget,
                      granted, elected, applied>>

\* raft.Log[raft.NextIndex[id]-1] is out of range: the process panics.
IndexPanic(g) ==
    LET r == rf[g.src] IN
    /\ up[g.src] = "up" /\ r.State = "Leader" /\ r.NextIndex[g.dst] - 1 \notin 0..Len(r.Log)
    /\ up' = [up EXCEPT ![g.src] = "panicked"]
    /\ UNCHANGED <<rf, persister, loop, elections, appends, budget, granted,
                   elected, applied>>

\* Fault: calls of an older leader are accepted.
AcceptsOldTerm(r, m) ==
    /\ m.PrevLogIndex <= Len(r.Log)
    /\ TermAt(r.Log, m.PrevLogIndex) = m.PrevLogTerm

\* Fault: the term of the previous entry is not compared.
AcceptsAnyPrev(r, m) ==
    /\ m.Term >= r.CurrentTerm
    /\ m.PrevLogIndex <= Len(r.Log)

\* A call is accepted from a current leader whose previous entry is there.
Accepts(r, m) ==
    /\ m.Term >= r.CurrentTerm
    /\ m.PrevLogIndex <= Len(r.Log)
    /\ TermAt(r.Log, m.PrevLogIndex) = m.PrevLogTerm

\* Fault: entries of a repeated call are added once more.
ReplicateAppending(r, m) == [r EXCEPT !.Log = @ \o m.Entries]

\* Everything after PrevLogIndex is replaced by the entries of the call.
Replicate(r, m) ==
    [r EXCEPT !.Log = SubSeq(r.Log, 1, m.PrevLogIndex) \o m.Entries]

FollowCommit(r, m) ==
    [r EXCEPT !.CommitIndex =
        IF m.LeaderCommit < Len(r.Log) THEN m.LeaderCommit ELSE Len(r.Log)]

\* The handler.  The channel is filled before anything is checked.
AppendEntries(m) ==
    LET v == m.dst
        r == [StepDown(rf[v], m.Term) EXCEPT !.appendLogCh = TRUE]
        ok == Accepts(r, m)
        commit == m.LeaderCommit > r.CommitIndex
        r1 == Replicate(r, m)
        r2 == FollowCommit(r1, m)
        r3 == IF commit THEN updateLastApplied(r2) ELSE r1
    IN /\ up[v] = "up"
       /\ rf' = [rf EXCEPT ![v] = IF ok THEN r3 ELSE r]
       /\ applied' = IF ok /\ commit THEN applied \cup Sent(r2) ELSE applied
       /\ persister' = IF ok THEN [persister EXCEPT ![v] = persist(r3)] ELSE persister
       /\ appReq' = appReq \ {m}
       /\ appRep' = IF m.live
                    THEN appRep \cup {[src |-> m.src, dst |-> v, n |-> m.n,
                                       Term |-> r.CurrentTerm, Success |-> ok]}
                    ELSE appRep
       /\ UNCHANGED <<up, loop, elections, beat, budget, granted, elected>>

\* The three outcomes of a reply to an AppendEntries.  None of them asks
\* whether this server is still the leader that made the call.
AppendReplyNewerTerm(m) ==
    /\ up[m.src] = "up" /\ m.Term > rf[m.src].CurrentTerm
    /\ rf' = [rf EXCEPT ![m.src] = BeFollower(rf[m.src], m.Term)]
    /\ appRep' = appRep \ {m}
    /\ UNCHANGED <<persister, up, loop, elections, beat, appReq, budget,
                   granted, elected, applied>>

Retreat(r, p) == [r EXCEPT !.NextIndex = [@ EXCEPT ![p] = r.NextIndex[p] - 1]]

AppendRefused(m) ==
    /\ up[m.src] = "up" /\ m.Term <= rf[m.src].CurrentTerm /\ ~m.Success
    /\ rf' = [rf EXCEPT ![m.src] = Retreat(rf[m.src], m.dst)]
    /\ appRep' = appRep \ {m}
    /\ beat' = beat \cup {[src |-> m.src, dst |-> m.dst, n |-> m.n]}
    /\ UNCHANGED <<persister, up, loop, elections, appReq, budget, granted,
                   elected, applied>>

\* copyMatchIndex[len/2] after sorting it in descending order: the largest
\* index that more than half of the peers have reached.
IsMajorityIndex(i, match) ==
    /\ Majority({p \in Server : match[p] >= i})
    /\ \A p \in Server : match[p] > i => ~Majority({q \in Server : match[q] >= match[p]})

\* MatchIndex becomes the last index of the log as it is now, not as it was
\* when the call was made.
Matched(r, s, p) ==
    [r EXCEPT !.MatchIndex = [@ EXCEPT ![p] = Len(r.Log), ![s] = Len(r.Log)],
              !.NextIndex = [@ EXCEPT ![p] = Len(r.Log) + 1]]

\* raft.Log[N] panics if N is beyond the log.
AppendAccepted(m) ==
    LET s == m.src
        r == Matched(rf[s], s, m.dst)
    IN /\ up[s] = "up" /\ m.Term <= rf[s].CurrentTerm /\ m.Success
       /\ \E N \in {r.MatchIndex[p] : p \in Server} :
             LET panic == N > r.CommitIndex /\ N > GetLastLogIndex(r)
                 commit == /\ N > r.CommitIndex /\ N <= GetLastLogIndex(r)
                           /\ TermAt(r.Log, N) = r.CurrentTerm
                 r2 == [r EXCEPT !.CommitIndex = N]
             IN /\ IsMajorityIndex(N, r.MatchIndex)
                /\ rf' = [rf EXCEPT ![s] = IF commit THEN updateLastApplied(r2) ELSE r]
                /\ applied' = IF commit THEN applied \cup Sent(r2) ELSE applied
                /\ up' = IF panic THEN [up EXCEPT ![s] = "panicked"] ELSE up
       /\ appRep' = appRep \ {m}
       /\ UNCHANGED <<persister, loop, elections, beat, appReq, budget, granted,
                      elected>>

-----------------------------------------------------------------------------
\* The client and the crash harness.

NewLog(r, v) ==
    [r EXCEPT !.Log = Append(@, [Term |-> r.CurrentTerm, Command |-> v])]

Start(s, v) ==
    LET r == NewLog(rf[s], v)
    IN /\ up[s] = "up" /\ rf[s].State = "Leader" /\ Len(rf[s].Log) < MaxLog
       /\ rf' = [rf EXCEPT ![s] = r]
       /\ persister' = [persister EXCEPT ![s] = persist(r)]
       /\ UNCHANGED <<up, loop, elections, appends, budget, granted, elected, applied>>

\* crash1: the instance is cut off and only its persister survives.  Requests
\* it has already sent may still be executed; nobody waits for the replies.
Orphan(s, calls) ==
    {m \in calls : m.src # s} \cup {[m EXCEPT !.live = FALSE] : m \in {c \in calls : c.src = s}}

Crash(s) ==
    /\ up[s] = "up" /\ crashes < MaxCrashes
    /\ up' = [up EXCEPT ![s] = "down"]
    /\ crashes' = crashes + 1
    /\ electing' = [electing EXCEPT ![s] = {}]
    /\ voteReq' = Orphan(s, voteReq) /\ voteRep' = {m \in voteRep : m.src # s}
    /\ appReq' = Orphan(s, appReq) /\ appRep' = {m \in appRep : m.src # s}
    /\ beat' = {g \in beat : g.src # s}
    /\ UNCHANGED <<rf, persister, loop, ballot, timeouts, rounds, granted, elected, applied>>

\* start1: Make with the surviving persister.
Restart(s) ==
    /\ up[s] = "down"
    /\ up' = [up EXCEPT ![s] = "up"]
    /\ rf' = [rf EXCEPT ![s] = Make(persister[s])]
    /\ loop' = [loop EXCEPT ![s] = "top"]
    /\ ballot' = [ballot EXCEPT ![s] = [e \in 1..MaxTerm |-> NoBallot]]
    /\ UNCHANGED <<persister, electing, voteReq, voteRep, appends, budget,
                   granted, elected, applied>>

-----------------------------------------------------------------------------
MainLoop(s) ==
    \/ AwaitElection(s) \/ VoteRefresh(s) \/ AppendRefresh(s)
    \/ ElectionTimeout(s) \/ StartAppendLog(s)

Election ==
    \/ \E s \in Server : \E x \in electing[s] : ReadTerm(s, x)
    \/ \E s \in Server : \E x \in electing[s] : ReadLastLogIndex(s, x)
    \/ \E s \in Server : \E x \in electing[s] : SendRequestVotes(s, x)
    \/ \E m \in voteReq : RequestVote(m)
    \/ \E m \in voteRep : VoteReplyNewerTerm(m)
    \/ \E m \in voteRep : VoteReplyTooLate(m)
    \/ \E m \in voteRep : CountVote(m)

Replication ==
    \/ \E g \in beat : BeatAbandoned(g)
    \/ \E g \in beat : SendAppendEntries(g)
    \/ \E g \in beat : IndexPanic(g)
    \/ \E m \in appReq : AppendEntries(m)
    \/ \E m \in appRep : AppendReplyNewerTerm(m)
    \/ \E m \in appRep : AppendRefused(m)
    \/ \E m \in appRep : AppendAccepted(m)
    \/ \E s \in Server, v \in Value : Start(s, v)

Harness == \E s \in Server : Crash(s) \/ Restart(s)

Next == (\E s \in Server : MainLoop(s)) \/ Election \/ Replication \/ Harness

Spec == Init /\ [][Next]_vars

-----------------------------------------------------------------------------
\* Every variable holds values of its type.
RaftObject ==
    [State : {"Follower", "Candidate", "Leader"}, CurrentTerm : Nat,
     VoteFor : Server \cup {None}, Log : Seq(Entry),
     CommitIndex : Nat, LastApplied : Nat,
     NextIndex : [Server -> Int], MatchIndex : [Server -> Nat],
     voteCh : BOOLEAN, appendLogCh : BOOLEAN]

Persisted == [CurrentTerm : Nat, VoteFor : Server \cup {None}, Log : Seq(Entry)]

ElectionGoroutine == [e : 1..MaxTerm, Term : Nat, LastLogIndex : Int]

Ballot == [Term : Nat, count : SUBSET Server]

VoteRequest ==
    [src : Server, dst : Server, e : 1..MaxTerm, live : BOOLEAN, Term : Nat,
     LastLogIndex : Int, LastLogTerm : Int]

VoteReply ==
    [src : Server, dst : Server, e : 1..MaxTerm, Term : Nat, VoteGranted : BOOLEAN]

AppendGoroutine == [src : Server, dst : Server, n : 1..MaxRounds]

AppendRequest ==
    [src : Server, dst : Server, n : 1..MaxRounds, live : BOOLEAN, Term : Nat,
     PrevLogIndex : Nat, PrevLogTerm : Int, Entries : Seq(Entry), LeaderCommit : Nat]

AppendReply ==
    [src : Server, dst : Server, n : 1..MaxRounds, Term : Nat, Success : BOOLEAN]

TypeOK ==
    /\ rf \in [Server -> RaftObject]
    /\ persister \in [Server -> Persisted]
    /\ up \in [Server -> {"up", "down", "panicked"}]
    /\ loop \in [Server -> {"top", "select"}]
    /\ electing \in [Server -> SUBSET ElectionGoroutine]
    /\ ballot \in [Server -> [1..MaxTerm -> Ballot]]
    /\ voteReq \subseteq VoteRequest /\ voteRep \subseteq VoteReply
    /\ beat \subseteq AppendGoroutine
    /\ appReq \subseteq AppendRequest /\ appRep \subseteq AppendReply
    /\ timeouts \in Nat /\ rounds \in Nat /\ crashes \in Nat
    /\ granted \subseteq [voter : Server, Term : Nat, candidate : Server]
    /\ elected \subseteq [Term : Nat, leader : Server]
    /\ applied \subseteq [Index : Nat, Command : Value]

Leads(s) == up[s] = "up" /\ rf[s].State = "Leader"

\* checkOneLeader (config.go): no two running servers lead the same term, for
\* all crashes and restarts, although BeCandidate does not persist the vote a
\* candidate gives itself.
OneLeaderPerTerm ==
    \A s, t \in Server :
        Leads(s) /\ Leads(t) /\ rf[s].CurrentTerm = rf[t].CurrentTerm => s = t

\* A vote granted by RequestVote is never taken back: no crash makes a server
\* grant its vote of one term to a second candidate.
GrantsUnique ==
    \A g, h \in granted :
        g.voter = h.voter /\ g.Term = h.Term => g.candidate = h.candidate

\* A leader whose main loop still waits in the election select has a token in
\* voteCh, so it starts its heartbeats without waiting for a timeout.
LeaderIsWoken ==
    \A s \in Server : Leads(s) /\ loop[s] = "select" => rf[s].voteCh

\* Whatever a server's log holds when raft.mu is free would survive a crash.
LogDurable == \A s \in Server : persister[s].Log = rf[s].Log

\* Two logs that agree on the term of an entry agree on everything up to it.
LogMatching ==
    \A s, t \in Server :
        \A i \in 1..Len(rf[s].Log) :
            /\ i <= Len(rf[t].Log)
            /\ rf[s].Log[i].Term = rf[t].Log[i].Term
            => SubSeq(rf[s].Log, 1, i) = SubSeq(rf[t].Log, 1, i)

\* A leader only ever appends to its log while it leads one term.
LeaderAppendOnly ==
    [][\A s \in Server :
          /\ Leads(s) /\ Leads(s)'
          /\ rf[s].CurrentTerm = rf'[s].CurrentTerm
          => /\ Len(rf[s].Log) <= Len(rf'[s].Log)
             /\ SubSeq(rf'[s].Log, 1, Len(rf[s].Log)) = rf[s].Log]_vars

\* README.md: once a server has applied a command at an index, no server
\* applies another command at that index.
StateMachineSafety ==
    \A a, b \in applied : a.Index = b.Index => a.Command = b.Command

\* No index computed from NextIndex or MatchIndex leaves the log.
NoPanic == \A s \in Server : up[s] # "panicked"

-----------------------------------------------------------------------------
\* Why OneLeaderPerTerm holds although terms and self-votes are not durable.

Vote(v, term, c) == [voter |-> v, Term |-> term, candidate |-> c]

\* The persister lags behind the Raft object, but within one term it never
\* holds a vote the Raft object does not.
PersisterLags ==
    \A s \in Server :
        /\ persister[s].CurrentTerm <= rf[s].CurrentTerm
        /\ persister[s].CurrentTerm = rf[s].CurrentTerm /\ persister[s].VoteFor # None
           => rf[s].VoteFor = persister[s].VoteFor

\* A candidate or leader has given its vote of the term to itself.
SelfVote == \A s \in Server : rf[s].State # "Follower" => rf[s].VoteFor = s

\* A granted vote is in the persister until a later term replaces it.
GrantsKept ==
    \A g \in granted :
        \/ g.Term < persister[g.voter].CurrentTerm
        \/ /\ g.Term = persister[g.voter].CurrentTerm
           /\ g.candidate = persister[g.voter].VoteFor

\* A reply that grants a vote is about the term of the election that counts it.
BallotsMatch ==
    /\ \A m \in voteReq : m.live => ballot[m.src][m.e].Term = m.Term
    /\ \A m \in voteRep : m.VoteGranted => Vote(m.dst, ballot[m.src][m.e].Term, m.src) \in granted

\* Whoever an election counted voted for the candidate in the election's term.
CountsGranted ==
    \A s \in Server, e \in 1..MaxTerm :
        \A v \in ballot[s][e].count : v = s \/ Vote(v, ballot[s][e].Term, s) \in granted

\* An election that has sent no request yet shares its ballot with no request,
\* no reply and no other election.
BallotsFresh ==
    /\ \A s \in Server : \A x \in electing[s] :
           /\ x.e <= rf[s].CurrentTerm
           /\ \A y \in electing[s] : x.e = y.e => x = y
           /\ \A m \in voteReq : m.src = s /\ m.live => m.e # x.e
           /\ \A m \in voteRep : m.src = s => m.e # x.e
    /\ \A m \in voteReq : m.live => m.e <= rf[m.src].CurrentTerm /\ up[m.src] # "down"
    /\ \A m \in voteRep : m.e <= rf[m.src].CurrentTerm /\ up[m.src] # "down"
    /\ \A s \in Server : up[s] = "down" => electing[s] = {}

\* A leader was elected by a majority, itself included, in its current term.
LeaderQuorum ==
    \A s \in Server : rf[s].State = "Leader" =>
        \E Q \in SUBSET Server :
            Majority(Q) /\ \A v \in Q : v = s \/ Vote(v, rf[s].CurrentTerm, s) \in granted

\* The inductive invariant of elections: every vote a leader was counted is
\* still binding, whatever has crashed since.
ElectionInv ==
    /\ TypeOK
    /\ PersisterLags /\ SelfVote /\ GrantsKept /\ GrantsUnique
    /\ BallotsMatch /\ CountsGranted /\ BallotsFresh /\ LeaderQuorum

=============================================================================
