----------------------------- MODULE RaftProofs -----------------------------
(***************************************************************************)
(* Proofs about Raft, for every set of servers, every set of commands and  *)
(* every bound.                                                            *)
(***************************************************************************)
EXTENDS Raft, TLAPS

-----------------------------------------------------------------------------
\* Types: what the operations on one Raft object return.

\* The provers of every leaf that does not name another.
USE SMTT(60), SMTT(90), SMTT(120)

\* The types of the fields of a Raft object.
LEMMA Fields ==
    ASSUME NEW r \in RaftObject
    PROVE  /\ r.State \in {"Follower", "Candidate", "Leader"}
           /\ r.CurrentTerm \in Nat
           /\ r.VoteFor \in Server \cup {None}
           /\ r.Log \in Seq(Entry) /\ Len(r.Log) \in Nat
           /\ r.CommitIndex \in Nat /\ r.LastApplied \in Nat
           /\ r.NextIndex \in [Server -> Int] /\ r.MatchIndex \in [Server -> Nat]
           /\ r.voteCh \in BOOLEAN /\ r.appendLogCh \in BOOLEAN
<1>1. r.Log \in Seq(Entry)
  BY DEF RaftObject
<1> QED
  BY <1>1 DEF RaftObject

\* A channel of the main loop is filled or emptied.
LEMMA ChannelType ==
    ASSUME NEW r \in RaftObject, NEW b \in BOOLEAN
    PROVE  /\ [r EXCEPT !.voteCh = b] \in RaftObject
           /\ [r EXCEPT !.appendLogCh = b] \in RaftObject
           /\ \A q \in {[r EXCEPT !.voteCh = b], [r EXCEPT !.appendLogCh = b]} :
                 /\ q.State = r.State /\ q.CurrentTerm = r.CurrentTerm
                 /\ q.VoteFor = r.VoteFor /\ q.Log = r.Log
           /\ [r EXCEPT !.appendLogCh = b].voteCh = r.voteCh
BY Zenon DEF RaftObject

\* BeFollower changes the term, the state and the vote, and nothing else.
LEMMA BeFollowerType ==
    ASSUME NEW r \in RaftObject, NEW term \in Nat
    PROVE  /\ BeFollower(r, term) \in RaftObject
           /\ BeFollower(r, term).CurrentTerm = term
           /\ BeFollower(r, term).State = "Follower"
           /\ BeFollower(r, term).VoteFor = None
           /\ BeFollower(r, term).Log = r.Log
           /\ BeFollower(r, term).CommitIndex = r.CommitIndex
           /\ BeFollower(r, term).voteCh = r.voteCh
BY Zenon DEF BeFollower, RaftObject

\* After StepDown the term is at least the caller's, the vote is kept or
\* cleared together with the term, and the log is the same.
LEMMA StepDownType ==
    ASSUME NEW r \in RaftObject, NEW term \in Nat
    PROVE  /\ StepDown(r, term) \in RaftObject
           /\ StepDown(r, term).Log = r.Log
           /\ StepDown(r, term).voteCh = r.voteCh
           /\ StepDown(r, term).CommitIndex = r.CommitIndex
           /\ r.CurrentTerm <= StepDown(r, term).CurrentTerm
           /\ term <= StepDown(r, term).CurrentTerm
           /\ \/ StepDown(r, term) = r
              \/ /\ StepDown(r, term).State = "Follower"
                 /\ StepDown(r, term).VoteFor = None
                 /\ StepDown(r, term).CurrentTerm = term
                 /\ r.CurrentTerm < term
<1>1. CASE r.CurrentTerm < term
  <2>1. StepDown(r, term) = BeFollower(r, term)
    BY <1>1 DEF StepDown
  <2>2. r.CurrentTerm \in Nat
    BY Fields
  <2>3. r.CurrentTerm <= term /\ term <= term
    BY <1>1, <2>2
  <2> QED
    BY <1>1, <2>1, <2>3, BeFollowerType
<1>2. CASE ~(r.CurrentTerm < term)
  BY <1>2, Fields DEF StepDown
<1> QED
  BY <1>1, <1>2

\* BeCandidate moves to the next term and votes for the server itself.
LEMMA BeCandidateType ==
    ASSUME NEW r \in RaftObject, NEW s \in Server
    PROVE  /\ BeCandidate(r, s) \in RaftObject
           /\ BeCandidate(r, s).CurrentTerm = r.CurrentTerm + 1
           /\ BeCandidate(r, s).State = "Candidate"
           /\ BeCandidate(r, s).VoteFor = s
           /\ BeCandidate(r, s).Log = r.Log
<1>1. r.CurrentTerm \in Nat /\ r.CurrentTerm + 1 \in Nat
  BY DEF RaftObject
<1> QED
  BY <1>1, Zenon DEF BeCandidate, RaftObject

\* BeLeader keeps the term, the vote and the log.
LEMMA BeLeaderType ==
    ASSUME NEW r \in RaftObject
    PROVE  /\ BeLeader(r) \in RaftObject
           /\ BeLeader(r).CurrentTerm = r.CurrentTerm
           /\ BeLeader(r).State = "Leader"
           /\ BeLeader(r).VoteFor = r.VoteFor
           /\ BeLeader(r).Log = r.Log
           /\ BeLeader(r).voteCh = TRUE
<1>1. r.Log \in Seq(Entry) /\ Len(r.Log) + 1 \in Int
  BY DEF RaftObject
<1>2. /\ [p \in Server |-> Len(r.Log) + 1] \in [Server -> Int]
      /\ [p \in Server |-> 0] \in [Server -> Nat]
  BY <1>1
<1> QED
  BY <1>1, <1>2, Zenon DEF BeLeader, RaftObject

\* What persist writes is what Make reads back.
LEMMA MakeType ==
    ASSUME NEW p \in Persisted
    PROVE  /\ Make(p) \in RaftObject
           /\ persist(Make(p)) = p
           /\ Make(p).State = "Follower"
BY DEF Make, persist, RaftObject, Persisted

LEMMA PersistType ==
    ASSUME NEW r \in RaftObject
    PROVE  /\ persist(r) \in Persisted
           /\ persist(r).CurrentTerm = r.CurrentTerm
           /\ persist(r).VoteFor = r.VoteFor
           /\ persist(r).Log = r.Log
BY DEF persist, RaftObject, Persisted

\* updateLastApplied changes LastApplied only.
LEMMA UpdateLastAppliedType ==
    ASSUME NEW r \in RaftObject
    PROVE  /\ updateLastApplied(r) \in RaftObject
           /\ updateLastApplied(r).CurrentTerm = r.CurrentTerm
           /\ updateLastApplied(r).State = r.State
           /\ updateLastApplied(r).VoteFor = r.VoteFor
           /\ updateLastApplied(r).Log = r.Log
           /\ updateLastApplied(r).voteCh = r.voteCh
BY Zenon DEF updateLastApplied, RaftObject

\* Every index of a log has an entry, whose term is a number.
LEMMA TermAtType ==
    ASSUME NEW log \in Seq(Entry), NEW i \in 0..Len(log)
    PROVE  TermAt(log, i) \in Int
<1>1. CASE i = 0
  BY <1>1 DEF TermAt
<1>2. CASE i # 0
  <2>1. log[i] \in Entry
    BY <1>2
  <2> QED
    BY <1>2, <2>1 DEF TermAt, Entry
<1> QED
  BY <1>1, <1>2

LEMMA LastLogTermType ==
    ASSUME NEW r \in RaftObject
    PROVE  LastLogTerm(r) \in Int
BY Fields, TermAtType DEF LastLogTerm

\* The vote a handler grants changes VoteFor and fills voteCh.
LEMMA VotedType ==
    ASSUME NEW r \in RaftObject, NEW c \in Server
    PROVE  LET v == [r EXCEPT !.VoteFor = c, !.voteCh = TRUE] IN
           /\ v \in RaftObject
           /\ v.VoteFor = c /\ v.voteCh = TRUE
           /\ v.State = r.State /\ v.CurrentTerm = r.CurrentTerm /\ v.Log = r.Log
BY Zenon DEF RaftObject

\* Replicate changes the log only, and the new log is one.
LEMMA ReplicateType ==
    ASSUME NEW r \in RaftObject, NEW m \in AppendRequest, m.PrevLogIndex <= Len(r.Log)
    PROVE  LET q == Replicate(r, m) IN
           /\ q \in RaftObject
           /\ q.State = r.State /\ q.CurrentTerm = r.CurrentTerm
           /\ q.VoteFor = r.VoteFor /\ q.voteCh = r.voteCh
           /\ q.CommitIndex = r.CommitIndex
<1>1. r.Log \in Seq(Entry) /\ m.Entries \in Seq(Entry) /\ m.PrevLogIndex \in 0..Len(r.Log)
  BY Fields DEF AppendRequest
<1>2. SubSeq(r.Log, 1, m.PrevLogIndex) \in Seq(Entry)
  BY <1>1
<1>3. SubSeq(r.Log, 1, m.PrevLogIndex) \o m.Entries \in Seq(Entry)
  BY <1>1, <1>2
<1> QED
  BY <1>3, Zenon DEF Replicate, RaftObject

\* FollowCommit changes CommitIndex only and keeps it within the log.
LEMMA FollowCommitType ==
    ASSUME NEW r \in RaftObject, NEW m \in AppendRequest
    PROVE  LET q == FollowCommit(r, m) IN
           /\ q \in RaftObject
           /\ q.State = r.State /\ q.CurrentTerm = r.CurrentTerm
           /\ q.VoteFor = r.VoteFor /\ q.voteCh = r.voteCh /\ q.Log = r.Log
           /\ q.CommitIndex <= Len(q.Log)
<1> DEFINE ci == IF m.LeaderCommit < Len(r.Log) THEN m.LeaderCommit ELSE Len(r.Log)
<1>1. Len(r.Log) \in Nat /\ m.LeaderCommit \in Nat
  BY Fields DEF AppendRequest
<1>2. ci \in Nat /\ ci <= Len(r.Log)
  BY <1>1
<1> HIDE DEF ci
<1>3. FollowCommit(r, m) = [r EXCEPT !.CommitIndex = ci]
  BY DEF FollowCommit, ci
<1> QED
  BY <1>2, <1>3, Zenon DEF RaftObject

\* Matched changes NextIndex and MatchIndex only.
LEMMA MatchedType ==
    ASSUME NEW r \in RaftObject, NEW s \in Server, NEW p \in Server
    PROVE  LET q == Matched(r, s, p) IN
           /\ q \in RaftObject
           /\ q.State = r.State /\ q.CurrentTerm = r.CurrentTerm
           /\ q.VoteFor = r.VoteFor /\ q.voteCh = r.voteCh /\ q.Log = r.Log
           /\ q.CommitIndex = r.CommitIndex
<1>1. Len(r.Log) \in Nat /\ Len(r.Log) + 1 \in Int
  BY Fields
<1>2. /\ [r.MatchIndex EXCEPT ![p] = Len(r.Log), ![s] = Len(r.Log)] \in [Server -> Nat]
      /\ [r.NextIndex EXCEPT ![p] = Len(r.Log) + 1] \in [Server -> Int]
  BY <1>1, Fields, ZenonT(30)
<1> QED
  BY <1>2, Zenon DEF Matched, RaftObject

\* A refusal changes NextIndex only.
LEMMA RetreatType ==
    ASSUME NEW r \in RaftObject, NEW p \in Server
    PROVE  LET q == Retreat(r, p) IN
           /\ q \in RaftObject
           /\ q.State = r.State /\ q.CurrentTerm = r.CurrentTerm
           /\ q.VoteFor = r.VoteFor /\ q.voteCh = r.voteCh /\ q.Log = r.Log
<1> DEFINE next == [r.NextIndex EXCEPT ![p] = @ - 1]
<1>1. next \in [Server -> Int]
  BY Fields
<1> HIDE DEF next
<1>2. Retreat(r, p) = [r EXCEPT !.NextIndex = next]
  BY DEF Retreat, next
<1> QED
  BY <1>1, <1>2, Zenon DEF RaftObject

\* Start appends one entry of the current term and changes nothing else.
LEMMA NewLogType ==
    ASSUME NEW r \in RaftObject, NEW v \in Value
    PROVE  LET q == NewLog(r, v) IN
           /\ q \in RaftObject
           /\ q.State = r.State /\ q.CurrentTerm = r.CurrentTerm
           /\ q.VoteFor = r.VoteFor /\ q.voteCh = r.voteCh
<1> DEFINE entry == [Term |-> r.CurrentTerm, Command |-> v]
           log == Append(r.Log, entry)
<1>1. r.Log \in Seq(Entry) /\ entry \in Entry
  BY Fields, Zenon DEF Entry
<1> HIDE DEF entry
<1>2. log \in Seq(Entry)
  BY <1>1
<1>3. NewLog(r, v) = [r EXCEPT !.Log = log]
  BY DEF NewLog, entry
<1> HIDE DEF log
<1> QED
  BY <1>2, <1>3, Zenon DEF RaftObject

LEMMA SentType ==
    ASSUME NEW r \in RaftObject, r.CommitIndex <= Len(r.Log)
    PROVE  Sent(r) \subseteq [Index : Nat, Command : Value]
<1>1. r.LastApplied \in Nat /\ r.CommitIndex \in Nat /\ r.Log \in Seq(Entry)
  BY DEF RaftObject
<1>2. ASSUME NEW i \in (r.LastApplied + 1)..r.CommitIndex
      PROVE  [Index |-> i, Command |-> r.Log[i].Command] \in [Index : Nat, Command : Value]
  <2>1. i \in 1..Len(r.Log)
    BY <1>1
  <2>2. r.Log[i] \in Entry
    BY <1>1, <2>1
  <2> QED
    BY <2>1, <2>2 DEF Entry
<1> QED
  BY <1>2 DEF Sent

-----------------------------------------------------------------------------
\* The type invariant.

\* The initial state is well typed.
LEMMA TypeInit == Init => TypeOK
<1> SUFFICES ASSUME Init PROVE TypeOK
  OBVIOUS
<1>1. Fresh \in Persisted
  BY DEF Fresh, Persisted, Entry
<1>2. Make(Fresh) \in RaftObject
  BY <1>1, MakeType
<1>3. rf \in [Server -> RaftObject] /\ persister \in [Server -> Persisted]
  BY <1>1, <1>2 DEF Init
<1>4. ballot \in [Server -> [1..MaxTerm -> Ballot]]
  BY DEF Init, NoBallot, Ballot
<1> QED
  BY <1>3, <1>4 DEF Init, TypeOK

\* The main loop of Make.
LEMMA TypeMainLoop ==
    ASSUME TypeOK, NEW s \in Server, MainLoop(s)
    PROVE  TypeOK'
<1> USE DEF TypeOK, elections, appends, budget
<1>1. CASE AwaitElection(s)
  BY <1>1 DEF AwaitElection
<1>2. CASE VoteRefresh(s)
  <2>1. rf' = [rf EXCEPT ![s] = [rf[s] EXCEPT !.voteCh = FALSE]]
    BY <1>2 DEF VoteRefresh
  <2>2. rf' \in [Server -> RaftObject]
    BY <2>1, ChannelType, ZenonT(60)
  <2> QED
    BY <1>2, <2>2 DEF VoteRefresh
<1>3. CASE AppendRefresh(s)
  <2>1. rf' = [rf EXCEPT ![s] = [rf[s] EXCEPT !.appendLogCh = FALSE]]
    BY <1>3 DEF AppendRefresh
  <2>2. rf' \in [Server -> RaftObject]
    BY <2>1, ChannelType, ZenonT(60)
  <2> QED
    BY <1>3, <2>2 DEF AppendRefresh
<1>4. CASE ElectionTimeout(s)
  <2>1. rf[s] \in RaftObject /\ BeCandidate(rf[s], s) \in RaftObject
    BY BeCandidateType
  <2>2. rf[s].CurrentTerm + 1 \in 1..MaxTerm
    BY <1>4, <2>1, BoundAssumption, Fields DEF ElectionTimeout
  <2>3. [e |-> rf[s].CurrentTerm + 1, Term |-> 0, LastLogIndex |-> -1] \in ElectionGoroutine
    BY <2>2 DEF ElectionGoroutine
  <2>4. electing' \in [Server -> SUBSET ElectionGoroutine]
    BY <1>4, <2>3 DEF ElectionTimeout
  <2>5. rf' \in [Server -> RaftObject]
    BY <1>4, <2>1 DEF ElectionTimeout
  <2> QED
    BY <1>4, <2>4, <2>5 DEF ElectionTimeout
<1>5. CASE StartAppendLog(s)
  <2>1. rounds + 1 \in 1..MaxRounds
    BY <1>5, BoundAssumption DEF StartAppendLog
  <2>2. beat' \subseteq AppendGoroutine
    BY <1>5, <2>1 DEF StartAppendLog, AppendGoroutine, Peers
  <2> QED
    BY <1>5, <2>2 DEF StartAppendLog
<1> QED
  BY <1>1, <1>2, <1>3, <1>4, <1>5, ZenonT(30) DEF MainLoop

\* Elections.
LEMMA TypeElection ==
    ASSUME TypeOK, Election
    PROVE  TypeOK'
<1> USE DEF TypeOK, elections, appends, budget
<1>1. ASSUME NEW s \in Server, NEW x \in electing[s], ReadTerm(s, x)
      PROVE  TypeOK'
  <2>1. x \in ElectionGoroutine /\ rf[s].CurrentTerm \in Nat
    BY Fields
  <2>2. [x EXCEPT !.Term = rf[s].CurrentTerm] \in ElectionGoroutine
    BY <2>1, ZenonT(30) DEF ElectionGoroutine
  <2>3. electing' \in [Server -> SUBSET ElectionGoroutine]
    BY <1>1, <2>2, Zenon DEF ReadTerm
  <2> QED
    BY <1>1, <2>3 DEF ReadTerm
<1>2. ASSUME NEW s \in Server, NEW x \in electing[s], ReadLastLogIndex(s, x)
      PROVE  TypeOK'
  <2>1. x \in ElectionGoroutine /\ GetLastLogIndex(rf[s]) \in Int
    BY Fields DEF GetLastLogIndex
  <2>2. [x EXCEPT !.LastLogIndex = GetLastLogIndex(rf[s])] \in ElectionGoroutine
    BY <2>1, ZenonT(30) DEF ElectionGoroutine
  <2>3. electing' \in [Server -> SUBSET ElectionGoroutine]
    BY <1>2, <2>2, Zenon DEF ReadLastLogIndex
  <2> QED
    BY <1>2, <2>3 DEF ReadLastLogIndex
<1>3. ASSUME NEW s \in Server, NEW x \in electing[s], SendRequestVotes(s, x)
      PROVE  TypeOK'
  <2>1. /\ x \in ElectionGoroutine
        /\ x.e \in 1..MaxTerm /\ x.Term \in Nat /\ x.LastLogIndex \in Int
    BY DEF ElectionGoroutine
  <2>2. LastLogTerm(rf[s]) \in Int
    BY LastLogTermType
  <2>3. voteReq' \subseteq VoteRequest
    <3>1. ASSUME NEW p \in Server
          PROVE  [src |-> s, dst |-> p, e |-> x.e, live |-> TRUE, Term |-> x.Term,
                  LastLogIndex |-> x.LastLogIndex, LastLogTerm |-> LastLogTerm(rf[s])]
                 \in VoteRequest
      BY <2>1, <2>2 DEF VoteRequest
    <3> QED
      BY <1>3, <3>1 DEF SendRequestVotes, Peers
  <2>4. electing' \in [Server -> SUBSET ElectionGoroutine]
    BY <1>3 DEF SendRequestVotes
  <2>5. [Term |-> x.Term, count |-> {s}] \in Ballot
    BY <2>1 DEF Ballot
  <2>6. ballot' \in [Server -> [1..MaxTerm -> Ballot]]
    BY <1>3, <2>5, Zenon DEF SendRequestVotes
  <2> QED
    BY <1>3, <2>3, <2>4, <2>6 DEF SendRequestVotes
<1>4. ASSUME NEW m \in voteReq, RequestVote(m)
      PROVE  TypeOK'
  <2> DEFINE v == m.dst
             r == StepDown(rf[v], m.Term)
             grant == Grants(r, m)
             voted == [r EXCEPT !.VoteFor = m.src, !.voteCh = TRUE]
  <2>1. /\ m \in VoteRequest /\ v \in Server /\ m.src \in Server
        /\ m.Term \in Nat /\ m.e \in 1..MaxTerm
    BY DEF VoteRequest
  <2>2. r \in RaftObject
    BY <2>1, StepDownType, ZenonT(30)
  <2>3. voted \in RaftObject /\ r.CurrentTerm \in Nat
    BY <2>1, <2>2, VotedType, Fields, ZenonT(60)
  <2>4. grant \in BOOLEAN
    BY DEF Grants
  <2>5. persist(voted) \in Persisted
    BY <2>3, PersistType
  <2> HIDE DEF r, grant, voted
  <2>6. rf' \in [Server -> RaftObject]
    BY <1>4, <2>1, <2>2, <2>3, ZenonT(30) DEF RequestVote, r, grant, voted
  <2>7. persister' \in [Server -> Persisted]
    BY <1>4, <2>1, <2>5 DEF RequestVote, r, grant, voted
  <2>8. voteRep' \subseteq VoteReply
    <3>1. [src |-> m.src, dst |-> v, e |-> m.e, Term |-> r.CurrentTerm,
           VoteGranted |-> grant] \in VoteReply
      BY <2>1, <2>3, <2>4 DEF VoteReply
    <3> QED
      BY <1>4, <3>1, ZenonT(30) DEF RequestVote, r, grant
  <2>9. granted' \subseteq [voter : Server, Term : Nat, candidate : Server]
    BY <1>4, <2>1 DEF RequestVote, r, grant
  <2> QED
    BY <1>4, <2>6, <2>7, <2>8, <2>9, ZenonT(30) DEF RequestVote
<1>5. ASSUME NEW m \in voteRep, VoteReplyNewerTerm(m)
      PROVE  TypeOK'
  <2>1. m.src \in Server /\ m.Term \in Nat
    BY DEF VoteReply
  <2>2. rf' \in [Server -> RaftObject]
    BY <1>5, <2>1, BeFollowerType DEF VoteReplyNewerTerm
  <2> QED
    BY <1>5, <2>2 DEF VoteReplyNewerTerm
<1>6. ASSUME NEW m \in voteRep, VoteReplyTooLate(m)
      PROVE  TypeOK'
  BY <1>6 DEF VoteReplyTooLate
<1>7. ASSUME NEW m \in voteRep, CountVote(m)
      PROVE  TypeOK'
  <2>0. /\ rf \in [Server -> RaftObject] /\ m \in VoteReply
        /\ ballot \in [Server -> [1..MaxTerm -> Ballot]]
        /\ elected \subseteq [Term : Nat, leader : Server]
    OBVIOUS
  <2> HIDE DEF TypeOK
  <2> DEFINE s == m.src
             b == ballot[s][m.e]
             count == IF m.VoteGranted THEN b.count \cup {m.dst} ELSE b.count
             counted == [b EXCEPT !.count = count]
  <2>1. s \in Server /\ m.dst \in Server /\ m.e \in 1..MaxTerm
    BY <2>0 DEF VoteReply
  <2>2. b \in Ballot /\ b.count \in SUBSET Server
    <3>1. b \in Ballot
      BY <2>0, <2>1, Zenon
    <3> QED
      BY <3>1 DEF Ballot
  <2>3. rf[s] \in RaftObject /\ rf[s].CurrentTerm \in Nat /\ BeLeader(rf[s]) \in RaftObject
    BY <2>0, <2>1, Fields, BeLeaderType, Zenon
  <2>4. rf' \in [Server -> RaftObject]
    BY <1>7, <2>0, <2>1, <2>3, ZenonT(30) DEF CountVote
  <2>5. counted \in Ballot
    <3>1. count \in SUBSET Server
      BY <2>1, <2>2
    <3> HIDE DEF count, b
    <3> QED
      BY <2>2, <3>1 DEF Ballot
  <2>6. ballot' = [ballot EXCEPT ![s] = [@ EXCEPT ![m.e] = counted]]
    BY <1>7, ZenonT(30) DEF CountVote
  <2> HIDE DEF s, b, count, counted
  <2>7. ballot' \in [Server -> [1..MaxTerm -> Ballot]]
    BY <2>0, <2>1, <2>5, <2>6
  <2>8. elected' \subseteq [Term : Nat, leader : Server]
    <3>1. elected' = elected \/ elected' = elected \cup {[Term |-> rf[s].CurrentTerm, leader |-> s]}
      BY <1>7, Zenon DEF CountVote, s
    <3> QED
      BY <2>0, <2>1, <2>3, <3>1
  <2> QED
    BY <1>7, <2>4, <2>7, <2>8, Zenon DEF CountVote, TypeOK
<1> QED
  BY <1>1, <1>2, <1>3, <1>4, <1>5, <1>6, <1>7, ZenonT(30) DEF Election

\* Log replication.
LEMMA TypeReplication ==
    ASSUME TypeOK, Replication
    PROVE  TypeOK'
<1> USE DEF TypeOK, elections, appends, budget
<1>1. ASSUME NEW g \in beat, BeatAbandoned(g)
      PROVE  TypeOK'
  BY <1>1 DEF BeatAbandoned
<1>2. ASSUME NEW g \in beat, SendAppendEntries(g)
      PROVE  TypeOK'
  <2> DEFINE r == rf[g.src]
             next == r.NextIndex[g.dst]
  <2>1. g.src \in Server /\ g.dst \in Server /\ g.n \in 1..MaxRounds
    BY DEF AppendGoroutine
  <2>2. /\ r \in RaftObject /\ r.CurrentTerm \in Nat /\ r.CommitIndex \in Nat
        /\ r.Log \in Seq(Entry) /\ next \in Int
    BY <2>1, Fields
  <2>3. next - 1 \in 0..Len(r.Log)
    BY <1>2, ZenonT(30) DEF SendAppendEntries
  <2>4. TermAt(r.Log, next - 1) \in Int
    BY <2>2, <2>3, TermAtType, ZenonT(30)
  <2>5. SubSeq(r.Log, next, Len(r.Log)) \in Seq(Entry)
    <3>1. \A i \in next..Len(r.Log) : r.Log[i] \in Entry
      BY <2>2, <2>3
    <3> QED
      BY <2>2, <3>1
  <2> HIDE DEF next, r
  <2>6. [src |-> g.src, dst |-> g.dst, n |-> g.n, live |-> TRUE,
         Term |-> r.CurrentTerm, PrevLogIndex |-> next - 1,
         PrevLogTerm |-> TermAt(r.Log, next - 1),
         Entries |-> SubSeq(r.Log, next, Len(r.Log)),
         LeaderCommit |-> r.CommitIndex] \in AppendRequest
    BY <2>1, <2>2, <2>3, <2>4, <2>5 DEF AppendRequest
  <2>7. appReq' \subseteq AppendRequest
    BY <1>2, <2>6, ZenonT(60) DEF SendAppendEntries, next, r
  <2> QED
    BY <1>2, <2>7, Zenon DEF SendAppendEntries
<1>3. ASSUME NEW g \in beat, IndexPanic(g)
      PROVE  TypeOK'
  BY <1>3 DEF IndexPanic, AppendGoroutine
<1>4. ASSUME NEW m \in appReq, AppendEntries(m)
      PROVE  TypeOK'
  <2> DEFINE v == m.dst
             r == [StepDown(rf[v], m.Term) EXCEPT !.appendLogCh = TRUE]
             ok == Accepts(r, m)
             commit == m.LeaderCommit > r.CommitIndex
             r1 == Replicate(r, m)
             r2 == FollowCommit(r1, m)
             r3 == IF commit THEN updateLastApplied(r2) ELSE r1
  <2>1. /\ m \in AppendRequest /\ v \in Server /\ m.src \in Server
        /\ m.Term \in Nat /\ m.n \in 1..MaxRounds
    BY DEF AppendRequest
  <2>2. r \in RaftObject
    BY <2>1, StepDownType, ChannelType, ZenonT(60)
  <2>3. r.CurrentTerm \in Nat
    BY <2>2, Fields, ZenonT(60)
  <2> HIDE DEF r
  <2>4. ok \in BOOLEAN
    BY DEF Accepts
  <2>5. ASSUME ok
        PROVE  /\ r3 \in RaftObject /\ persist(r3) \in Persisted
               /\ Sent(r2) \subseteq [Index : Nat, Command : Value]
    <3>1. m.PrevLogIndex <= Len(r.Log)
      BY <2>5 DEF Accepts
    <3>2. r1 \in RaftObject
      BY <2>1, <2>2, <3>1, ReplicateType
    <3>3. r2 \in RaftObject /\ r2.CommitIndex <= Len(r2.Log)
      BY <2>1, <3>2, FollowCommitType
    <3>4. r3 \in RaftObject
      BY <3>2, <3>3, UpdateLastAppliedType
    <3> QED
      BY <3>3, <3>4, SentType, PersistType
  <2> HIDE DEF ok, commit, r1, r2, r3
  <2>6. rf' \in [Server -> RaftObject]
    BY <1>4, <2>1, <2>2, <2>5, ZenonT(30) DEF AppendEntries, r, ok, commit, r1, r2, r3
  <2>7. persister' \in [Server -> Persisted]
    BY <1>4, <2>1, <2>5, ZenonT(30) DEF AppendEntries, r, ok, commit, r1, r2, r3
  <2>8. applied' \subseteq [Index : Nat, Command : Value]
    BY <1>4, <2>5, Zenon DEF AppendEntries, r, ok, commit, r1, r2, r3
  <2>9. appRep' \subseteq AppendReply
    <3>1. [src |-> m.src, dst |-> v, n |-> m.n, Term |-> r.CurrentTerm,
           Success |-> ok] \in AppendReply
      BY <2>1, <2>3, <2>4 DEF AppendReply
    <3> QED
      BY <1>4, <3>1, ZenonT(60) DEF AppendEntries, r, ok
  <2> QED
    BY <1>4, <2>6, <2>7, <2>8, <2>9, Zenon DEF AppendEntries
<1>5. ASSUME NEW m \in appRep, AppendReplyNewerTerm(m)
      PROVE  TypeOK'
  <2>1. m.src \in Server /\ m.Term \in Nat
    BY DEF AppendReply
  <2>2. rf' \in [Server -> RaftObject]
    BY <1>5, <2>1, BeFollowerType DEF AppendReplyNewerTerm
  <2> QED
    BY <1>5, <2>2 DEF AppendReplyNewerTerm
<1>6. ASSUME NEW m \in appRep, AppendRefused(m)
      PROVE  TypeOK'
  <2>1. m.src \in Server /\ m.dst \in Server /\ m.n \in 1..MaxRounds
    BY DEF AppendReply
  <2>5. rf' \in [Server -> RaftObject]
    BY <1>6, <2>1, RetreatType, ZenonT(30) DEF AppendRefused
  <2>6. beat' \subseteq AppendGoroutine
    BY <1>6, <2>1 DEF AppendRefused, AppendGoroutine
  <2> QED
    BY <1>6, <2>5, <2>6 DEF AppendRefused
<1>7. ASSUME NEW m \in appRep, AppendAccepted(m)
      PROVE  TypeOK'
  <2> DEFINE s == m.src
             r == Matched(rf[s], s, m.dst)
  <2>1. s \in Server /\ m.dst \in Server
    BY DEF AppendReply
  <2>2. r \in RaftObject
    BY <2>1, MatchedType
  <2>3. r.MatchIndex \in [Server -> Nat]
    BY <2>2, Fields
  <2> HIDE DEF r
  <2>4. PICK N \in {r.MatchIndex[p] : p \in Server} :
             LET panic == N > r.CommitIndex /\ N > GetLastLogIndex(r)
                 commit == /\ N > r.CommitIndex /\ N <= GetLastLogIndex(r)
                           /\ TermAt(r.Log, N) = r.CurrentTerm
                 r2 == [r EXCEPT !.CommitIndex = N]
             IN /\ rf' = [rf EXCEPT ![s] = IF commit THEN updateLastApplied(r2) ELSE r]
                /\ applied' = IF commit THEN applied \cup Sent(r2) ELSE applied
                /\ up' = IF panic THEN [up EXCEPT ![s] = "panicked"] ELSE up
    BY <1>7, Zenon DEF AppendAccepted, r
  <2> DEFINE r2 == [r EXCEPT !.CommitIndex = N]
  <2>5. N \in Nat
    BY <2>3
  <2>6. /\ r2 \in RaftObject /\ r2.CommitIndex = N /\ r2.Log = r.Log
        /\ updateLastApplied(r2) \in RaftObject
    <3>1. r2 \in RaftObject /\ r2.CommitIndex = N /\ r2.Log = r.Log
      BY <2>2, <2>5, Zenon DEF RaftObject
    <3> QED
      BY <3>1, UpdateLastAppliedType
  <2>7. N <= GetLastLogIndex(r) => Sent(r2) \subseteq [Index : Nat, Command : Value]
    BY <2>6, SentType, Zenon DEF GetLastLogIndex
  <2> HIDE DEF r2
  <2>8. rf' \in [Server -> RaftObject]
    BY <2>1, <2>2, <2>4, <2>6 DEF r2
  <2>9. applied' \subseteq [Index : Nat, Command : Value]
    BY <2>4, <2>7, ZenonT(30) DEF r2
  <2>10. up' \in [Server -> {"up", "down", "panicked"}]
    BY <2>1, <2>4
  <2> QED
    BY <1>7, <2>8, <2>9, <2>10, ZenonT(60) DEF AppendAccepted
<1>8. ASSUME NEW s \in Server, NEW v \in Value, Start(s, v)
      PROVE  TypeOK'
  <2>1. rf[s] \in RaftObject /\ NewLog(rf[s], v) \in RaftObject
    BY NewLogType
  <2>2. persist(NewLog(rf[s], v)) \in Persisted
    BY <2>1, PersistType
  <2> QED
    BY <1>8, <2>1, <2>2 DEF Start
<1> QED
  BY <1>1, <1>2, <1>3, <1>4, <1>5, <1>6, <1>7, <1>8, ZenonT(30) DEF Replication

\* Crashes and restarts.
LEMMA TypeHarness ==
    ASSUME TypeOK, Harness
    PROVE  TypeOK'
<1> USE DEF TypeOK, elections, appends, budget
<1>1. ASSUME NEW s \in Server, Crash(s)
      PROVE  TypeOK'
  <2>1. \A m \in voteReq : [m EXCEPT !.live = FALSE] \in VoteRequest
    BY Zenon DEF VoteRequest
  <2>2. \A m \in appReq : [m EXCEPT !.live = FALSE] \in AppendRequest
    BY ZenonT(60) DEF AppendRequest
  <2>3. voteReq' \subseteq VoteRequest
    BY <1>1, <2>1 DEF Crash, Orphan
  <2>4. appReq' \subseteq AppendRequest
    BY <1>1, <2>2 DEF Crash, Orphan
  <2> QED
    BY <1>1, <2>3, <2>4 DEF Crash
<1>2. ASSUME NEW s \in Server, Restart(s)
      PROVE  TypeOK'
  <2>1. Make(persister[s]) \in RaftObject
    BY MakeType
  <2>2. [e \in 1..MaxTerm |-> NoBallot] \in [1..MaxTerm -> Ballot]
    BY DEF NoBallot, Ballot
  <2> QED
    BY <1>2, <2>1, <2>2 DEF Restart
<1> QED
  BY <1>1, <1>2, ZenonT(30) DEF Harness

\* Every step keeps the types.
LEMMA TypeNext == TypeOK /\ [Next]_vars => TypeOK'
<1> SUFFICES ASSUME TypeOK, [Next]_vars PROVE TypeOK'
  OBVIOUS
<1>1. CASE UNCHANGED vars
  BY <1>1 DEF vars, TypeOK
<1> QED
  BY <1>1, TypeMainLoop, TypeElection, TypeReplication, TypeHarness DEF Next

\* The state of the cluster is always well typed: in particular a log index is
\* never negative and no message carries a log entry that is not one.
THEOREM TypeCorrect == Spec => []TypeOK
BY TypeInit, TypeNext, PTL DEF Spec

-----------------------------------------------------------------------------
\* What most steps have in common: a server keeps its term, state and vote, or
\* moves to a later term in which it does not lead yet; its persister keeps its
\* term and vote, or takes the server's new ones; nobody grants a vote.

SameVote(s) ==
    /\ rf'[s].State = rf[s].State
    /\ rf'[s].CurrentTerm = rf[s].CurrentTerm
    /\ rf'[s].VoteFor = rf[s].VoteFor

LaterTerm(s) ==
    /\ rf[s].CurrentTerm < rf'[s].CurrentTerm
    /\ rf'[s].State # "Leader"
    /\ rf'[s].State # "Follower" => rf'[s].VoteFor = s

PersisterKept(s) ==
    /\ persister'[s].CurrentTerm = persister[s].CurrentTerm
    /\ persister'[s].VoteFor = persister[s].VoteFor

PersisterSaved(s) ==
    /\ persister'[s].CurrentTerm = rf'[s].CurrentTerm
    /\ persister'[s].VoteFor = rf'[s].VoteFor

Quiet ==
    /\ \A s \in Server : SameVote(s) \/ LaterTerm(s)
    /\ \A s \in Server : PersisterKept(s) \/ PersisterSaved(s)
    /\ granted' = granted

\* Terms and votes, before and after a step, have their types.
LEMMA VoteTypes ==
    ASSUME TypeOK, NEW s \in Server
    PROVE  /\ rf[s].State \in {"Follower", "Candidate", "Leader"}
           /\ rf[s].CurrentTerm \in Nat /\ rf[s].VoteFor \in Server \cup {None}
           /\ persister[s].CurrentTerm \in Nat
           /\ persister[s].VoteFor \in Server \cup {None}
BY Fields DEF TypeOK, Persisted

LEMMA VoteTypesNext ==
    ASSUME TypeOK', NEW s \in Server
    PROVE  /\ rf'[s].State \in {"Follower", "Candidate", "Leader"}
           /\ rf'[s].CurrentTerm \in Nat /\ rf'[s].VoteFor \in Server \cup {None}
           /\ persister'[s].CurrentTerm \in Nat
           /\ persister'[s].VoteFor \in Server \cup {None}
<1>1. rf'[s] \in RaftObject /\ persister'[s] \in Persisted
  BY DEF TypeOK
<1> QED
  BY <1>1, Fields DEF Persisted

\* A quiet step keeps every conjunct about terms and votes.
LEMMA QuietVotes ==
    ASSUME ElectionInv, TypeOK', Quiet
    PROVE  (PersisterLags /\ SelfVote /\ GrantsKept /\ GrantsUnique /\ LeaderQuorum)'
<1>1. PersisterLags'
  <2> SUFFICES ASSUME NEW s \in Server
               PROVE  /\ persister'[s].CurrentTerm <= rf'[s].CurrentTerm
                      /\ /\ persister'[s].CurrentTerm = rf'[s].CurrentTerm
                         /\ persister'[s].VoteFor # None
                         => rf'[s].VoteFor = persister'[s].VoteFor
    BY DEF PersisterLags
  <2>1. CASE PersisterSaved(s)
    BY <2>1, VoteTypesNext DEF PersisterSaved
  <2>2. CASE PersisterKept(s) /\ SameVote(s)
    BY <2>2 DEF PersisterKept, SameVote, ElectionInv, PersisterLags
  <2>3. CASE PersisterKept(s) /\ LaterTerm(s)
    <3>1. persister[s].CurrentTerm <= rf[s].CurrentTerm
      BY DEF ElectionInv, PersisterLags
    <3>2. persister'[s].CurrentTerm < rf'[s].CurrentTerm
      BY <2>3, <3>1, VoteTypes, VoteTypesNext DEF PersisterKept, LaterTerm, ElectionInv
    <3> QED
      BY <3>2, VoteTypesNext
  <2> QED
    BY <2>1, <2>2, <2>3 DEF Quiet
<1>2. SelfVote'
  BY DEF SelfVote, ElectionInv, Quiet, SameVote, LaterTerm
<1>3. GrantsKept'
  <2> SUFFICES ASSUME NEW g \in granted
               PROVE  \/ g.Term < persister'[g.voter].CurrentTerm
                      \/ /\ g.Term = persister'[g.voter].CurrentTerm
                         /\ g.candidate = persister'[g.voter].VoteFor
    BY DEF GrantsKept, Quiet
  <2> DEFINE v == g.voter
  <2>1. v \in Server /\ g.Term \in Nat /\ g.candidate \in Server
    BY DEF ElectionInv, TypeOK
  <2>2. \/ g.Term < persister[v].CurrentTerm
        \/ g.Term = persister[v].CurrentTerm /\ g.candidate = persister[v].VoteFor
    BY DEF ElectionInv, GrantsKept
  <2>3. /\ persister[v].CurrentTerm <= rf[v].CurrentTerm
        /\ persister[v].CurrentTerm = rf[v].CurrentTerm /\ persister[v].VoteFor # None
           => rf[v].VoteFor = persister[v].VoteFor
    BY <2>1 DEF ElectionInv, PersisterLags
  <2>4. /\ rf[v].CurrentTerm \in Nat /\ persister[v].CurrentTerm \in Nat
        /\ rf'[v].CurrentTerm \in Nat /\ persister'[v].CurrentTerm \in Nat
    BY <2>1, VoteTypes, VoteTypesNext DEF ElectionInv
  <2>5. CASE PersisterKept(v)
    BY <2>2, <2>5 DEF PersisterKept
  <2>6. CASE PersisterSaved(v) /\ LaterTerm(v)
    BY <2>1, <2>2, <2>3, <2>4, <2>6 DEF PersisterSaved, LaterTerm
  <2>7. CASE PersisterSaved(v) /\ SameVote(v)
    BY <2>1, <2>2, <2>3, <2>4, <2>7, NoneAssumption DEF PersisterSaved, SameVote
  <2> QED
    BY <2>1, <2>5, <2>6, <2>7 DEF Quiet
<1>4. GrantsUnique'
  BY DEF GrantsUnique, ElectionInv, Quiet
<1>5. LeaderQuorum'
  <2> SUFFICES ASSUME NEW s \in Server, rf'[s].State = "Leader"
               PROVE  \E Q \in SUBSET Server :
                         /\ Majority(Q)
                         /\ \A v \in Q : v = s \/ Vote(v, rf'[s].CurrentTerm, s) \in granted'
    BY DEF LeaderQuorum
  <2>1. SameVote(s)
    BY DEF Quiet, LaterTerm
  <2> QED
    BY <2>1 DEF Quiet, SameVote, ElectionInv, LeaderQuorum
<1> QED
  BY <1>1, <1>2, <1>3, <1>4, <1>5

\* Losing messages keeps what is known of ballots.
LEMMA QuietBallots ==
    ASSUME ElectionInv, ballot' = ballot, granted \subseteq granted',
           voteReq' \subseteq voteReq, voteRep' \subseteq voteRep
    PROVE  (BallotsMatch /\ CountsGranted)'
BY DEF ElectionInv, BallotsMatch, CountsGranted

\* No ballot becomes shared while terms do not decrease and nothing is sent.
LEMMA QuietFresh ==
    ASSUME ElectionInv, TypeOK',
           \A s \in Server : rf[s].CurrentTerm <= rf'[s].CurrentTerm,
           \A s \in Server : up'[s] = "down" => up[s] = "down",
           electing' = electing, voteReq' \subseteq voteReq, voteRep' \subseteq voteRep
    PROVE  BallotsFresh'
<1>1. \A s \in Server : rf[s].CurrentTerm \in Nat /\ rf'[s].CurrentTerm \in Nat
  BY VoteTypes, VoteTypesNext DEF ElectionInv
<1>2. \A n \in 1..MaxTerm, s \in Server : n <= rf[s].CurrentTerm => n <= rf'[s].CurrentTerm
  BY <1>1, BoundAssumption
<1>3. /\ \A m \in voteReq : m.e \in 1..MaxTerm /\ m.src \in Server
      /\ \A m \in voteRep : m.e \in 1..MaxTerm /\ m.src \in Server
      /\ \A s \in Server : \A x \in electing[s] : x.e \in 1..MaxTerm
  BY DEF ElectionInv, TypeOK, VoteRequest, VoteReply, ElectionGoroutine
<1>4. \A m \in voteReq' : m.live => m.e <= rf'[m.src].CurrentTerm /\ up'[m.src] # "down"
  BY <1>2, <1>3 DEF ElectionInv, BallotsFresh
<1>5. \A m \in voteRep' : m.e <= rf'[m.src].CurrentTerm /\ up'[m.src] # "down"
  BY <1>2, <1>3 DEF ElectionInv, BallotsFresh
<1>6. \A s \in Server : \A x \in electing[s] : x.e <= rf'[s].CurrentTerm
  BY <1>2, <1>3 DEF ElectionInv, BallotsFresh
<1> QED
  BY <1>4, <1>5, <1>6 DEF ElectionInv, BallotsFresh

\* A step that is quiet, sends no election message and stops nobody.
LEMMA QuietStep ==
    ASSUME ElectionInv, TypeOK', Quiet,
           \A s \in Server : up'[s] = "down" => up[s] = "down",
           electing' = electing, ballot' = ballot,
           voteReq' \subseteq voteReq, voteRep' \subseteq voteRep
    PROVE  ElectionInv'
<1>1. \A s \in Server : rf[s].CurrentTerm <= rf'[s].CurrentTerm
  <2> SUFFICES ASSUME NEW s \in Server PROVE rf[s].CurrentTerm <= rf'[s].CurrentTerm
    OBVIOUS
  <2>1. rf[s].CurrentTerm \in Nat /\ rf'[s].CurrentTerm \in Nat
    BY VoteTypes, VoteTypesNext DEF ElectionInv
  <2> QED
    BY <2>1 DEF Quiet, SameVote, LaterTerm
<1>2. BallotsFresh'
  BY <1>1, QuietFresh
<1>3. (BallotsMatch /\ CountsGranted)'
  BY QuietBallots DEF Quiet
<1> QED
  BY <1>2, <1>3, QuietVotes DEF ElectionInv

-----------------------------------------------------------------------------
\* Steps that change one Raft object.

\* A step that changes one Raft object and not its term, state and vote.
LEMMA OneSameVote ==
    ASSUME TypeOK, NEW s \in Server, NEW r, rf' = [rf EXCEPT ![s] = r],
           r.State = rf[s].State, r.CurrentTerm = rf[s].CurrentTerm, r.VoteFor = rf[s].VoteFor
    PROVE  \A t \in Server : SameVote(t)
BY DEF SameVote, TypeOK

\* A step that makes one server a follower of a later term.
LEMMA OneFollower ==
    ASSUME TypeOK, NEW s \in Server, NEW r, rf' = [rf EXCEPT ![s] = r],
           r.State = "Follower", rf[s].CurrentTerm < r.CurrentTerm
    PROVE  \A t \in Server : SameVote(t) \/ LaterTerm(t)
BY DEF SameVote, LaterTerm, TypeOK

-----------------------------------------------------------------------------
\* What a server's lock protects: its log is saved and a new leader is woken.

\* A step of one running server that leaves its log saved and, if it leads and
\* waits, its voteCh full.
LEMMA LocalStep ==
    ASSUME TypeOK, LogDurable, LeaderIsWoken,
           NEW s \in Server, NEW r, NEW p,
           rf' = [rf EXCEPT ![s] = r], persister' = [persister EXCEPT ![s] = p],
           p.Log = r.Log,
           \A t \in Server \ {s} : loop'[t] = loop[t] /\ up'[t] = up[t],
           \/ r.State # "Leader" \/ loop'[s] # "select" \/ r.voteCh = TRUE
           \/ Leads(s) /\ loop[s] = "select" /\ r.voteCh = rf[s].voteCh
    PROVE  LogDurable' /\ LeaderIsWoken'
BY DEF TypeOK, LogDurable, LeaderIsWoken, Leads

\* The same when the log and the persister stay as they are.
LEMMA LocalKept ==
    ASSUME TypeOK, LogDurable, LeaderIsWoken,
           NEW s \in Server, NEW r, rf' = [rf EXCEPT ![s] = r],
           persister' = persister, r.Log = rf[s].Log,
           \A t \in Server \ {s} : loop'[t] = loop[t] /\ up'[t] = up[t],
           \/ r.State # "Leader" \/ loop'[s] # "select" \/ r.voteCh = TRUE
           \/ Leads(s) /\ loop[s] = "select" /\ r.voteCh = rf[s].voteCh
    PROVE  LogDurable' /\ LeaderIsWoken'
BY DEF TypeOK, LogDurable, LeaderIsWoken, Leads

\* The same when neither the Raft objects nor the persisters change.
LEMMA LocalIdle ==
    ASSUME LogDurable, LeaderIsWoken, UNCHANGED <<rf, persister>>,
           \A t \in Server : up'[t] = "up" => up[t] = "up",
           \A t \in Server : loop'[t] = "select" => loop[t] = "select" \/ rf[t].State # "Leader"
    PROVE  LogDurable' /\ LeaderIsWoken'
BY DEF LogDurable, LeaderIsWoken, Leads

\* The main loop of Make.
LEMMA LocalMainLoop ==
    ASSUME TypeOK, LogDurable, LeaderIsWoken, NEW s \in Server, MainLoop(s)
    PROVE  LogDurable' /\ LeaderIsWoken'
<1> USE DEF elections, appends, budget
<1>1. /\ rf[s] \in RaftObject /\ persister[s].Log = rf[s].Log
  BY DEF TypeOK, LogDurable
<1>2. CASE AwaitElection(s)
  BY <1>2, LocalIdle DEF AwaitElection, TypeOK
<1>3. CASE VoteRefresh(s)
  <2> DEFINE r == [rf[s] EXCEPT !.voteCh = FALSE]
  <2>1. rf' = [rf EXCEPT ![s] = r] /\ r.Log = rf[s].Log
    BY <1>1, <1>3 DEF VoteRefresh, RaftObject
  <2> HIDE DEF r
  <2>2. /\ \A t \in Server \ {s} : loop'[t] = loop[t] /\ up'[t] = up[t]
        /\ persister' = persister /\ loop'[s] # "select"
    BY <1>3 DEF VoteRefresh, TypeOK
  <2> QED
    BY <1>1, <2>1, <2>2, LocalKept, Zenon
<1>4. CASE AppendRefresh(s)
  <2> DEFINE r == [rf[s] EXCEPT !.appendLogCh = FALSE]
  <2>1. rf' = [rf EXCEPT ![s] = r] /\ r.Log = rf[s].Log
    BY <1>1, <1>4 DEF AppendRefresh, RaftObject
  <2> HIDE DEF r
  <2>2. /\ \A t \in Server \ {s} : loop'[t] = loop[t] /\ up'[t] = up[t]
        /\ persister' = persister /\ loop'[s] # "select"
    BY <1>4 DEF AppendRefresh, TypeOK
  <2> QED
    BY <1>1, <2>1, <2>2, LocalKept, Zenon
<1>5. CASE ElectionTimeout(s)
  <2> DEFINE r == BeCandidate(rf[s], s)
  <2>1. rf' = [rf EXCEPT ![s] = r] /\ r.Log = rf[s].Log /\ r.State # "Leader"
    BY <1>1, <1>5, BeCandidateType, ZenonT(30) DEF ElectionTimeout
  <2> HIDE DEF r
  <2>2. /\ \A t \in Server \ {s} : loop'[t] = loop[t] /\ up'[t] = up[t]
        /\ persister' = persister
    BY <1>5 DEF ElectionTimeout, TypeOK
  <2> QED
    BY <1>1, <2>1, <2>2, LocalKept, ZenonT(60)
<1>6. CASE StartAppendLog(s)
  BY <1>6, LocalIdle DEF StartAppendLog
<1> QED
  BY <1>2, <1>3, <1>4, <1>5, <1>6 DEF MainLoop

\* Elections: a majority makes a leader and fills voteCh in one critical section.
LEMMA LocalElection ==
    ASSUME TypeOK, LogDurable, LeaderIsWoken, Election
    PROVE  LogDurable' /\ LeaderIsWoken'
<1> USE DEF elections, appends, budget
<1>1. ASSUME NEW s \in Server
      PROVE  /\ rf[s] \in RaftObject /\ persister[s].Log = rf[s].Log
         BY DEF TypeOK, LogDurable
<1>2. ASSUME NEW s \in Server, NEW x \in electing[s], ReadTerm(s, x) \/ ReadLastLogIndex(s, x)
      PROVE  LogDurable' /\ LeaderIsWoken'
  BY <1>2, LocalIdle DEF ReadTerm, ReadLastLogIndex
<1>3. ASSUME NEW s \in Server, NEW x \in electing[s], SendRequestVotes(s, x)
      PROVE  LogDurable' /\ LeaderIsWoken'
  BY <1>3, LocalIdle DEF SendRequestVotes
<1>4. ASSUME NEW m \in voteReq, RequestVote(m)
      PROVE  LogDurable' /\ LeaderIsWoken'
  <2> DEFINE v == m.dst
             r == StepDown(rf[v], m.Term)
             voted == [r EXCEPT !.VoteFor = m.src, !.voteCh = TRUE]
  <2>1. v \in Server /\ m.src \in Server /\ m.Term \in Nat
    BY DEF TypeOK, VoteRequest
  <2>2. /\ r \in RaftObject /\ r.Log = rf[v].Log
        /\ r = rf[v] \/ r.State = "Follower"
    BY <1>1, <2>1, StepDownType
  <2>3. voted \in RaftObject /\ voted.Log = r.Log /\ voted.voteCh = TRUE
    BY <2>1, <2>2, VotedType, Zenon
  <2>4. persist(voted).Log = voted.Log
    BY <2>3, PersistType, Zenon
  <2> HIDE DEF r, voted
  <2>5. /\ \/ rf' = [rf EXCEPT ![v] = voted] /\ persister' = [persister EXCEPT ![v] = persist(voted)]
           \/ rf' = [rf EXCEPT ![v] = r] /\ persister' = persister
        /\ UNCHANGED <<up, loop>> /\ up[v] = "up"
    BY <1>4, Zenon DEF RequestVote, r, voted
  <2>6. CASE rf' = [rf EXCEPT ![v] = voted] /\ persister' = [persister EXCEPT ![v] = persist(voted)]
    BY <2>1, <2>3, <2>4, <2>5, <2>6, LocalStep, Zenon
  <2>7. CASE rf' = [rf EXCEPT ![v] = r] /\ persister' = persister
    BY <1>1, <2>1, <2>2, <2>5, <2>7, LocalKept, Zenon DEF Leads
  <2> QED
    BY <2>5, <2>6, <2>7
<1>5. ASSUME NEW m \in voteRep, VoteReplyNewerTerm(m)
      PROVE  LogDurable' /\ LeaderIsWoken'
  <2>1. m.src \in Server /\ m.Term \in Nat
    BY DEF TypeOK, VoteReply
  <2>2. /\ BeFollower(rf[m.src], m.Term).Log = rf[m.src].Log
        /\ BeFollower(rf[m.src], m.Term).State # "Leader"
    BY <1>1, <2>1, BeFollowerType
  <2> QED
    BY <1>1, <1>5, <2>1, <2>2, LocalKept, ZenonT(60) DEF VoteReplyNewerTerm
<1>6. ASSUME NEW m \in voteRep, VoteReplyTooLate(m)
      PROVE  LogDurable' /\ LeaderIsWoken'
  BY <1>6, LocalIdle DEF VoteReplyTooLate
<1>7. ASSUME NEW m \in voteRep, CountVote(m)
      PROVE  LogDurable' /\ LeaderIsWoken'
  <2> DEFINE s == m.src
  <2>1. s \in Server
    BY DEF TypeOK, VoteReply
  <2>2. BeLeader(rf[s]).Log = rf[s].Log /\ BeLeader(rf[s]).voteCh = TRUE
    BY <1>1, <2>1, BeLeaderType, Zenon
  <2>3. /\ rf' = [rf EXCEPT ![s] = BeLeader(rf[s])] \/ rf' = [rf EXCEPT ![s] = rf[s]]
        /\ UNCHANGED <<persister, up, loop>> /\ rf[s].State # "Leader"
    BY <1>7, ZenonT(60) DEF CountVote
  <2> QED
    BY <1>1, <2>1, <2>2, <2>3, LocalKept, Zenon
<1> QED
  BY <1>2, <1>3, <1>4, <1>5, <1>6, <1>7 DEF Election

\* Log replication: AppendEntries and Start save the log they change before
\* they release the lock.
LEMMA LocalReplication ==
    ASSUME TypeOK, LogDurable, LeaderIsWoken, Replication
    PROVE  LogDurable' /\ LeaderIsWoken'
<1> USE DEF elections, appends, budget
<1>1. ASSUME NEW s \in Server
      PROVE  rf[s] \in RaftObject /\ persister[s].Log = rf[s].Log
  BY DEF TypeOK, LogDurable
<1>2. ASSUME NEW g \in beat, BeatAbandoned(g) \/ SendAppendEntries(g)
      PROVE  LogDurable' /\ LeaderIsWoken'
  BY <1>2, LocalIdle, ZenonT(60) DEF BeatAbandoned, SendAppendEntries
<1>3. ASSUME NEW g \in beat, IndexPanic(g)
      PROVE  LogDurable' /\ LeaderIsWoken'
  <2>1. \A t \in Server : up'[t] = "up" => up[t] = "up"
    BY <1>3, ZenonT(30) DEF IndexPanic, TypeOK
  <2> QED
    BY <1>3, <2>1, LocalIdle DEF IndexPanic
<1>4. ASSUME NEW m \in appReq, AppendEntries(m)
      PROVE  LogDurable' /\ LeaderIsWoken'
  <2> DEFINE v == m.dst
             d == StepDown(rf[v], m.Term)
             r == [d EXCEPT !.appendLogCh = TRUE]
             ok == Accepts(r, m)
             commit == m.LeaderCommit > r.CommitIndex
             r1 == Replicate(r, m)
             r2 == FollowCommit(r1, m)
             r3 == IF commit THEN updateLastApplied(r2) ELSE r1
  <2>1. m \in AppendRequest /\ v \in Server /\ m.Term \in Nat
    BY DEF TypeOK, AppendRequest
  <2>2. /\ d \in RaftObject /\ d.Log = rf[v].Log
        /\ d = rf[v] \/ d.State = "Follower"
    BY <1>1, <2>1, StepDownType
  <2> HIDE DEF d
  <2>3. /\ r \in RaftObject /\ r.Log = rf[v].Log
        /\ r.State = d.State /\ r.voteCh = d.voteCh
    BY <2>2, ChannelType, ZenonT(60)
  <2> HIDE DEF r
  <2>4. ASSUME ok
        PROVE  /\ r3 \in RaftObject /\ persist(r3).Log = r3.Log
               /\ r3.State = d.State /\ r3.voteCh = d.voteCh
    <3>1. m.PrevLogIndex <= Len(r.Log)
      BY <2>4 DEF Accepts
    <3>2. r1 \in RaftObject /\ r1.State = r.State /\ r1.voteCh = r.voteCh
      BY <2>1, <2>3, <3>1, ReplicateType
    <3> HIDE DEF r1
    <3>3. r2 \in RaftObject /\ r2.State = r.State /\ r2.voteCh = r.voteCh
      BY <2>1, <3>2, FollowCommitType
    <3> HIDE DEF r2
    <3>4. r3 \in RaftObject /\ r3.State = d.State /\ r3.voteCh = d.voteCh
      BY <2>3, <3>2, <3>3, UpdateLastAppliedType
    <3> QED
      BY <3>4, PersistType
  <2> HIDE DEF ok, commit, r1, r2, r3
  <2>5. /\ rf' = [rf EXCEPT ![v] = IF ok THEN r3 ELSE r]
        /\ persister' = IF ok THEN [persister EXCEPT ![v] = persist(r3)] ELSE persister
        /\ UNCHANGED <<up, loop>> /\ up[v] = "up"
    BY <1>4 DEF AppendEntries, d, r, ok, commit, r1, r2, r3
  <2>6. CASE ok
    <3>1. rf' = [rf EXCEPT ![v] = r3]
      BY <2>5, <2>6
    <3>2. \/ r3.State # "Leader" \/ loop'[v] # "select"
          \/ Leads(v) /\ loop[v] = "select" /\ r3.voteCh = rf[v].voteCh
      BY <2>2, <2>4, <2>5, <2>6 DEF Leads
    <3>3. PICK p : persister' = [persister EXCEPT ![v] = p] /\ p.Log = r3.Log
      BY <2>4, <2>5, <2>6, Zenon
    <3>4. \A t \in Server \ {v} : loop'[t] = loop[t] /\ up'[t] = up[t]
      BY <2>5
    <3>5. v \in Server
      BY <2>1
    <3> HIDE DEF v
    <3> QED
      BY <3>1, <3>2, <3>3, <3>4, <3>5, LocalStep, ZenonT(60)
  <2>7. CASE ~ok
    BY <2>1, <2>2, <2>3, <2>5, <2>7, LocalKept, Zenon DEF Leads
  <2> QED
    BY <2>6, <2>7
<1>5. ASSUME NEW m \in appRep, AppendReplyNewerTerm(m)
      PROVE  LogDurable' /\ LeaderIsWoken'
  <2>1. m.src \in Server /\ m.Term \in Nat
    BY DEF TypeOK, AppendReply
  <2>2. /\ BeFollower(rf[m.src], m.Term).Log = rf[m.src].Log
        /\ BeFollower(rf[m.src], m.Term).State # "Leader"
    BY <1>1, <2>1, BeFollowerType
  <2> QED
    BY <1>1, <1>5, <2>1, <2>2, LocalKept, ZenonT(60) DEF AppendReplyNewerTerm
<1>6. ASSUME NEW m \in appRep, AppendRefused(m)
      PROVE  LogDurable' /\ LeaderIsWoken'
  <2> DEFINE r == Retreat(rf[m.src], m.dst)
  <2>1. m.src \in Server /\ m.dst \in Server
    BY DEF TypeOK, AppendReply
  <2>2. r.Log = rf[m.src].Log /\ r.State = rf[m.src].State /\ r.voteCh = rf[m.src].voteCh
    BY <1>1, <2>1, RetreatType
  <2> HIDE DEF r
  <2>3. /\ rf' = [rf EXCEPT ![m.src] = r] /\ UNCHANGED <<persister, up, loop>>
        /\ up[m.src] = "up"
    BY <1>6 DEF AppendRefused, r
  <2> QED
    BY <2>1, <2>2, <2>3, LocalKept, ZenonT(60) DEF Leads
<1>7. ASSUME NEW m \in appRep, AppendAccepted(m)
      PROVE  LogDurable' /\ LeaderIsWoken'
  <2> DEFINE s == m.src
             r == Matched(rf[s], s, m.dst)
  <2>1. s \in Server /\ m.dst \in Server
    BY DEF TypeOK, AppendReply
  <2>2. /\ r \in RaftObject /\ r.Log = rf[s].Log
        /\ r.State = rf[s].State /\ r.voteCh = rf[s].voteCh
    BY <1>1, <2>1, MatchedType
  <2>3. r.MatchIndex \in [Server -> Nat]
    BY <2>2, Fields
  <2> HIDE DEF r
  <2>4. PICK N \in {r.MatchIndex[p] : p \in Server} :
             /\ \/ rf' = [rf EXCEPT ![s] = r]
                \/ rf' = [rf EXCEPT ![s] = updateLastApplied([r EXCEPT !.CommitIndex = N])]
             /\ up' = up \/ up' = [up EXCEPT ![s] = "panicked"]
    BY <1>7, Zenon DEF AppendAccepted, r
  <2> DEFINE r2 == [r EXCEPT !.CommitIndex = N]
  <2>5. r2 \in RaftObject /\ r2.State = r.State /\ r2.voteCh = r.voteCh /\ r2.Log = r.Log
    BY <2>2, <2>3, Zenon DEF RaftObject
  <2> HIDE DEF r2
  <2>6. /\ updateLastApplied(r2).State = r.State /\ updateLastApplied(r2).Log = r.Log
        /\ updateLastApplied(r2).voteCh = r.voteCh
    BY <2>5, UpdateLastAppliedType
  <2>7. rf' = [rf EXCEPT ![s] = r] \/ rf' = [rf EXCEPT ![s] = updateLastApplied(r2)]
    BY <2>4 DEF r2
  <2>8. UNCHANGED <<persister, loop>> /\ up[s] = "up"
    BY <1>7, ZenonT(30) DEF AppendAccepted
  <2>9. \A t \in Server \ {s} : up'[t] = up[t]
    BY <2>1, <2>4 DEF TypeOK
  <2> QED
    <3>1. PICK q : /\ rf' = [rf EXCEPT ![s] = q] /\ q.Log = rf[s].Log
                   /\ q.State = rf[s].State /\ q.voteCh = rf[s].voteCh
      BY <2>2, <2>6, <2>7
    <3>2. \/ q.State # "Leader" \/ loop'[s] # "select"
          \/ Leads(s) /\ loop[s] = "select" /\ q.voteCh = rf[s].voteCh
      BY <2>8, <3>1 DEF Leads
    <3> QED
      BY <2>1, <2>8, <2>9, <3>1, <3>2, LocalKept, Zenon
<1>8. ASSUME NEW s \in Server, NEW v \in Value, Start(s, v)
      PROVE  LogDurable' /\ LeaderIsWoken'
  <2> DEFINE r == NewLog(rf[s], v)
  <2>1. r \in RaftObject /\ r.State = rf[s].State /\ r.voteCh = rf[s].voteCh
    BY <1>1, NewLogType
  <2>2. persist(r).Log = r.Log
    BY <2>1, PersistType
  <2> HIDE DEF r
  <2>3. /\ rf' = [rf EXCEPT ![s] = r] /\ persister' = [persister EXCEPT ![s] = persist(r)]
        /\ UNCHANGED <<up, loop>> /\ up[s] = "up"
    BY <1>8 DEF Start, r
  <2> QED
    BY <2>1, <2>2, <2>3, LocalStep, Zenon DEF Leads
<1> QED
  BY <1>2, <1>3, <1>4, <1>5, <1>6, <1>7, <1>8 DEF Replication

\* Crashes and restarts: Make starts from the saved log, as a follower.
LEMMA LocalHarness ==
    ASSUME TypeOK, LogDurable, LeaderIsWoken, Harness
    PROVE  LogDurable' /\ LeaderIsWoken'
<1> USE DEF elections, appends, budget
<1>1. ASSUME NEW s \in Server, Crash(s)
      PROVE  LogDurable' /\ LeaderIsWoken'
  <2>1. \A t \in Server : up'[t] = "up" => up[t] = "up"
    BY <1>1 DEF Crash, TypeOK
  <2> QED
    BY <1>1, <2>1, LocalIdle, ZenonT(60) DEF Crash
<1>2. ASSUME NEW s \in Server, Restart(s)
      PROVE  LogDurable' /\ LeaderIsWoken'
  <2> DEFINE r == Make(persister[s])
  <2>1. r.State = "Follower" /\ r.Log = persister[s].Log /\ persister[s].Log = rf[s].Log
    BY DEF Make, LogDurable
  <2> HIDE DEF r
  <2>2. /\ rf' = [rf EXCEPT ![s] = r] /\ persister' = persister
        /\ \A t \in Server \ {s} : loop'[t] = loop[t] /\ up'[t] = up[t]
    BY <1>2 DEF Restart, TypeOK, r
  <2> QED
    BY <2>1, <2>2, LocalKept, Zenon
<1> QED
  BY <1>1, <1>2 DEF Harness

\* Every step keeps the log saved and the new leader woken.
LEMMA LocalNext ==
    TypeOK /\ LogDurable /\ LeaderIsWoken /\ [Next]_vars => LogDurable' /\ LeaderIsWoken'
<1> SUFFICES ASSUME TypeOK, LogDurable, LeaderIsWoken, [Next]_vars
             PROVE  LogDurable' /\ LeaderIsWoken'
  OBVIOUS
<1>1. CASE UNCHANGED vars
  BY <1>1, LocalIdle DEF vars
<1> QED
  BY <1>1, LocalMainLoop, LocalElection, LocalReplication, LocalHarness DEF Next

\* The first state has nothing to save and no leader.
LEMMA LocalInit == Init => LogDurable /\ LeaderIsWoken
BY DEF Init, Fresh, Make, LogDurable, LeaderIsWoken, Leads

\* The log in a persister is the log of its server whenever the lock is free,
\* so a crash never loses an entry the server had answered for.
THEOREM LogAlwaysDurable == Spec => []LogDurable
<1>1. Spec => [](TypeOK /\ LogDurable /\ LeaderIsWoken)
  BY TypeInit, TypeNext, LocalInit, LocalNext, PTL DEF Spec
<1> QED
  BY <1>1, PTL

\* A candidate that wins an election never sits out another timeout before it
\* sends its first heartbeat.
THEOREM LeaderAlwaysWoken == Spec => []LeaderIsWoken
<1>1. Spec => [](TypeOK /\ LogDurable /\ LeaderIsWoken)
  BY TypeInit, TypeNext, LocalInit, LocalNext, PTL DEF Spec
<1> QED
  BY <1>1, PTL

=============================================================================
