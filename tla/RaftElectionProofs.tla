------------------------- MODULE RaftElectionProofs -------------------------
(***************************************************************************)
(* At most one leader per term (raft.go under the crashes of config.go),   *)
(* for every number of servers and every bound: ElectionInv is inductive   *)
(* and implies OneLeaderPerTerm.                                           *)
(***************************************************************************)
EXTENDS RaftProofs

-----------------------------------------------------------------------------
\* The provers of every leaf that does not name another.
USE SMTT(60), SMTT(90), SMTT(120)

\* Crashes and restarts: a crash takes the server's elections with it, so that
\* a term it forgets cannot be counted twice.
LEMMA ElectionHarness ==
    ASSUME ElectionInv, TypeOK', Harness
    PROVE  ElectionInv'
<1> USE DEF elections, appends, budget
<1>1. TypeOK
  BY DEF ElectionInv
<1>2. ASSUME NEW s \in Server, Crash(s)
      PROVE  ElectionInv'
  <2>1. Quiet
    BY <1>2, ZenonT(30) DEF Crash, Quiet, SameVote, PersisterKept
  <2>2. \A m \in voteReq' : m.live => m \in voteReq /\ m.src # s
    <3>1. \A m \in voteReq : [m EXCEPT !.live = FALSE].live = FALSE
      BY <1>1 DEF TypeOK, VoteRequest
    <3> QED
      BY <1>2, <3>1, ZenonT(60) DEF Crash, Orphan
  <2>3. /\ voteRep' = {m \in voteRep : m.src # s}
        /\ UNCHANGED <<rf, ballot, granted>>
        /\ \A t \in Server : electing'[t] = IF t = s THEN {} ELSE electing[t]
        /\ \A t \in Server : up'[t] = IF t = s THEN "down" ELSE up[t]
    BY <1>1, <1>2 DEF Crash, TypeOK
  <2>4. BallotsMatch' /\ CountsGranted'
    BY <2>2, <2>3 DEF ElectionInv, BallotsMatch, CountsGranted
  <2>5. /\ \A m \in voteReq : m.src \in Server
        /\ \A m \in voteRep : m.src \in Server
    BY <1>1 DEF TypeOK, VoteRequest, VoteReply
  <2>6. BallotsFresh'
    BY <2>2, <2>3, <2>5 DEF ElectionInv, BallotsFresh
  <2> QED
    BY <2>1, <2>4, <2>6, QuietVotes DEF ElectionInv
<1>3. ASSUME NEW s \in Server, Restart(s)
      PROVE  ElectionInv'
  <2> DEFINE r == Make(persister[s])
  <2>1. persister[s] \in Persisted
    BY <1>1 DEF TypeOK
  <2>2. /\ r.State = "Follower" /\ r.CurrentTerm = persister[s].CurrentTerm
        /\ r.VoteFor = persister[s].VoteFor
    BY <2>1 DEF Make
  <2> HIDE DEF r
  <2>3. /\ UNCHANGED <<persister, granted, electing, voteReq, voteRep>>
        /\ \A t \in Server : rf'[t] = IF t = s THEN r ELSE rf[t]
        /\ \A t \in Server : up'[t] = IF t = s THEN "up" ELSE up[t]
        /\ \A t \in Server, e \in 1..MaxTerm :
              ballot'[t][e] = IF t = s THEN NoBallot ELSE ballot[t][e]
        /\ up[s] = "down"
    BY <1>1, <1>3 DEF Restart, TypeOK, r
  <2>4. persister[s].CurrentTerm <= persister[s].CurrentTerm
    BY <1>1, VoteTypes
  <2>5. PersisterLags' /\ SelfVote' /\ GrantsKept' /\ GrantsUnique'
    BY <2>2, <2>3, <2>4 DEF ElectionInv, PersisterLags, SelfVote, GrantsKept, GrantsUnique
  <2>6. LeaderQuorum'
    BY <2>2, <2>3, ZenonT(60) DEF ElectionInv, LeaderQuorum
  <2>7. /\ \A m \in voteReq : m.src \in Server /\ m.e \in 1..MaxTerm /\ (m.live => m.src # s)
        /\ \A m \in voteRep : m.src \in Server /\ m.e \in 1..MaxTerm /\ m.src # s
        /\ electing[s] = {}
    BY <1>1, <2>3 DEF TypeOK, VoteRequest, VoteReply, ElectionInv, BallotsFresh
  <2>8. BallotsMatch'
    BY <2>3, <2>7 DEF ElectionInv, BallotsMatch
  <2>9. CountsGranted'
    BY <2>3 DEF ElectionInv, CountsGranted, NoBallot
  <2>10. BallotsFresh'
    BY <2>3, <2>7 DEF ElectionInv, BallotsFresh
  <2> QED
    BY <2>5, <2>6, <2>8, <2>9, <2>10 DEF ElectionInv
<1> QED
  BY <1>2, <1>3 DEF Harness

\* The main loop: only a timeout changes a vote, and it starts a new term.
LEMMA ElectionMainLoop ==
    ASSUME ElectionInv, TypeOK', NEW s \in Server, MainLoop(s)
    PROVE  ElectionInv'
<1> USE DEF elections, appends, budget
<1>1. TypeOK /\ rf[s] \in RaftObject
  BY DEF ElectionInv, TypeOK
<1>2. ASSUME NEW q \in {rf[s], [rf[s] EXCEPT !.voteCh = FALSE], [rf[s] EXCEPT !.appendLogCh = FALSE]},
             rf' = [rf EXCEPT ![s] = q], UNCHANGED <<persister, granted>>
      PROVE  Quiet
  <2>1. q.State = rf[s].State /\ q.CurrentTerm = rf[s].CurrentTerm /\ q.VoteFor = rf[s].VoteFor
    <3>1. CASE q = rf[s]
      BY <3>1
    <3>2. CASE q # rf[s]
      <4>1. q \in {[rf[s] EXCEPT !.voteCh = FALSE], [rf[s] EXCEPT !.appendLogCh = FALSE]}
        BY <1>2, <3>2
      <4> QED
        BY <1>1, <4>1, ChannelType, Zenon
    <3> QED
      BY <3>1, <3>2
  <2>2. \A t \in Server : SameVote(t)
    BY <1>1, <1>2, <2>1, OneSameVote, Zenon
  <2> QED
    BY <1>2, <2>2 DEF Quiet, PersisterKept
<1>3. CASE AwaitElection(s)
  <2>1. rf' = [rf EXCEPT ![s] = rf[s]]
    BY <1>1, <1>3 DEF AwaitElection, TypeOK
  <2> QED
    BY <1>2, <1>3, <2>1, QuietStep, Zenon DEF AwaitElection
<1>4. CASE VoteRefresh(s)
  <2>1. rf' = [rf EXCEPT ![s] = [rf[s] EXCEPT !.voteCh = FALSE]]
    BY <1>4 DEF VoteRefresh
  <2> QED
    BY <1>2, <1>4, <2>1, QuietStep DEF VoteRefresh
<1>5. CASE AppendRefresh(s)
  <2>1. rf' = [rf EXCEPT ![s] = [rf[s] EXCEPT !.appendLogCh = FALSE]]
    BY <1>5 DEF AppendRefresh
  <2> QED
    BY <1>2, <1>5, <2>1, QuietStep DEF AppendRefresh
<1>6. CASE StartAppendLog(s)
  <2>1. rf' = [rf EXCEPT ![s] = rf[s]]
    BY <1>1, <1>6 DEF StartAppendLog, TypeOK
  <2> QED
    BY <1>2, <1>6, <2>1, QuietStep, ZenonT(60) DEF StartAppendLog
<1>7. CASE ElectionTimeout(s)
  <2> DEFINE n == rf[s].CurrentTerm + 1
             x == [e |-> n, Term |-> 0, LastLogIndex |-> -1]
  <2>1. /\ rf'[s].CurrentTerm = n /\ rf'[s].State = "Candidate" /\ rf'[s].VoteFor = s
        /\ \A t \in Server \ {s} : rf'[t] = rf[t]
    BY <1>1, <1>7, BeCandidateType DEF ElectionTimeout, TypeOK
  <2>2. rf[s].CurrentTerm \in Nat /\ rf[s].CurrentTerm < n
    BY <1>1, VoteTypes
  <2>3. \A t \in Server : SameVote(t) \/ LaterTerm(t)
    <3>1. LaterTerm(s)
      BY <2>1, <2>2 DEF LaterTerm
    <3> QED
      BY <2>1, <3>1 DEF SameVote
  <2>4. Quiet
    BY <1>7, <2>3 DEF Quiet, PersisterKept, ElectionTimeout
  <2>5. (BallotsMatch /\ CountsGranted)'
    BY <1>7, QuietBallots DEF ElectionTimeout
  <2>6. BallotsFresh'
    <3>1. \A t \in Server : electing'[t] = IF t = s THEN electing[s] \cup {x} ELSE electing[t]
      BY <1>1, <1>7 DEF ElectionTimeout, TypeOK
    <3>2. \A t \in Server : rf[t].CurrentTerm <= rf'[t].CurrentTerm
      <4> SUFFICES ASSUME NEW t \in Server PROVE rf[t].CurrentTerm <= rf'[t].CurrentTerm
        OBVIOUS
      <4>1. rf[t].CurrentTerm \in Nat /\ rf'[t].CurrentTerm \in Nat
        BY <1>1, VoteTypes, VoteTypesNext
      <4> QED
        BY <2>3, <4>1 DEF SameVote, LaterTerm
    <3>3. \A t \in Server : rf[t].CurrentTerm \in Nat /\ rf'[t].CurrentTerm \in Nat
      BY <1>1, VoteTypes, VoteTypesNext
    <3>4. /\ \A m \in voteReq : m.e \in Nat /\ m.src \in Server
          /\ \A m \in voteRep : m.e \in Nat /\ m.src \in Server
          /\ \A t \in Server : \A y \in electing[t] : y.e \in Nat
      BY <1>1, BoundAssumption DEF TypeOK, VoteRequest, VoteReply, ElectionGoroutine
    <3>5. \A k \in Nat, t \in Server : k <= rf[t].CurrentTerm => k <= rf'[t].CurrentTerm
      BY <3>2, <3>3
    <3>6. \A k \in Nat : k <= rf[s].CurrentTerm => k # n
      BY <2>2
    <3>7. UNCHANGED <<voteReq, voteRep, up>> /\ up[s] = "up"
      BY <1>7 DEF ElectionTimeout
    <3>8. BallotsFresh
      BY DEF ElectionInv
    <3>9. /\ \A m \in voteReq : m.live => m.e <= rf'[m.src].CurrentTerm /\ up[m.src] # "down"
          /\ \A m \in voteRep : m.e <= rf'[m.src].CurrentTerm /\ up[m.src] # "down"
      BY <3>4, <3>5, <3>8 DEF BallotsFresh
    <3>10. x.e = n
      OBVIOUS
    <3> HIDE DEF x
    <3>11. n <= rf'[s].CurrentTerm
      BY <2>1, <2>2
    <3> HIDE DEF n
    <3>12. ASSUME NEW t \in Server, NEW y \in electing'[t]
           PROVE  /\ y.e <= rf'[t].CurrentTerm
                  /\ \A z \in electing'[t] : y.e = z.e => y = z
                  /\ \A m \in voteReq : m.src = t /\ m.live => m.e # y.e
                  /\ \A m \in voteRep : m.src = t => m.e # y.e
      <4>1. CASE t # s
        BY <3>1, <3>4, <3>5, <3>8, <4>1 DEF BallotsFresh
      <4>2. CASE t = s /\ y # x
        <5>1. y \in electing[s] /\ y.e \in Nat /\ y.e <= rf[s].CurrentTerm
          BY <3>1, <3>4, <3>8, <4>2 DEF BallotsFresh
        <5> QED
          BY <3>1, <3>5, <3>6, <3>8, <3>10, <4>2, <5>1 DEF BallotsFresh
      <4>3. CASE t = s /\ y = x
        <5>1. \A z \in electing[s] : z.e # n
          BY <3>4, <3>6, <3>8 DEF BallotsFresh
        <5>2. /\ \A m \in voteReq : m.src = s /\ m.live => m.e # n
              /\ \A m \in voteRep : m.src = s => m.e # n
          BY <3>4, <3>6, <3>8 DEF BallotsFresh
        <5> QED
          BY <3>1, <3>10, <3>11, <4>3, <5>1, <5>2
      <4> QED
        BY <4>1, <4>2, <4>3
    <3>13. \A t \in Server : up[t] = "down" => electing'[t] = {}
      BY <3>1, <3>7, <3>8 DEF BallotsFresh
    <3> QED
      BY <3>7, <3>9, <3>12, <3>13 DEF BallotsFresh
  <2> QED
    BY <2>4, <2>5, <2>6, QuietVotes DEF ElectionInv
<1> QED
  BY <1>3, <1>4, <1>5, <1>6, <1>7 DEF MainLoop

\* startElection fills in its arguments: no ballot changes hands.
LEMMA ElectionReads ==
    ASSUME ElectionInv, TypeOK', NEW s \in Server, NEW x \in electing[s], NEW y,
           y.e = x.e, electing' = [electing EXCEPT ![s] = (@ \ {x}) \cup {y}],
           UNCHANGED <<rf, persister, up, ballot, voteReq, voteRep, granted>>
    PROVE  ElectionInv'
<1>1. Quiet
  BY DEF Quiet, SameVote, PersisterKept
<1>2. (BallotsMatch /\ CountsGranted)'
  BY QuietBallots
<1>3. \A t \in Server : electing'[t] = IF t = s THEN (electing[s] \ {x}) \cup {y} ELSE electing[t]
  BY DEF ElectionInv, TypeOK
<1>4. BallotsFresh
  BY DEF ElectionInv
<1>5. ASSUME NEW t \in Server, NEW z \in electing'[t]
      PROVE  /\ z.e <= rf'[t].CurrentTerm
             /\ \A w \in electing'[t] : z.e = w.e => z = w
             /\ \A m \in voteReq' : m.src = t /\ m.live => m.e # z.e
             /\ \A m \in voteRep' : m.src = t => m.e # z.e
  <2>1. CASE t # s
    BY <1>3, <1>4, <2>1 DEF BallotsFresh
  <2>2. CASE t = s
    <3>1. \A w \in electing'[s] : w = y \/ (w \in electing[s] /\ w.e # x.e)
      BY <1>3, <1>4 DEF BallotsFresh
    <3>2. \A w \in electing'[s] : z.e = w.e => z = w
      BY <1>4, <2>2, <3>1 DEF BallotsFresh
    <3>3. PICK w \in electing[s] : w.e = z.e
      BY <2>2, <3>1
    <3> QED
      BY <1>4, <2>2, <3>2, <3>3 DEF BallotsFresh
  <2> QED
    BY <2>1, <2>2
<1>6. \A t \in Server : up'[t] = "down" => electing'[t] = {}
  BY <1>3, <1>4 DEF BallotsFresh
<1>7. BallotsFresh'
  BY <1>4, <1>5, <1>6 DEF BallotsFresh
<1> QED
  BY <1>1, <1>2, <1>7, QuietVotes DEF ElectionInv

\* startElection opens its ballot and sends its requests.
LEMMA ElectionSends ==
    ASSUME ElectionInv, TypeOK', NEW s \in Server, NEW x \in electing[s],
           SendRequestVotes(s, x)
    PROVE  ElectionInv'
<1> USE DEF elections, appends, budget
<1> DEFINE req(p) == [src |-> s, dst |-> p, e |-> x.e, live |-> TRUE, Term |-> x.Term,
                      LastLogIndex |-> x.LastLogIndex, LastLogTerm |-> LastLogTerm(rf[s])]
           b == [Term |-> x.Term, count |-> {s}]
<1>1. Quiet
  BY DEF Quiet, SameVote, PersisterKept, SendRequestVotes
<1>2. x.e \in 1..MaxTerm /\ BallotsFresh /\ BallotsMatch /\ CountsGranted
  BY DEF ElectionInv, TypeOK, ElectionGoroutine
<1>3. /\ \A t \in Server : electing'[t] = IF t = s THEN electing[s] \ {x} ELSE electing[t]
      /\ \A t \in Server, e \in 1..MaxTerm :
            ballot'[t][e] = IF t = s /\ e = x.e THEN b ELSE ballot[t][e]
  BY <1>2, ZenonT(60) DEF ElectionInv, TypeOK, SendRequestVotes
<1>4. \A m \in voteReq' : m \in voteReq \/ (m.src = s /\ m.e = x.e /\ m.live /\ m.Term = x.Term)
  <2>1. \A m \in voteReq' : m \in voteReq \/ \E p \in Peers(s) : m = req(p)
    BY Zenon DEF SendRequestVotes
  <2>2. \A p \in Peers(s) : req(p).src = s /\ req(p).e = x.e /\ req(p).live /\ req(p).Term = x.Term
    BY SMT
  <2> SUFFICES ASSUME NEW m \in voteReq', m \notin voteReq
               PROVE  m.src = s /\ m.e = x.e /\ m.live /\ m.Term = x.Term
    BY Zenon
  <2>3. PICK p \in Peers(s) : m = req(p)
    BY <2>1, Zenon
  <2> HIDE DEF req
  <2> QED
    BY <2>2, <2>3, Zenon
<1>5. UNCHANGED <<rf, up, voteRep, granted>> /\ up[s] = "up"
  BY DEF SendRequestVotes
<1>6. b.Term = x.Term /\ b.count = {s}
  OBVIOUS
<1> HIDE DEF b, req
<1>7. /\ \A m \in voteReq : m.src \in Server /\ m.e \in 1..MaxTerm
      /\ \A m \in voteRep : m.src \in Server /\ m.e \in 1..MaxTerm
  BY ZenonT(30) DEF ElectionInv, TypeOK, VoteRequest, VoteReply
<1>8. BallotsMatch'
  <2>1. ASSUME NEW m \in voteReq', m.live PROVE ballot'[m.src][m.e].Term = m.Term
    <3>1. CASE m.src = s /\ m.e = x.e
      BY <1>2, <1>3, <1>4, <1>6, <2>1, <3>1 DEF BallotsFresh
    <3>2. CASE ~(m.src = s /\ m.e = x.e)
      BY <1>2, <1>3, <1>4, <1>7, <2>1, <3>2 DEF BallotsMatch
    <3> QED
      BY <3>1, <3>2
  <2>2. ASSUME NEW m \in voteRep', m.VoteGranted
        PROVE  Vote(m.dst, ballot'[m.src][m.e].Term, m.src) \in granted'
    BY <1>2, <1>3, <1>5, <1>7, <2>2 DEF BallotsMatch, BallotsFresh
  <2> QED
    BY <2>1, <2>2 DEF BallotsMatch
<1>9. CountsGranted'
  BY <1>2, <1>3, <1>5, <1>6 DEF CountsGranted
<1>10. BallotsFresh'
  <2>1. ASSUME NEW t \in Server, NEW y \in electing'[t]
        PROVE  /\ y.e <= rf'[t].CurrentTerm
               /\ \A w \in electing'[t] : y.e = w.e => y = w
               /\ \A m \in voteReq' : m.src = t /\ m.live => m.e # y.e
               /\ \A m \in voteRep' : m.src = t => m.e # y.e
    <3>1. y \in electing[t] /\ (t = s => y.e # x.e)
      BY <1>2, <1>3, <2>1 DEF BallotsFresh
    <3> QED
      BY <1>2, <1>3, <1>4, <1>5, <3>1 DEF BallotsFresh
  <2>2. \A m \in voteReq' : m.live => m.e <= rf'[m.src].CurrentTerm /\ up'[m.src] # "down"
    BY <1>2, <1>4, <1>5 DEF BallotsFresh
  <2>3. \A t \in Server : up'[t] = "down" => electing'[t] = {}
    BY <1>2, <1>3, <1>5 DEF BallotsFresh
  <2> QED
    BY <1>2, <1>5, <2>1, <2>2, <2>3 DEF BallotsFresh
<1> QED
  BY <1>1, <1>8, <1>9, <1>10, QuietVotes DEF ElectionInv

\* A reply is counted; a majority makes the candidate a leader.
LEMMA ElectionCounts ==
    ASSUME ElectionInv, TypeOK', NEW m \in voteRep, CountVote(m)
    PROVE  ElectionInv'
<1> USE DEF elections, appends, budget
<1> DEFINE s == m.src
           r == rf[s]
           b == ballot[s][m.e]
           count == IF m.VoteGranted THEN b.count \cup {m.dst} ELSE b.count
<1>1. /\ s \in Server /\ m.e \in 1..MaxTerm /\ m.dst \in Server
      /\ r \in RaftObject /\ b \in Ballot /\ b.count \in SUBSET Server
  <2>1. s \in Server /\ m.e \in 1..MaxTerm /\ m.dst \in Server
    BY DEF ElectionInv, TypeOK, VoteReply
  <2>2. r \in RaftObject /\ b \in Ballot
    BY <2>1, Zenon DEF ElectionInv, TypeOK
  <2> QED
    BY <2>1, <2>2 DEF Ballot
<1>2. \A v \in count : v = s \/ Vote(v, b.Term, s) \in granted
  BY <1>1 DEF ElectionInv, CountsGranted, BallotsMatch
<1>3. r.State = "Candidate" /\ r.CurrentTerm = b.Term
  BY ZenonT(30) DEF CountVote
<1>4. count \in SUBSET Server
  BY <1>1
<1> HIDE DEF count
<1>5. /\ ballot' = [ballot EXCEPT ![s] = [@ EXCEPT ![m.e] = [b EXCEPT !.count = count]]]
      /\ UNCHANGED <<persister, granted, electing, up, voteReq>> /\ voteRep' \subseteq voteRep
      /\ rf' = [rf EXCEPT ![s] = IF Majority(count) THEN BeLeader(r) ELSE r]
  BY ZenonT(30) DEF CountVote, count
<1>6. /\ rf'[s].CurrentTerm = r.CurrentTerm /\ rf'[s].VoteFor = r.VoteFor
      /\ rf'[s].State = IF Majority(count) THEN "Leader" ELSE r.State
      /\ \A t \in Server \ {s} : rf'[t] = rf[t]
  <2>1. rf \in [Server -> RaftObject]
    BY Zenon DEF ElectionInv, TypeOK
  <2>2. /\ BeLeader(r).CurrentTerm = r.CurrentTerm /\ BeLeader(r).VoteFor = r.VoteFor
        /\ BeLeader(r).State = "Leader"
    BY <1>1, BeLeaderType, Zenon
  <2>3. rf'[s] = (IF Majority(count) THEN BeLeader(r) ELSE r) /\ \A t \in Server \ {s} : rf'[t] = rf[t]
    BY <1>1, <1>5, <2>1, Zenon
  <2> QED
    BY <2>2, <2>3, Zenon
<1>7. \A t \in Server, e \in 1..MaxTerm :
         /\ ballot'[t][e].Term = ballot[t][e].Term
         /\ ballot'[t][e].count = IF t = s /\ e = m.e THEN count ELSE ballot[t][e].count
  <2>1. [b EXCEPT !.count = count].Term = b.Term /\ [b EXCEPT !.count = count].count = count
    BY <1>1 DEF Ballot
  <2>2. \A t \in Server, e \in 1..MaxTerm :
           ballot'[t][e] = IF t = s /\ e = m.e THEN [b EXCEPT !.count = count] ELSE ballot[t][e]
    BY <1>1, <1>5, ZenonT(60) DEF ElectionInv, TypeOK
  <2> QED
    BY <2>1, <2>2, ZenonT(60)
<1>8. /\ \A q \in voteReq : q.src \in Server /\ q.e \in 1..MaxTerm
      /\ \A q \in voteRep : q.src \in Server /\ q.e \in 1..MaxTerm
  BY ZenonT(30) DEF ElectionInv, TypeOK, VoteRequest, VoteReply
<1> HIDE DEF r, b
<1>9. PersisterLags' /\ GrantsKept' /\ GrantsUnique'
  BY <1>5, <1>6 DEF ElectionInv, PersisterLags, GrantsKept, GrantsUnique, r
<1>10. SelfVote'
  BY <1>3, <1>6 DEF ElectionInv, SelfVote, r
<1>11. BallotsMatch'
  BY <1>5, <1>7, <1>8 DEF ElectionInv, BallotsMatch
<1>12. CountsGranted'
  BY <1>2, <1>5, <1>7 DEF ElectionInv, CountsGranted, b
<1>13. BallotsFresh'
  <2>1. \A t \in Server : rf'[t].CurrentTerm = rf[t].CurrentTerm
    BY <1>6 DEF r
  <2> QED
    BY <1>5, <1>8, <2>1 DEF ElectionInv, BallotsFresh
<1>14. LeaderQuorum'
  <2> SUFFICES ASSUME NEW t \in Server, rf'[t].State = "Leader"
               PROVE  \E Q \in SUBSET Server :
                         /\ Majority(Q)
                         /\ \A v \in Q : v = t \/ Vote(v, rf'[t].CurrentTerm, t) \in granted'
    BY DEF LeaderQuorum
  <2>1. CASE t = s
    <3>1. Majority(count)
      BY <1>3, <1>6, <2>1 DEF r
    <3>2. \A v \in count : v = t \/ Vote(v, rf'[t].CurrentTerm, t) \in granted'
      BY <1>2, <1>3, <1>5, <1>6, <2>1
    <3> QED
      BY <1>4, <3>1, <3>2
  <2>2. CASE t # s
    <3>1. rf'[t] = rf[t] /\ granted' = granted
      BY <1>5, <1>6, <2>2, Zenon
    <3>2. \E Q \in SUBSET Server :
             Majority(Q) /\ \A v \in Q : v = t \/ Vote(v, rf[t].CurrentTerm, t) \in granted
      BY <3>1, Zenon DEF ElectionInv, LeaderQuorum
    <3> QED
      BY <3>1, <3>2, Zenon
  <2> QED
    BY <2>1, <2>2
<1> QED
  BY <1>9, <1>10, <1>11, <1>12, <1>13, <1>14 DEF ElectionInv

\* A RequestVote is answered.  A vote is granted only if none was given to
\* another candidate in the term, and it is saved before the reply is sent.
LEMMA ElectionAnswers ==
    ASSUME ElectionInv, TypeOK', NEW m \in voteReq, RequestVote(m)
    PROVE  ElectionInv'
<1> USE DEF elections, appends, budget
<1> DEFINE v == m.dst
           r == StepDown(rf[v], m.Term)
           grant == Grants(r, m)
           voted == [r EXCEPT !.VoteFor = m.src, !.voteCh = TRUE]
           g == Vote(v, m.Term, m.src)
           rep == [src |-> m.src, dst |-> v, e |-> m.e, Term |-> r.CurrentTerm,
                   VoteGranted |-> grant]
<1>1. v \in Server /\ m.src \in Server /\ m.Term \in Nat /\ m.e \in 1..MaxTerm
  BY DEF ElectionInv, TypeOK, VoteRequest
<1>2. rf[v] \in RaftObject /\ TypeOK
  BY <1>1, ZenonT(30) DEF ElectionInv, TypeOK
<1>3. r \in RaftObject /\ r.CurrentTerm \in Nat
  BY <1>1, <1>2, StepDownType, Fields, ZenonT(30)
<1>4. /\ voted.VoteFor = m.src /\ voted.State = r.State /\ voted.CurrentTerm = r.CurrentTerm
      /\ voted \in RaftObject
  BY <1>1, <1>3, VotedType, ZenonT(60)
<1>5. \/ r = rf[v]
      \/ /\ r.State = "Follower" /\ r.VoteFor = None
         /\ rf[v].CurrentTerm < r.CurrentTerm
  BY <1>1, <1>2, StepDownType, Zenon
<1>6. m.Term <= r.CurrentTerm
  BY <1>1, <1>2, StepDownType, Zenon
<1>7. grant => r.CurrentTerm = m.Term /\ r.VoteFor \in {None, m.src}
  BY <1>1, <1>3, <1>6 DEF Grants
<1>8. /\ persist(voted).CurrentTerm = r.CurrentTerm /\ persist(voted).VoteFor = m.src
  BY <1>4, PersistType, Zenon
<1>9. rep.src = m.src /\ rep.dst = v /\ rep.e = m.e /\ rep.VoteGranted = grant
  OBVIOUS
<1>10. g.voter = v /\ g.Term = m.Term /\ g.candidate = m.src
  BY DEF Vote
<1>11. g = [voter |-> v, Term |-> m.Term, candidate |-> m.src]
  BY DEF Vote
<1> HIDE DEF r, grant, voted, g, rep
<1>12. /\ rf' = [rf EXCEPT ![v] = IF grant THEN voted ELSE r]
       /\ persister' = IF grant THEN [persister EXCEPT ![v] = persist(voted)] ELSE persister
       /\ voteReq' \subseteq voteReq
       /\ voteRep' \subseteq voteRep \cup {rep}
       /\ granted' = IF grant THEN granted \cup {g} ELSE granted
       /\ UNCHANGED <<up, electing, ballot>>
       /\ ~m.live => voteRep' = voteRep
  BY <1>11 DEF RequestVote, r, grant, voted, rep
<1>13. ~grant => Quiet
  <2> SUFFICES ASSUME ~grant PROVE Quiet
    OBVIOUS
  <2>1. rf' = [rf EXCEPT ![v] = r] /\ UNCHANGED <<persister, granted>>
    BY <1>12
  <2>2. \A t \in Server : SameVote(t) \/ LaterTerm(t)
    BY <1>1, <1>2, <1>5, <2>1, OneSameVote, OneFollower, Zenon
  <2> QED
    BY <2>1, <2>2 DEF Quiet, PersisterKept
<1>14. /\ rf'[v].CurrentTerm = r.CurrentTerm /\ rf'[v].State = r.State
       /\ rf'[v].VoteFor = IF grant THEN m.src ELSE r.VoteFor
       /\ \A t \in Server \ {v} : rf'[t] = rf[t] /\ persister'[t] = persister[t]
       /\ grant => persister'[v].CurrentTerm = r.CurrentTerm /\ persister'[v].VoteFor = m.src
  BY <1>1, <1>2, <1>4, <1>8, <1>12, ZenonT(60) DEF TypeOK
<1>15. /\ persister[v].CurrentTerm \in Nat /\ rf[v].CurrentTerm \in Nat
       /\ persister[v].CurrentTerm <= rf[v].CurrentTerm
       /\ persister[v].CurrentTerm = rf[v].CurrentTerm /\ persister[v].VoteFor # None
          => rf[v].VoteFor = persister[v].VoteFor
  BY <1>1, <1>2, VoteTypes DEF ElectionInv, PersisterLags
<1>16. ASSUME grant, NEW h \in granted, h.voter = v
       PROVE  h.Term < r.CurrentTerm \/ (h.Term = r.CurrentTerm /\ h.candidate = m.src)
  <2>1. h.Term \in Nat /\ h.candidate \in Server
    BY <1>2 DEF TypeOK
  <2>2. \/ h.Term < persister[v].CurrentTerm
        \/ h.Term = persister[v].CurrentTerm /\ h.candidate = persister[v].VoteFor
    BY <1>16 DEF ElectionInv, GrantsKept
  <2>3. CASE r = rf[v]
    BY <1>3, <1>7, <1>15, <1>16, <2>1, <2>2, <2>3, NoneAssumption
  <2>4. CASE rf[v].CurrentTerm < r.CurrentTerm
    BY <1>3, <1>15, <2>1, <2>2, <2>4
  <2> QED
    BY <1>5, <2>3, <2>4
<1>17. (PersisterLags /\ SelfVote /\ GrantsKept /\ GrantsUnique /\ LeaderQuorum)'
  <2>1. CASE ~grant
    BY <1>13, <2>1, QuietVotes
  <2>2. CASE grant
    <3>1. PersisterLags'
      <4>1. persister'[v].CurrentTerm <= rf'[v].CurrentTerm /\ rf'[v].VoteFor = persister'[v].VoteFor
        BY <1>3, <1>14, <2>2
      <4> QED
        BY <1>14, <4>1 DEF ElectionInv, PersisterLags
    <3>2. SelfVote'
      <4>1. rf'[v].State # "Follower" => rf'[v].VoteFor = v
        <5> SUFFICES ASSUME rf'[v].State # "Follower" PROVE rf'[v].VoteFor = v
          OBVIOUS
        <5>1. r = rf[v] /\ rf[v].State # "Follower"
          BY <1>5, <1>14
        <5>2. r.VoteFor = v
          BY <1>1, <5>1 DEF ElectionInv, SelfVote
        <5> QED
          BY <1>1, <1>7, <1>14, <2>2, <5>2, NoneAssumption
      <4> QED
        BY <1>14, <4>1 DEF ElectionInv, SelfVote
    <3>3. GrantsKept'
      <4> SUFFICES ASSUME NEW h \in granted'
                   PROVE  \/ h.Term < persister'[h.voter].CurrentTerm
                          \/ /\ h.Term = persister'[h.voter].CurrentTerm
                             /\ h.candidate = persister'[h.voter].VoteFor
        BY DEF GrantsKept
      <4>1. CASE h = g
        BY <1>7, <1>10, <1>14, <2>2, <4>1
      <4>2. CASE h \in granted /\ h.voter = v
        BY <1>14, <1>16, <2>2, <4>2
      <4>3. CASE h \in granted /\ h.voter # v
        <5>1. h.voter \in Server
          BY <1>2, <4>3 DEF TypeOK
        <5> QED
          BY <1>14, <4>3, <5>1 DEF ElectionInv, GrantsKept
      <4> QED
        BY <1>12, <2>2, <4>1, <4>2, <4>3
    <3>4. GrantsUnique'
      <4>1. \A h \in granted : h.voter = v /\ h.Term = m.Term => h.candidate = m.src
        <5> SUFFICES ASSUME NEW h \in granted, h.voter = v, h.Term = m.Term
                     PROVE  h.candidate = m.src
          OBVIOUS
        <5>1. h.Term = r.CurrentTerm
          BY <1>7, <2>2
        <5> QED
          BY <1>3, <1>16, <2>2, <5>1
      <4> QED
        BY <1>10, <1>12, <2>2, <4>1 DEF ElectionInv, GrantsUnique
    <3>5. LeaderQuorum'
      <4> SUFFICES ASSUME NEW t \in Server, rf'[t].State = "Leader"
                   PROVE  \E Q \in SUBSET Server :
                             /\ Majority(Q)
                             /\ \A u \in Q : u = t \/ Vote(u, rf'[t].CurrentTerm, t) \in granted'
        BY DEF LeaderQuorum
      <4>1. rf[t].State = "Leader" /\ rf'[t].CurrentTerm = rf[t].CurrentTerm
        BY <1>5, <1>14
      <4>2. granted \subseteq granted'
        BY <1>12
      <4> QED
        BY <4>1, <4>2 DEF ElectionInv, LeaderQuorum
    <3> QED
      BY <3>1, <3>2, <3>3, <3>4, <3>5
  <2> QED
    BY <2>1, <2>2
<1>18. CountsGranted'
  BY <1>12 DEF ElectionInv, CountsGranted
<1>19. BallotsMatch'
  <2>1. ASSUME NEW q \in voteRep', q.VoteGranted
        PROVE  Vote(q.dst, ballot'[q.src][q.e].Term, q.src) \in granted'
    <3>1. CASE q \in voteRep
      BY <1>12, <2>1, <3>1, ZenonT(30) DEF ElectionInv, BallotsMatch
    <3>2. CASE q \notin voteRep
      <4>1. q = rep /\ m.live /\ grant
        BY <1>9, <1>12, <2>1, <3>2
      <4>2. ballot[m.src][m.e].Term = m.Term
        BY <4>1 DEF ElectionInv, BallotsMatch
      <4> QED
        BY <1>9, <1>12, <4>1, <4>2 DEF g
    <3> QED
      BY <3>1, <3>2
  <2> QED
    BY <1>12, <2>1, ZenonT(30) DEF ElectionInv, BallotsMatch
<1>20. BallotsFresh'
  <2>1. \A t \in Server : rf[t].CurrentTerm <= rf'[t].CurrentTerm
    <3> SUFFICES ASSUME NEW t \in Server PROVE rf[t].CurrentTerm <= rf'[t].CurrentTerm
      OBVIOUS
    <3>1. rf[t].CurrentTerm \in Nat /\ rf'[t].CurrentTerm \in Nat
      BY <1>2, VoteTypes, VoteTypesNext
    <3> QED
      BY <1>5, <1>14, <3>1
  <2>2. \A k \in 1..MaxTerm, t \in Server : k <= rf[t].CurrentTerm => k <= rf'[t].CurrentTerm
    <3> SUFFICES ASSUME NEW k \in 1..MaxTerm, NEW t \in Server, k <= rf[t].CurrentTerm
                 PROVE  k <= rf'[t].CurrentTerm
      OBVIOUS
    <3>1. rf[t].CurrentTerm \in Nat /\ rf'[t].CurrentTerm \in Nat
      BY <1>2, VoteTypes, VoteTypesNext
    <3> QED
      BY <2>1, <3>1, BoundAssumption
  <2>3. /\ \A q \in voteReq : q.e \in 1..MaxTerm /\ q.src \in Server
        /\ \A q \in voteRep : q.e \in 1..MaxTerm /\ q.src \in Server
        /\ \A t \in Server : \A x \in electing[t] : x.e \in 1..MaxTerm
    BY <1>2 DEF TypeOK, VoteRequest, VoteReply, ElectionGoroutine
  <2>4. \A q \in voteReq' : q.live => q.e <= rf'[q.src].CurrentTerm /\ up'[q.src] # "down"
    BY <1>12, <2>2, <2>3, ZenonT(60) DEF ElectionInv, BallotsFresh
  <2>5. ASSUME NEW q \in voteRep'
        PROVE  \/ q \in voteRep
               \/ m.live /\ q.src = m.src /\ q.e = m.e
    BY <1>9, <1>12
  <2>6. \A q \in voteRep' : q.e <= rf'[q.src].CurrentTerm /\ up'[q.src] # "down"
    BY <1>12, <2>2, <2>3, <2>5 DEF ElectionInv, BallotsFresh
  <2>7. \A t \in Server : \A x \in electing'[t] :
           /\ x.e <= rf'[t].CurrentTerm
           /\ \A y \in electing'[t] : x.e = y.e => x = y
           /\ \A q \in voteReq' : q.src = t /\ q.live => q.e # x.e
    BY <1>12, <2>2, <2>3 DEF ElectionInv, BallotsFresh
  <2>8. \A t \in Server : \A x \in electing'[t] :
           \A q \in voteRep' : q.src = t => q.e # x.e
    BY <1>12, <2>5 DEF ElectionInv, BallotsFresh
  <2>9. \A t \in Server : up'[t] = "down" => electing'[t] = {}
    BY <1>12 DEF ElectionInv, BallotsFresh
  <2> QED
    BY <2>4, <2>6, <2>7, <2>8, <2>9 DEF BallotsFresh
<1> QED
  BY <1>17, <1>18, <1>19, <1>20 DEF ElectionInv

\* startElection and RequestVote, from the timeout to the last reply.
LEMMA ElectionElection ==
    ASSUME ElectionInv, TypeOK', Election
    PROVE  ElectionInv'
<1> USE DEF elections, appends, budget
<1>1. TypeOK
  BY DEF ElectionInv
<1>2. ASSUME NEW s \in Server, NEW x \in electing[s], ReadTerm(s, x)
      PROVE  ElectionInv'
  <2>1. x \in ElectionGoroutine
    BY <1>1 DEF TypeOK
  <2>2. [x EXCEPT !.Term = rf[s].CurrentTerm].e = x.e
    BY <2>1 DEF ElectionGoroutine
  <2> QED
    BY <1>2, <2>2, ElectionReads, Zenon DEF ReadTerm
<1>3. ASSUME NEW s \in Server, NEW x \in electing[s], ReadLastLogIndex(s, x)
      PROVE  ElectionInv'
  <2>1. x \in ElectionGoroutine
    BY <1>1 DEF TypeOK
  <2>2. [x EXCEPT !.LastLogIndex = GetLastLogIndex(rf[s])].e = x.e
    BY <2>1 DEF ElectionGoroutine
  <2> QED
    BY <1>3, <2>2, ElectionReads, ZenonT(60) DEF ReadLastLogIndex
<1>4. ASSUME NEW m \in voteRep, VoteReplyNewerTerm(m)
      PROVE  ElectionInv'
  <2>1. m.src \in Server /\ m.Term \in Nat /\ rf[m.src] \in RaftObject
    BY <1>1 DEF TypeOK, VoteReply
  <2>2. /\ BeFollower(rf[m.src], m.Term).State = "Follower"
        /\ rf[m.src].CurrentTerm < BeFollower(rf[m.src], m.Term).CurrentTerm
    BY <1>4, <2>1, BeFollowerType, Fields, ZenonT(30) DEF VoteReplyNewerTerm
  <2>3. Quiet
    BY <1>1, <1>4, <2>1, <2>2, OneFollower, ZenonT(60) DEF VoteReplyNewerTerm, Quiet, PersisterKept
  <2> QED
    BY <1>4, <2>3, QuietStep, Zenon DEF VoteReplyNewerTerm
<1>5. ASSUME NEW m \in voteRep, VoteReplyTooLate(m)
      PROVE  ElectionInv'
  <2>1. Quiet
    BY <1>5, Zenon DEF VoteReplyTooLate, Quiet, SameVote, PersisterKept
  <2> QED
    BY <1>5, <2>1, QuietStep, ZenonT(60) DEF VoteReplyTooLate
<1> QED
  BY <1>2, <1>3, <1>4, <1>5, ElectionSends, ElectionAnswers, ElectionCounts DEF Election

\* Log replication: an AppendEntries may bring a later term, and what it saves
\* is the server's own term and vote.
LEMMA ElectionReplication ==
    ASSUME ElectionInv, TypeOK', Replication
    PROVE  ElectionInv'
<1> USE DEF elections, appends, budget
<1>1. TypeOK
  BY DEF ElectionInv
<1>2. ASSUME UNCHANGED <<rf, persister, granted>>
      PROVE  Quiet
  BY <1>2 DEF Quiet, SameVote, PersisterKept
<1>3. ASSUME NEW g \in beat, BeatAbandoned(g)
      PROVE  ElectionInv'
  BY <1>2, <1>3, QuietStep DEF BeatAbandoned
<1>4. ASSUME NEW g \in beat, SendAppendEntries(g)
      PROVE  ElectionInv'
  BY <1>2, <1>4, QuietStep, ZenonT(60) DEF SendAppendEntries
<1>5. ASSUME NEW g \in beat, IndexPanic(g)
      PROVE  ElectionInv'
  <2>1. \A s \in Server : up'[s] = "down" => up[s] = "down"
    BY <1>1, <1>5 DEF IndexPanic, TypeOK
  <2>2. UNCHANGED <<rf, persister, granted, electing, ballot, voteReq, voteRep>>
    BY <1>5, Zenon DEF IndexPanic
  <2> QED
    BY <1>2, <2>1, <2>2, QuietStep
<1>6. ASSUME NEW m \in appReq, AppendEntries(m)
      PROVE  ElectionInv'
  <2> DEFINE v == m.dst
             d == StepDown(rf[v], m.Term)
             r == [d EXCEPT !.appendLogCh = TRUE]
             ok == Accepts(r, m)
             commit == m.LeaderCommit > r.CommitIndex
             r1 == Replicate(r, m)
             r2 == FollowCommit(r1, m)
             r3 == IF commit THEN updateLastApplied(r2) ELSE r1
             q == IF ok THEN r3 ELSE r
  <2>1. m \in AppendRequest /\ v \in Server /\ m.Term \in Nat /\ rf[v] \in RaftObject
    BY <1>1 DEF TypeOK, AppendRequest
  <2>2. /\ d \in RaftObject
        /\ \/ d = rf[v]
           \/ d.State = "Follower" /\ rf[v].CurrentTerm < d.CurrentTerm
    BY <2>1, StepDownType
  <2> HIDE DEF d
  <2>3. /\ r \in RaftObject
        /\ r.State = d.State /\ r.CurrentTerm = d.CurrentTerm /\ r.VoteFor = d.VoteFor
    BY <2>2, ChannelType, ZenonT(60)
  <2> HIDE DEF r
  <2>4. ASSUME ok
        PROVE  /\ r3 \in RaftObject
               /\ r3.State = d.State /\ r3.CurrentTerm = d.CurrentTerm /\ r3.VoteFor = d.VoteFor
    <3>1. m.PrevLogIndex <= Len(r.Log)
      BY <2>4 DEF Accepts
    <3>2. /\ r1 \in RaftObject
          /\ r1.State = r.State /\ r1.CurrentTerm = r.CurrentTerm /\ r1.VoteFor = r.VoteFor
      BY <2>1, <2>3, <3>1, ReplicateType
    <3> HIDE DEF r1
    <3>3. /\ r2 \in RaftObject
          /\ r2.State = r.State /\ r2.CurrentTerm = r.CurrentTerm /\ r2.VoteFor = r.VoteFor
      BY <2>1, <3>2, FollowCommitType
    <3> HIDE DEF r2
    <3> QED
      BY <2>3, <3>2, <3>3, UpdateLastAppliedType
  <2>5. /\ q \in RaftObject
        /\ q.State = d.State /\ q.CurrentTerm = d.CurrentTerm /\ q.VoteFor = d.VoteFor
    BY <2>3, <2>4, Zenon
  <2> HIDE DEF ok, commit, r1, r2, r3
  <2>6. /\ rf' = [rf EXCEPT ![v] = q]
        /\ persister' = IF ok THEN [persister EXCEPT ![v] = persist(r3)] ELSE persister
        /\ UNCHANGED <<granted, up, electing, ballot, voteReq, voteRep>>
    BY <1>6 DEF AppendEntries, d, r, ok, commit, r1, r2, r3
  <2>7. \A t \in Server : SameVote(t) \/ LaterTerm(t)
    BY <1>1, <2>1, <2>2, <2>5, <2>6, OneSameVote, OneFollower, Zenon
  <2>8. \A t \in Server : PersisterKept(t) \/ PersisterSaved(t)
    <3>1. CASE ~ok
      BY <2>6, <3>1 DEF PersisterKept
    <3>2. CASE ok
      <4>1. persist(r3).CurrentTerm = q.CurrentTerm /\ persist(r3).VoteFor = q.VoteFor
        BY <2>4, <3>2, PersistType
      <4>2. PersisterSaved(v)
        BY <1>1, <2>1, <2>6, <3>2, <4>1 DEF PersisterSaved, TypeOK
      <4>3. \A t \in Server \ {v} : PersisterKept(t)
        BY <1>1, <2>1, <2>6, <3>2 DEF PersisterKept, TypeOK
      <4> QED
        BY <4>2, <4>3
    <3> QED
      BY <3>1, <3>2
  <2>9. Quiet
    BY <2>6, <2>7, <2>8 DEF Quiet
  <2> QED
    BY <2>6, <2>9, QuietStep
<1>7. ASSUME NEW m \in appRep, AppendReplyNewerTerm(m)
      PROVE  ElectionInv'
  <2>1. m.src \in Server /\ m.Term \in Nat /\ rf[m.src] \in RaftObject
    BY <1>1 DEF TypeOK, AppendReply
  <2>2. /\ BeFollower(rf[m.src], m.Term).State = "Follower"
        /\ rf[m.src].CurrentTerm < BeFollower(rf[m.src], m.Term).CurrentTerm
    BY <1>7, <2>1, BeFollowerType, Fields, ZenonT(30) DEF AppendReplyNewerTerm
  <2>3. Quiet
    BY <1>1, <1>7, <2>1, <2>2, OneFollower, ZenonT(60) DEF AppendReplyNewerTerm, Quiet, PersisterKept
  <2> QED
    BY <1>7, <2>3, QuietStep, ZenonT(60) DEF AppendReplyNewerTerm
<1>8. ASSUME NEW m \in appRep, AppendRefused(m)
      PROVE  ElectionInv'
  <2>1. m.src \in Server /\ m.dst \in Server /\ rf[m.src] \in RaftObject
    BY <1>1 DEF TypeOK, AppendReply
  <2>2. \A t \in Server : SameVote(t)
    BY <1>1, <1>8, <2>1, RetreatType, OneSameVote, ZenonT(60) DEF AppendRefused
  <2>3. Quiet
    BY <1>8, <2>2 DEF AppendRefused, Quiet, PersisterKept
  <2> QED
    BY <1>8, <2>3, QuietStep DEF AppendRefused
<1>9. ASSUME NEW m \in appRep, AppendAccepted(m)
      PROVE  ElectionInv'
  <2> DEFINE s == m.src
             r == Matched(rf[s], s, m.dst)
  <2>1. s \in Server /\ m.dst \in Server /\ rf[s] \in RaftObject
    BY <1>1 DEF TypeOK, AppendReply
  <2>2. /\ r \in RaftObject /\ r.State = rf[s].State
        /\ r.CurrentTerm = rf[s].CurrentTerm /\ r.VoteFor = rf[s].VoteFor
    BY <2>1, MatchedType, ZenonT(30)
  <2>3. r.MatchIndex \in [Server -> Nat]
    BY <2>2, Fields, ZenonT(30)
  <2> HIDE DEF r
  <2>4. PICK N \in {r.MatchIndex[p] : p \in Server} :
             /\ \/ rf' = [rf EXCEPT ![s] = r]
                \/ rf' = [rf EXCEPT ![s] = updateLastApplied([r EXCEPT !.CommitIndex = N])]
             /\ up' = up \/ up' = [up EXCEPT ![s] = "panicked"]
    BY <1>9, Zenon DEF AppendAccepted, r
  <2> DEFINE r2 == [r EXCEPT !.CommitIndex = N]
  <2>5. /\ r2 \in RaftObject /\ r2.State = r.State
        /\ r2.CurrentTerm = r.CurrentTerm /\ r2.VoteFor = r.VoteFor
    BY <2>2, <2>3, Zenon DEF RaftObject
  <2> HIDE DEF r2
  <2>6. /\ updateLastApplied(r2).State = r.State
        /\ updateLastApplied(r2).CurrentTerm = r.CurrentTerm
        /\ updateLastApplied(r2).VoteFor = r.VoteFor
    BY <2>5, UpdateLastAppliedType
  <2>7. rf' = [rf EXCEPT ![s] = r] \/ rf' = [rf EXCEPT ![s] = updateLastApplied(r2)]
    BY <2>4 DEF r2
  <2>8. \A t \in Server : SameVote(t)
    BY <1>1, <2>1, <2>2, <2>6, <2>7, OneSameVote
  <2>9. UNCHANGED <<persister, granted, electing, ballot, voteReq, voteRep>>
    BY <1>9, ZenonT(30) DEF AppendAccepted
  <2>10. Quiet
    BY <2>8, <2>9 DEF Quiet, PersisterKept
  <2>11. \A t \in Server : up'[t] = "down" => up[t] = "down"
    BY <1>1, <2>1, <2>4 DEF TypeOK
  <2> QED
    BY <2>9, <2>10, <2>11, QuietStep
<1>10. ASSUME NEW s \in Server, NEW v \in Value, Start(s, v)
       PROVE  ElectionInv'
  <2> DEFINE r == NewLog(rf[s], v)
  <2>1. /\ r \in RaftObject /\ r.State = rf[s].State
        /\ r.CurrentTerm = rf[s].CurrentTerm /\ r.VoteFor = rf[s].VoteFor
    BY <1>1, NewLogType DEF TypeOK
  <2>2. persist(r).CurrentTerm = r.CurrentTerm /\ persist(r).VoteFor = r.VoteFor
    BY <2>1, PersistType
  <2> HIDE DEF r
  <2>3. /\ rf' = [rf EXCEPT ![s] = r] /\ persister' = [persister EXCEPT ![s] = persist(r)]
        /\ UNCHANGED <<granted, up, electing, ballot, voteReq, voteRep>>
    BY <1>10 DEF Start, r
  <2>4. \A t \in Server : SameVote(t)
    BY <1>1, <2>1, <2>3, OneSameVote, Zenon
  <2>5. PersisterSaved(s) /\ \A t \in Server \ {s} : PersisterKept(t)
    BY <1>1, <2>2, <2>3, Zenon DEF PersisterSaved, PersisterKept, TypeOK
  <2>6. Quiet
    BY <2>3, <2>4, <2>5, ZenonT(30) DEF Quiet
  <2> QED
    BY <2>3, <2>6, QuietStep
<1> QED
  BY <1>3, <1>4, <1>5, <1>6, <1>7, <1>8, <1>9, <1>10 DEF Replication

-----------------------------------------------------------------------------
\* The first state satisfies the election invariant.
LEMMA ElectionInit == Init => ElectionInv
<1> SUFFICES ASSUME Init PROVE ElectionInv
  OBVIOUS
<1>1. TypeOK
  BY TypeInit
<1>2. \A s \in Server : /\ rf[s].State = "Follower" /\ rf[s].CurrentTerm = 1
                        /\ rf[s].VoteFor = None
                        /\ persister[s].CurrentTerm = 1 /\ persister[s].VoteFor = None
  BY DEF Init, Make, Fresh
<1>3. PersisterLags /\ SelfVote /\ LeaderQuorum
  BY <1>2 DEF PersisterLags, SelfVote, LeaderQuorum
<1> QED
  BY <1>1, <1>3, Zenon DEF Init, ElectionInv, GrantsKept, GrantsUnique, BallotsMatch,
                    CountsGranted, BallotsFresh, NoBallot

\* Every step keeps the election invariant.
LEMMA ElectionNext == ElectionInv /\ [Next]_vars => ElectionInv'
<1> SUFFICES ASSUME ElectionInv, [Next]_vars PROVE ElectionInv'
  OBVIOUS
<1>1. TypeOK'
  BY TypeNext DEF ElectionInv
<1>2. CASE UNCHANGED vars
  <2>1. Quiet
    BY <1>2, Zenon DEF vars, Quiet, SameVote, PersisterKept
  <2> QED
    BY <1>1, <1>2, <2>1, QuietStep DEF vars
<1> QED
  BY <1>1, <1>2, ElectionMainLoop, ElectionElection, ElectionReplication, ElectionHarness DEF Next

-----------------------------------------------------------------------------
INSTANCE FiniteSetTheorems

\* Two majorities of a finite set of servers meet.
LEMMA MajoritiesMeet ==
    ASSUME NEW P \in SUBSET Server, NEW Q \in SUBSET Server, Majority(P), Majority(Q)
    PROVE  P \cap Q # {}
<1> SUFFICES ASSUME P \cap Q = {} PROVE FALSE
  OBVIOUS
<1>1. IsFiniteSet(P) /\ IsFiniteSet(Q) /\ IsFiniteSet(P \cup Q)
  BY ServerAssumption, FS_Subset
<1>2. /\ Cardinality(P) \in Nat /\ Cardinality(Q) \in Nat
      /\ Cardinality(Server) \in Nat
  BY <1>1, ServerAssumption, FS_CardinalityType
<1>3. Cardinality(P \cup Q) = Cardinality(P) + Cardinality(Q)
  <2>1. Cardinality(P \cup Q) = Cardinality(P) + Cardinality(Q) - Cardinality(P \cap Q)
    BY <1>1, FS_Union
  <2>2. Cardinality(P \cap Q) = 0
    BY FS_EmptySet
  <2> QED
    BY <1>2, <2>1, <2>2
<1>4. Cardinality(P \cup Q) <= Cardinality(Server)
  BY ServerAssumption, FS_Subset
<1> QED
  BY <1>2, <1>3, <1>4 DEF Majority

\* The election invariant leaves one leader per term.
LEMMA ElectionInvImplies == ElectionInv => OneLeaderPerTerm
<1> SUFFICES ASSUME ElectionInv,
                    NEW s \in Server, NEW t \in Server,
                    Leads(s), Leads(t), rf[s].CurrentTerm = rf[t].CurrentTerm
             PROVE  s = t
  BY DEF OneLeaderPerTerm
<1> DEFINE T == rf[s].CurrentTerm
<1>1. PICK P \in SUBSET Server :
         Majority(P) /\ \A v \in P : v = s \/ Vote(v, T, s) \in granted
  BY DEF ElectionInv, LeaderQuorum, Leads
<1>2. PICK Q \in SUBSET Server :
         Majority(Q) /\ \A v \in Q : v = t \/ Vote(v, T, t) \in granted
  BY DEF ElectionInv, LeaderQuorum, Leads
<1>3. PICK v \in Server : v \in P /\ v \in Q
  BY <1>1, <1>2, MajoritiesMeet
<1>4. ASSUME NEW u \in Server, NEW c \in Server, rf[u].State = "Leader",
             Vote(u, rf[u].CurrentTerm, c) \in granted
      PROVE  c = u
  <2>1. /\ rf[u].CurrentTerm \in Nat /\ persister[u].CurrentTerm \in Nat
        /\ rf[u].VoteFor = u
    BY <1>4, Zenon DEF ElectionInv, TypeOK, SelfVote, RaftObject, Persisted
  <2>2. \/ rf[u].CurrentTerm < persister[u].CurrentTerm
        \/ rf[u].CurrentTerm = persister[u].CurrentTerm /\ c = persister[u].VoteFor
    BY <1>4 DEF ElectionInv, GrantsKept, Vote
  <2>3. persister[u].CurrentTerm <= rf[u].CurrentTerm
    BY DEF ElectionInv, PersisterLags
  <2>4. rf[u].CurrentTerm = persister[u].CurrentTerm /\ c = persister[u].VoteFor
    BY <2>1, <2>2, <2>3
  <2> QED
    BY <2>1, <2>4, NoneAssumption DEF ElectionInv, PersisterLags
<1>5. CASE Vote(v, T, s) \in granted /\ Vote(v, T, t) \in granted
  BY <1>5 DEF ElectionInv, GrantsUnique, Vote
<1> QED
  BY <1>1, <1>2, <1>3, <1>4, <1>5 DEF Leads

\* The election invariant always holds.
THEOREM ElectionCorrect == Spec => []ElectionInv
BY ElectionInit, ElectionNext, PTL DEF Spec

\* checkOneLeader never finds two leaders in one term, whatever is lost, delayed,
\* reordered, crashed and restarted, although BeCandidate and BeFollower leave
\* the new term and the self-vote out of the persister.
THEOREM AtMostOneLeader == Spec => []OneLeaderPerTerm
BY ElectionCorrect, ElectionInvImplies, PTL

\* RequestVote never grants the vote of one term to two candidates.
THEOREM VotesNotTakenBack == Spec => []GrantsUnique
<1>1. ElectionInv => GrantsUnique
  BY DEF ElectionInv
<1> QED
  BY <1>1, ElectionCorrect, PTL

=============================================================================
