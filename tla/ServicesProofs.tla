--------------------------- MODULE ServicesProofs ---------------------------
(***************************************************************************)
(* What a clerk may conclude from the end of an operation, for any number  *)
(* of servers, clerks and operations.  A clerk that waits is in one place: *)
(* in the backlog of the server it has dialled, just accepted there, or    *)
(* served with an answer to come.  A call therefore fails only before its  *)
(* handler can run, unless the connection was served deaf.                 *)
(***************************************************************************)
EXTENDS Services, TLAPS

ClerkState == [pc : {"idle", "call", "wait"}, k : Nat, op : 0..MaxOps, ok : SUBSET (1..MaxOps),
               failed : SUBSET (1..MaxOps)]

\* Nobody may have run operation o of clerk c.
Unrun(c, o) == o > ck[c].op \/ (o = ck[c].op /\ ck[c].pc # "idle")

ClerkInv ==
    /\ ck \in [Clerk -> ClerkState]
    /\ runs \in [Clerk -> [1..MaxOps -> 0..2]]
    /\ \A c \in Clerk :
        /\ ck[c].pc # "idle" => ck[c].op # 0
        /\ c \in ViewClerk => ck[c].k = 1
        /\ \A o \in ck[c].failed : ~Unrun(c, o)
    /\ ReturnedRan /\ FailedPingNotRun
    /\ \A c \in Clerk : ~shaky \/ c \in ViewClerk =>
        \A o \in 1..MaxOps : runs[c][o] <= 1 /\ (Unrun(c, o) => runs[c][o] = 0)

Flags == {"dead", "unreliable", "open", "loop", "kill", "px", "tick", "rpccount"}

ServerInv ==
    /\ shaky \in BOOLEAN
    /\ DOMAIN srv = started /\ \A s \in started : DOMAIN srv[s] = Flags
    /\ \A s \in started : (srv[s].kill = "half" \/ ~srv[s].open) => srv[s].dead
    /\ \A s \in started : srv[s].unreliable => shaky /\ s # ViewServer
    /\ QuietKill

Waits(c, s) == c \in Clerk /\ ck[c].pc = "wait" /\ s = servers(c)[ck[c].k]

\* s has accepted the connection of c and not yet looked at it.
Accepted(s, c) == srv[s].loop = "got" /\ conn[s] = c

PlaceInv ==
    /\ backlog \in [started -> Seq(Clerk)] /\ DOMAIN conn = started
    /\ serving \subseteq [c : Clerk, op : 1..MaxOps, deaf : BOOLEAN]
    /\ \A s \in started :
        /\ \A j \in 1..Len(backlog[s]) : Waits(backlog[s][j], s) /\ ~Accepted(s, backlog[s][j])
        /\ \A j, k \in 1..Len(backlog[s]) : backlog[s][j] = backlog[s][k] => j = k
        /\ srv[s].loop = "got" => Waits(conn[s], s)
    /\ \A h \in serving :
        IF h.deaf THEN shaky /\ h.c \notin ViewClerk
        ELSE /\ ck[h.c].pc = "wait" /\ h.op = ck[h.c].op
             /\ \A s \in started : ~Accepted(s, h.c) /\ \A j \in 1..Len(backlog[s]) : backlog[s][j] # h.c

ServicesInv == ClerkInv /\ ServerInv /\ PlaceInv

-----------------------------------------------------------------------------
\* The provers of every leaf that does not name another.
USE SMTT(30), SMTT(60), ZenonT(30)

\* The start.
LEMMA ServicesInit == Init => ServicesInv
<1> SUFFICES ASSUME Init PROVE ServicesInv
    OBVIOUS
<1>1. ClerkInv
  <2>1. ck \in [Clerk -> ClerkState]
      BY ClerkAssumption DEF Init, ClerkState
  <2>2. runs \in [Clerk -> [1..MaxOps -> 0..2]]
      BY ClerkAssumption DEF Init
  <2>3. \A c \in Clerk : ck[c].pc = "idle" /\ ck[c].k = 1 /\ ck[c].failed = {} /\ ck[c].ok = {}
      BY DEF Init
  <2>4. \A c \in Clerk : \A o \in 1..MaxOps : runs[c][o] = 0
      BY DEF Init
  <2> QED
      BY <2>1, <2>2, <2>3, <2>4 DEF ClerkInv, ReturnedRan, FailedPingNotRun, Clerk
<1>2. ServerInv
  <2>1. DOMAIN srv = started
      BY DEF Init
  <2>2. \A s \in started : srv[s] = StartServer(s)
      BY DEF Init
  <2>3. \A s : DOMAIN StartServer(s) = Flags
      BY DEF StartServer, Flags
  <2>4. \A s : StartServer(s).kill = "no" /\ StartServer(s).open /\ ~StartServer(s).unreliable
      BY Zenon DEF StartServer
  <2>5. \A s \in started : DOMAIN srv[s] = Flags
      BY <2>2, <2>3
  <2>6. \A s \in started : srv[s].kill = "no" /\ srv[s].open /\ ~srv[s].unreliable
      BY <2>2, <2>4
  <2> QED
      BY <2>1, <2>5, <2>6, Zenon DEF ServerInv, Init, QuietKill
<1>3. PlaceInv
  <2>1. backlog \in [started -> Seq(Clerk)] /\ DOMAIN conn = started /\ serving = {}
      BY DEF Init
  <2>2. \A s \in started : Len(backlog[s]) = 0 /\ srv[s].loop = "test"
      BY DEF Init, StartServer
  <2> QED
      BY <2>1, <2>2 DEF PlaceInv
<1> QED
    BY <1>1, <1>2, <1>3 DEF ServicesInv

-----------------------------------------------------------------------------
(* The clerks. *)

\* The record of a clerk whose call has failed.
LEMMA TryAgainRecord ==
    ASSUME NEW r \in ClerkState
    PROVE  /\ TryAgain(r) \in ClerkState /\ TryAgain(r).pc = "call" /\ TryAgain(r).op = r.op
           /\ TryAgain(r).ok = r.ok /\ TryAgain(r).failed = r.failed
<1>1. (r.k % Len(Master)) + 1 \in Nat
    BY MasterAssumption DEF ClerkState
<1>2. TryAgain(r) \in ClerkState
    BY <1>1, Zenon DEF TryAgain, ClerkState
<1> QED
    BY <1>2 DEF TryAgain, ClerkState

LEMMA GiveUpRecord ==
    ASSUME NEW r \in ClerkState, r.op # 0
    PROVE  /\ GiveUp(r) \in ClerkState /\ GiveUp(r).pc = "idle" /\ GiveUp(r).op = r.op
           /\ GiveUp(r).k = r.k /\ GiveUp(r).ok = r.ok /\ GiveUp(r).failed = r.failed \cup {r.op}
<1>1. r.failed \cup {r.op} \in SUBSET (1..MaxOps)
    BY ClerkAssumption DEF ClerkState
<1>2. GiveUp(r) \in ClerkState
    BY <1>1, Zenon DEF GiveUp, ClerkState
<1> QED
    BY <1>2 DEF GiveUp, ClerkState

\* call returns false to clerks that have an operation under way: a shard clerk
\* goes on, a view clerk gives up an operation that has not run.
LEMMA ClerksFail ==
    ASSUME ClerkInv, NEW C \in SUBSET Clerk, \A c \in C : ck[c].pc # "idle",
           ck' = CallFailed(C), UNCHANGED <<runs, shaky>>
    PROVE  ClerkInv' /\ \A c \in Clerk : c \notin C => ck'[c] = ck[c]
<1> USE ClerkAssumption
<1>1. \A c \in Clerk : c \notin C => ck'[c] = ck[c]
    BY DEF CallFailed
<1>2. \A c \in C : c \in ShardClerk => ck'[c] = TryAgain(ck[c])
    BY DEF CallFailed
<1>3. \A c \in C : c \in ViewClerk => c \notin ShardClerk /\ ck'[c] = GiveUp(ck[c])
    BY DEF CallFailed
<1>4. \A c \in C : c \in ShardClerk =>
        /\ ck'[c] \in ClerkState /\ ck'[c].pc = "call" /\ ck'[c].op = ck[c].op
        /\ ck'[c].ok = ck[c].ok /\ ck'[c].failed = ck[c].failed
    BY <1>2, TryAgainRecord DEF ClerkInv
<1>5. \A c \in C : c \in ViewClerk =>
        /\ ck'[c] \in ClerkState /\ ck'[c].pc = "idle" /\ ck'[c].op = ck[c].op /\ ck'[c].k = ck[c].k
        /\ ck'[c].ok = ck[c].ok /\ ck'[c].failed = ck[c].failed \cup {ck[c].op}
    BY <1>3, GiveUpRecord DEF ClerkInv
<1>6. \A c \in Clerk : c \in ShardClerk \/ c \in ViewClerk
    BY DEF Clerk
<1>7. ck' \in [Clerk -> ClerkState]
  <2>1. DOMAIN ck' = Clerk /\ ck' = [c \in Clerk |-> ck'[c]]
      BY DEF CallFailed
  <2>2. \A c \in Clerk : ck'[c] \in ClerkState
      BY <1>1, <1>4, <1>5, <1>6 DEF ClerkInv
  <2> QED
      BY <2>1, <2>2
<1>8. \A c \in Clerk : /\ ck'[c].op = ck[c].op /\ ck'[c].ok = ck[c].ok
                       /\ c \in ViewClerk => ck'[c].k = ck[c].k
                       /\ ck'[c].pc # "idle" => ck[c].pc # "idle"
    BY <1>1, <1>3, <1>4, <1>5, <1>6
<1>9. \A c \in Clerk, o \in 1..MaxOps : Unrun(c, o)' => Unrun(c, o)
    BY <1>8 DEF Unrun
<1>10. \A c \in Clerk : \A o \in ck'[c].failed :
        \/ o \in ck[c].failed
        \/ c \in ViewClerk /\ c \in C /\ o = ck[c].op /\ ck'[c].pc = "idle"
    BY <1>1, <1>4, <1>5, <1>6
<1>11. \A c \in Clerk : \A o \in ck'[c].failed : o \in 1..MaxOps /\ ~Unrun(c, o)'
  <2> SUFFICES ASSUME NEW c \in Clerk, NEW o \in ck'[c].failed PROVE o \in 1..MaxOps /\ ~Unrun(c, o)'
      OBVIOUS
  <2>1. o \in 1..MaxOps
      BY <1>7 DEF ClerkState
  <2>2. CASE o \in ck[c].failed
      BY <2>1, <2>2, <1>9 DEF ClerkInv
  <2>3. CASE o = ck[c].op /\ ck'[c].pc = "idle"
      BY <2>1, <2>3, <1>8 DEF Unrun, ClerkInv, ClerkState
  <2> QED
      BY <1>10, <2>2, <2>3
<1>12. FailedPingNotRun'
  <2> SUFFICES ASSUME NEW c \in ViewClerk, NEW o \in ck'[c].failed PROVE runs[c][o] = 0
      BY DEF FailedPingNotRun
  <2>1. c \in Clerk /\ o \in 1..MaxOps
      BY <1>11 DEF Clerk
  <2>2. CASE o \in ck[c].failed
      BY <2>2 DEF ClerkInv, FailedPingNotRun
  <2>3. CASE c \in C /\ o = ck[c].op
      BY <2>1, <2>3 DEF ClerkInv, Unrun
  <2> QED
      BY <2>1, <2>2, <2>3, <1>10
<1>13. ReturnedRan'
    BY <1>8, Zenon DEF ReturnedRan, ClerkInv
<1>14. \A c \in Clerk : (ck'[c].pc # "idle" => ck'[c].op # 0) /\ (c \in ViewClerk => ck'[c].k = 1)
    BY <1>8 DEF ClerkInv
<1>15. \A c \in Clerk : ~shaky \/ c \in ViewClerk =>
        \A o \in 1..MaxOps : runs[c][o] <= 1 /\ (Unrun(c, o)' => runs[c][o] = 0)
    BY <1>9, Zenon DEF ClerkInv
<1> QED
    BY <1>1, <1>7, <1>11, <1>12, <1>13, <1>14, <1>15 DEF ClerkInv

\* A step that leaves the clerks and their history alone.
LEMMA ClerksSame ==
    ASSUME ClerkInv, UNCHANGED <<ck, runs>>, shaky => shaky'
    PROVE  ClerkInv'
BY DEF ClerkInv, ReturnedRan, FailedPingNotRun, Unrun

\* A connection is dialled.
LEMMA ClerkWaits ==
    ASSUME ClerkInv, NEW c \in Clerk, ck[c].pc = "call", ck' = [ck EXCEPT ![c].pc = "wait"],
           UNCHANGED <<runs, shaky>>
    PROVE  /\ ClerkInv' /\ \A d \in Clerk : d # c => ck'[d] = ck[d]
           /\ ck'[c].pc = "wait" /\ ck'[c].k = ck[c].k
<1> DEFINE r == [ck[c] EXCEPT !.pc = "wait"]
<1>1. ck[c] \in ClerkState
    BY DEF ClerkInv
<1>2. r \in ClerkState
    BY <1>1, Zenon DEF ClerkState
<1>3. r.pc = "wait" /\ r.k = ck[c].k /\ r.op = ck[c].op /\ r.ok = ck[c].ok /\ r.failed = ck[c].failed
    BY <1>1 DEF ClerkState
<1> HIDE DEF r
<1>4. ck' \in [Clerk -> ClerkState] /\ ck'[c] = r /\ \A d \in Clerk : d # c => ck'[d] = ck[d]
    BY <1>2 DEF ClerkInv, r
<1>5. \A d \in Clerk : /\ ck'[d].op = ck[d].op /\ ck'[d].k = ck[d].k /\ ck'[d].ok = ck[d].ok
                       /\ ck'[d].failed = ck[d].failed /\ (ck'[d].pc = "idle" <=> ck[d].pc = "idle")
    BY <1>3, <1>4
<1>6. \A d \in Clerk : \A o : Unrun(d, o)' <=> Unrun(d, o)
    BY <1>5 DEF Unrun
<1>7. ReturnedRan' /\ FailedPingNotRun'
    BY <1>5 DEF ClerkInv, ReturnedRan, FailedPingNotRun, Clerk
<1> QED
    BY <1>3, <1>4, <1>5, <1>6, <1>7 DEF ClerkInv

\* A handler has run and its caller, who waits, is told.
LEMMA ClerkReturns ==
    ASSUME ClerkInv, NEW c \in Clerk, ck[c].pc = "wait", ck' = CallReturned(c),
           runs' = [runs EXCEPT ![c][ck[c].op] = More(@)], UNCHANGED shaky
    PROVE  ClerkInv' /\ \A d \in Clerk : d # c => ck'[d] = ck[d]
<1> DEFINE r == [ck[c] EXCEPT !.pc = "idle", !.ok = ck[c].ok \cup {ck[c].op}]
           n == More(runs[c][ck[c].op])
<1> USE ClerkAssumption
<1>1. ck[c] \in ClerkState /\ ck[c].op \in 1..MaxOps
    BY DEF ClerkInv, ClerkState
<1>2. ck[c].ok \cup {ck[c].op} \in SUBSET (1..MaxOps)
    BY <1>1 DEF ClerkState
<1>3. r \in ClerkState
    BY <1>1, <1>2, Zenon DEF ClerkState
<1>4. /\ r.pc = "idle" /\ r.k = ck[c].k /\ r.op = ck[c].op
      /\ r.ok = ck[c].ok \cup {ck[c].op} /\ r.failed = ck[c].failed
    BY <1>1 DEF ClerkState
<1>5. ck' = [ck EXCEPT ![c] = r]
    BY Zenon DEF CallReturned
<1> HIDE DEF r
<1>6. ck' \in [Clerk -> ClerkState] /\ ck'[c] = r /\ \A d \in Clerk : d # c => ck'[d] = ck[d]
    BY <1>3, <1>5 DEF ClerkInv
<1>7. runs[c][ck[c].op] \in 0..2
    BY <1>1 DEF ClerkInv
<1>8. n \in 0..2 /\ n >= 1 /\ n >= runs[c][ck[c].op] /\ (runs[c][ck[c].op] = 0 => n = 1)
    BY <1>7 DEF More
<1> HIDE DEF n
<1>9. /\ runs' \in [Clerk -> [1..MaxOps -> 0..2]]
      /\ runs'[c][ck[c].op] = n
      /\ \A d \in Clerk, o \in 1..MaxOps : (d # c \/ o # ck[c].op) => runs'[d][o] = runs[d][o]
    BY <1>1, <1>8 DEF ClerkInv, n
<1>10. \A d \in Clerk : /\ ck'[d].op = ck[d].op /\ ck'[d].k = ck[d].k
                        /\ ck'[d].failed = ck[d].failed /\ (ck'[d].pc # "idle" => ck[d].pc # "idle")
    BY <1>4, <1>6
<1>11. \A d \in Clerk, o \in 1..MaxOps : Unrun(d, o)' => Unrun(d, o) /\ (d # c \/ o # ck[c].op)
    BY <1>4, <1>6, <1>10 DEF Unrun, ClerkState
<1>12. \A d \in Clerk : \A o \in ck[d].failed :
            o \in 1..MaxOps /\ ~Unrun(d, o)' /\ (d # c \/ o # ck[c].op)
    BY <1>11 DEF ClerkInv, ClerkState, Unrun
<1>13. ReturnedRan'
  <2> SUFFICES ASSUME NEW d \in Clerk, NEW o \in ck'[d].ok PROVE runs'[d][o] >= 1
      BY DEF ReturnedRan
  <2>1. o \in 1..MaxOps
      BY <1>6 DEF ClerkState
  <2>2. CASE d = c /\ o = ck[c].op
      BY <2>2, <1>8, <1>9, ZenonT(30)
  <2>3. CASE d # c \/ o # ck[c].op
      BY <2>1, <2>3, <1>4, <1>6, <1>9 DEF ClerkInv, ReturnedRan
  <2> QED
      BY <2>2, <2>3, ZenonT(30)
<1>14. FailedPingNotRun'
  <2> SUFFICES ASSUME NEW d \in ViewClerk, NEW o \in ck'[d].failed PROVE runs'[d][o] = 0
      BY DEF FailedPingNotRun
  <2>1. d \in Clerk /\ o \in ck[d].failed
      BY <1>10 DEF Clerk
  <2>2. runs[d][o] = 0
      BY <2>1, ZenonT(30) DEF ClerkInv, FailedPingNotRun
  <2> QED
      BY <1>9, <1>12, <2>1, <2>2
<1>15. ASSUME NEW d \in Clerk, ~shaky \/ d \in ViewClerk, NEW o \in 1..MaxOps
       PROVE  runs'[d][o] <= 1 /\ (Unrun(d, o)' => runs'[d][o] = 0)
  <2>1. CASE d = c /\ o = ck[c].op
    <3>1. runs[c][ck[c].op] = 0
        BY <1>1, <1>15, <2>1 DEF ClerkInv, Unrun
    <3> QED
        BY <3>1, <2>1, <1>8, <1>9, <1>11
  <2>2. CASE d # c \/ o # ck[c].op
      BY <1>15, <2>2, <1>9, <1>11 DEF ClerkInv
  <2> QED
      BY <2>1, <2>2, ZenonT(30)
<1> QED
    BY <1>6, <1>9, <1>10, <1>12, <1>13, <1>14, <1>15 DEF ClerkInv

\* A handler has run whose reply is discarded: some server is unreliable, and
\* the caller is no view clerk.
LEMMA ClerkUntold ==
    ASSUME ClerkInv, NEW c \in Clerk, NEW o \in 1..MaxOps, shaky, c \notin ViewClerk,
           runs' = [runs EXCEPT ![c][o] = More(@)], UNCHANGED <<ck, shaky>>
    PROVE  ClerkInv'
<1> DEFINE n == More(runs[c][o])
<1>1. runs[c][o] \in 0..2
    BY Zenon DEF ClerkInv
<1>2. n \in 0..2 /\ n >= runs[c][o]
    BY <1>1 DEF More
<1> HIDE DEF n
<1>3. /\ runs' \in [Clerk -> [1..MaxOps -> 0..2]]
      /\ \A d \in Clerk, q \in 1..MaxOps :
            IF d = c /\ q = o THEN runs'[d][q] = n ELSE runs'[d][q] = runs[d][q]
    BY <1>2, Zenon DEF ClerkInv, n
<1>4. ReturnedRan'
  <2> SUFFICES ASSUME NEW d \in Clerk, NEW q \in ck[d].ok PROVE runs'[d][q] >= 1
      BY DEF ReturnedRan
  <2>1. q \in 1..MaxOps
      BY DEF ClerkInv, ClerkState
  <2>2. runs[d][q] >= 1
      BY DEF ClerkInv, ReturnedRan
  <2>3. CASE d = c /\ q = o
    <3>1. runs'[d][q] = n
        BY <1>3, <2>3
    <3> QED
        BY <3>1, <1>1, <1>2, <2>2, <2>3
  <2>4. CASE ~(d = c /\ q = o)
      BY <1>3, <2>1, <2>2, <2>4
  <2> QED
      BY <2>3, <2>4
<1>5. FailedPingNotRun'
  <2> SUFFICES ASSUME NEW d \in ViewClerk, NEW q \in ck[d].failed PROVE runs'[d][q] = 0
      BY DEF FailedPingNotRun
  <2>1. d \in Clerk /\ d # c /\ q \in 1..MaxOps
      BY DEF ClerkInv, ClerkState, Clerk
  <2> QED
      BY <1>3, <2>1 DEF ClerkInv, FailedPingNotRun
<1>6. \A d \in ViewClerk : d \in Clerk /\ d # c
    BY DEF Clerk
<1> QED
    BY <1>3, <1>4, <1>5, <1>6 DEF ClerkInv, Unrun

-----------------------------------------------------------------------------
(* The servers and the places of the connections. *)

\* A server's record is replaced by one that is no less dead.
LEMMA ServerChanges ==
    ASSUME ServerInv, NEW s \in started, NEW r, srv' = [srv EXCEPT ![s] = r], DOMAIN r = Flags,
           (r.kill = "half" \/ ~r.open) => r.dead, r.unreliable => shaky' /\ s # ViewServer,
           shaky => shaky', shaky' \in BOOLEAN, UNCHANGED started, QuietKill'
    PROVE  /\ ServerInv' /\ srv'[s] = r
           /\ \A t \in started : t # s => srv'[t] = srv[t]
<1>1. DOMAIN srv' = started /\ srv'[s] = r /\ \A t \in started : t # s => srv'[t] = srv[t]
    BY DEF ServerInv
<1>2. \A t \in started : DOMAIN srv'[t] = Flags
    BY <1>1, Zenon DEF ServerInv
<1>3. \A t \in started : (srv'[t].kill = "half" \/ ~srv'[t].open) => srv'[t].dead
    BY <1>1, Zenon DEF ServerInv
<1>4. \A t \in started : srv'[t].unreliable => shaky' /\ t # ViewServer
    BY <1>1, Zenon DEF ServerInv
<1> QED
    BY <1>1, <1>2, <1>3, <1>4, Zenon DEF ServerInv

\* The accept loop moves on.
LEMMA LoopMoves ==
    ASSUME ServerInv, NEW s \in started, NEW l, srv' = [srv EXCEPT ![s].loop = l],
           UNCHANGED <<started, shaky, reported>>
    PROVE  /\ ServerInv' /\ srv'[s].loop = l
           /\ \A t \in started : t # s => srv'[t] = srv[t]
<1> DEFINE r == [srv[s] EXCEPT !.loop = l]
<1>1. DOMAIN srv[s] = Flags
    BY DEF ServerInv
<1>2. DOMAIN r = Flags /\ r.loop = l
    BY <1>1 DEF Flags
<1>3. r.kill = srv[s].kill /\ r.open = srv[s].open /\ r.dead = srv[s].dead /\ r.unreliable = srv[s].unreliable
    BY <1>1 DEF Flags
<1>4. srv' = [srv EXCEPT ![s] = r]
    OBVIOUS
<1> HIDE DEF r
<1>5. ((r.kill = "half" \/ ~r.open) => r.dead) /\ (r.unreliable => shaky' /\ s # ViewServer)
    BY <1>3, Zenon DEF ServerInv
<1>6. shaky' \in BOOLEAN /\ (shaky => shaky') /\ QuietKill'
    BY DEF ServerInv, QuietKill
<1> QED
    BY <1>2, <1>4, <1>5, <1>6, ServerChanges, Zenon

\* Connections may leave their places, and one may be served deaf, as long as the
\* clerks whose connections stay are left alone.
LEMMA PlacesKept ==
    ASSUME PlaceInv, UNCHANGED started, shaky => shaky',
           backlog' \in [started -> Seq(Clerk)], DOMAIN conn' = started,
           serving' \subseteq [c : Clerk, op : 1..MaxOps, deaf : BOOLEAN],
           \A s \in started : backlog'[s] = backlog[s] \/ backlog'[s] = <<>>,
           \A s \in started : srv'[s].loop = "got" => srv[s].loop = "got" /\ conn'[s] = conn[s],
           \A h \in serving' : h \in serving \/ (h.deaf /\ shaky' /\ h.c \notin ViewClerk),
           \A s \in started : \A j \in 1..Len(backlog'[s]) : ck'[backlog'[s][j]] = ck[backlog'[s][j]],
           \A s \in started : srv'[s].loop = "got" => ck'[conn[s]] = ck[conn[s]],
           \A h \in serving' : ~h.deaf => ck'[h.c] = ck[h.c]
    PROVE  PlaceInv'
<1>1. \A s \in started : \A j \in 1..Len(backlog'[s]) : backlog'[s] = backlog[s]
    OBVIOUS
<1>2. \A s \in started : \A c : Accepted(s, c)' => Accepted(s, c)
    BY DEF Accepted
<1>3. ASSUME NEW s \in started
      PROVE  /\ \A j \in 1..Len(backlog'[s]) : Waits(backlog[s][j], s)' /\ ~Accepted(s, backlog[s][j])'
             /\ \A j, k \in 1..Len(backlog'[s]) : backlog'[s][j] = backlog'[s][k] => j = k
             /\ srv'[s].loop = "got" => Waits(conn[s], s)' /\ conn'[s] = conn[s]
  <2>1. ASSUME NEW j \in 1..Len(backlog'[s])
        PROVE  Waits(backlog[s][j], s)' /\ ~Accepted(s, backlog[s][j])'
    <3>1. backlog'[s] = backlog[s] /\ j \in 1..Len(backlog[s]) /\ ck'[backlog'[s][j]] = ck[backlog'[s][j]]
        BY <1>1
    <3>2. Waits(backlog[s][j], s) /\ ~Accepted(s, backlog[s][j])
        BY <3>1 DEF PlaceInv
    <3> QED
        BY <3>1, <3>2, <1>2 DEF Waits, servers
  <2>2. \A j, k \in 1..Len(backlog'[s]) : backlog'[s][j] = backlog'[s][k] => j = k
      BY <1>1 DEF PlaceInv
  <2>3. ASSUME srv'[s].loop = "got" PROVE Waits(conn[s], s)' /\ conn'[s] = conn[s]
    <3>1. srv[s].loop = "got" /\ conn'[s] = conn[s] /\ ck'[conn[s]] = ck[conn[s]]
        BY <2>3
    <3>2. Waits(conn[s], s)
        BY <3>1 DEF PlaceInv
    <3> QED
        BY <3>1, <3>2 DEF Waits, servers
  <2> QED
      BY <2>1, <2>2, <2>3
<1>4. ASSUME NEW h \in serving'
      PROVE  IF h.deaf THEN shaky' /\ h.c \notin ViewClerk
             ELSE /\ ck'[h.c].pc = "wait" /\ h.op = ck'[h.c].op
                  /\ \A s \in started : ~Accepted(s, h.c)' /\ \A j \in 1..Len(backlog'[s]) : backlog'[s][j] # h.c
  <2>1. CASE h.deaf
      BY <2>1 DEF PlaceInv
  <2>2. CASE ~h.deaf
    <3>1. h \in serving /\ ck'[h.c] = ck[h.c]
        BY <2>2
    <3>2. /\ ck[h.c].pc = "wait" /\ h.op = ck[h.c].op
          /\ \A s \in started : ~Accepted(s, h.c) /\ \A j \in 1..Len(backlog[s]) : backlog[s][j] # h.c
        BY <2>2, <3>1 DEF PlaceInv
    <3>3. \A s \in started : \A j \in 1..Len(backlog'[s]) : backlog'[s][j] # h.c
        BY <3>2, <1>1
    <3> QED
        BY <2>2, <3>1, <3>2, <3>3, <1>2
  <2> QED
      BY <2>1, <2>2
<1> QED
    BY <1>3, <1>4 DEF PlaceInv

\* A clerk that does not wait is nowhere.
LEMMA Nowhere ==
    ASSUME PlaceInv, NEW c, ck[c].pc # "wait"
    PROVE  /\ \A s \in started : ~Accepted(s, c) /\ \A j \in 1..Len(backlog[s]) : backlog[s][j] # c
           /\ \A h \in serving : ~h.deaf => h.c # c
<1>1. \A s \in started : ~Accepted(s, c)
    BY DEF PlaceInv, Accepted, Waits
<1>2. \A s \in started : \A j \in 1..Len(backlog[s]) : backlog[s][j] # c
    BY DEF PlaceInv, Waits
<1>3. \A h \in serving : ~h.deaf => h.c # c
    BY DEF PlaceInv
<1> QED
    BY <1>1, <1>2, <1>3

\* Who is in a place is a clerk.
LEMMA PlacesHoldClerks ==
    ASSUME PlaceInv
    PROVE  /\ \A s \in started : \A j \in 1..Len(backlog[s]) : backlog[s][j] \in Clerk
           /\ \A s \in started : srv[s].loop = "got" => conn[s] \in Clerk
           /\ \A h \in serving : h.c \in Clerk /\ h.op \in 1..MaxOps
<1>1. \A h \in serving : h.c \in Clerk /\ h.op \in 1..MaxOps
    BY DEF PlaceInv
<1> QED
    BY <1>1 DEF PlaceInv, Waits

LEMMA ServersSame ==
    ASSUME ServerInv, UNCHANGED <<started, srv, shaky, reported>>
    PROVE  ServerInv'
BY DEF ServerInv, QuietKill

\* The places do not change, and one clerk that is in none of them may.
LEMMA PlacesSame ==
    ASSUME PlaceInv, NEW c, ck[c].pc # "wait", \A d \in Clerk : d # c => ck'[d] = ck[d],
           UNCHANGED <<started, srv, backlog, conn, serving, shaky>>
    PROVE  PlaceInv'
<1>1. \A s \in started : \A j \in 1..Len(backlog[s]) : ck'[backlog[s][j]] = ck[backlog[s][j]]
    BY Nowhere, PlacesHoldClerks
<1>2. \A s \in started : srv[s].loop = "got" => ck'[conn[s]] = ck[conn[s]]
    BY Nowhere, PlacesHoldClerks DEF Accepted
<1>3. \A h \in serving : ~h.deaf => ck'[h.c] = ck[h.c]
    BY Nowhere, PlacesHoldClerks
<1>4. /\ backlog \in [started -> Seq(Clerk)] /\ DOMAIN conn = started
      /\ serving \subseteq [c : Clerk, op : 1..MaxOps, deaf : BOOLEAN]
    BY DEF PlaceInv
<1> QED
    BY <1>1, <1>2, <1>3, <1>4, PlacesKept

-----------------------------------------------------------------------------
(* The steps. *)

LEMMA DialStep == ASSUME ServicesInv, NEW c \in Clerk, Dial(c) PROVE ServicesInv'
<1> DEFINE s == servers(c)[ck[c].k]
<1>1. ck[c].pc = "call" /\ UNCHANGED <<started, srv, conn, serving, runs, shaky, reported>>
    BY ZenonT(30) DEF Dial
<1>2. ServerInv'
    BY <1>1, ServersSame DEF ServicesInv
<1>3. CASE ck' = CallFailed({c}) /\ UNCHANGED backlog
  <2>1. ClerkInv' /\ \A d \in Clerk : d # c => ck'[d] = ck[d]
      BY <1>1, <1>3, ClerksFail DEF ServicesInv
  <2>2. PlaceInv'
      BY <1>1, <1>3, <2>1, PlacesSame DEF ServicesInv
  <2> QED
      BY <1>2, <2>1, <2>2 DEF ServicesInv
<1>4. CASE backlog' = [backlog EXCEPT ![s] = Append(@, c)] /\ ck' = [ck EXCEPT ![c].pc = "wait"]
  <2>1. /\ ClerkInv' /\ \A d \in Clerk : d # c => ck'[d] = ck[d]
        /\ ck'[c].pc = "wait" /\ ck'[c].k = ck[c].k
      BY <1>1, <1>4, ClerkWaits, Zenon DEF ServicesInv
  <2>2. CASE s \notin started
    <3>1. UNCHANGED backlog
        BY <1>4, <2>2, ZenonT(30) DEF ServicesInv, PlaceInv
    <3>2. PlaceInv'
        BY <1>1, <2>1, <3>1, PlacesSame DEF ServicesInv
    <3> QED
        BY <1>2, <2>1, <3>2 DEF ServicesInv
  <2>3. CASE s \in started
    <3>1. /\ backlog' \in [started -> Seq(Clerk)] /\ backlog'[s] = Append(backlog[s], c)
          /\ \A t \in started : t # s => backlog'[t] = backlog[t]
      <4>1. backlog \in [started -> Seq(Clerk)]
          BY ZenonT(30) DEF ServicesInv, PlaceInv
      <4>2. Append(backlog[s], c) \in Seq(Clerk)
          BY <2>3, <4>1
      <4> HIDE DEF s
      <4> QED
          BY <1>4, <2>3, <4>1, <4>2
    <3>2. /\ backlog[s] \in Seq(Clerk) /\ Len(backlog'[s]) = Len(backlog[s]) + 1
          /\ backlog'[s][Len(backlog[s]) + 1] = c
          /\ \A j \in 1..Len(backlog[s]) : backlog'[s][j] = backlog[s][j]
      <4> HIDE DEF s
      <4>1. backlog[s] \in Seq(Clerk)
          BY <2>3 DEF ServicesInv, PlaceInv
      <4> QED
          BY <3>1, <4>1
    <3>3. \A t \in started : \A j \in 1..Len(backlog'[t]) :
            \/ j \in 1..Len(backlog[t]) /\ backlog'[t][j] = backlog[t][j]
            \/ t = s /\ j = Len(backlog[s]) + 1 /\ backlog'[t][j] = c
      <4> SUFFICES ASSUME NEW t \in started, NEW j \in 1..Len(backlog'[t])
                   PROVE  \/ j \in 1..Len(backlog[t]) /\ backlog'[t][j] = backlog[t][j]
                          \/ t = s /\ j = Len(backlog[s]) + 1 /\ backlog'[t][j] = c
          OBVIOUS
      <4> HIDE DEF s
      <4>1. CASE t = s
        <5>1. Len(backlog[s]) \in Nat
            BY <3>2
        <5>2. j \in 1..Len(backlog[s]) \/ j = Len(backlog[s]) + 1
            BY <3>2, <4>1, <5>1
        <5> QED
            BY <3>2, <4>1, <5>2
      <4>2. CASE t # s
          BY <3>1, <4>2
      <4> QED
          BY <4>1, <4>2
    <3>4. /\ \A t \in started : ~Accepted(t, c) /\ \A j \in 1..Len(backlog[t]) : backlog[t][j] # c
          /\ \A h \in serving : ~h.deaf => h.c # c
        BY <1>1, Nowhere DEF ServicesInv
    <3>7. ASSUME NEW t \in started
          PROVE  /\ \A j \in 1..Len(backlog'[t]) : Waits(backlog[t][j], t)' /\ ~Accepted(t, backlog[t][j])'
                 /\ \A j, k \in 1..Len(backlog'[t]) : backlog'[t][j] = backlog'[t][k] => j = k
                 /\ srv'[t].loop = "got" => Waits(conn[t], t)'
      <4>1. ASSUME NEW j \in 1..Len(backlog'[t])
            PROVE  Waits(backlog[t][j], t)' /\ ~Accepted(t, backlog[t][j])'
        <5>1. CASE j \in 1..Len(backlog[t]) /\ backlog'[t][j] = backlog[t][j]
          <6>1. Waits(backlog[t][j], t) /\ ~Accepted(t, backlog[t][j])
              BY <5>1 DEF ServicesInv, PlaceInv
          <6>2. backlog[t][j] \in Clerk /\ ck'[backlog[t][j]] = ck[backlog[t][j]]
              BY <6>1, <1>1, <2>1, ZenonT(30) DEF Waits
          <6> QED
              BY <1>1, <5>1, <6>1, <6>2, ZenonT(30) DEF Waits, Accepted, servers
        <5>2. CASE t = s /\ backlog'[t][j] = c
            BY <1>1, <2>1, <3>4, <5>2, ZenonT(30) DEF Waits, Accepted, servers
        <5> QED
            BY <3>3, <5>1, <5>2
      <4>2. ASSUME NEW j \in 1..Len(backlog'[t]), NEW k \in 1..Len(backlog'[t]),
                   backlog'[t][j] = backlog'[t][k]
            PROVE  j = k
        <5> HIDE DEF s
        <5>1. CASE backlog'[t][j] = c
          <6>1. j = Len(backlog[s]) + 1
              BY <3>3, <3>4, <5>1
          <6>2. k = Len(backlog[s]) + 1
              BY <3>3, <3>4, <4>2, <5>1, Zenon
          <6> QED
              BY <6>1, <6>2
        <5>2. CASE backlog'[t][j] # c
          <6>1. /\ j \in 1..Len(backlog[t]) /\ k \in 1..Len(backlog[t])
                /\ backlog[t][j] = backlog[t][k]
              BY <3>3, <4>2, <5>2
          <6> QED
              BY <6>1 DEF ServicesInv, PlaceInv
        <5> QED
            BY <5>1, <5>2
      <4>3. ASSUME srv'[t].loop = "got" PROVE Waits(conn[t], t)'
        <5>1. Waits(conn[t], t)
            BY <1>1, <4>3 DEF ServicesInv, PlaceInv
        <5>2. ck'[conn[t]] = ck[conn[t]]
            BY <1>1, <2>1, <5>1 DEF Waits
        <5> QED
            BY <1>1, <5>1, <5>2, ZenonT(30) DEF Waits, servers
      <4> QED
          BY <4>1, <4>2, <4>3
    <3>8. ASSUME NEW h \in serving
          PROVE  IF h.deaf THEN shaky /\ h.c \notin ViewClerk
                 ELSE /\ ck'[h.c].pc = "wait" /\ h.op = ck'[h.c].op
                      /\ \A t \in started : ~Accepted(t, h.c)' /\ \A j \in 1..Len(backlog'[t]) : backlog'[t][j] # h.c
      <4>1. CASE h.deaf
          BY <4>1 DEF ServicesInv, PlaceInv
      <4>2. CASE ~h.deaf
        <5>1. h.c \in Clerk /\ h.c # c /\ ck'[h.c] = ck[h.c]
            BY <2>1, <3>4, <4>2, PlacesHoldClerks DEF ServicesInv
        <5>2. /\ ck[h.c].pc = "wait" /\ h.op = ck[h.c].op
              /\ \A t \in started : ~Accepted(t, h.c) /\ \A j \in 1..Len(backlog[t]) : backlog[t][j] # h.c
            BY <4>2, ZenonT(30) DEF ServicesInv, PlaceInv
        <5>3. \A t \in started : \A j \in 1..Len(backlog'[t]) : backlog'[t][j] # h.c
            BY <3>3, <5>1, <5>2
        <5>4. \A t \in started : ~Accepted(t, h.c)'
            BY <1>1, <5>2 DEF Accepted
        <5> QED
            BY <4>2, <5>1, <5>2, <5>3, <5>4
      <4> QED
          BY <4>1, <4>2
    <3>9. DOMAIN conn = started /\ serving \subseteq [c : Clerk, op : 1..MaxOps, deaf : BOOLEAN]
        BY DEF ServicesInv, PlaceInv
    <3>10. PlaceInv'
        BY <1>1, <3>1, <3>7, <3>8, <3>9, Zenon DEF PlaceInv
    <3> QED
        BY <1>2, <2>1, <3>10 DEF ServicesInv
  <2> QED
      BY <2>2, <2>3
<1> QED
    BY <1>3, <1>4, ZenonT(30) DEF Dial

LEMMA AcceptStep == ASSUME ServicesInv, NEW s \in started, Accept(s) PROVE ServicesInv'
<1> DEFINE q == backlog[s]
<1>1. q \in Seq(Clerk) /\ q # <<>> /\ UNCHANGED <<started, serving, ck, runs, shaky, reported>>
    BY ZenonT(30) DEF Accept, ServicesInv, PlaceInv
<1>2. ClerkInv'
    BY <1>1, ClerksSame DEF ServicesInv
<1>3. /\ ServerInv' /\ srv'[s].loop = "got"
      /\ \A t \in started : t # s => srv'[t] = srv[t]
    BY <1>1, LoopMoves, Zenon DEF ServicesInv, Accept
<1>4. conn' = [conn EXCEPT ![s] = Head(q)] /\ backlog' = [backlog EXCEPT ![s] = Tail(q)]
    BY DEF Accept
<1>5. /\ Head(q) = q[1] /\ 1 \in 1..Len(q) /\ Tail(q) \in Seq(Clerk)
      /\ \A j \in 1..Len(Tail(q)) : j + 1 \in 1..Len(q) /\ Tail(q)[j] = q[j + 1] /\ j + 1 # 1
  <2> HIDE DEF q
  <2>1. Len(q) \in Nat /\ Len(q) > 0 /\ Head(q) = q[1]
      BY <1>1
  <2>2. /\ Tail(q) \in Seq(Clerk) /\ Len(Tail(q)) = Len(q) - 1
        /\ \A j \in 1..Len(Tail(q)) : Tail(q)[j] = q[j + 1]
      BY <1>1
  <2>3. \A j \in 1..(Len(q) - 1) : j + 1 \in 1..Len(q) /\ j + 1 # 1
      BY <2>1
  <2> QED
      BY <2>1, <2>2, <2>3
<1>6. /\ conn'[s] = q[1] /\ backlog'[s] = Tail(q) /\ DOMAIN conn' = started
      /\ backlog' \in [started -> Seq(Clerk)]
      /\ \A t \in started : t # s => backlog'[t] = backlog[t] /\ conn'[t] = conn[t]
    BY <1>4, <1>5 DEF ServicesInv, PlaceInv
<1>7. /\ \A j \in 1..Len(q) : Waits(q[j], s)
      /\ \A j, k \in 1..Len(q) : q[j] = q[k] => j = k
      /\ \A h \in serving : ~h.deaf => \A j \in 1..Len(q) : q[j] # h.c
    BY DEF ServicesInv, PlaceInv
<1> HIDE DEF q
<1>8. \A c, t : Waits(c, t)' <=> Waits(c, t)
    BY <1>1 DEF Waits, servers
<1>9. ASSUME NEW t \in started, t # s
      PROVE  /\ \A j \in 1..Len(backlog'[t]) : Waits(backlog[t][j], t)' /\ ~Accepted(t, backlog[t][j])'
             /\ \A j, k \in 1..Len(backlog'[t]) : backlog'[t][j] = backlog'[t][k] => j = k
             /\ srv'[t].loop = "got" => Waits(conn[t], t)'
  <2>1. backlog'[t] = backlog[t] /\ conn'[t] = conn[t] /\ srv'[t] = srv[t]
      BY <1>3, <1>6, <1>9
  <2>2. \A j \in 1..Len(backlog[t]) : Waits(backlog[t][j], t) /\ ~Accepted(t, backlog[t][j])
      BY DEF ServicesInv, PlaceInv
  <2>3. \A j \in 1..Len(backlog'[t]) : Waits(backlog[t][j], t)' /\ ~Accepted(t, backlog[t][j])'
      BY <1>1, <2>1, <2>2 DEF Waits, Accepted, servers
  <2>4. \A j, k \in 1..Len(backlog'[t]) : backlog'[t][j] = backlog'[t][k] => j = k
      BY <2>1 DEF ServicesInv, PlaceInv
  <2>5. srv'[t].loop = "got" => Waits(conn[t], t)'
    <3>1. srv[t].loop = "got" => Waits(conn[t], t)
        BY DEF ServicesInv, PlaceInv
    <3> QED
        BY <1>1, <2>1, <3>1, Zenon DEF Waits, servers
  <2> QED
      BY <2>3, <2>4, <2>5
<1>10. /\ \A j \in 1..Len(backlog'[s]) : Waits(backlog[s][j], s)' /\ ~Accepted(s, backlog[s][j])'
       /\ \A j, k \in 1..Len(backlog'[s]) : backlog'[s][j] = backlog'[s][k] => j = k
       /\ srv'[s].loop = "got" => Waits(conn[s], s)'
  <2>1. ASSUME NEW j \in 1..Len(backlog'[s])
        PROVE  Waits(backlog[s][j], s)' /\ ~Accepted(s, backlog[s][j])'
    <3>1. j + 1 \in 1..Len(q) /\ backlog'[s][j] = q[j + 1] /\ q[j + 1] # q[1] /\ Waits(q[j + 1], s)
      <4>1. j \in 1..Len(Tail(q))
          BY <1>6
      <4>2. j + 1 \in 1..Len(q) /\ Tail(q)[j] = q[j + 1] /\ j + 1 # 1
          BY <1>5, <4>1, Zenon
      <4> QED
          BY <1>5, <1>6, <1>7, <4>2, Zenon
    <3> QED
        BY <1>1, <1>6, <3>1, Zenon DEF Waits, Accepted, servers
  <2>2. ASSUME NEW j \in 1..Len(backlog'[s]), NEW k \in 1..Len(backlog'[s]), backlog'[s][j] = backlog'[s][k]
        PROVE  j = k
    <3>1. j + 1 = k + 1
      <4>1. j \in 1..Len(Tail(q)) /\ k \in 1..Len(Tail(q))
          BY <1>6, Zenon
      <4>2. j + 1 \in 1..Len(q) /\ k + 1 \in 1..Len(q) /\ q[j + 1] = q[k + 1]
          BY <1>5, <1>6, <2>2, <4>1
      <4> QED
          BY <1>7, <4>2, Zenon
    <3>2. j \in Int /\ k \in Int
        OBVIOUS
    <3> QED
        BY <3>1, <3>2
  <2>3. Waits(conn[s], s)'
    <3>1. conn'[s] = q[1] /\ Waits(q[1], s)
        BY <1>5, <1>6, <1>7, Zenon
    <3> QED
        BY <1>1, <3>1, Zenon DEF Waits, servers
  <2> QED
      BY <2>1, <2>2, <2>3, Zenon
<1>11. ASSUME NEW h \in serving
       PROVE  IF h.deaf THEN shaky /\ h.c \notin ViewClerk
              ELSE /\ ck[h.c].pc = "wait" /\ h.op = ck[h.c].op
                   /\ \A t \in started : ~Accepted(t, h.c)' /\ \A j \in 1..Len(backlog'[t]) : backlog'[t][j] # h.c
  <2>1. CASE h.deaf
      BY <2>1 DEF ServicesInv, PlaceInv
  <2>2. CASE ~h.deaf
    <3>1. /\ ck[h.c].pc = "wait" /\ h.op = ck[h.c].op
          /\ \A t \in started : ~Accepted(t, h.c) /\ \A j \in 1..Len(backlog[t]) : backlog[t][j] # h.c
        BY <2>2 DEF ServicesInv, PlaceInv
    <3>2. ~Accepted(s, h.c)' /\ \A j \in 1..Len(backlog'[s]) : backlog'[s][j] # h.c
      <4>1. \A j \in 1..Len(q) : q[j] # h.c
          BY <2>2, <1>7
      <4>2. conn'[s] # h.c
          BY <1>5, <1>6, <4>1
      <4>3. \A j \in 1..Len(backlog'[s]) : backlog'[s][j] # h.c
          BY <1>5, <1>6, <4>1
      <4> QED
          BY <4>2, <4>3 DEF Accepted
    <3>3. \A t \in started : t # s =>
            ~Accepted(t, h.c)' /\ \A j \in 1..Len(backlog'[t]) : backlog'[t][j] # h.c
        BY <3>1, <1>3, <1>6 DEF Accepted
    <3> QED
        BY <2>2, <3>1, <3>2, <3>3
  <2> QED
      BY <2>1, <2>2
<1>12. serving \subseteq [c : Clerk, op : 1..MaxOps, deaf : BOOLEAN]
    BY DEF ServicesInv, PlaceInv
<1>13. PlaceInv'
  <2>1. \A t \in started :
             /\ \A j \in 1..Len(backlog'[t]) : Waits(backlog[t][j], t)' /\ ~Accepted(t, backlog[t][j])'
             /\ \A j, k \in 1..Len(backlog'[t]) : backlog'[t][j] = backlog'[t][k] => j = k
             /\ srv'[t].loop = "got" => Waits(conn[t], t)'
      BY <1>9, <1>10
  <2> QED
      BY <1>1, <1>6, <1>11, <1>12, <2>1 DEF PlaceInv
<1> QED
    BY <1>2, <1>3, <1>13 DEF ServicesInv

-----------------------------------------------------------------------------
\* A clerk whose connection has just been accepted is nowhere else.
LEMMA InOnePlace ==
    ASSUME PlaceInv, NEW s \in started, srv[s].loop = "got"
    PROVE  /\ Waits(conn[s], s)
           /\ \A t \in started : \A j \in 1..Len(backlog[t]) : backlog[t][j] # conn[s]
           /\ \A t \in started : srv[t].loop = "got" /\ conn[t] = conn[s] => t = s
           /\ \A h \in serving : ~h.deaf => h.c # conn[s]
<1>0. PICK c : c = conn[s]
    OBVIOUS
<1>1. Waits(c, s)
    BY <1>0 DEF PlaceInv
<1>2. \A t \in started : \A j \in 1..Len(backlog[t]) : backlog[t][j] # c
  <2> SUFFICES ASSUME NEW t \in started, NEW j \in 1..Len(backlog[t]), backlog[t][j] = c PROVE FALSE
      OBVIOUS
  <2>1. Waits(c, t) /\ ~Accepted(t, c)
      BY DEF PlaceInv
  <2>2. t = s
      BY <1>1, <2>1, ZenonT(30) DEF Waits
  <2> QED
      BY <1>0, <2>1, <2>2 DEF Accepted
<1>3. \A t \in started : srv[t].loop = "got" /\ conn[t] = c => t = s
  <2>1. \A t \in started : srv[t].loop = "got" => Waits(conn[t], t)
      BY DEF PlaceInv
  <2> QED
      BY <1>1, <2>1 DEF Waits
<1>4. \A h \in serving : ~h.deaf => h.c # c
    BY <1>0 DEF PlaceInv, Accepted
<1> QED
    BY <1>0, <1>1, <1>2, <1>3, <1>4

LEMMA ConnRecord ==
    ASSUME NEW s, NEW deaf \in BOOLEAN, NEW d \in Clerk, conn[s] = d, ck[d].op \in 1..MaxOps
    PROVE  /\ Conn(s, deaf) \in [c : Clerk, op : 1..MaxOps, deaf : BOOLEAN]
           /\ Conn(s, deaf).c = d /\ Conn(s, deaf).op = ck[d].op /\ Conn(s, deaf).deaf = deaf
<1>1. Conn(s, deaf) = [c |-> d, op |-> ck[d].op, deaf |-> deaf]
    BY DEF Conn
<1>2. \A x \in Clerk, o \in 1..MaxOps, b \in BOOLEAN :
        /\ [c |-> x, op |-> o, deaf |-> b] \in [c : Clerk, op : 1..MaxOps, deaf : BOOLEAN]
        /\ [c |-> x, op |-> o, deaf |-> b].c = x /\ [c |-> x, op |-> o, deaf |-> b].op = o
        /\ [c |-> x, op |-> o, deaf |-> b].deaf = b
    BY Zenon
<1>3. PICK o \in 1..MaxOps : o = ck[d].op
    OBVIOUS
<1>4. PICK r : r = [c |-> d, op |-> o, deaf |-> deaf]
    BY Zenon
<1>5. r \in [c : Clerk, op : 1..MaxOps, deaf : BOOLEAN] /\ r.c = d /\ r.op = o /\ r.deaf = deaf
    BY <1>2, <1>4, Zenon
<1>6. Conn(s, deaf) = r
    BY <1>1, <1>3, <1>4
<1> QED
    BY <1>3, <1>5, <1>6, Zenon

\* The connection that was accepted gets a goroutine that will answer.
LEMMA Served ==
    ASSUME ServicesInv, NEW s \in started, srv[s].loop = "got", srv'[s].loop = "test",
           \A t \in started : t # s => srv'[t] = srv[t],
           serving' = serving \cup {Conn(s, FALSE)}, Handled(s), UNCHANGED ck
    PROVE  PlaceInv'
<1>0. PICK c : c = conn[s]
    OBVIOUS
<1>1. Waits(c, s) /\ c \in Clerk /\ ck[c].op \in 1..MaxOps
  <2>1. Waits(c, s)
      BY <1>0 DEF ServicesInv, PlaceInv
  <2> QED
      BY <2>1, ClerkAssumption DEF Waits, ServicesInv, ClerkInv, ClerkState
<1>2. /\ UNCHANGED <<started, backlog, shaky>> /\ DOMAIN conn' = started
      /\ \A t \in started : t # s => conn'[t] = conn[t]
    BY DEF Handled, ServicesInv, PlaceInv
<1>3. /\ Conn(s, FALSE) \in [c : Clerk, op : 1..MaxOps, deaf : BOOLEAN]
      /\ Conn(s, FALSE).c = c /\ Conn(s, FALSE).op = ck[c].op /\ ~Conn(s, FALSE).deaf
    BY <1>0, <1>1, ConnRecord, Zenon
<1>4. serving' \subseteq [c : Clerk, op : 1..MaxOps, deaf : BOOLEAN]
    BY <1>3, ZenonT(30) DEF ServicesInv, PlaceInv
<1>5. \A t \in started : \A d : Accepted(t, d)' => Accepted(t, d) /\ t # s
    BY <1>2 DEF Accepted
<1>6. \A t \in started : Accepted(t, c) => t = s
    BY <1>0, InOnePlace DEF Accepted, ServicesInv
<1>7. \A t \in started : \A j \in 1..Len(backlog[t]) : backlog[t][j] # c
    BY <1>0, InOnePlace DEF ServicesInv
<1>8. ASSUME NEW t \in started
      PROVE  /\ \A j \in 1..Len(backlog'[t]) : Waits(backlog[t][j], t)' /\ ~Accepted(t, backlog[t][j])'
             /\ \A j, k \in 1..Len(backlog'[t]) : backlog'[t][j] = backlog'[t][k] => j = k
             /\ srv'[t].loop = "got" => Waits(conn[t], t)'
  <2>1. \A j \in 1..Len(backlog[t]) : Waits(backlog[t][j], t) /\ ~Accepted(t, backlog[t][j])
      BY DEF ServicesInv, PlaceInv
  <2>2. \A j \in 1..Len(backlog'[t]) : Waits(backlog[t][j], t)' /\ ~Accepted(t, backlog[t][j])'
      BY <1>2, <1>5, <2>1 DEF Waits, Accepted, servers
  <2>3. \A j, k \in 1..Len(backlog'[t]) : backlog'[t][j] = backlog'[t][k] => j = k
      BY <1>2 DEF ServicesInv, PlaceInv
  <2>4. ASSUME srv'[t].loop = "got" PROVE Waits(conn[t], t)'
    <3>1. t # s /\ srv[t].loop = "got" /\ conn'[t] = conn[t]
        BY <1>2, <2>4
    <3> QED
        BY <3>1 DEF Waits, servers, ServicesInv, PlaceInv
  <2> QED
      BY <2>2, <2>3, <2>4
<1>9. ASSUME NEW h \in serving'
      PROVE  IF h.deaf THEN shaky' /\ h.c \notin ViewClerk
             ELSE /\ ck'[h.c].pc = "wait" /\ h.op = ck'[h.c].op
                  /\ \A t \in started : ~Accepted(t, h.c)' /\ \A j \in 1..Len(backlog'[t]) : backlog'[t][j] # h.c
  <2>1. CASE h = Conn(s, FALSE)
    <3>1. h.c = c /\ h.op = ck[c].op /\ ~h.deaf
        BY <1>3, <2>1, Zenon
    <3>2. ck[c].pc = "wait"
        BY <1>1, ZenonT(30) DEF Waits
    <3>3. \A t \in started : ~Accepted(t, c)'
        BY <1>5, <1>6, ZenonT(30)
    <3> QED
        BY <1>2, <1>7, <3>1, <3>2, <3>3
  <2>2. CASE h \in serving
      BY <2>2, <1>2, <1>5 DEF ServicesInv, PlaceInv
  <2> QED
      BY <2>1, <2>2, Zenon
<1>10. backlog \in [started -> Seq(Clerk)]
    BY DEF ServicesInv, PlaceInv
<1> QED
    BY <1>2, <1>4, <1>8, <1>9, <1>10, Zenon DEF PlaceInv

LEMMA ServeStep == ASSUME ServicesInv, NEW s \in started, ServeConn(s) \/ ServeView(s) PROVE ServicesInv'
<1> DEFINE r == IF ServeConn(s) THEN [srv[s] EXCEPT !.loop = "test"]
                ELSE [srv[s] EXCEPT !.loop = "test", !.rpccount = @ + 1]
<1>1. /\ srv[s].loop = "got" /\ serving' = serving \cup {Conn(s, FALSE)} /\ Handled(s)
      /\ UNCHANGED <<ck, started, runs, shaky, reported>>
    BY Zenon DEF ServeConn, ServeView, Handled
<1>2. srv' = [srv EXCEPT ![s] = r]
  <2>1. CASE ServeConn(s)
    <3>1. srv' = [srv EXCEPT ![s].loop = "test"]
        BY <2>1, ZenonT(30) DEF ServeConn
    <3> QED
        BY <2>1, <3>1
  <2>2. CASE ~ServeConn(s)
    <3>1. srv' = [srv EXCEPT ![s].loop = "test", ![s].rpccount = @ + 1]
        BY <2>2, Zenon DEF ServeView
    <3>2. srv' = [srv EXCEPT ![s] = [srv[s] EXCEPT !.loop = "test", !.rpccount = @ + 1]]
        BY <3>1, Zenon
    <3> QED
        BY <2>2, <3>2
  <2> QED
      BY <2>1, <2>2
<1>3. DOMAIN srv[s] = Flags
    BY DEF ServicesInv, ServerInv
<1>4. /\ DOMAIN r = Flags /\ r.loop = "test"
      /\ r.kill = srv[s].kill /\ r.open = srv[s].open /\ r.dead = srv[s].dead /\ r.unreliable = srv[s].unreliable
  <2>1. CASE ServeConn(s)
    <3>1. r = [srv[s] EXCEPT !.loop = "test"]
        BY <2>1
    <3> HIDE DEF r
    <3> QED
        BY <1>3, <3>1 DEF Flags
  <2>2. CASE ~ServeConn(s)
    <3>1. r = [srv[s] EXCEPT !.loop = "test", !.rpccount = @ + 1]
        BY <2>2
    <3> HIDE DEF r
    <3> QED
        BY <1>3, <3>1 DEF Flags
  <2> QED
      BY <2>1, <2>2
<1> HIDE DEF r
<1>5. (r.kill = "half" \/ ~r.open) => r.dead
    BY <1>4, Zenon DEF ServicesInv, ServerInv
<1>6. (r.unreliable => shaky' /\ s # ViewServer) /\ QuietKill' /\ (shaky => shaky') /\ shaky' \in BOOLEAN
    BY <1>1, <1>4, Zenon DEF ServicesInv, ServerInv, QuietKill
<1>7. ServerInv' /\ srv'[s] = r /\ \A t \in started : t # s => srv'[t] = srv[t]
    BY <1>1, <1>2, <1>4, <1>5, <1>6, ServerChanges, Zenon DEF ServicesInv
<1>8. PlaceInv'
    BY <1>1, <1>4, <1>7, Served, Zenon
<1>9. ClerkInv'
    BY <1>1, ClerksSame DEF ServicesInv
<1> QED
    BY <1>7, <1>8, <1>9 DEF ServicesInv

-----------------------------------------------------------------------------
\* Only a server changes, and it accepts nothing.
LEMMA OnlyServer ==
    ASSUME ServicesInv, NEW s \in started, NEW r, srv' = [srv EXCEPT ![s] = r], DOMAIN r = Flags,
           (r.kill = "half" \/ ~r.open) => r.dead, r.unreliable => shaky' /\ s # ViewServer,
           shaky => shaky', shaky' \in BOOLEAN, QuietKill', r.loop = "got" => srv[s].loop = "got",
           UNCHANGED <<started, backlog, conn, serving, ck, runs>>
    PROVE  ServicesInv'
<1>1. ServerInv' /\ srv'[s] = r /\ \A t \in started : t # s => srv'[t] = srv[t]
    BY ServerChanges, Zenon DEF ServicesInv
<1>2. \A t \in started : srv'[t].loop = "got" => srv[t].loop = "got"
    BY <1>1
<1>3. /\ backlog \in [started -> Seq(Clerk)] /\ DOMAIN conn = started
      /\ serving \subseteq [c : Clerk, op : 1..MaxOps, deaf : BOOLEAN]
    BY DEF ServicesInv, PlaceInv
<1>4. PlaceInv'
    BY <1>2, <1>3, PlacesKept DEF ServicesInv
<1>5. ClerkInv'
    BY ClerksSame DEF ServicesInv
<1> QED
    BY <1>1, <1>4, <1>5 DEF ServicesInv

LEMMA IsdeadStep == ASSUME ServicesInv, NEW s \in started, Isdead(s) PROVE ServicesInv'
<1> DEFINE r == [srv[s] EXCEPT !.loop = IF srv[s].dead THEN "exit" ELSE "accept"]
<1>1. srv' = [srv EXCEPT ![s] = r] /\ UNCHANGED <<started, backlog, conn, serving, ck, runs, shaky, reported>>
    BY DEF Isdead
<1>2. DOMAIN srv[s] = Flags
    BY DEF ServicesInv, ServerInv
<1>3. /\ DOMAIN r = Flags /\ r.loop # "got"
      /\ r.kill = srv[s].kill /\ r.open = srv[s].open /\ r.dead = srv[s].dead /\ r.unreliable = srv[s].unreliable
    BY <1>2 DEF Flags
<1> HIDE DEF r
<1>4. (r.kill = "half" \/ ~r.open) => r.dead
    BY <1>3, Zenon DEF ServicesInv, ServerInv
<1>5. (r.unreliable => shaky' /\ s # ViewServer) /\ QuietKill' /\ (shaky => shaky') /\ shaky' \in BOOLEAN
    BY <1>1, <1>3, Zenon DEF ServicesInv, ServerInv, QuietKill
<1> QED
    BY <1>1, <1>3, <1>4, <1>5, OnlyServer, Zenon

\* An accept loop that finds its listener closed finds its server dead.
LEMMA AcceptErrorStep == ASSUME ServicesInv, NEW s \in started, AcceptError(s) PROVE ServicesInv'
<1> DEFINE r == [srv[s] EXCEPT !.dead = TRUE, !.loop = "test",
                               !.px = IF srv[s].dead THEN @ ELSE PaxosKill(@)]
<1>1. /\ srv' = [srv EXCEPT ![s] = r] /\ UNCHANGED <<started, backlog, conn, serving, ck, runs, shaky>>
      /\ ~srv[s].open /\ reported' = (reported \/ ~srv[s].dead)
    BY Zenon DEF AcceptError
<1>2. DOMAIN srv[s] = Flags
    BY DEF ServicesInv, ServerInv
<1>3. DOMAIN r = Flags /\ r.loop = "test" /\ r.dead = TRUE /\ r.unreliable = srv[s].unreliable
    BY <1>2 DEF Flags
<1> HIDE DEF r
<1>4. srv[s].dead
    BY <1>1, Zenon DEF ServicesInv, ServerInv
<1>5. QuietKill'
    BY <1>1, <1>4, Zenon DEF ServicesInv, ServerInv, QuietKill
<1>6. (r.unreliable => shaky' /\ s # ViewServer) /\ (shaky => shaky') /\ shaky' \in BOOLEAN
    BY <1>1, <1>3, Zenon DEF ServicesInv, ServerInv
<1> QED
    BY <1>1, <1>3, <1>5, <1>6, OnlyServer, Zenon

LEMMA SetunreliableStep == ASSUME ServicesInv, NEW s \in started, setunreliable(s) PROVE ServicesInv'
<1> DEFINE r == [srv[s] EXCEPT !.unreliable = ~@]
<1>1. /\ srv' = [srv EXCEPT ![s] = r] /\ UNCHANGED <<started, backlog, conn, serving, ck, runs, reported>>
      /\ shaky' = TRUE /\ s # ViewServer
    BY DEF setunreliable
<1>2. DOMAIN srv[s] = Flags
    BY DEF ServicesInv, ServerInv
<1>3. /\ DOMAIN r = Flags /\ r.loop = srv[s].loop
      /\ r.kill = srv[s].kill /\ r.open = srv[s].open /\ r.dead = srv[s].dead
    BY <1>2 DEF Flags
<1> HIDE DEF r
<1>4. (r.kill = "half" \/ ~r.open) => r.dead
    BY <1>3, Zenon DEF ServicesInv, ServerInv
<1>5. QuietKill' /\ shaky' /\ shaky' \in BOOLEAN
    BY <1>1, Zenon DEF ServicesInv, ServerInv, QuietKill
<1> QED
    BY <1>1, <1>3, <1>4, <1>5, OnlyServer, Zenon

LEMMA TickEndStep == ASSUME ServicesInv, NEW s \in started, TickEnd(s) PROVE ServicesInv'
<1> DEFINE r == [srv[s] EXCEPT !.tick = "off"]
<1>1. srv' = [srv EXCEPT ![s] = r] /\ UNCHANGED <<started, backlog, conn, serving, ck, runs, shaky, reported>>
    BY DEF TickEnd
<1>2. DOMAIN srv[s] = Flags
    BY DEF ServicesInv, ServerInv
<1>3. /\ DOMAIN r = Flags /\ r.loop = srv[s].loop
      /\ r.kill = srv[s].kill /\ r.open = srv[s].open /\ r.dead = srv[s].dead /\ r.unreliable = srv[s].unreliable
    BY <1>2 DEF Flags
<1> HIDE DEF r
<1>4. (r.kill = "half" \/ ~r.open) => r.dead
    BY <1>3, Zenon DEF ServicesInv, ServerInv
<1>5. (r.unreliable => shaky' /\ s # ViewServer) /\ QuietKill' /\ (shaky => shaky') /\ shaky' \in BOOLEAN
    BY <1>1, <1>3, Zenon DEF ServicesInv, ServerInv, QuietKill
<1> QED
    BY <1>1, <1>3, <1>4, <1>5, OnlyServer, Zenon

-----------------------------------------------------------------------------
\* The connection that was accepted is closed, discarded or served deaf: the call
\* has failed, and only a shard clerk's handler can still run.
LEMMA CallEnds ==
    ASSUME ServicesInv, NEW s \in started, srv[s].loop = "got",
           srv' = [srv EXCEPT ![s].loop = "test"], ck' = CallFailed({conn[s]}), Handled(s),
           serving' \subseteq [c : Clerk, op : 1..MaxOps, deaf : BOOLEAN],
           \A h \in serving' : h \in serving \/ (h.deaf /\ shaky /\ h.c \notin ViewClerk)
    PROVE  ServicesInv'
<1>0. PICK c : c = conn[s]
    OBVIOUS
<1>1. /\ UNCHANGED <<started, backlog, runs, shaky, reported>> /\ DOMAIN conn' = started
      /\ \A t \in started : t # s => conn'[t] = conn[t]
    BY DEF Handled, ServicesInv, PlaceInv
<1>2. /\ Waits(c, s)
      /\ \A t \in started : \A j \in 1..Len(backlog[t]) : backlog[t][j] # c
      /\ \A t \in started : srv[t].loop = "got" /\ conn[t] = c => t = s
      /\ \A h \in serving : ~h.deaf => h.c # c
    BY <1>0, InOnePlace DEF ServicesInv
<1>3. c \in Clerk /\ ck[c].pc # "idle"
    BY <1>2, ZenonT(30) DEF Waits
<1>4. ClerkInv' /\ \A d \in Clerk : d # c => ck'[d] = ck[d]
  <2>1. ck' = CallFailed({c})
      BY <1>0, ZenonT(30)
  <2>2. ClerkInv /\ UNCHANGED <<runs, shaky>>
      BY <1>1, ZenonT(30) DEF ServicesInv
  <2>3. {c} \in SUBSET Clerk /\ \A d \in {c} : ck[d].pc # "idle"
      BY <1>3, ZenonT(30)
  <2>4. ClerkInv' /\ \A d \in Clerk : d \notin {c} => ck'[d] = ck[d]
      BY <2>1, <2>2, <2>3, ClerksFail, ZenonT(30)
  <2> QED
      BY <2>4, ZenonT(30)
<1>5. ServerInv' /\ srv'[s].loop = "test" /\ \A t \in started : t # s => srv'[t] = srv[t]
    BY <1>1, LoopMoves, Zenon DEF ServicesInv
<1>6. PlaceInv
    BY DEF ServicesInv
<1>7. backlog' \in [started -> Seq(Clerk)]
    BY <1>1, <1>6 DEF PlaceInv
<1>8. \A t \in started : srv'[t].loop = "got" => srv[t].loop = "got" /\ conn'[t] = conn[t] /\ t # s
    BY <1>1, <1>5
<1>9. \A t \in started : \A j \in 1..Len(backlog'[t]) : ck'[backlog'[t][j]] = ck[backlog'[t][j]]
    BY <1>1, <1>2, <1>4, <1>6, PlacesHoldClerks, Zenon
<1>10. \A t \in started : srv'[t].loop = "got" => ck'[conn[t]] = ck[conn[t]]
    BY <1>2, <1>4, <1>6, <1>8, PlacesHoldClerks, Zenon
<1>11. \A h \in serving' : ~h.deaf => ck'[h.c] = ck[h.c]
    BY <1>2, <1>4, <1>6, PlacesHoldClerks, Zenon
<1>12. PlaceInv'
    BY <1>1, <1>6, <1>7, <1>8, <1>9, <1>10, <1>11, PlacesKept, Zenon
<1> QED
    BY <1>4, <1>5, <1>12 DEF ServicesInv

LEMMA CloseStep == ASSUME ServicesInv, NEW s \in started, CloseDead(s) \/ Discard(s) PROVE ServicesInv'
<1>1. /\ srv[s].loop = "got" /\ srv' = [srv EXCEPT ![s].loop = "test"] /\ ck' = CallFailed({conn[s]})
      /\ Handled(s) /\ UNCHANGED serving
    BY DEF CloseDead, Discard
<1>2. serving \subseteq [c : Clerk, op : 1..MaxOps, deaf : BOOLEAN]
    BY DEF ServicesInv, PlaceInv
<1> QED
    BY <1>1, <1>2, CallEnds, Zenon

LEMMA ServeDeafStep == ASSUME ServicesInv, NEW s \in started, ServeDeaf(s) PROVE ServicesInv'
<1>0. PICK c : c = conn[s]
    OBVIOUS
<1>1. /\ srv[s].loop = "got" /\ srv' = [srv EXCEPT ![s].loop = "test"] /\ ck' = CallFailed({conn[s]})
      /\ Handled(s) /\ srv[s].unreliable /\ serving' = serving \cup {Conn(s, TRUE)}
    BY DEF ServeDeaf
<1>2. Waits(c, s)
    BY <1>0, <1>1, InOnePlace DEF ServicesInv
<1>3. c \in Clerk /\ ck[c].op \in 1..MaxOps
    BY <1>2, ClerkAssumption DEF Waits, ServicesInv, ClerkInv, ClerkState
<1>4. /\ Conn(s, TRUE) \in [c : Clerk, op : 1..MaxOps, deaf : BOOLEAN]
      /\ Conn(s, TRUE).c = c /\ Conn(s, TRUE).deaf = TRUE
    BY <1>0, <1>3, ConnRecord, Zenon
<1>5. shaky /\ s # ViewServer
    BY <1>1, Zenon DEF ServicesInv, ServerInv
<1>6. c \notin ViewClerk
  <2> SUFFICES ASSUME c \in ViewClerk PROVE FALSE
      OBVIOUS
  <2>1. servers(c) = <<ViewServer>> /\ ck[c].k = 1
      BY <1>3, ClerkAssumption DEF servers, ServicesInv, ClerkInv
  <2>2. <<ViewServer>>[1] = ViewServer
      OBVIOUS
  <2> QED
      BY <1>2, <1>5, <2>1, <2>2 DEF Waits
<1>7. serving' \subseteq [c : Clerk, op : 1..MaxOps, deaf : BOOLEAN]
    BY <1>1, <1>4, Zenon DEF ServicesInv, PlaceInv
<1>8. \A h \in serving' : h \in serving \/ (h.deaf /\ shaky /\ h.c \notin ViewClerk)
    BY <1>1, <1>4, <1>5, <1>6, Zenon
<1> QED
    BY <1>1, <1>7, <1>8, CallEnds, Zenon

-----------------------------------------------------------------------------
LEMMA SameConn ==
    ASSUME NEW g \in [c : Clerk, op : 1..MaxOps, deaf : BOOLEAN],
           NEW h \in [c : Clerk, op : 1..MaxOps, deaf : BOOLEAN],
           g.c = h.c, g.op = h.op, ~g.deaf, ~h.deaf
    PROVE  g = h
<1>1. g = [c |-> g.c, op |-> g.op, deaf |-> g.deaf] /\ h = [c |-> h.c, op |-> h.op, deaf |-> h.deaf]
    OBVIOUS
<1>2. g.deaf = h.deaf
    BY Zenon
<1> QED
    BY <1>1, <1>2, Zenon

\* Some connections lose their goroutine, and the clerks of the others stay.
LEMMA FewerServing ==
    ASSUME ServicesInv, UNCHANGED <<started, srv, backlog, conn, shaky, reported>>, ClerkInv',
           NEW h \in serving, serving' = serving \ {h},
           \A d \in Clerk : d # h.c \/ h.deaf => ck'[d] = ck[d]
    PROVE  ServicesInv'
<1>1. PlaceInv /\ ServerInv'
    BY ServersSame DEF ServicesInv
<1>2. serving \subseteq [c : Clerk, op : 1..MaxOps, deaf : BOOLEAN]
    BY <1>1 DEF PlaceInv
<1>3. ~h.deaf => /\ ck[h.c].pc = "wait" /\ h.op = ck[h.c].op
                 /\ \A t \in started : ~Accepted(t, h.c) /\ \A j \in 1..Len(backlog[t]) : backlog[t][j] # h.c
    BY <1>1 DEF PlaceInv
<1>4. \A t \in started : \A j \in 1..Len(backlog[t]) : ck'[backlog[t][j]] = ck[backlog[t][j]]
    BY <1>1, <1>3, PlacesHoldClerks
<1>5. \A t \in started : srv[t].loop = "got" => ck'[conn[t]] = ck[conn[t]]
    BY <1>1, <1>3, PlacesHoldClerks DEF Accepted
<1>6. ASSUME NEW g \in serving', ~g.deaf PROVE ck'[g.c] = ck[g.c]
  <2>1. g \in serving /\ g # h /\ g.c \in Clerk
      BY <1>1, PlacesHoldClerks
  <2>2. g.op = ck[g.c].op
      BY <1>1, <1>6, <2>1 DEF PlaceInv
  <2>3. g.c # h.c \/ h.deaf
      BY <1>2, <1>3, <1>6, <2>1, <2>2, SameConn
  <2> QED
      BY <2>1, <2>3
<1>7. PlaceInv'
  <2>1. backlog \in [started -> Seq(Clerk)] /\ DOMAIN conn = started
      BY <1>1, Zenon DEF PlaceInv
  <2> QED
      BY <1>1, <1>2, <1>4, <1>5, <1>6, <2>1, PlacesKept
<1> QED
    BY <1>1, <1>7 DEF ServicesInv

LEMMA HandlerStep == ASSUME ServicesInv, NEW h \in serving, Handler(h) PROVE ServicesInv'
<1>1. /\ serving' = serving \ {h} /\ runs' = [runs EXCEPT ![h.c][h.op] = More(@)]
      /\ ck' = IF h.deaf THEN ck ELSE CallReturned(h.c)
      /\ UNCHANGED <<started, srv, backlog, conn, shaky, reported>>
    BY DEF Handler
<1>2. h.c \in Clerk /\ h.op \in 1..MaxOps
    BY PlacesHoldClerks DEF ServicesInv
<1>3. CASE h.deaf
  <2>1. shaky /\ h.c \notin ViewClerk
      BY <1>3, Zenon DEF ServicesInv, PlaceInv
  <2>2. ck' = ck
      BY <1>1, <1>3
  <2>3. ClerkInv'
      BY <1>1, <1>2, <2>1, <2>2, ClerkUntold, Zenon DEF ServicesInv
  <2> QED
      BY <1>1, <2>2, <2>3, FewerServing
<1>4. CASE ~h.deaf
  <2>1. ck[h.c].pc = "wait" /\ h.op = ck[h.c].op
      BY <1>4 DEF ServicesInv, PlaceInv
  <2>2. ck' = CallReturned(h.c)
      BY <1>1, <1>4
  <2>3. runs' = [runs EXCEPT ![h.c][ck[h.c].op] = More(@)]
      BY <1>1, <2>1
  <2>4. ClerkInv' /\ \A d \in Clerk : d # h.c => ck'[d] = ck[d]
      BY <1>1, <1>2, <2>1, <2>2, <2>3, ClerkReturns, Zenon DEF ServicesInv
  <2> QED
      BY <1>1, <1>4, <2>4, FewerServing
<1> QED
    BY <1>3, <1>4

LEMMA UnsentStep == ASSUME ServicesInv, NEW h \in serving, Unsent(h) PROVE ServicesInv'
<1>1. /\ serving' = serving \ {h}
      /\ UNCHANGED <<started, srv, backlog, conn, ck, runs, shaky, reported>>
    BY DEF Unsent
<1>2. ClerkInv'
    BY <1>1, ClerksSame DEF ServicesInv
<1> QED
    BY <1>1, <1>2, FewerServing

-----------------------------------------------------------------------------
\* Kill sets dead,
LEMMA KillDeadStep ==
    ASSUME ServicesInv, NEW s \in started,
           srv' = [srv EXCEPT ![s].dead = TRUE, ![s].kill = "half"],
           UNCHANGED <<started, backlog, conn, serving, ck, runs, shaky, reported>>
    PROVE  ServicesInv'
<1> DEFINE r == [srv[s] EXCEPT !.dead = TRUE, !.kill = "half"]
<1>1. srv' = [srv EXCEPT ![s] = r]
    BY Zenon
<1>2. DOMAIN srv[s] = Flags
    BY DEF ServicesInv, ServerInv
<1>3. DOMAIN r = Flags /\ r.loop = srv[s].loop /\ r.dead = TRUE /\ r.unreliable = srv[s].unreliable
    BY <1>2 DEF Flags
<1> HIDE DEF r
<1>4. (r.unreliable => shaky' /\ s # ViewServer) /\ QuietKill' /\ (shaky => shaky') /\ shaky' \in BOOLEAN
    BY <1>3, Zenon DEF ServicesInv, ServerInv, QuietKill
<1> QED
    BY <1>1, <1>3, <1>4, OnlyServer, Zenon

\* and then closes the listener, which resets the connections in its backlog:
\* their clerks are nowhere else.
LEMMA KillCloseStep ==
    ASSUME ServicesInv, NEW s \in started, srv[s].kill = "half",
           srv' = [srv EXCEPT ![s].open = FALSE, ![s].kill = "done", ![s].px = PaxosKill(@)],
           Close(s), UNCHANGED <<started, conn, serving, runs, shaky, reported>>
    PROVE  ServicesInv'
<1> DEFINE r == [srv[s] EXCEPT !.open = FALSE, !.kill = "done", !.px = PaxosKill(@)]
           C == Range(backlog[s])
<1>1. srv' = [srv EXCEPT ![s] = r]
    BY Zenon
<1>2. DOMAIN srv[s] = Flags
    BY DEF ServicesInv, ServerInv
<1>3. DOMAIN r = Flags /\ r.loop = srv[s].loop /\ r.dead = srv[s].dead /\ r.unreliable = srv[s].unreliable
    BY <1>2 DEF Flags
<1> HIDE DEF r
<1>4. (r.unreliable => shaky' /\ s # ViewServer) /\ QuietKill' /\ (shaky => shaky') /\ shaky' \in BOOLEAN
    BY <1>3, Zenon DEF ServicesInv, ServerInv, QuietKill
<1>5. r.dead
    BY <1>3, Zenon DEF ServicesInv, ServerInv
<1>6. ServerInv' /\ srv'[s] = r /\ \A t \in started : t # s => srv'[t] = srv[t]
    BY <1>1, <1>3, <1>4, <1>5, ServerChanges, Zenon DEF ServicesInv
<1>7. PlaceInv /\ backlog[s] \in Seq(Clerk)
    BY ZenonT(30) DEF ServicesInv, PlaceInv
<1>8. \A c \in C : \E j \in 1..Len(backlog[s]) : c = backlog[s][j]
    BY <1>7 DEF Range
<1>9. \A c \in C : /\ Waits(c, s) /\ ~Accepted(s, c)
                    /\ \A h \in serving : ~h.deaf => h.c # c
    BY <1>7, <1>8 DEF PlaceInv
<1>10. /\ ck' = CallFailed(C) /\ backlog' \in [started -> Seq(Clerk)] /\ backlog'[s] = <<>>
       /\ \A t \in started : t # s => backlog'[t] = backlog[t]
  <2>1. backlog' = [backlog EXCEPT ![s] = <<>>] /\ <<>> \in Seq(Clerk)
      BY DEF Close
  <2> QED
      BY <1>7, <2>1 DEF Close, PlaceInv
<1> HIDE DEF C
<1>11. C \in SUBSET Clerk /\ \A c \in C : ck[c].pc # "idle"
    BY <1>9 DEF Waits
<1>12. ClerkInv' /\ \A c \in Clerk : c \notin C => ck'[c] = ck[c]
    BY <1>10, <1>11, ClerksFail DEF ServicesInv
<1>13. ASSUME NEW t \in started, NEW j \in 1..Len(backlog'[t])
       PROVE  ck'[backlog'[t][j]] = ck[backlog'[t][j]]
  <2>1. t # s /\ backlog'[t] = backlog[t]
    <3>1. 1..Len(<<>>) = {}
        OBVIOUS
    <3> QED
        BY <1>10, <3>1, ZenonT(30)
  <2>2. Waits(backlog[t][j], t)
      BY <1>7, <2>1 DEF PlaceInv
  <2>3. backlog[t][j] \notin C
      BY <1>9, <2>1, <2>2, ZenonT(30) DEF Waits
  <2> QED
      BY <1>12, <2>1, <2>2, <2>3, ZenonT(30) DEF Waits
<1>14. ASSUME NEW t \in started, srv'[t].loop = "got"
       PROVE  srv[t].loop = "got" /\ ck'[conn[t]] = ck[conn[t]]
  <2>1. srv[t].loop = "got"
      BY <1>3, <1>6, <1>14, Zenon
  <2>2. Waits(conn[t], t)
      BY <1>7, <2>1 DEF PlaceInv
  <2>3. conn[t] \notin C
      BY <1>9, <2>1, <2>2 DEF Waits, Accepted
  <2> QED
      BY <1>12, <2>1, <2>2, <2>3 DEF Waits
<1>15. \A h \in serving : ~h.deaf => ck'[h.c] = ck[h.c]
    BY <1>7, <1>9, <1>12, PlacesHoldClerks
<1>16. PlaceInv'
  <2>1. DOMAIN conn = started /\ serving \subseteq [c : Clerk, op : 1..MaxOps, deaf : BOOLEAN]
      BY <1>7 DEF PlaceInv
  <2> QED
      BY <1>7, <1>10, <1>13, <1>14, <1>15, <2>1, PlacesKept, Zenon
<1> QED
    BY <1>6, <1>12, <1>16 DEF ServicesInv

-----------------------------------------------------------------------------
INSTANCE FiniteSetTheorems

\* No clerk begins more than MaxOps operations.
LEMMA RoomForOne ==
    ASSUME ServicesInv, NEW c \in Clerk, Cardinality(Begun) < MaxOps
    PROVE  ck[c].op < MaxOps
<1> SUFFICES ASSUME ck[c].op >= MaxOps PROVE FALSE
    BY ClerkAssumption DEF ServicesInv, ClerkInv, ClerkState
<1> DEFINE Mine == {c} \X (1..MaxOps)
<1>1. IsFiniteSet({c}) /\ Cardinality({c}) = 1
    BY FS_Singleton, ZenonT(30)
<1>2. IsFiniteSet(1..MaxOps) /\ Cardinality(1..MaxOps) = MaxOps
    BY FS_Interval, ClerkAssumption
<1>3. IsFiniteSet(Mine) /\ Cardinality(Mine) = Cardinality({c}) * Cardinality(1..MaxOps)
    BY <1>1, <1>2, FS_Product, Zenon
<1>4. Cardinality(Mine) = MaxOps
    BY <1>1, <1>2, <1>3, ClerkAssumption
<1>5. IsFiniteSet(Clerk \X (1..MaxOps))
    BY <1>2, ClerkAssumption, FS_Product, Zenon
<1>6. IsFiniteSet(Begun)
    BY <1>5, FS_Subset DEF Begun
<1>7. Mine \subseteq Begun
    BY ClerkAssumption DEF Begun, ServicesInv, ClerkInv, ClerkState
<1>8. Cardinality(Mine) <= Cardinality(Begun)
    BY <1>6, <1>7, FS_Subset
<1> QED
    BY <1>4, <1>6, <1>8, FS_CardinalityType, ClerkAssumption

\* The next operation of a clerk has not run.
LEMMA ClerkBegins ==
    ASSUME ServicesInv, NEW c \in Clerk, Begin(c)
    PROVE  ClerkInv' /\ \A d \in Clerk : d # c => ck'[d] = ck[d]
<1> DEFINE r == [ck[c] EXCEPT !.pc = "call", !.k = 1, !.op = ck[c].op + 1]
<1> USE ClerkAssumption
<1>1. ck[c] \in ClerkState /\ ck[c].pc = "idle" /\ ck[c].op + 1 \in 1..MaxOps
    BY RoomForOne DEF Begin, ServicesInv, ClerkInv, ClerkState
<1>2. r \in ClerkState
  <2>1. ck[c].op + 1 \in 0..MaxOps /\ 1 \in Nat
      BY <1>1
  <2> QED
      BY <1>1, <2>1, Zenon DEF ClerkState
<1>3. r.pc = "call" /\ r.k = 1 /\ r.op = ck[c].op + 1 /\ r.ok = ck[c].ok /\ r.failed = ck[c].failed
    BY <1>1 DEF ClerkState
<1>4. ck' = [ck EXCEPT ![c] = r] /\ UNCHANGED <<runs, shaky>>
    BY Zenon DEF Begin
<1> HIDE DEF r
<1>5. ck' \in [Clerk -> ClerkState] /\ ck'[c] = r /\ \A d \in Clerk : d # c => ck'[d] = ck[d]
    BY <1>2, <1>4 DEF ServicesInv, ClerkInv
<1>6. \A d \in Clerk : /\ ck'[d].ok = ck[d].ok /\ ck'[d].failed = ck[d].failed
                       /\ ck'[d].pc # "idle" => ck'[d].op # 0
                       /\ d \in ViewClerk => ck'[d].k = 1
    BY <1>1, <1>3, <1>5 DEF ServicesInv, ClerkInv
<1>7. \A d \in Clerk, o \in 1..MaxOps : Unrun(d, o)' => Unrun(d, o)
  <2> SUFFICES ASSUME NEW o \in 1..MaxOps, Unrun(c, o)' PROVE Unrun(c, o)
      BY <1>5 DEF Unrun
  <2> QED
      BY <1>1, <1>3, <1>5 DEF Unrun, ClerkState
<1>8. \A d \in Clerk : \A o \in ck'[d].failed : ~Unrun(d, o)'
  <2> SUFFICES ASSUME NEW d \in Clerk, NEW o \in ck'[d].failed PROVE ~Unrun(d, o)'
      OBVIOUS
  <2>1. o \in 1..MaxOps /\ o \in ck[d].failed
      BY <1>5, <1>6 DEF ClerkState
  <2> QED
      BY <2>1, <1>7 DEF ServicesInv, ClerkInv
<1>9. ReturnedRan' /\ FailedPingNotRun'
    BY <1>4, <1>6 DEF ServicesInv, ClerkInv, ReturnedRan, FailedPingNotRun, Clerk
<1> QED
    BY <1>4, <1>5, <1>6, <1>7, <1>8, <1>9 DEF ServicesInv, ClerkInv

LEMMA BeginStep == ASSUME ServicesInv, NEW c \in Clerk, Begin(c) PROVE ServicesInv'
<1>1. ClerkInv' /\ \A d \in Clerk : d # c => ck'[d] = ck[d]
    BY ClerkBegins
<1>2. ck[c].pc # "wait" /\ UNCHANGED <<started, srv, backlog, conn, serving, shaky, reported>>
    BY DEF Begin
<1>3. PlaceInv'
    BY <1>1, <1>2, PlacesSame DEF ServicesInv
<1>4. ServerInv'
    BY <1>2, ServersSame DEF ServicesInv
<1> QED
    BY <1>1, <1>3, <1>4 DEF ServicesInv

-----------------------------------------------------------------------------
LEMMA ServicesStep == ServicesInv /\ [Next]_vars => ServicesInv'
<1> SUFFICES ASSUME ServicesInv, [Next]_vars PROVE ServicesInv'
    OBVIOUS
<1>1. CASE UNCHANGED vars
  <2>1. UNCHANGED <<started, srv, backlog, conn, serving, ck, runs, shaky, reported>>
      BY <1>1 DEF vars
  <2>2. ClerkInv' /\ ServerInv'
      BY <2>1, ClerksSame, ServersSame DEF ServicesInv
  <2>3. /\ backlog \in [started -> Seq(Clerk)] /\ DOMAIN conn = started
        /\ serving \subseteq [c : Clerk, op : 1..MaxOps, deaf : BOOLEAN]
      BY DEF ServicesInv, PlaceInv
  <2>4. PlaceInv'
      BY <2>1, <2>3, PlacesKept DEF ServicesInv
  <2> QED
      BY <2>2, <2>4 DEF ServicesInv
<1>2. CASE \E c \in Clerk : Begin(c)
    BY <1>2, BeginStep
<1>3. CASE \E c \in Clerk : Dial(c)
    BY <1>3, DialStep
<1>4. CASE \E s \in started : Loop(s)
  <2> PICK s \in started : Loop(s)
      BY <1>4
  <2> QED
      BY IsdeadStep, AcceptStep, AcceptErrorStep, CloseStep, ServeDeafStep, ServeStep DEF Loop
<1>5. CASE \E s \in started : Kill(s)
    BY <1>5, KillDeadStep, KillCloseStep, Zenon DEF Kill
<1>6. CASE \E s \in started : setunreliable(s) \/ TickEnd(s)
    BY <1>6, SetunreliableStep, TickEndStep
<1>7. CASE \E h \in serving : Handler(h) \/ Unsent(h)
    BY <1>7, HandlerStep, UnsentStep
<1> QED
    BY <1>1, <1>2, <1>3, <1>4, <1>5, <1>6, <1>7
    DEF Next, Query, Join, Leave, Move, Operation, Ping, Get, Primary, Once

LEMMA ServicesInvariant == Spec => []ServicesInv
BY ServicesInit, ServicesStep, PTL DEF Spec

\* Whatever servers are killed or unreliable, for any number of servers and
\* clerks: an operation that call has reported as done has run at a server.
THEOREM ReturnedOperationsRan == Spec => []ReturnedRan
<1>1. ServicesInv => ReturnedRan
    BY DEF ServicesInv, ClerkInv
<1> QED
    BY <1>1, ServicesInvariant, PTL

\* The retries of the shard master's clerk run no operation twice as long as no
\* server is unreliable: Kill and the accept loop of a dead server drop only
\* connections that have not been served.
THEOREM RetriesAreSafe == Spec => []OnceIfReliable
<1>1. ServicesInv => OnceIfReliable
    BY DEF ServicesInv, ClerkInv, OnceIfReliable
<1> QED
    BY <1>1, ServicesInvariant, PTL

\* A Ping or Get for which call has returned false has not run at the view
\* server, and never will.
THEOREM FailedPingsNeverRun == Spec => []FailedPingNotRun
<1>1. ServicesInv => FailedPingNotRun
    BY DEF ServicesInv, ClerkInv
<1> QED
    BY <1>1, ServicesInvariant, PTL

\* Kill sets dead before it closes the listener, so no accept loop reports the
\* error that closing it causes.
THEOREM KillIsQuiet == Spec => []QuietKill
<1>1. ServicesInv => QuietKill
    BY DEF ServicesInv, ServerInv
<1> QED
    BY <1>1, ServicesInvariant, PTL
=============================================================================
