-------------------------- MODULE KVHarnessProofs ---------------------------
(***************************************************************************)
(* Proofs about KVHarness, for any odd number of servers, any number of    *)
(* clients, iterations and calls.  The invariant says, for every point the *)
(* test's goroutine can be at, which servers are up and exactly which of   *)
(* their ends are enabled; the six invariants that the run checks follow.  *)
(***************************************************************************)
EXTENDS KVHarness, TLAPS

\* The ends of the current incarnations between the servers of S.
Ends(S) == {<<a, gen[a], b>> : a, b \in S}

\* The points of the test at which servers start, or shut down.
Starting == {"start", "serve", "connect"}
Stopping == {"shut", "delete", "copy", "kill"}
Running == {"client", "iterate", "go", "sleep", "join", "heal", "wait", "cleanup", "passed",
            "choose", "cut", "ckp1", "ckp2a", "ckp2b", "check", "mend", "free", "free2"}

\* The points of TestOnePartition at which the network is cut.
Divided == {"ckp1", "ckp2a", "ckp2b", "check", "mend"}

\* The points after that, and the end of every test.
Late == {"free", "free2", "cleanup", "passed"}

\* The clerks' ends, and the calls over an end.
ClerkEnds == ({"ck", "ckp1", "ckp2a", "ckp2b", "client"} \X Nat \X Nat) \X Server
CallRecord ==
    [end : (Server \X Nat \X Server) \cup ClerkEnds, inst : Nat, w : Nat, st : {"run", "saved"}]

HarnessTypes ==
    /\ test \in [name : {"generic", "onepartition"}, partitions : BOOLEAN, crash : BOOLEAN]
    /\ gen \in [Server -> Nat] /\ servers \in [Server -> Nat] /\ kvservers \in [Server -> Nat]
    /\ cends \subseteq ClerkEnds /\ calls \subseteq CallRecord
    /\ disk \in [Server -> Seq(SUBSET Nat)] /\ saved \in [Server -> Nat]
    /\ holds \in [Server -> Seq(Nat)] /\ acked \in [Server -> SUBSET Nat] /\ writes \in Nat
    /\ pc \in Starting \cup Stopping \cup Running \cup {"exited"}
    /\ i \in Nat /\ iter \in Nat

\* Every server is in one of two groups.
Groups(p) ==
    /\ p \in Seq(Server) \X Seq(Server) /\ Len(p[1]) <= N /\ Len(p[2]) <= N
    /\ Range(p[1]) \cup Range(p[2]) = Server /\ Range(p[1]) \cap Range(p[2]) = {}

\* The ends within each group.
GroupEnds(p) == Ends(Range(p[1])) \cup Ends(Range(p[2]))

\* Every Persister an instance was given is one of server s, and saved[s] is the last.
StoreInv ==
    \A s \in Server :
        /\ saved[s] = Len(disk[s])
        /\ \A k \in DOMAIN holds[s] : holds[s][k] \in DOMAIN disk[s]
        /\ acked[s] # {} => saved[s] # 0 /\ acked[s] \subseteq disk[s][saved[s]]

\* The instance registered is the last one, and it writes to saved[s].
Registered ==
    \A s \in Server :
        servers[s] # 0 => /\ servers[s] \in DOMAIN holds[s]
                          /\ saved[s] = holds[s][servers[s]]

\* A call runs in an instance that was registered, and writes before it answers.
CallInv ==
    \A c \in calls :
        /\ c.inst \in DOMAIN holds[To(c.end)]
        /\ c.st = "saved" => c.w \in disk[To(c.end)][holds[To(c.end)][c.inst]]

\* StartServer has set saved[i] before it starts the instance.
Given == pc = "serve" => saved[i] # 0

Up(s) == kvservers[s] = gen[s] /\ servers[s] = gen[s] /\ gen[s] # 0 /\ Len(holds[s]) = gen[s]
Down(s) == kvservers[s] = 0 /\ servers[s] = 0 /\ Len(holds[s]) = gen[s]

\* Which servers are up, by where the test's goroutine is.
ServersInv ==
    \A s \in Server :
        /\ pc = "start" => IF s < i THEN Up(s) ELSE Down(s)
        /\ pc = "serve" =>
            /\ s < i => Up(s)
            /\ s = i => kvservers[s] = 0 /\ servers[s] = 0 /\ Len(holds[s]) + 1 = gen[s]
            /\ s > i => Down(s)
        /\ pc \in {"shut", "delete"} => IF s < i THEN Down(s) ELSE Up(s)
        /\ pc \in {"copy", "kill"} =>
            /\ s < i => Down(s)
            /\ s = i => kvservers[s] = gen[s] /\ servers[s] = 0 /\ gen[s] # 0 /\ Len(holds[s]) = gen[s]
            /\ s > i => Up(s)
        /\ pc \in Running \cup {"connect"} => Up(s)

\* Which ends are enabled.
EndsInv ==
    /\ pc \in Starting => enabled = {}
    /\ pc = "shut" => enabled = Ends({s \in Server : s >= i})
    /\ pc \in Stopping \ {"shut"} => enabled = Ends({s \in Server : s > i})
    /\ pc \in Running \ {"cut"} => enabled = GroupEnds(sides)
    /\ pc = "cut" => enabled = Ends(Server)

\* The loop variable, and where the network is whole.
LoopInv ==
    /\ pc \in Starting \cup Stopping => i \in Server
    /\ pc \in {"connect", "client", "iterate", "go", "sleep", "join", "heal"} => i = 0
    /\ pc = "wait" => i < NClients
    /\ pc = "client" => iter = 0
    /\ part # "none" => pc \in {"sleep", "join"} /\ test.partitions
    /\ pc \in {"go", "join", "heal"} => test.partitions
    /\ pc = "cut" => i \in Server /\ sides = make_partition(i)
    /\ \/ sides = Whole
       \/ pc \in {"sleep", "join", "heal"} /\ test.partitions
       \/ pc \in Divided \cup {"cut", "cleanup", "passed"}

\* A clerk made for one group has no end to the other while the network is cut.
ClerkInv ==
    \A k \in DOMAIN SideOf : \A s \in Server :
        <<Named(k), s>> \in cends =>
            \/ pc \in Late
            \/ pc \in Divided /\ s \in Range(sides[SideOf[k]])

\* The clients that may still read done_clients or send their count.
Early == {c \in clnt : c.st \in {"spawn", "run", "report"}}

\* The clients still to count are those the test has not waited for.
ClientInv ==
    /\ \A c \in clnt : c \in [it : 1..iter, me : Client,
                              st : {"spawn", "run", "report", "delete", "signal"}]
    /\ \A c, d \in clnt : c.it = d.it /\ c.me = d.me => c = d
    /\ \A c \in Early : c.it = iter
    /\ pc = "iterate" => Early = {}
    /\ pc = "wait" => \A c \in Early : c.me >= i

\* What holds wherever the test's goroutine is, what holds until a client ends
\* the process, and what is left of it then.
HarnessInv ==
    /\ HarnessTypes /\ Groups(sides) /\ StoreInv /\ Registered /\ CallInv
    /\ Alive => ServersInv /\ EndsInv /\ LoopInv /\ Given /\ ClerkInv /\ ClientInv
    /\ ~Alive => ZombiesSilent /\ ClientsOfThisIteration

\* The provers of every leaf, after the one it names.
USE ZenonT(30), SMTT(45), SMTT(60)

-----------------------------------------------------------------------------
(* The operations on the network. *)

LEMMA FunctionSeq ==
    ASSUME NEW S, NEW n \in Nat, NEW f \in [1..n -> S]
    PROVE  f \in Seq(S) /\ Len(f) = n
  BY SMTT(30)

\* No sequence has an element 0, and none is empty once something is appended.
LEMMA SeqBounds ==
    ASSUME NEW S, NEW q \in Seq(S)
    PROVE  (\A k \in DOMAIN q : k # 0) /\ (\A e : Len(Append(q, e)) # 0)
  BY SMTT(30)

\* Where OnePartition goes after it has made a clerk for one side.
LEMMA AfterSide == \A p \in DOMAIN SideOf : After[p] \in {"ckp2a", "ckp2b", "check"}
  BY SMTT(30) DEF SideOf, After

\* cfg.All() lists every server.
LEMMA AllServers ==
    /\ All \in Seq(Server) /\ DOMAIN All = 1..N /\ Range(All) = Server /\ Len(All) = N
    /\ \A s \in Server : s + 1 \in DOMAIN All /\ All[s + 1] = s
<1>1. /\ All \in [1..N -> Server] /\ DOMAIN All = 1..N
      /\ \A s \in Server : s + 1 \in DOMAIN All /\ All[s + 1] = s
  BY NAssumption, SMTT(30) DEF All, Server
<1>2. All \in Seq(Server) /\ Len(All) = N
  BY <1>1, NAssumption, SMTT(30)
<1>3. Range(All) = Server
  BY <1>1, SMTT(30) DEF Range
<1> QED
  BY <1>1, <1>2, <1>3

\* Which ends are those between the servers of S.
LEMMA EndOf ==
    ASSUME NEW S, NEW e, e \in Ends(S)
    PROVE  \E a, b \in S : e = <<a, gen[a], b>>
  BY SMTT(30) DEF Ends

LEMMA EndBetween ==
    ASSUME NEW S, NEW a, NEW b
    PROVE  <<a, gen[a], b>> \in Ends(S) <=> a \in S /\ b \in S
  BY SMTT(30) DEF Ends

\* The servers of a list joined with each other: all the ends between them.
LEMMA JoinedEnds ==
    ASSUME NEW p
    PROVE  UNION {Joined(p[j], p) : j \in DOMAIN p} = Ends(Range(p))
<1>1. ASSUME NEW e \in UNION {Joined(p[j], p) : j \in DOMAIN p}
      PROVE  e \in Ends(Range(p))
  BY <1>1, SMTT(30) DEF Joined, Ends, Range
<1>2. ASSUME NEW e \in Ends(Range(p))
      PROVE  e \in UNION {Joined(p[j], p) : j \in DOMAIN p}
  <2>1. PICK a, b \in Range(p) : e = <<a, gen[a], b>>
    BY <1>2, SMTT(30) DEF Ends
  <2>2. PICK j, k \in DOMAIN p : a = p[j] /\ b = p[k]
    BY DEF Range
  <2>3. e \in Joined(p[j], p)
    BY <2>1, <2>2 DEF Joined
  <2> QED
    BY <2>3
<1> QED
  BY <1>1, <1>2

\* The ends between the servers of two sets.
Between(S, T) == {<<a, gen[a], b>> : a \in S, b \in T} \cup {<<b, gen[b], a>> : a \in S, b \in T}

\* The servers of one list parted from those of another, when every server has
\* its names: the test of endnames[j] lets every end through.
LEMMA PartedEnds ==
    ASSUME NEW p, NEW q \in Seq(Server), Len(q) <= N, \A s \in Server : gen[s] # 0
    PROVE  UNION {Parted(p[j], q) : j \in DOMAIN p} = Between(Range(p), Range(q))
<1>1. {k \in DOMAIN q : gen[k - 1] # 0} = DOMAIN q
  <2>1. ASSUME NEW k \in DOMAIN q
        PROVE  k - 1 \in Server
    BY NAssumption, SMTT(30) DEF Server
  <2> QED
    BY <2>1
<1>2. ASSUME NEW e \in UNION {Parted(p[j], q) : j \in DOMAIN p}
      PROVE  e \in Between(Range(p), Range(q))
  <2>1. PICK j \in DOMAIN p : e \in Parted(p[j], q)
    BY <1>2
  <2>2. p[j] \in Range(p)
    BY DEF Range
  <2>3. PICK k \in DOMAIN q : e = <<p[j], gen[p[j]], q[k]>> \/ e = <<q[k], gen[q[k]], p[j]>>
    BY <2>1, <1>1 DEF Parted
  <2>4. q[k] \in Range(q)
    BY DEF Range
  <2> QED
    BY <2>2, <2>3, <2>4, SMTT(30) DEF Between
<1>3. ASSUME NEW e \in Between(Range(p), Range(q))
      PROVE  e \in UNION {Parted(p[j], q) : j \in DOMAIN p}
  <2>1. PICK a \in Range(p), b \in Range(q) : e = <<a, gen[a], b>> \/ e = <<b, gen[b], a>>
    BY <1>3, SMTT(30) DEF Between
  <2>2. PICK j \in DOMAIN p, k \in DOMAIN q : a = p[j] /\ b = q[k]
    BY DEF Range
  <2>3. e \in Parted(p[j], q)
    BY <2>1, <2>2, <1>1 DEF Parted
  <2> QED
    BY <2>3
<1> QED
  BY <1>2, <1>3

\* ConnectAll enables every end of the current incarnations.
LEMMA ConnectAllEnds ==
    ASSUME NEW E, E \subseteq Ends(Server)
    PROVE  ConnectAll(E) = Ends(Server)
<1>1. UNION {Joined(All[j], All) : j \in DOMAIN All} = Ends(Server)
  BY JoinedEnds, AllServers
<1>2. UNION {Joined(s, All) : s \in Server} = Ends(Server)
  <2>1. {Joined(All[j], All) : j \in DOMAIN All} = {Joined(s, All) : s \in Server}
    BY AllServers DEF Range
  <2> QED
    BY <1>1, <2>1
<1>3. 0 \in Server
  BY NAssumption, SMTT(30) DEF Server
<1>4. ConnectAll(E) = E \cup UNION {Joined(s, All) : s \in Server}
  BY <1>3, SMTT(30) DEF ConnectAll, connectUnlocked
<1> QED
  BY <1>2, <1>4

\* partition leaves enabled exactly the ends within each group.
LEMMA PartitionEnds ==
    ASSUME NEW p \in Seq(Server), NEW q \in Seq(Server), Len(p) <= N, Len(q) <= N,
           Range(p) \cup Range(q) = Server, Range(p) \cap Range(q) = {},
           \A s \in Server : gen[s] # 0,
           NEW E, E \subseteq Ends(Server)
    PROVE  partition(E, p, q) = Ends(Range(p)) \cup Ends(Range(q))
<1>1. /\ UNION {Joined(p[j], p) : j \in DOMAIN p} = Ends(Range(p))
      /\ UNION {Joined(q[j], q) : j \in DOMAIN q} = Ends(Range(q))
      /\ UNION {Parted(p[j], q) : j \in DOMAIN p} = Between(Range(p), Range(q))
      /\ UNION {Parted(q[j], p) : j \in DOMAIN q} = Between(Range(q), Range(p))
  BY JoinedEnds, PartedEnds
<1>2. partition(E, p, q) =
        (((E \ Between(Range(p), Range(q))) \cup Ends(Range(p))) \ Between(Range(q), Range(p)))
          \cup Ends(Range(q))
  BY <1>1 DEF partition, Regroup
<1>3. Ends(Range(p)) \cap Between(Range(q), Range(p)) = {}
  <2> SUFFICES ASSUME NEW a \in Range(p), NEW b \in Range(p), NEW c \in Range(q), NEW d \in Range(p),
                      <<a, gen[a], b>> = <<c, gen[c], d>> \/ <<a, gen[a], b>> = <<d, gen[d], c>>
               PROVE  FALSE
    BY SMTT(30) DEF Ends, Between
  <2>1. a = c \/ b = c
    BY SMTT(30)
  <2> QED
    BY <2>1
<1>4. Ends(Server) \subseteq Ends(Range(p)) \cup Ends(Range(q)) \cup Between(Range(p), Range(q))
  <2> SUFFICES ASSUME NEW a \in Server, NEW b \in Server
               PROVE  <<a, gen[a], b>> \in Ends(Range(p)) \cup Ends(Range(q)) \cup Between(Range(p), Range(q))
    BY SMTT(30) DEF Ends
  <2>1. a \in Range(p) \/ a \in Range(q)
    OBVIOUS
  <2>2. b \in Range(p) \/ b \in Range(q)
    OBVIOUS
  <2> QED
    BY <2>1, <2>2, SMTT(30) DEF Ends, Between
<1> QED
  BY <1>2, <1>3, <1>4, SMTT(30)

\* ShutdownServer's disconnect takes the ends of one server away.
LEMMA DisconnectEnds ==
    ASSUME NEW k \in Server, \A s \in Server : s >= k => gen[s] # 0
    PROVE  disconnectUnlocked(Ends({s \in Server : s >= k}), k, All) = Ends({s \in Server : s > k})
<1>1. ASSUME NEW a \in Server, NEW b \in Server, a >= k, b >= k
      PROVE  <<a, gen[a], b>> \in Parted(k, All) <=> a = k \/ b = k
  <2>1. ASSUME a = k
        PROVE  <<a, gen[a], b>> \in Parted(k, All)
    <3>1. b + 1 \in DOMAIN All /\ All[b + 1] = b
      BY AllServers
    <3> QED
      BY <2>1, <3>1, SMTT(30) DEF Parted
  <2>2. ASSUME b = k
        PROVE  <<a, gen[a], b>> \in Parted(k, All)
    <3>1. a + 1 \in DOMAIN All /\ All[a + 1] = a /\ gen[(a + 1) - 1] # 0
      BY <1>1, AllServers, SMTT(30) DEF Server
    <3> QED
      BY <2>2, <3>1, SMTT(30) DEF Parted
  <2>3. ASSUME <<a, gen[a], b>> \in Parted(k, All)
        PROVE  a = k \/ b = k
    BY <2>3, SMTT(30) DEF Parted
  <2> QED
    BY <2>1, <2>2, <2>3
<1>2. ASSUME NEW e \in disconnectUnlocked(Ends({s \in Server : s >= k}), k, All)
      PROVE  e \in Ends({s \in Server : s > k})
  <2>1. e \in Ends({s \in Server : s >= k}) /\ e \notin Parted(k, All)
    BY <1>2 DEF disconnectUnlocked
  <2>2. PICK a, b \in {s \in Server : s >= k} : e = <<a, gen[a], b>>
    BY <2>1, SMTT(30) DEF Ends
  <2>3. a # k /\ b # k
    BY <1>1, <2>1, <2>2
  <2>4. a \in {s \in Server : s > k} /\ b \in {s \in Server : s > k}
    BY <2>3, SMTT(30) DEF Server
  <2> QED
    BY <2>2, <2>4, SMTT(30) DEF Ends
<1>3. ASSUME NEW e \in Ends({s \in Server : s > k})
      PROVE  e \in disconnectUnlocked(Ends({s \in Server : s >= k}), k, All)
  <2>1. PICK a, b \in {s \in Server : s > k} : e = <<a, gen[a], b>>
    BY <1>3, SMTT(30) DEF Ends
  <2>2. a \in {s \in Server : s >= k} /\ b \in {s \in Server : s >= k} /\ a # k /\ b # k
    BY SMTT(30) DEF Server
  <2>3. e \notin Parted(k, All)
    BY <1>1, <2>1, <2>2
  <2>4. e \in Ends({s \in Server : s >= k})
    BY <2>1, <2>2, SMTT(30) DEF Ends
  <2> QED
    BY <2>3, <2>4 DEF disconnectUnlocked
<1> QED
  BY <1>2, <1>3

\* The whole network, and what the partitioner may choose, are two groups.
LEMMA WholeGroups == Groups(Whole) /\ Range(Whole[1]) = Server /\ Range(Whole[2]) = {}
<1>1. Whole \in Seq(Server) \X Seq(Server) /\ Whole[1] = All /\ Whole[2] = <<>> /\ Len(Whole[2]) = 0
  <2>1. <<>> \in Seq(Server) /\ Len(<<>>) = 0
    BY SMTT(30)
  <2>2. Whole[1] = All /\ Whole[2] = <<>>
    BY SMTT(30) DEF Whole
  <2> QED
    BY <2>1, <2>2, AllServers DEF Whole
<1>2. Range(Whole[2]) = {}
  BY <1>1, SMTT(30) DEF Range
<1> QED
  BY <1>1, <1>2, AllServers, NAssumption, SMTT(30) DEF Groups

LEMMA SplitsGroups == \A p \in Splits : Groups(p)
<1> SUFFICES ASSUME NEW p \in Splits
             PROVE  Groups(p)
  OBVIOUS
<1>1. PICK n \in 0..N : p \in Ascending(n) \X Ascending(N - n)
  BY DEF Splits
<1>2. p[1] \in [1..n -> Server] /\ p[2] \in [1..(N - n) -> Server] /\ p = <<p[1], p[2]>>
  BY <1>1, SMTT(30) DEF Ascending
<1>3. n \in Nat /\ N - n \in Nat /\ n <= N /\ N - n <= N
  BY NAssumption, SMTT(30)
<1>4. p[1] \in Seq(Server) /\ p[2] \in Seq(Server) /\ Len(p[1]) = n /\ Len(p[2]) = N - n
  BY <1>2, <1>3, FunctionSeq
<1>5. Range(p[1]) \cap Range(p[2]) = {} /\ Range(p[1]) \cup Range(p[2]) = Server
  BY DEF Splits
<1>6. p \in Seq(Server) \X Seq(Server)
  BY <1>2, <1>4, SMTT(30)
<1> QED
  BY <1>3, <1>4, <1>5, <1>6, SMTT(30) DEF Groups

\* make_partition: p1 holds h of the other servers, a majority, and p2 the rest
\* and the leader.
LEMMA MakePartitionGroups ==
    ASSUME NEW l \in Server
    PROVE  /\ Groups(make_partition(l))
           /\ l \in Range(make_partition(l)[2])
           /\ Len(make_partition(l)[1]) > Len(make_partition(l)[2])
           /\ IsInjective(make_partition(l)[1]) /\ IsInjective(make_partition(l)[2])
<1> DEFINE h == N \div 2 + 1
           p == SubSeq(others(l), 1, h)
           r == SubSeq(others(l), h + 1, N - 1)
           q == Append(r, l)
           o(k) == IF k - 1 < l THEN k - 1 ELSE k
<1>1. h \in Nat /\ h >= 1 /\ h <= N - 1 /\ N - 1 \in Nat /\ 2 * h > N
  BY NAssumption, SMTT(30)
<1>2. /\ \A k \in 1..(N - 1) : others(l)[k] = o(k) /\ o(k) \in Server /\ o(k) # l
      /\ \A j, k \in 1..(N - 1) : o(j) = o(k) => j = k
      /\ \A s \in Server : s # l => \E k \in 1..(N - 1) : o(k) = s
  <2>1. \A k \in 1..(N - 1) : others(l)[k] = o(k) /\ o(k) \in Server /\ o(k) # l
    BY NAssumption, SMTT(30) DEF others, Server
  <2>2. \A j, k \in 1..(N - 1) : o(j) = o(k) => j = k
    BY NAssumption, SMTT(30) DEF Server
  <2>3. ASSUME NEW s \in Server, s # l
        PROVE  \E k \in 1..(N - 1) : o(k) = s
    <3>1. CASE s < l
      <4>1. s + 1 \in 1..(N - 1) /\ o(s + 1) = s
        BY <3>1, NAssumption, SMTT(30) DEF Server
      <4> QED
        BY <4>1
    <3>2. CASE s > l
      <4>1. s \in 1..(N - 1) /\ o(s) = s
        BY <3>2, NAssumption, SMTT(30) DEF Server
      <4> QED
        BY <4>1
    <3> QED
      BY <2>3, <3>1, <3>2, SMTT(30) DEF Server
  <2> QED
    BY <2>1, <2>2, <2>3
<1> HIDE DEF h, o
<1>3. p \in Seq(Server) /\ Len(p) = h /\ \A k \in 1..h : p[k] = o(k)
  <2>1. \A k \in 1..h : others(l)[k] \in Server /\ others(l)[k] = o(k)
    BY <1>1, <1>2, SMTT(30)
  <2>2. /\ SubSeq(others(l), 1, h) \in Seq(Server)
        /\ Len(SubSeq(others(l), 1, h)) = IF 1 <= h THEN h - 1 + 1 ELSE 0
        /\ \A k \in 1..(h - 1 + 1) : SubSeq(others(l), 1, h)[k] = others(l)[1 + k - 1]
    BY <1>1, <2>1, SMTT(30)
  <2> QED
    BY <1>1, <2>1, <2>2, SMTT(30)
<1>4. r \in Seq(Server) /\ Len(r) = N - 1 - h /\ \A k \in 1..(N - 1 - h) : r[k] = o(h + k)
  <2>1. \A k \in (h + 1)..(N - 1) : others(l)[k] \in Server /\ others(l)[k] = o(k)
    BY <1>1, <1>2, SMTT(30)
  <2>2. /\ SubSeq(others(l), h + 1, N - 1) \in Seq(Server)
        /\ Len(SubSeq(others(l), h + 1, N - 1)) = IF h + 1 <= N - 1 THEN (N - 1) - (h + 1) + 1 ELSE 0
        /\ \A k \in 1..((N - 1) - (h + 1) + 1) : SubSeq(others(l), h + 1, N - 1)[k] = others(l)[(h + 1) + k - 1]
    BY <1>1, <2>1, SMTT(30)
  <2> QED
    BY <1>1, <2>1, <2>2, NAssumption, SMTT(30)
<1> HIDE DEF p, r
<1>5. /\ q \in Seq(Server) /\ Len(q) = N - h /\ q[N - h] = l
      /\ \A k \in 1..(N - 1 - h) : q[k] = o(h + k)
  BY <1>1, <1>4, NAssumption, SMTT(30)
<1> HIDE DEF q
<1>6. l \in Range(q)
  <2>1. N - h \in DOMAIN q
    BY <1>1, <1>5, NAssumption, SMTT(30)
  <2> QED
    BY <1>5, <2>1 DEF Range
<1>7. Range(p) \cup Range(q) = Server
  <2>1. Range(p) \subseteq Server /\ Range(q) \subseteq Server
    BY <1>3, <1>5, SMTT(30) DEF Range
  <2>2. ASSUME NEW s \in Server, s # l
        PROVE  s \in Range(p) \cup Range(q)
    <3>1. PICK k \in 1..(N - 1) : o(k) = s
      BY <1>2, <2>2
    <3>2. CASE k <= h
      <4>1. k \in DOMAIN p /\ p[k] = s
        BY <1>1, <1>3, <3>1, <3>2, SMTT(30)
      <4> QED
        BY <4>1 DEF Range
    <3>3. CASE k > h
      <4>1. k - h \in DOMAIN q /\ k - h \in 1..(N - 1 - h) /\ h + (k - h) = k
        BY <1>1, <1>5, <3>3, NAssumption, SMTT(30)
      <4>2. q[k - h] = s
        BY <1>5, <3>1, <4>1
      <4> QED
        BY <4>1, <4>2 DEF Range
    <3> QED
      BY <1>1, <3>2, <3>3, SMTT(30)
  <2> QED
    BY <1>6, <2>1, <2>2
<1>8. Range(p) \cap Range(q) = {}
  <2> SUFFICES ASSUME NEW j \in DOMAIN p, NEW k \in DOMAIN q, p[j] = q[k]
               PROVE  FALSE
    BY DEF Range
  <2>1. j \in 1..h /\ j \in 1..(N - 1) /\ p[j] = o(j) /\ o(j) # l
    BY <1>1, <1>2, <1>3, SMTT(30)
  <2>2. k # N - h
    BY <1>5, <2>1
  <2>3. k \in 1..(N - 1 - h) /\ h + k \in 1..(N - 1) /\ j # h + k
    BY <1>1, <1>5, <2>1, <2>2, NAssumption, SMTT(30)
  <2> QED
    <3>1. q[k] = o(h + k) /\ o(j) = o(h + k)
      BY <1>5, <2>1, <2>3
    <3> HIDE DEF o
    <3> QED
      BY <1>2, <2>1, <2>3, <3>1
<1>9. IsInjective(p) /\ IsInjective(q) /\ Len(p) > Len(q)
  <2>1. \A j, k \in DOMAIN p : p[j] = p[k] => j = k
    BY <1>1, <1>2, <1>3, SMTT(30)
  <2>2. ASSUME NEW j \in DOMAIN q, NEW k \in DOMAIN q, q[j] = q[k]
        PROVE  j = k
    <3>1. /\ j = N - h \/ (h + j \in 1..(N - 1) /\ q[j] = o(h + j))
          /\ k = N - h \/ (h + k \in 1..(N - 1) /\ q[k] = o(h + k))
      <4>1. \A x \in DOMAIN q : x = N - h \/ (x \in 1..(N - 1 - h) /\ h + x \in 1..(N - 1))
        <5>1. DOMAIN q = 1..(N - h)
          BY <1>5, SMTT(30)
        <5>2. N \in Int /\ h \in Int /\ h >= 1
          BY <1>1, NAssumption, SMTT(30)
        <5> QED
          BY <5>1, <5>2, SMTT(30)
      <4> HIDE DEF o
      <4> QED
        BY <1>5, <4>1
    <3>2. j \in Int /\ k \in Int /\ h \in Int
      BY <1>1, <1>5, SMTT(30)
    <3> HIDE DEF o
    <3>3. j = k \/ h + j = h + k
      BY <1>2, <1>5, <2>2, <3>1
    <3> QED
      BY <3>2, <3>3, SMTT(30)
  <2>3. Len(p) > Len(q)
    BY <1>1, <1>3, <1>5, NAssumption, SMTT(30)
  <2> QED
    BY <2>1, <2>2, <2>3 DEF IsInjective
<1>10. make_partition(l) = <<p, q>>
  BY DEF make_partition, p, q, r, h
<1>11. make_partition(l)[1] = p /\ make_partition(l)[2] = q /\ Len(p) <= N /\ Len(q) <= N
  BY <1>1, <1>3, <1>5, <1>10, NAssumption, SMTT(30)
<1>12. make_partition(l) \in Seq(Server) \X Seq(Server)
  BY <1>3, <1>5, <1>10, SMTT(30)
<1> QED
  BY <1>1, <1>6, <1>7, <1>8, <1>9, <1>11, <1>12 DEF Groups

-----------------------------------------------------------------------------
(* Which servers are up. *)

LEMMA NextIndex ==
    ASSUME NEW n \in Nat \ {0}, NEW k \in 0..(n - 1)
    PROVE  (k + 1) % n = IF k = n - 1 THEN 0 ELSE k + 1
  BY SMTT(30)

LEMMA NextServer ==
    ASSUME NEW k \in Server
    PROVE  (k + 1) % N = IF k = N - 1 THEN 0 ELSE k + 1
<1>1. N \in Nat \ {0}
  BY NAssumption, SMTT(30)
<1> QED
  BY <1>1, NextIndex DEF Server

fleet == <<gen, servers, kvservers, holds>>

\* While every server is up, a step that starts or stops none leaves it so.
LEMMA AllStayUp ==
    ASSUME ServersInv, pc \in Running \cup {"connect"}, UNCHANGED fleet,
           pc' \in Running \/ (pc' = "shut" /\ i' = 0)
    PROVE  ServersInv'
<1>1. \A s \in Server : Up(s)
  BY DEF ServersInv
<1>2. \A s \in Server : Up(s)'
  BY <1>1 DEF Up, fleet
<1>3. CASE pc' \in Running
  BY <1>2, <1>3, SMTT(30) DEF ServersInv, Running
<1>4. CASE pc' = "shut" /\ i' = 0
  BY <1>2, <1>4, NAssumption, SMTT(30) DEF ServersInv, Running, Server
<1> QED
  BY <1>3, <1>4

\* StartServer and ShutdownServer change one server, the one the loop is at.
LEMMA StartServerStep ==
    ASSUME HarnessTypes, ServersInv, LoopInv, StartServer
    PROVE  ServersInv'
<1>1. i \in Server /\ i' = i /\ pc = "start" /\ pc' = "serve"
  BY SMTT(30) DEF StartServer, LoopInv, Starting
<1>2. /\ gen'[i] = gen[i] + 1 /\ \A s \in Server : s # i => gen'[s] = gen[s]
      /\ servers' = servers /\ kvservers' = kvservers /\ holds' = holds
  BY <1>1, SMTT(30) DEF StartServer, HarnessTypes, net
<1>3. \A s \in Server : IF s < i THEN Up(s) ELSE Down(s)
  BY <1>1 DEF ServersInv
<1> QED
  BY <1>1, <1>2, <1>3, SMTT(30) DEF ServersInv, Up, Down, Running, Server

LEMMA StartKVServerStep ==
    ASSUME HarnessTypes, ServersInv, LoopInv, StartKVServer
    PROVE  ServersInv'
<1>1. i \in Server /\ pc = "serve" /\ gen' = gen
  BY SMTT(30) DEF StartKVServer, LoopInv, Starting
<1>2. i' = IF i = N - 1 THEN 0 ELSE i + 1
  BY <1>1, NextServer DEF StartKVServer
<1>3. pc' = IF i = N - 1 THEN "connect" ELSE "start"
  BY DEF StartKVServer
<1>4. /\ servers'[i] = gen[i] /\ kvservers'[i] = gen[i] /\ Len(holds'[i]) = Len(holds[i]) + 1
      /\ \A s \in Server : s # i =>
            servers'[s] = servers[s] /\ kvservers'[s] = kvservers[s] /\ holds'[s] = holds[s]
  BY <1>1, SMTT(30) DEF StartKVServer, HarnessTypes
<1>5. \A s \in Server : /\ s < i => Up(s)
                        /\ s = i => Len(holds[s]) + 1 = gen[s]
                        /\ s > i => Down(s)
  BY <1>1 DEF ServersInv
<1>6. Len(holds[i]) \in Nat
  BY <1>1, SMTT(30) DEF HarnessTypes
<1>7. \A s \in Server : IF s <= i THEN Up(s)' ELSE Down(s)'
  BY <1>1, <1>4, <1>5, <1>6, SMTT(30) DEF Up, Down, Server
<1> QED
  BY <1>1, <1>2, <1>3, <1>7, NAssumption, SMTT(30) DEF ServersInv, Running, Server

LEMMA ShutdownStep ==
    ASSUME HarnessTypes, ServersInv, LoopInv,
           ShutDisconnect \/ ShutDelete \/ ShutCopy \/ ShutKill
    PROVE  ServersInv'
<1>1. i \in Server /\ gen' = gen /\ holds' = holds
  BY SMTT(30) DEF ShutDisconnect, ShutDelete, ShutCopy, ShutKill, LoopInv, Stopping, stores
<1>2. CASE ShutDisconnect
  <2>1. /\ pc = "shut" /\ pc' = "delete" /\ i' = i
        /\ servers' = servers /\ kvservers' = kvservers
    BY <1>2 DEF ShutDisconnect
  <2> QED
    BY <1>1, <2>1, SMTT(30) DEF ServersInv, Up, Down, Running
<1>3. CASE ShutDelete
  <2>1. /\ pc = "delete" /\ pc' = "copy" /\ i' = i /\ kvservers' = kvservers
        /\ servers'[i] = 0 /\ \A s \in Server : s # i => servers'[s] = servers[s]
    BY <1>1, <1>3, SMTT(30) DEF ShutDelete, HarnessTypes
  <2> QED
    BY <1>1, <2>1, SMTT(30) DEF ServersInv, Up, Down, Running, Server
<1>4. CASE ShutCopy
  <2>1. /\ pc = "copy" /\ pc' = "kill" /\ i' = i
        /\ servers' = servers /\ kvservers' = kvservers
    BY <1>4, SMTT(30) DEF ShutCopy, net
  <2> QED
    BY <1>1, <2>1, SMTT(30) DEF ServersInv, Up, Down, Running
<1>5. CASE ShutKill
  <2>1. /\ pc = "kill" /\ pc' = (IF i = N - 1 THEN "start" ELSE "shut") /\ servers' = servers
        /\ kvservers'[i] = 0 /\ \A s \in Server : s # i => kvservers'[s] = kvservers[s]
    BY <1>1, <1>5, SMTT(30) DEF ShutKill, HarnessTypes, net
  <2>2. i' = IF i = N - 1 THEN 0 ELSE i + 1
    BY <1>1, <1>5, NextServer DEF ShutKill
  <2>3. \A s \in Server : /\ s < i => Down(s)
                          /\ s = i => servers[s] = 0 /\ Len(holds[s]) = gen[s]
                          /\ s > i => Up(s)
    BY <2>1 DEF ServersInv
  <2>4. \A s \in Server : IF s <= i THEN Down(s)' ELSE Up(s)'
    BY <1>1, <2>1, <2>3, SMTT(30) DEF Up, Down, Server
  <2> QED
    BY <1>1, <2>1, <2>2, <2>4, NAssumption, SMTT(30) DEF ServersInv, Running, Server
<1> QED
  BY <1>2, <1>3, <1>4, <1>5

\* The steps of the tests between the start and the shutdown of servers.
Steady ==
    \/ Connected \/ FirstClient \/ Iterate \/ GoPartitioner \/ TellToQuit \/ Join \/ Heal
    \/ Wait \/ cleanup \/ OnePartition

\* A step of the tests between restarts goes from one such point to another, or
\* to the first server to shut down.
LEMMA SteadyStep ==
    ASSUME LoopInv, Steady
    PROVE  /\ pc \in Running \cup {"connect"} /\ UNCHANGED fleet
           /\ pc' \in Running \/ (pc' = "shut" /\ i' = 0)
<1>1. CASE Connected
  BY <1>1, SMTT(30) DEF Connected, AfterConnect, fleet, Running, stores
<1>2. CASE FirstClient
  BY <1>2, SMTT(30) DEF FirstClient, fleet, Running, stores, net
<1>3. CASE Iterate
  BY <1>3, SMTT(30) DEF Iterate, fleet, Running, stores, net
<1>4. CASE GoPartitioner
  BY <1>4, SMTT(30) DEF GoPartitioner, fleet, Running, stores, net
<1>5. CASE TellToQuit
  BY <1>5, SMTT(30) DEF TellToQuit, Settle, LoopInv, fleet, Running, stores, net
<1>6. CASE Join
  BY <1>6, SMTT(30) DEF Join, fleet, Running, stores, net
<1>7. CASE Heal
  BY <1>7, SMTT(30) DEF Heal, Settle, LoopInv, fleet, Running, stores
<1>8. CASE Wait
  BY <1>8, SMTT(30) DEF Wait, NextIteration, fleet, Running, stores, net
<1>9. CASE cleanup
  BY <1>9, SMTT(30) DEF cleanup, fleet, Running, stores, net
<1>10. CASE OnePartition
  <2>1. CASE Choose
    BY <2>1, SMTT(30) DEF Choose, fleet, Running, stores, net
  <2>2. CASE Cut
    BY <2>2, SMTT(30) DEF Cut, fleet, Running, stores
  <2>3. CASE SideClient
    BY <2>3, SMTT(30) DEF SideClient, SideOf, After, fleet, Running, stores, net
  <2>4. CASE Check
    BY <2>4, SMTT(30) DEF Check, fleet, Running, stores, net
  <2>5. CASE Mend
    BY <2>5, SMTT(30) DEF Mend, fleet, Running, stores
  <2>6. CASE Free
    BY <2>6, SMTT(30) DEF Free, fleet, Running, stores, net
  <2> QED
    BY <1>10, <2>1, <2>2, <2>3, <2>4, <2>5, <2>6 DEF OnePartition
<1> QED
  BY <1>1, <1>2, <1>3, <1>4, <1>5, <1>6, <1>7, <1>8, <1>9, <1>10 DEF Steady

\* The other goroutines leave the servers and the test's goroutine alone, but
\* for the client that ends the process.
LEMMA OthersStep ==
    ASSUME Partitioner \/ Clients \/ Traffic
    PROVE  /\ UNCHANGED fleet /\ UNCHANGED <<i, iter, test, saved>>
           /\ pc' = pc \/ (Clients /\ pc' = "exited")
<1>1. CASE Partitioner
  BY <1>1, SMTT(30) DEF Partitioner, fleet, stores
<1>2. CASE Clients
  <2>1. PICK c \in clnt : run_client(c)
    BY <1>2 DEF Clients
  <2>2. pc' = pc \/ pc' = "exited"
    BY <2>1 DEF run_client
  <2> QED
    BY <1>2, <2>2, SMTT(30) DEF Clients, fleet, stores, net
<1>3. CASE Traffic
  BY <1>3, SMTT(30) DEF Traffic, fleet, net
<1> QED
  BY <1>1, <1>2, <1>3

LEMMA NextSteps ==
    ASSUME Next
    PROVE  \/ Steady \/ StartServer \/ StartKVServer
           \/ ShutDisconnect \/ ShutDelete \/ ShutCopy \/ ShutKill
           \/ Partitioner \/ Clients \/ Traffic
  BY DEF Next, Main, Generic, Steady

LEMMA ServersStep ==
    ASSUME HarnessTypes, ServersInv, LoopInv, Next, Alive'
    PROVE  ServersInv'
<1>1. CASE Steady
  BY <1>1, SteadyStep, AllStayUp
<1>2. CASE Partitioner \/ Clients \/ Traffic
  <2>1. UNCHANGED <<pc, i>> /\ UNCHANGED fleet
    BY <1>2, OthersStep DEF Alive
  <2> QED
    BY <2>1 DEF ServersInv, Up, Down, fleet
<1> QED
  BY <1>1, <1>2, NextSteps, StartServerStep, StartKVServerStep, ShutdownStep

-----------------------------------------------------------------------------
(* Which ends are enabled. *)

LEMMA WholeEnds == GroupEnds(Whole) = Ends(Server)
<1>1. Ends({}) = {}
  BY SMTT(30) DEF Ends
<1> QED
  BY <1>1, WholeGroups DEF GroupEnds

LEMMA EndsWithin ==
    ASSUME NEW p, Groups(p)
    PROVE  GroupEnds(p) \subseteq Ends(Server)
<1>1. Range(p[1]) \subseteq Server /\ Range(p[2]) \subseteq Server
  BY DEF Groups
<1> QED
  BY <1>1, SMTT(30) DEF GroupEnds, Ends

\* What is enabled stands for the same ends as long as no names are made.
LEMMA SameEnds ==
    ASSUME gen' = gen
    PROVE  /\ \A S : Ends(S)' = Ends(S)
           /\ \A p : GroupEnds(p)' = GroupEnds(p)
           /\ GroupEnds(sides)' = GroupEnds(sides')
<1>1. \A S : Ends(S)' = Ends(S)
  BY SMTT(30) DEF Ends
<1>2. \A p : GroupEnds(p)' = GroupEnds(p)
  BY <1>1 DEF GroupEnds
<1>3. GroupEnds(sides)' = GroupEnds(sides')
  BY <1>1, SMTT(30) DEF GroupEnds, Ends
<1> QED
  BY <1>1, <1>2, <1>3

\* A step that enables nothing and disables nothing, between restarts.
LEMMA EndsKept ==
    ASSUME EndsInv, gen' = gen, enabled' = enabled, sides' = sides,
           pc \in Running \ {"cut"}, pc' \in Running \ {"cut"}
    PROVE  EndsInv'
<1>1. enabled' = GroupEnds(sides)'
  BY SameEnds DEF EndsInv
<1> QED
  BY <1>1, SMTT(30) DEF EndsInv, Running, Starting, Stopping

\* ShutdownServer starts with the whole network connected.
LEMMA ShutFromWhole ==
    ASSUME gen' = gen, enabled' = Ends(Server), i' = 0, pc' = "shut"
    PROVE  EndsInv'
<1>1. {s \in Server : s >= i'} = Server
  BY SMTT(30) DEF Server
<1>2. enabled' = Ends({s \in Server : s >= i})'
  BY <1>1, SameEnds
<1> QED
  BY <1>2, SMTT(30) DEF EndsInv, Running, Starting, Stopping

\* After ConnectAll, or a partition.
LEMMA Reconnected ==
    ASSUME EndsInv, Groups(sides), gen' = gen,
           \/ pc \in Running \ {"cut"}
           \/ pc = "connect"
           \/ pc = "cut",
           enabled' = ConnectAll(enabled), sides' = Whole
    PROVE  /\ enabled' = Ends(Server)
           /\ pc' \in Running \ {"cut"} => EndsInv'
<1>1. enabled \subseteq Ends(Server)
  BY EndsWithin, SMTT(30) DEF EndsInv, Starting
<1>2. enabled' = Ends(Server)
  BY <1>1, ConnectAllEnds
<1>3. GroupEnds(sides)' = Ends(Server)
  BY SameEnds, WholeEnds
<1>4. enabled' = GroupEnds(sides)'
  BY <1>2, <1>3
<1>5. ASSUME pc' \in Running \ {"cut"}
      PROVE  EndsInv'
  BY <1>4, <1>5, SMTT(30) DEF EndsInv, Running, Starting, Stopping
<1> QED
  BY <1>2, <1>5

LEMMA Parts ==
    ASSUME EndsInv, ServersInv, Groups(sides), gen' = gen, Groups(sides)',
           pc \in Running, pc' \in Running \ {"cut"},
           enabled' = partition(enabled, sides'[1], sides'[2])
    PROVE  EndsInv'
<1>1. enabled \subseteq Ends(Server)
  BY EndsWithin, SMTT(30) DEF EndsInv
<1>2. \A s \in Server : gen[s] # 0
  BY DEF ServersInv, Up
<1>3. /\ sides'[1] \in Seq(Server) /\ sides'[2] \in Seq(Server) /\ Len(sides'[1]) <= N /\ Len(sides'[2]) <= N
      /\ Range(sides'[1]) \cup Range(sides'[2]) = Server /\ Range(sides'[1]) \cap Range(sides'[2]) = {}
  BY SMTT(30) DEF Groups
<1>4. enabled' = Ends(Range(sides'[1])) \cup Ends(Range(sides'[2]))
  BY <1>1, <1>2, <1>3, PartitionEnds
<1>5. enabled' = GroupEnds(sides)'
  BY <1>4, SameEnds DEF GroupEnds
<1> QED
  BY <1>5, SMTT(30) DEF EndsInv, Running, Starting, Stopping

LEMMA SteadyEnds ==
    ASSUME EndsInv, ServersInv, LoopInv, Groups(sides), Groups(sides)', Steady
    PROVE  EndsInv'
<1>1. gen' = gen
  BY SteadyStep DEF fleet
<1>2. CASE Connected
  <2>1. pc = "connect" /\ pc' \in Running \ {"cut"} /\ enabled' = ConnectAll(enabled) /\ sides' = Whole
    BY <1>2, SMTT(30) DEF Connected, AfterConnect, Running
  <2> QED
    BY <1>1, <2>1, Reconnected
<1>3. CASE FirstClient \/ Iterate \/ GoPartitioner \/ Join \/ Wait \/ cleanup \/ SideClient \/ Check \/ Free
  <2>1. enabled' = enabled /\ sides' = sides
    BY <1>3 DEF FirstClient, Iterate, GoPartitioner, Join, Wait, cleanup, SideClient, Check, Free,
                       net, drive
  <2>2. pc \in Running \ {"cut"} /\ pc' \in Running \ {"cut"}
    BY <1>3, SMTT(30) DEF FirstClient, Iterate, GoPartitioner, Join, Wait, cleanup, SideClient, Check, Free,
                     NextIteration, SideOf, After, Running
  <2> QED
    BY <1>1, <2>1, <2>2, EndsKept
<1>4. CASE TellToQuit
  <2>1. enabled' = enabled /\ sides' = sides /\ i' = i /\ pc = "sleep"
    BY <1>4 DEF TellToQuit, net
  <2>2. CASE pc' = "shut"
    <3>1. i = 0 /\ sides = Whole
      BY <1>4, <2>1, <2>2, SMTT(30) DEF TellToQuit, LoopInv, Divided
    <3>2. enabled = Ends(Server)
      BY <2>1, <3>1, WholeEnds, SMTT(30) DEF EndsInv, Running
    <3> QED
      BY <1>1, <2>1, <2>2, <3>1, <3>2, ShutFromWhole
  <2>3. CASE pc' # "shut"
    <3>1. pc \in Running \ {"cut"} /\ pc' \in Running \ {"cut"}
      BY <1>4, <2>1, <2>3, SMTT(30) DEF TellToQuit, Settle, Running
    <3> QED
      BY <1>1, <2>1, <3>1, EndsKept
  <2> QED
    BY <2>2, <2>3
<1>5. CASE Heal
  <2>1. pc = "heal" /\ i' = i /\ i = 0 /\ enabled' = ConnectAll(enabled) /\ sides' = Whole
    BY <1>5 DEF Heal, LoopInv
  <2>2. pc \in Running \ {"cut"} /\ (pc' = "shut" \/ pc' \in Running \ {"cut"})
    BY <1>5, SMTT(30) DEF Heal, Settle, Running
  <2>3. enabled' = Ends(Server) /\ (pc' \in Running \ {"cut"} => EndsInv')
    BY <1>1, <2>1, <2>2, Reconnected
  <2> QED
    BY <1>1, <2>1, <2>2, <2>3, ShutFromWhole
<1>6. CASE Choose
  <2>1. enabled' = enabled /\ pc = "choose" /\ pc' = "cut"
    BY <1>6 DEF Choose, net
  <2>2. enabled = Ends(Server)
    BY <2>1, WholeEnds, SMTT(30) DEF EndsInv, LoopInv, Running, Divided
  <2>3. enabled' = Ends(Server)'
    BY <1>1, <2>1, <2>2, SameEnds
  <2> QED
    BY <2>1, <2>3, SMTT(30) DEF EndsInv, Running, Starting, Stopping
<1>7. CASE Cut
  <2>1. pc = "cut" /\ pc' = "ckp1" /\ sides' = sides /\ enabled' = partition(enabled, sides[1], sides[2])
    BY <1>7 DEF Cut, drive
  <2>2. pc \in Running /\ pc' \in Running \ {"cut"} /\ enabled' = partition(enabled, sides'[1], sides'[2])
    BY <2>1, SMTT(30) DEF Running
  <2> QED
    BY <1>1, <2>2, Parts
<1>8. CASE Mend
  <2>1. pc \in Running \ {"cut"} /\ pc' \in Running \ {"cut"} /\ enabled' = ConnectAll(enabled) /\ sides' = Whole
    BY <1>8, SMTT(30) DEF Mend, Running
  <2> QED
    BY <1>1, <2>1, Reconnected
<1> QED
  BY <1>2, <1>3, <1>4, <1>5, <1>6, <1>7, <1>8 DEF Steady, OnePartition

\* ShutdownServer takes one server at a time out of the network.
LEMMA ShutdownEnds ==
    ASSUME HarnessTypes, EndsInv, ServersInv, LoopInv,
           ShutDisconnect \/ ShutDelete \/ ShutCopy \/ ShutKill
    PROVE  EndsInv'
<1>1. gen' = gen /\ i \in Server
  BY SMTT(30) DEF ShutDisconnect, ShutDelete, ShutCopy, ShutKill, LoopInv, Stopping
<1>2. CASE ShutDisconnect
  <2>1. pc = "shut" /\ pc' = "delete" /\ i' = i /\ enabled' = disconnectUnlocked(enabled, i, All)
    BY <1>2 DEF ShutDisconnect
  <2>2. enabled = Ends({s \in Server : s >= i})
    BY <2>1 DEF EndsInv
  <2>3. \A s \in Server : s >= i => gen[s] # 0
    BY <1>1, <2>1, SMTT(30) DEF ServersInv, Up, Server
  <2>4. enabled' = Ends({s \in Server : s > i})
    BY <1>1, <2>1, <2>2, <2>3, DisconnectEnds
  <2>5. enabled' = Ends({s \in Server : s > i})'
    BY <1>1, <2>1, <2>4, SameEnds
  <2> QED
    BY <2>1, <2>5, SMTT(30) DEF EndsInv, Running, Starting, Stopping
<1>3. CASE ShutDelete \/ ShutCopy
  <2>1. pc \in Stopping \ {"shut"} /\ pc' \in Stopping \ {"shut"} /\ i' = i /\ enabled' = enabled
    BY <1>3, SMTT(30) DEF ShutDelete, ShutCopy, Stopping, net
  <2>2. enabled = Ends({s \in Server : s > i})
    BY <2>1 DEF EndsInv
  <2>3. enabled' = Ends({s \in Server : s > i})'
    BY <1>1, <2>1, <2>2, SameEnds
  <2> QED
    BY <2>1, <2>3, SMTT(30) DEF EndsInv, Running, Starting, Stopping
<1>4. CASE ShutKill
  <2>1. pc = "kill" /\ pc' = (IF i = N - 1 THEN "start" ELSE "shut") /\ enabled' = enabled
    BY <1>4 DEF ShutKill, net
  <2>2. i' = IF i = N - 1 THEN 0 ELSE i + 1
    BY <1>1, <1>4, NextServer DEF ShutKill
  <2>3. enabled = Ends({s \in Server : s > i})
    BY <2>1, SMTT(30) DEF EndsInv, Stopping
  <2>4. CASE i = N - 1
    <3>1. {s \in Server : s > i} = {}
      BY <2>4, NAssumption, SMTT(30) DEF Server
    <3>2. enabled = {}
      BY <2>3, <3>1, SMTT(30) DEF Ends
    <3> QED
      BY <2>1, <2>4, <3>2, SMTT(30) DEF EndsInv, Running, Starting, Stopping
  <2>5. CASE i # N - 1
    <3>1. {s \in Server : s > i} = {s \in Server : s >= i'}
      BY <1>1, <2>2, <2>5, SMTT(30) DEF Server
    <3>2. enabled' = Ends({s \in Server : s >= i})'
      BY <1>1, <2>1, <2>3, <3>1, SameEnds
    <3> QED
      BY <2>1, <2>5, <3>2, SMTT(30) DEF EndsInv, Running, Starting, Stopping
  <2> QED
    BY <2>4, <2>5
<1> QED
  BY <1>2, <1>3, <1>4

\* A step of the clients or the network enables nothing and disables nothing.
LEMMA EndsSame ==
    ASSUME EndsInv, UNCHANGED <<gen, pc, i, enabled, sides>>
    PROVE  EndsInv'
<1>1. /\ GroupEnds(sides)' = GroupEnds(sides) /\ Ends(Server)' = Ends(Server)
      /\ Ends({s \in Server : s >= i})' = Ends({s \in Server : s >= i})
      /\ Ends({s \in Server : s > i})' = Ends({s \in Server : s > i})
  BY SameEnds
<1> QED
  BY <1>1 DEF EndsInv

LEMMA EndsStep ==
    ASSUME HarnessTypes, Groups(sides), Groups(sides)', ServersInv, EndsInv, LoopInv, Next, Alive'
    PROVE  EndsInv'
<1>1. CASE Steady
  BY <1>1, SteadyEnds
<1>2. CASE StartServer \/ StartKVServer
  <2>1. pc \in Starting /\ pc' \in Starting /\ enabled' = enabled
    BY <1>2, SMTT(30) DEF StartServer, StartKVServer, Starting, net
  <2> QED
    BY <2>1, SMTT(30) DEF EndsInv, Running, Starting, Stopping
<1>3. CASE ShutDisconnect \/ ShutDelete \/ ShutCopy \/ ShutKill
  BY <1>3, ShutdownEnds
<1>4. CASE Partitioner
  <2>1. gen' = gen /\ pc' = pc /\ i' = i
    BY <1>4, OthersStep DEF fleet, Partitioner
  <2>2. pc \in Running \ {"cut"} /\ pc' \in Running \ {"cut"}
    BY <1>4, <2>1, SMTT(30) DEF Partitioner, partitioner, LoopInv, Running
  <2>3. CASE enabled' = enabled /\ sides' = sides
    BY <2>1, <2>2, <2>3, EndsKept
  <2>4. CASE enabled' = partition(enabled, sides'[1], sides'[2])
    BY <2>1, <2>2, <2>4, Parts
  <2> QED
    BY <1>4, <2>3, <2>4 DEF Partitioner, partitioner
<1>5. CASE Clients \/ Traffic
  <2>1. UNCHANGED <<gen, pc, i, enabled, sides>>
    BY <1>5, OthersStep DEF fleet, Clients, Traffic, net, drive, Alive
  <2> QED
    BY <2>1, EndsSame
<1> QED
  BY <1>1, <1>2, <1>3, <1>4, <1>5, NextSteps

\* Every end that is enabled is one between two servers that are up.
LEMMA EndsUp ==
    ASSUME Groups(sides), ServersInv, EndsInv, HarnessTypes, Alive
    PROVE  ZombiesSilent
<1> SUFFICES ASSUME NEW e \in enabled
             PROVE  e[2] = kvservers[e[1]] /\ e[2] = gen[e[1]] /\ kvservers[e[3]] # 0
  BY DEF ZombiesSilent
<1>1. PICK S \in SUBSET Server : e \in Ends(S) /\ \A s \in S : kvservers[s] = gen[s] /\ gen[s] # 0
  <2>1. CASE pc \in Running
    <3>1. \A s \in Server : kvservers[s] = gen[s] /\ gen[s] # 0
      BY <2>1 DEF ServersInv, Up
    <3>2. e \in Ends(Server)
      BY <2>1, EndsWithin, SMTT(30) DEF EndsInv
    <3> QED
      BY <3>1, <3>2
  <2>2. CASE pc = "shut"
    <3>1. e \in Ends({s \in Server : s >= i})
      BY <2>2 DEF EndsInv
    <3>2. \A s \in {t \in Server : t >= i} : kvservers[s] = gen[s] /\ gen[s] # 0
      BY <2>2, SMTT(30) DEF ServersInv, Up, HarnessTypes, Server
    <3>3. {s \in Server : s >= i} \in SUBSET Server
      OBVIOUS
    <3> QED
      BY <3>1, <3>2, <3>3
  <2>3. CASE pc \in Stopping \ {"shut"}
    <3>1. e \in Ends({s \in Server : s > i})
      BY <2>3 DEF EndsInv
    <3>2. \A s \in {t \in Server : t > i} : kvservers[s] = gen[s] /\ gen[s] # 0
      <4>1. \A s \in Server : s > i => ~(s < i)
        BY SMTT(30) DEF HarnessTypes, Server
      <4>2. pc = "delete" \/ pc \in {"copy", "kill"}
        BY <2>3, SMTT(30) DEF Stopping
      <4>3. \A s \in {t \in Server : t > i} : Up(s)
        BY <4>1, <4>2 DEF ServersInv
      <4> QED
        BY <4>3 DEF Up
    <3>3. {s \in Server : s > i} \in SUBSET Server
      OBVIOUS
    <3> QED
      BY <3>1, <3>2, <3>3
  <2>4. pc \notin Starting
    BY SMTT(30) DEF EndsInv
  <2> QED
    BY <2>1, <2>2, <2>3, <2>4 DEF HarnessTypes, Alive
<1>2. PICK a, b \in S : e = <<a, gen[a], b>>
  BY <1>1, EndOf, SMTT(30)
<1>3. e[1] = a /\ e[2] = gen[a] /\ e[3] = b
  BY <1>2, SMTT(30)
<1> QED
  BY <1>1, <1>3

-----------------------------------------------------------------------------
(* The loop variable, the partitioner and the groups. *)

LEMMA WaitTakes ==
    ASSUME LoopInv, ClientInv, Wait
    PROVE  /\ i \in 0..(NClients - 1)
           /\ i' = IF i = NClients - 1 THEN 0 ELSE i + 1
<1>1. PICK c \in clnt : c.me = i
  BY DEF Wait
<1>2. i \in 0..(NClients - 1)
  BY <1>1 DEF ClientInv, Client
<1>3. i' = (i + 1) % NClients
  BY DEF Wait
<1> QED
  BY <1>2, <1>3, NextIndex, ClientsAssumption

LEMMA LoopSteady ==
    ASSUME HarnessTypes, LoopInv, ClientInv, Steady
    PROVE  LoopInv'
<1>0. 0 \in Server /\ 0 < NClients
  BY NAssumption, ClientsAssumption, SMTT(30) DEF Server
<1>1. CASE Connected
  BY <1>0, <1>1, SMTT(30) DEF Connected, AfterConnect, LoopInv, Starting, Stopping, Divided
<1>2. CASE FirstClient
  BY <1>2, Zenon DEF FirstClient, drive, LoopInv, Starting, Stopping, Divided
<1>3. CASE Iterate
  BY <1>3, SMTT(30) DEF Iterate, LoopInv, Starting, Stopping, Divided
<1>4. CASE GoPartitioner
  BY <1>4, Zenon DEF GoPartitioner, LoopInv, Starting, Stopping, Divided
<1>5. CASE TellToQuit
  BY <1>0, <1>5, SMTT(30) DEF TellToQuit, Settle, LoopInv, Starting, Stopping, Divided
<1>6. CASE Join
  BY <1>6, SMTT(30) DEF Join, LoopInv, Starting, Stopping, Divided
<1>7. CASE Heal
  BY <1>0, <1>7, SMTT(30) DEF Heal, Settle, LoopInv, Starting, Stopping, Divided
<1>8. CASE Wait
  <2>1. UNCHANGED <<test, iter, sides, part>> /\ pc = "wait"
    BY <1>8 DEF Wait
  <2>2. \/ pc' = "cleanup"
        \/ pc' = "iterate" /\ i = NClients - 1
        \/ pc' = "wait" /\ i # NClients - 1
    BY <1>8 DEF Wait, NextIteration
  <2>3. i \in 0..(NClients - 1) /\ i' = IF i = NClients - 1 THEN 0 ELSE i + 1
    BY <1>8, WaitTakes
  <2>4. part = "none" /\ sides = Whole
    BY <2>1, SMTT(30) DEF LoopInv, Divided
  <2> QED
    BY <2>1, <2>2, <2>3, <2>4, ClientsAssumption, SMTT(30) DEF LoopInv, Starting, Stopping
<1>9. CASE cleanup
  BY <1>9, SMTT(30) DEF cleanup, drive, LoopInv, Starting, Stopping, Divided
<1>10. CASE OnePartition
  <2>1. CASE Choose
    BY <2>1, SMTT(30) DEF Choose, LoopInv, Starting, Stopping, Divided
  <2>2. CASE Cut
    BY <2>2, Zenon DEF Cut, drive, LoopInv, Starting, Stopping, Divided
  <2>3. CASE SideClient
    BY <2>3, SMTT(30) DEF SideClient, SideOf, After, drive, LoopInv, Starting, Stopping, Divided
  <2>4. CASE Check
    BY <2>4, Zenon DEF Check, drive, LoopInv, Starting, Stopping, Divided
  <2>5. CASE Mend
    BY <2>5, SMTT(30) DEF Mend, LoopInv, Starting, Stopping, Divided
  <2>6. CASE Free
    BY <2>6, SMTT(30) DEF Free, drive, LoopInv, Starting, Stopping, Divided
  <2> QED
    BY <1>10, <2>1, <2>2, <2>3, <2>4, <2>5, <2>6 DEF OnePartition
<1> QED
  BY <1>1, <1>2, <1>3, <1>4, <1>5, <1>6, <1>7, <1>8, <1>9, <1>10 DEF Steady

LEMMA LoopStep ==
    ASSUME HarnessTypes, LoopInv, ClientInv, Next, Alive'
    PROVE  LoopInv'
<1>1. CASE Steady
  BY <1>1, LoopSteady
<1>2. CASE StartServer
  BY <1>2, SMTT(30) DEF StartServer, drive, LoopInv, Starting, Stopping, Divided
<1>3. CASE StartKVServer
  <2>1. i \in Server /\ pc = "serve"
    BY <1>3, SMTT(30) DEF StartKVServer, LoopInv, Starting
  <2>2. i' = (IF i = N - 1 THEN 0 ELSE i + 1) /\ pc' = (IF i = N - 1 THEN "connect" ELSE "start")
    BY <1>3, <2>1, NextServer DEF StartKVServer
  <2>3. i' \in Server
    BY <2>1, <2>2, NAssumption, SMTT(30) DEF Server
  <2>4. UNCHANGED <<test, iter, sides, part>>
    BY <1>3 DEF StartKVServer, drive
  <2> QED
    BY <2>1, <2>2, <2>3, <2>4, SMTT(30) DEF LoopInv, Starting, Stopping, Divided
<1>4. CASE ShutDisconnect \/ ShutDelete \/ ShutCopy
  BY <1>4, SMTT(30) DEF ShutDisconnect, ShutDelete, ShutCopy, drive, LoopInv, Starting, Stopping, Divided
<1>5. CASE ShutKill
  <2>1. i \in Server /\ pc = "kill"
    BY <1>5, SMTT(30) DEF ShutKill, LoopInv, Stopping
  <2>2. i' = (IF i = N - 1 THEN 0 ELSE i + 1) /\ pc' = (IF i = N - 1 THEN "start" ELSE "shut")
    BY <1>5, <2>1, NextServer DEF ShutKill
  <2>3. i' \in Server
    BY <2>1, <2>2, NAssumption, SMTT(30) DEF Server
  <2>4. UNCHANGED <<test, iter, sides, part>>
    BY <1>5 DEF ShutKill, drive
  <2> QED
    BY <2>1, <2>2, <2>3, <2>4, SMTT(30) DEF LoopInv, Starting, Stopping, Divided
<1>6. CASE Partitioner
  BY <1>6, SMTT(30) DEF Partitioner, partitioner, LoopInv, Starting, Stopping, Divided
<1>7. CASE Clients \/ Traffic
  <2>1. UNCHANGED <<test, pc, i, iter, sides, part>>
    BY <1>7, OthersStep DEF Clients, Traffic, drive, Alive
  <2> QED
    BY <2>1 DEF LoopInv, make_partition, others
<1> QED
  BY <1>1, <1>2, <1>3, <1>4, <1>5, <1>6, <1>7, NextSteps

LEMMA GroupsStep ==
    ASSUME Groups(sides), Next
    PROVE  Groups(sides)'
<1>1. sides' = sides \/ sides' = Whole \/ sides' \in Splits \/ \E l \in Server : sides' = make_partition(l)
  <2>1. CASE Steady
    BY <2>1 DEF Steady, OnePartition, Connected, FirstClient, Iterate, GoPartitioner, TellToQuit,
         Join, Heal, Wait, cleanup, Choose, Cut, SideClient, Check, Mend, Free, drive
  <2>2. CASE Partitioner
    BY <2>2 DEF Partitioner, partitioner
  <2>3. CASE ~Steady /\ ~Partitioner
    BY <2>3, NextSteps DEF StartServer, StartKVServer, ShutDisconnect, ShutDelete, ShutCopy, ShutKill,
         Clients, Traffic, drive
  <2> QED
    BY <2>1, <2>2, <2>3
<1>2. Groups(sides')
  BY <1>1, WholeGroups, SplitsGroups, MakePartitionGroups
<1> QED
  BY <1>2 DEF Groups

-----------------------------------------------------------------------------
(* The clerks of TestOnePartition. *)

LEMMA ClerksKept ==
    ASSUME ClerkInv, cends' = cends,
           pc \in Late => pc' \in Late,
           pc \in Divided => pc' \in Late \/ (pc' \in Divided /\ sides' = sides)
    PROVE  ClerkInv'
  BY DEF ClerkInv

\* A clerk that no part of the network is kept from.
LEMMA ClerkAdded ==
    ASSUME ClerkInv, NEW ck, \A k \in DOMAIN SideOf : ck # Named(k), NEW to,
           ConnectClientUnlocked(ck, to),
           pc \in Late => pc' \in Late,
           pc \in Divided => pc' \in Late \/ (pc' \in Divided /\ sides' = sides)
    PROVE  ClerkInv'
<1> SUFFICES ASSUME NEW k \in DOMAIN SideOf, NEW s \in Server, <<Named(k), s>> \in cends'
             PROVE  \/ pc' \in Late
                    \/ pc' \in Divided /\ s \in Range(sides'[SideOf[k]])
  BY DEF ClerkInv
<1>1. ASSUME <<Named(k), s>> \notin cends
      PROVE  FALSE
  <2>1. PICK j \in DOMAIN to : <<Named(k), s>> = <<ck, to[j]>>
    BY <1>1 DEF ConnectClientUnlocked
  <2>2. Named(k) = ck
    BY <2>1, SMTT(30)
  <2> QED
    BY <2>2
<1> QED
  BY <1>1 DEF ClerkInv

\* The names of the clerks differ.
LEMMA ClerkNames ==
    /\ \A k \in DOMAIN SideOf : Named("ck") # Named(k)
    /\ \A x, y : \A k \in DOMAIN SideOf : <<"client", x, y>> # Named(k)
  BY SMTT(30) DEF SideOf, Named

LEMMA ClerkSteady ==
    ASSUME ClerkInv, Steady
    PROVE  ClerkInv'
<1>1. CASE FirstClient
  <2>1. ConnectClientUnlocked(Named("ck"), All) /\ pc \notin Late /\ pc \notin Divided
    BY <1>1, SMTT(30) DEF FirstClient, makeClient, Late, Divided
  <2> QED
    BY <2>1, ClerkNames, ClerkAdded
<1>2. CASE SideClient
  <2>1. /\ pc \in DOMAIN SideOf /\ ConnectClientUnlocked(Named(pc), sides[SideOf[pc]])
        /\ sides' = sides
    BY <1>2 DEF SideClient, makeClient, drive
  <2>2. pc \in Divided /\ pc' \in Divided /\ pc \notin Late
    BY <1>2, SMTT(30) DEF SideClient, SideOf, After, Divided, Late
  <2>3. ASSUME NEW k \in DOMAIN SideOf, NEW s \in Server, <<Named(k), s>> \in cends', <<Named(k), s>> \notin cends
        PROVE  s \in Range(sides[SideOf[k]])
    <3>1. PICK j \in DOMAIN sides[SideOf[pc]] : <<Named(k), s>> = <<Named(pc), sides[SideOf[pc]][j]>>
      BY <2>1, <2>3 DEF ConnectClientUnlocked
    <3>2. k = pc /\ s = sides[SideOf[pc]][j]
      BY <3>1, SMTT(30) DEF Named
    <3> QED
      BY <3>2 DEF Range
  <2> QED
    BY <2>1, <2>2, <2>3 DEF ClerkInv
<1>3. CASE Free
  <2>1. pc' \in Late
    BY <1>3, SMTT(30) DEF Free, Late
  <2> QED
    BY <2>1 DEF ClerkInv
<1>4. CASE Mend
  <2>1. pc' \in Late
    BY <1>4, SMTT(30) DEF Mend, Late
  <2> QED
    BY <2>1 DEF ClerkInv
<1>5. CASE Check
  <2>1. cends' = cends /\ sides' = sides
    BY <1>5 DEF Check, drive
  <2>2. pc \in Divided /\ pc \notin Late /\ (pc' \in Late \/ pc' \in Divided)
    BY <1>5, SMTT(30) DEF Check, Late, Divided
  <2> QED
    BY <2>1, <2>2, ClerksKept
<1>6. CASE cleanup
  <2>1. pc' \in Late
    BY <1>6, SMTT(30) DEF cleanup, Late
  <2> QED
    BY <2>1 DEF ClerkInv
<1>7. CASE Connected \/ Iterate \/ GoPartitioner \/ TellToQuit \/ Join \/ Heal \/ Wait \/ Choose \/ Cut
  <2>1. cends' = cends
    BY <1>7 DEF Connected, Iterate, GoPartitioner, TellToQuit, Join, Heal, Wait, Choose, Cut
  <2>2. pc \notin Late /\ pc \notin Divided
    BY <1>7, SMTT(30) DEF Connected, Iterate, GoPartitioner, TellToQuit, Join, Heal, Wait, Choose, Cut, Late, Divided
  <2> QED
    BY <2>1, <2>2, ClerksKept
<1> QED
  BY <1>1, <1>2, <1>3, <1>4, <1>5, <1>6, <1>7 DEF Steady, OnePartition

LEMMA ClerkStep ==
    ASSUME LoopInv, ClerkInv, Next, Alive'
    PROVE  ClerkInv'
<1>1. CASE Steady
  BY <1>1, ClerkSteady
<1>2. CASE StartServer \/ StartKVServer \/ ShutDisconnect \/ ShutDelete \/ ShutCopy \/ ShutKill
  <2>1. cends' = cends
    BY <1>2 DEF StartServer, StartKVServer, ShutDisconnect, ShutDelete, ShutCopy, ShutKill
  <2>2. pc \notin Late /\ pc \notin Divided
    BY <1>2, SMTT(30) DEF StartServer, StartKVServer, ShutDisconnect, ShutDelete, ShutCopy, ShutKill, Late, Divided
  <2> QED
    BY <2>1, <2>2, ClerksKept
<1>3. CASE Partitioner
  <2>1. cends' = cends /\ pc' = pc /\ part # "none"
    BY <1>3, SMTT(30) DEF Partitioner, partitioner
  <2>2. pc \notin Divided
    BY <2>1, SMTT(30) DEF LoopInv, Divided
  <2> QED
    BY <2>1, <2>2, ClerksKept
<1>4. CASE Traffic
  <2>1. cends' = cends /\ pc' = pc /\ sides' = sides
    BY <1>4 DEF Traffic, drive
  <2> QED
    BY <2>1, ClerksKept
<1>5. CASE Clients
  <2>1. pc' = pc /\ sides' = sides
    BY <1>5, OthersStep DEF Clients, Alive
  <2>2. PICK c \in clnt : run_client(c)
    BY <1>5 DEF Clients
  <2>3. CASE cends' = cends
    BY <2>1, <2>3, ClerksKept
  <2>4. CASE ConnectClientUnlocked(<<"client", c.it, c.me>>, All)
    BY <2>1, <2>4, ClerkNames, ClerkAdded
  <2> QED
    BY <2>2, <2>3, <2>4 DEF run_client, makeClient
<1> QED
  BY <1>1, <1>2, <1>3, <1>4, <1>5, NextSteps

-----------------------------------------------------------------------------
(* The clients of GenericTest. *)

ClientRecord == [it : 1..iter, me : Client, st : {"spawn", "run", "report", "delete", "signal"}]

\* The test's goroutine goes on without a client.
LEMMA ClientsKept ==
    ASSUME ClientInv, clnt' = clnt, iter' = iter,
           pc' = "wait" => i' = 0 \/ (pc = "wait" /\ i' = i),
           pc' = "iterate" => iter \in {0} \/ pc = "iterate"
    PROVE  ClientInv'
<1>1. Early' = Early
  BY DEF Early
<1>2. ASSUME pc' = "wait"
      PROVE  \A c \in Early : c.me >= i'
  <2>1. \A c \in Early : c.me \in Nat
    BY SMTT(30) DEF Early, ClientInv, Client
  <2> QED
    BY <1>2, <2>1, SMTT(30) DEF ClientInv
<1>3. ASSUME pc' = "iterate"
      PROVE  Early = {}
  <2>1. CASE iter = 0
    BY <2>1, SMTT(30) DEF ClientInv, Early
  <2> QED
    BY <1>3, <2>1 DEF ClientInv
<1> QED
  BY <1>1, <1>2, <1>3 DEF ClientInv

\* A client goes on, and stays one the test waits for or not.
LEMMA ClientMoves ==
    ASSUME ClientInv, NEW c \in clnt, NEW st \in {"spawn", "run", "report", "delete", "signal"},
           Move(c, st), UNCHANGED iter,
           pc' = pc /\ i' = i /\ (c.st \in {"spawn", "run"} \/ st \in {"delete", "signal"})
    PROVE  ClientInv'
<1> DEFINE d == [c EXCEPT !.st = st]
<1>1. d.it = c.it /\ d.me = c.me /\ d.st = st /\ c \in ClientRecord
  BY SMTT(30) DEF ClientInv, ClientRecord
<1>2. d \in ClientRecord
  BY <1>1 DEF ClientRecord
<1>3. clnt' = (clnt \ {c}) \cup {d}
  BY DEF Move
<1> HIDE DEF d
<1>4. \A x \in clnt' : x \in ClientRecord'
  BY <1>2, <1>3 DEF ClientInv, ClientRecord
<1>5. \A x, y \in clnt' : x.it = y.it /\ x.me = y.me => x = y
  BY <1>1, <1>3, SMTT(30) DEF ClientInv
<1>6. \A x \in Early' : x \in Early \/ (x = d /\ c \in Early)
  BY <1>1, <1>3, SMTT(30) DEF Early
<1>7. \A x \in Early' : \E y \in Early : x.it = y.it /\ x.me = y.me
  BY <1>1, <1>6
<1>8. \A x \in Early' : x.it = iter'
  BY <1>7 DEF ClientInv
<1>9. pc' = "iterate" => Early' = {}
  BY <1>7 DEF ClientInv
<1>10. pc' = "wait" => \A x \in Early' : x.me >= i'
  BY <1>7 DEF ClientInv
<1> QED
  BY <1>4, <1>5, <1>8, <1>9, <1>10 DEF ClientInv, ClientRecord

LEMMA ClientsIterate ==
    ASSUME HarnessTypes, ClientInv, Iterate
    PROVE  ClientInv'
<1> DEFINE new(c) == [it |-> iter', me |-> c, st |-> "spawn"]
<1>1. /\ pc = "iterate" /\ pc' \notin {"iterate", "wait"}
      /\ iter \in Nat /\ iter' = iter + 1
  BY SMTT(30) DEF Iterate, HarnessTypes
<1>2. clnt' = clnt \cup {new(c) : c \in Client}
  BY DEF Iterate
<1>3. \A c \in Client : new(c).it = iter' /\ new(c).me = c /\ new(c) \in ClientRecord'
  <2>1. iter' \in 1..iter'
    BY <1>1, SMTT(30)
  <2> QED
    BY <2>1 DEF ClientRecord
<1>4. \A c \in clnt : c \in ClientRecord' /\ c.it # iter' /\ c \notin Early
  <2>1. \A c \in clnt : c \in ClientRecord /\ c \notin Early
    BY <1>1 DEF ClientInv, ClientRecord
  <2>2. \A c \in ClientRecord : c.it \in 1..iter
    BY DEF ClientRecord
  <2>3. 1..iter \subseteq 1..iter' /\ iter' \notin 1..iter
    BY <1>1, SMTT(30)
  <2>4. ClientRecord \subseteq ClientRecord'
    BY <2>3 DEF ClientRecord
  <2> QED
    BY <2>1, <2>2, <2>3, <2>4
<1> HIDE DEF new
<1>5. \A c \in clnt' : c \in ClientRecord'
  BY <1>2, <1>3, <1>4
<1>6. \A c \in clnt' : c \in clnt \/ (c.it = iter' /\ c = new(c.me))
  BY <1>2, <1>3
<1>7. \A c, d \in clnt' : c.it = d.it /\ c.me = d.me => c = d
  BY <1>4, <1>6, SMTT(30) DEF ClientInv
<1>8. \A c \in Early' : c.it = iter'
  BY <1>4, <1>6 DEF Early
<1> QED
  BY <1>1, <1>5, <1>7, <1>8, Zenon DEF ClientInv, ClientRecord

LEMMA ClientsWait ==
    ASSUME HarnessTypes, LoopInv, ClientInv, Wait
    PROVE  ClientInv'
<1>1. PICK c \in clnt : /\ c.st = "report" /\ c.me = i
                        /\ clnt' = (clnt \ {c}) \cup {[c EXCEPT !.st = "delete"]}
  BY DEF Wait
<1> DEFINE d == [c EXCEPT !.st = "delete"]
<1>2. d.it = c.it /\ d.me = c.me /\ d.st = "delete" /\ c \in ClientRecord
  BY SMTT(30) DEF ClientInv, ClientRecord
<1>3. d \in ClientRecord
  BY <1>2 DEF ClientRecord
<1>4. clnt' = (clnt \ {c}) \cup {d} /\ iter' = iter /\ pc = "wait"
  BY <1>1 DEF Wait
<1> HIDE DEF d
<1>5. \A x \in clnt' : x \in ClientRecord'
  BY <1>3, <1>4 DEF ClientInv, ClientRecord
<1>6. \A x, y \in clnt' : x.it = y.it /\ x.me = y.me => x = y
  BY <1>2, <1>4, SMTT(30) DEF ClientInv
<1>7. \A x \in Early' : x \in Early /\ x # c
  BY <1>2, <1>4, SMTT(30) DEF Early
<1>8. c \in Early
  BY <1>1, SMTT(30) DEF Early
<1>9. \A x \in Early' : x.it = iter' /\ x.me # i
  <2>1. \A x \in Early' : x.it = iter /\ c.it = iter
    BY <1>7, <1>8 DEF ClientInv
  <2> QED
    BY <1>1, <1>4, <1>7, <2>1 DEF ClientInv, Early
<1>10. \A x \in Early' : x.me \in Client /\ x.me >= i
  BY <1>4, <1>7, SMTT(30) DEF ClientInv, Early
<1>11. i \in 0..(NClients - 1) /\ i' = IF i = NClients - 1 THEN 0 ELSE i + 1
  BY WaitTakes
<1>12. \/ pc' = "cleanup"
       \/ pc' = "iterate" /\ i = NClients - 1
       \/ pc' \in {"wait", "cleanup"} /\ i # NClients - 1
  BY DEF Wait, NextIteration
<1>13. i = NClients - 1 => Early' = {}
  BY <1>9, <1>10, ClientsAssumption, SMTT(30) DEF Client
<1>14. i # NClients - 1 => \A x \in Early' : x.me >= i'
  BY <1>9, <1>10, <1>11, ClientsAssumption, SMTT(30) DEF Client
<1>15. pc' = "iterate" => Early' = {}
  BY <1>12, <1>13, SMTT(30)
<1>16. pc' = "wait" => \A x \in Early' : x.me >= i'
  BY <1>12, <1>14, SMTT(30)
<1> QED
  BY <1>5, <1>6, <1>9, <1>15, <1>16 DEF ClientInv, ClientRecord

\* A client's signal is taken.
LEMMA ClientsFewer ==
    ASSUME ClientInv, clnt' \subseteq clnt, UNCHANGED <<pc, i, iter>>
    PROVE  ClientInv'
<1>1. Early' \subseteq Early
  BY DEF Early
<1> QED
  BY <1>1 DEF ClientInv

LEMMA ClientStep ==
    ASSUME HarnessTypes, LoopInv, ClientInv, Next, Alive'
    PROVE  ClientInv'
<1>1. CASE Iterate
  BY <1>1, ClientsIterate
<1>2. CASE Wait
  BY <1>2, ClientsWait
<1>3. CASE Steady /\ ~Iterate /\ ~Wait
  <2>1. clnt' = clnt /\ iter' = iter
    BY <1>3 DEF Steady, OnePartition, Connected, FirstClient, GoPartitioner, TellToQuit, Join, Heal,
         cleanup, Choose, Cut, SideClient, Check, Mend, Free, drive
  <2>2. /\ pc' # "iterate" \/ iter = 0
        /\ pc' # "wait" \/ i' = 0
    <3>1. CASE FirstClient
      BY <3>1, Zenon DEF FirstClient, LoopInv
    <3>2. CASE Connected \/ TellToQuit \/ Heal
      BY <3>2, Zenon DEF Connected, AfterConnect, TellToQuit, Heal, Settle, LoopInv
    <3>3. CASE GoPartitioner \/ Join \/ cleanup \/ Choose \/ Cut \/ Check \/ Mend \/ Free
      BY <3>3, Zenon DEF GoPartitioner, Join, cleanup, Choose, Cut, Check, Mend, Free
    <3>4. CASE SideClient
      BY <3>4, AfterSide, Zenon DEF SideClient
    <3> QED
      BY <1>3, <3>1, <3>2, <3>3, <3>4 DEF Steady, OnePartition
  <2> QED
    BY <2>1, <2>2, ClientsKept
<1>4. CASE StartServer \/ StartKVServer \/ ShutDisconnect \/ ShutDelete \/ ShutCopy \/ ShutKill
  <2>1. clnt' = clnt /\ iter' = iter
    BY <1>4 DEF StartServer, StartKVServer, ShutDisconnect, ShutDelete, ShutCopy, ShutKill, drive
  <2>2. pc' \notin {"iterate", "wait"}
    BY <1>4, SMTT(30) DEF StartServer, StartKVServer, ShutDisconnect, ShutDelete, ShutCopy, ShutKill
  <2> QED
    BY <2>1, <2>2, ClientsKept
<1>5. CASE Partitioner \/ Traffic
  <2>1. UNCHANGED <<clnt, iter, pc, i>>
    BY <1>5 DEF Partitioner, Traffic, drive
  <2> QED
    BY <2>1, ClientsKept
<1>6. CASE Clients
  <2>1. UNCHANGED <<pc, i, iter>>
    BY <1>6, OthersStep DEF Alive
  <2>2. PICK c \in clnt : run_client(c)
    BY <1>6 DEF Clients
  <2>3. \/ c.st = "spawn" /\ Move(c, "run")
        \/ c.st = "run" /\ Move(c, "report")
        \/ clnt' = clnt
        \/ Move(c, "signal")
        \/ clnt' = clnt \ {c}
    BY <2>2 DEF run_client
  <2>4. CASE clnt' \subseteq clnt
    BY <2>1, <2>4, ClientsFewer
  <2>5. CASE c.st = "spawn" /\ Move(c, "run")
    BY <2>1, <2>5, ClientMoves
  <2>6. CASE c.st = "run" /\ Move(c, "report")
    BY <2>1, <2>6, ClientMoves
  <2>7. CASE Move(c, "signal")
    BY <2>1, <2>7, ClientMoves
  <2> QED
    BY <2>3, <2>4, <2>5, <2>6, <2>7
<1> QED
  BY <1>1, <1>2, <1>3, <1>4, <1>5, <1>6, NextSteps

-----------------------------------------------------------------------------
(* Types. *)

\* What no step of the tests between restarts, and no client, touches.
LEMMA SteadyKeeps ==
    ASSUME Steady \/ Partitioner \/ Clients
    PROVE  UNCHANGED <<test, gen, servers, kvservers, disk, saved, holds, calls, acked, writes>>
  BY DEF Steady, OnePartition, Connected, FirstClient, Iterate, GoPartitioner, TellToQuit, Join, Heal, Wait,
       cleanup, Choose, Cut, SideClient, Check, Mend, Free, Partitioner, Clients, net, stores, traffic

LEMMA ClerkEndsAdded ==
    ASSUME cends \subseteq ClerkEnds, NEW ck \in {"ck", "ckp1", "ckp2a", "ckp2b", "client"} \X Nat \X Nat,
           NEW to \in Seq(Server), ConnectClientUnlocked(ck, to)
    PROVE  cends' \subseteq ClerkEnds
<1>1. \A j \in DOMAIN to : <<ck, to[j]>> \in ClerkEnds
  BY SMTT(30) DEF ClerkEnds
<1> QED
  BY <1>1 DEF ConnectClientUnlocked

LEMMA ClerkEndsStep ==
    ASSUME HarnessTypes, Groups(sides), Next, ClientInv
    PROVE  cends' \subseteq ClerkEnds
<1>1. cends \subseteq ClerkEnds
  BY DEF HarnessTypes
<1>2. \A k \in {"ck", "ckp1", "ckp2a", "ckp2b"} : Named(k) \in {"ck", "ckp1", "ckp2a", "ckp2b", "client"} \X Nat \X Nat
  BY SMTT(30) DEF Named
<1>3. CASE FirstClient
  <2>1. ConnectClientUnlocked(Named("ck"), All)
    BY <1>3 DEF FirstClient, makeClient
  <2> QED
    BY <1>1, <1>2, <2>1, ClerkEndsAdded, AllServers
<1>4. CASE SideClient
  <2>1. pc \in {"ckp1", "ckp2a", "ckp2b"} /\ SideOf[pc] \in {1, 2}
    BY <1>4, SMTT(30) DEF SideClient, SideOf
  <2>2. ConnectClientUnlocked(Named(pc), sides[SideOf[pc]])
    BY <1>4 DEF SideClient, makeClient
  <2>3. sides[SideOf[pc]] \in Seq(Server)
    BY <2>1, SMTT(30) DEF Groups
  <2>4. Named(pc) \in {"ck", "ckp1", "ckp2a", "ckp2b", "client"} \X Nat \X Nat
    BY <1>2, <2>1
  <2> QED
    BY <1>1, <2>2, <2>3, <2>4, ClerkEndsAdded
<1>5. CASE Free
  <2>1. ConnectClientUnlocked(Named("ckp2a"), All) \/ ConnectClientUnlocked(Named("ckp2b"), All)
    BY <1>5 DEF Free, ConnectClient
  <2> QED
    BY <1>1, <1>2, <2>1, ClerkEndsAdded, AllServers
<1>6. CASE Clients
  <2>1. PICK c \in clnt : run_client(c)
    BY <1>6 DEF Clients
  <2>2. <<"client", c.it, c.me>> \in {"ck", "ckp1", "ckp2a", "ckp2b", "client"} \X Nat \X Nat
    BY SMTT(30) DEF ClientInv, Client
  <2>3. cends' = cends \/ ConnectClientUnlocked(<<"client", c.it, c.me>>, All)
    BY <2>1 DEF run_client, makeClient
  <2> QED
    BY <1>1, <2>2, <2>3, ClerkEndsAdded, AllServers
<1>7. CASE ~(FirstClient \/ SideClient \/ Free \/ Clients)
  <2>1. cends' = cends
    BY <1>7, NextSteps DEF Steady, OnePartition, Connected, Iterate, GoPartitioner, TellToQuit, Join, Heal, Wait,
       cleanup, Choose, Cut, Check, Mend, Partitioner, Traffic, StartServer, StartKVServer,
       ShutDisconnect, ShutDelete, ShutCopy, ShutKill
  <2> QED
    BY <1>1, <2>1
<1> QED
  BY <1>3, <1>4, <1>5, <1>6, <1>7

-----------------------------------------------------------------------------
(* Persisters and calls. *)

\* An end leads to a server.
LEMMA ToServer ==
    ASSUME NEW e \in (Server \X Nat \X Server) \cup ClerkEnds
    PROVE  To(e) \in Server
<1>1. CASE e \in Server \X Nat \X Server
  <2>1. PICK a \in Server, g \in Nat, b \in Server : e = <<a, g, b>>
    BY <1>1, SMTT(30)
  <2>2. Len(<<a, g, b>>) = 3 /\ <<a, g, b>>[3] = b
    BY SMTT(30)
  <2> QED
    BY <2>1, <2>2 DEF To
<1>2. CASE e \in ClerkEnds
  <2> DEFINE names == {"ck", "ckp1", "ckp2a", "ckp2b", "client"} \X Nat \X Nat
  <2>0. e \in names \X Server
    BY <1>2 DEF ClerkEnds
  <2> HIDE DEF names
  <2>1. PICK ck \in names, b \in Server : e = <<ck, b>>
    BY <2>0, SMTT(30)
  <2>2. Len(<<ck, b>>) = 2 /\ <<ck, b>>[2] = b
    BY SMTT(30)
  <2> QED
    BY <2>1, <2>2 DEF To
<1> QED
  BY <1>1, <1>2

\* What the invariants on Persisters need of a step: they are kept or grow, an
\* instance keeps the one it was given, and saved[s] moves to a copy only when
\* no instance of s is registered.
LEMMA StoresGrow ==
    ASSUME HarnessTypes, StoreInv, Registered, CallInv,
           UNCHANGED <<calls, acked, holds>>,
           \A s \in Server : servers'[s] \in {0, servers[s]},
           NEW k \in Server, servers'[k] = 0,
           disk' = [disk EXCEPT ![k] = Append(@, Fresh(k))],
           saved' = [saved EXCEPT ![k] = Len(disk'[k])]
    PROVE  /\ disk' \in [Server -> Seq(SUBSET Nat)] /\ saved' \in [Server -> Nat]
           /\ StoreInv' /\ Registered' /\ CallInv'
<1>1. /\ disk[k] \in Seq(SUBSET Nat) /\ Len(disk[k]) \in Nat /\ saved[k] = Len(disk[k])
  BY SMTT(30) DEF HarnessTypes, StoreInv
<1>2. Fresh(k) \in SUBSET Nat
  <2>1. CASE saved[k] = 0
    BY <2>1, Zenon DEF Fresh
  <2>2. CASE saved[k] # 0
    <3>1. saved[k] \in 1..Len(disk[k])
      BY <1>1, <2>2, SMTT(30)
    <3> QED
      BY <1>1, <2>2, <3>1, SMTT(30) DEF Fresh
  <2> QED
    BY <2>1, <2>2
<1>3. /\ disk'[k] \in Seq(SUBSET Nat) /\ Len(disk'[k]) = Len(disk[k]) + 1
      /\ disk'[k][Len(disk[k]) + 1] = Fresh(k)
      /\ \A j \in 1..Len(disk[k]) : disk'[k][j] = disk[k][j]
  <2>1. disk'[k] = Append(disk[k], Fresh(k))
    BY Zenon DEF HarnessTypes
  <2> HIDE DEF Fresh
  <2> QED
    BY <1>1, <1>2, <2>1, SMTT(30)
<1>4. saved'[k] = Len(disk[k]) + 1 /\ \A s \in Server \ {k} : disk'[s] = disk[s] /\ saved'[s] = saved[s]
  BY <1>3, SMTT(30) DEF HarnessTypes
<1>5. disk' \in [Server -> Seq(SUBSET Nat)] /\ saved' \in [Server -> Nat]
  <2>1. disk' \in [Server -> Seq(SUBSET Nat)]
    <3>1. Append(disk[k], Fresh(k)) \in Seq(SUBSET Nat)
      BY <1>3, Zenon DEF HarnessTypes
    <3> QED
      BY <3>1 DEF HarnessTypes
  <2>2. Len(disk'[k]) \in Nat
    BY <1>1, <1>3, SMTT(30)
  <2> QED
    BY <2>1, <2>2 DEF HarnessTypes
<1>6. \A s \in Server : \A j \in DOMAIN disk[s] : j \in DOMAIN disk'[s] /\ disk'[s][j] = disk[s][j]
  <2>1. \A j \in DOMAIN disk[k] : j \in DOMAIN disk'[k] /\ disk'[k][j] = disk[k][j]
    BY <1>1, <1>3, SMTT(30)
  <2> QED
    BY <1>4, <2>1
<1>7. StoreInv'
  <2> SUFFICES ASSUME NEW s \in Server
               PROVE  /\ saved'[s] = Len(disk'[s])
                      /\ \A j \in DOMAIN holds'[s] : holds'[s][j] \in DOMAIN disk'[s]
                      /\ acked'[s] # {} => saved'[s] # 0 /\ acked'[s] \subseteq disk'[s][saved'[s]]
    BY DEF StoreInv
  <2>1. \A j \in DOMAIN holds'[s] : holds'[s][j] \in DOMAIN disk'[s]
    BY <1>6 DEF StoreInv
  <2>2. CASE s = k
    <3>1. acked[k] # {} => acked[k] \subseteq Fresh(k)
      BY DEF StoreInv, Fresh
    <3>2. saved'[k] # 0 /\ disk'[k][saved'[k]] = Fresh(k) /\ saved'[k] = Len(disk'[k])
      BY <1>1, <1>3, <1>4, SMTT(30)
    <3> QED
      BY <2>1, <2>2, <3>1, <3>2
  <2>3. CASE s # k
    BY <1>4, <2>1, <2>3 DEF StoreInv
  <2> QED
    BY <2>2, <2>3
<1>8. Registered'
  <2> SUFFICES ASSUME NEW s \in Server, servers'[s] # 0
               PROVE  servers'[s] \in DOMAIN holds'[s] /\ saved'[s] = holds'[s][servers'[s]]
    BY DEF Registered
  <2>1. s # k /\ servers'[s] = servers[s] /\ servers[s] # 0
    BY SMTT(30)
  <2> QED
    BY <1>4, <2>1 DEF Registered
<1>9. CallInv'
  <2> SUFFICES ASSUME NEW c \in calls
               PROVE  /\ c.inst \in DOMAIN holds[To(c.end)]
                      /\ c.st = "saved" => c.w \in disk'[To(c.end)][holds[To(c.end)][c.inst]]
    BY DEF CallInv
  <2>1. To(c.end) \in Server
    BY ToServer DEF HarnessTypes, CallRecord
  <2>2. c.inst \in DOMAIN holds[To(c.end)]
    BY DEF CallInv
  <2>3. holds[To(c.end)][c.inst] \in DOMAIN disk[To(c.end)]
    BY <2>1, <2>2 DEF StoreInv
  <2> QED
    BY <1>6, <2>1, <2>2, <2>3 DEF CallInv
<1> QED
  BY <1>5, <1>7, <1>8, <1>9

\* What the steps other than those on calls and on the Persisters need.
LEMMA StoresKept ==
    ASSUME StoreInv, Registered, CallInv, UNCHANGED <<disk, saved, holds, acked, calls>>,
           \A s \in Server : servers'[s] \in {0, servers[s]}
    PROVE  StoreInv' /\ Registered' /\ CallInv'
<1>1. StoreInv' /\ CallInv'
  BY DEF StoreInv, CallInv
<1> QED
  BY <1>1, SMTT(30) DEF Registered

\* StartKVServer hands the next instance the Persister that saved[i] names.
LEMMA StartKVServerStores ==
    ASSUME HarnessTypes, StoreInv, Registered, CallInv, ServersInv, LoopInv, StartKVServer,
           saved[i] # 0
    PROVE  /\ holds' \in [Server -> Seq(Nat)] /\ servers' \in [Server -> Nat] /\ kvservers' \in [Server -> Nat]
           /\ StoreInv' /\ Registered' /\ CallInv'
<1>1. /\ i \in Server /\ Len(holds[i]) + 1 = gen[i] /\ holds[i] \in Seq(Nat) /\ saved[i] \in Nat
      /\ gen[i] \in Nat /\ Len(holds[i]) \in Nat
  BY SMTT(30) DEF StartKVServer, LoopInv, Starting, ServersInv, HarnessTypes
<1>2. /\ holds' = [holds EXCEPT ![i] = Append(@, saved[i])]
      /\ servers' = [servers EXCEPT ![i] = gen[i]] /\ kvservers' = [kvservers EXCEPT ![i] = gen[i]]
      /\ UNCHANGED <<disk, saved, acked, calls>>
  BY DEF StartKVServer, traffic
<1>3. /\ Append(holds[i], saved[i]) \in Seq(Nat) /\ Len(Append(holds[i], saved[i])) = gen[i]
      /\ Append(holds[i], saved[i])[gen[i]] = saved[i]
      /\ \A j \in DOMAIN holds[i] : j \in DOMAIN Append(holds[i], saved[i])
                                      /\ Append(holds[i], saved[i])[j] = holds[i][j]
      /\ \A j \in DOMAIN Append(holds[i], saved[i]) : j \in DOMAIN holds[i] \/ j = gen[i]
      /\ gen[i] \in DOMAIN Append(holds[i], saved[i])
  BY <1>1, SMTT(30)
<1>4. /\ holds' \in [Server -> Seq(Nat)] /\ servers' \in [Server -> Nat] /\ kvservers' \in [Server -> Nat]
  BY <1>1, <1>2, <1>3 DEF HarnessTypes
<1>5. /\ holds'[i] = Append(holds[i], saved[i]) /\ servers'[i] = gen[i]
      /\ \A s \in Server \ {i} : holds'[s] = holds[s] /\ servers'[s] = servers[s]
  BY <1>1, <1>2 DEF HarnessTypes
<1>6. StoreInv'
  <2> SUFFICES ASSUME NEW s \in Server
               PROVE  /\ saved[s] = Len(disk[s])
                      /\ \A j \in DOMAIN holds'[s] : holds'[s][j] \in DOMAIN disk[s]
                      /\ acked[s] # {} => saved[s] # 0 /\ acked[s] \subseteq disk[s][saved[s]]
    BY <1>2 DEF StoreInv
  <2>1. CASE s # i
    BY <1>5, <2>1 DEF StoreInv
  <2>2. CASE s = i
    <3>1. saved[i] \in DOMAIN disk[i]
      BY <1>1, SMTT(30) DEF StoreInv, HarnessTypes
    <3> QED
      BY <1>3, <1>5, <2>2, <3>1 DEF StoreInv
  <2> QED
    BY <2>1, <2>2
<1>7. Registered'
  BY <1>2, <1>3, <1>5 DEF Registered
<1>8. CallInv'
  <2> SUFFICES ASSUME NEW c \in calls
               PROVE  /\ c.inst \in DOMAIN holds'[To(c.end)]
                      /\ c.st = "saved" => c.w \in disk[To(c.end)][holds'[To(c.end)][c.inst]]
    BY <1>2 DEF CallInv
  <2>1. To(c.end) \in Server
    BY ToServer DEF HarnessTypes, CallRecord
  <2>2. \A s \in Server : \A j \in DOMAIN holds[s] : j \in DOMAIN holds'[s] /\ holds'[s][j] = holds[s][j]
    BY <1>3, <1>5
  <2> QED
    BY <2>1, <2>2 DEF CallInv
<1> QED
  BY <1>4, <1>6, <1>7, <1>8

\* A call is made over an end, to the instance that is registered.
LEMMA CallStores ==
    ASSUME HarnessTypes, Groups(sides), EndsInv, StoreInv, Registered, CallInv, Alive,
           UNCHANGED <<saved, holds, servers>>, NEW e \in enabled \cup cends, Call(e)
    PROVE  /\ calls' \subseteq CallRecord /\ acked' \in [Server -> SUBSET Nat] /\ writes' \in Nat
           /\ disk' \in [Server -> Seq(SUBSET Nat)]
           /\ StoreInv' /\ Registered' /\ CallInv'
<1> DEFINE r == [end |-> e, inst |-> servers[To(e)], w |-> writes + 1, st |-> "run"]
<1>1. calls' = calls \cup {r} /\ UNCHANGED <<disk, acked>> /\ writes' = writes + 1 /\ servers[To(e)] # 0
  BY DEF Call
<1>2. e \in (Server \X Nat \X Server) \cup ClerkEnds
  <2>1. CASE e \in cends
    BY <2>1 DEF HarnessTypes
  <2>2. CASE e \in enabled
    <3>1. PICK S \in SUBSET Server : e \in Ends(S)
      <4>1. {s \in Server : s >= i} \in SUBSET Server /\ {s \in Server : s > i} \in SUBSET Server
        OBVIOUS
      <4>2. CASE pc \in Running
        BY <2>2, <4>2, EndsWithin, Zenon DEF EndsInv
      <4>3. CASE pc \notin Running
        BY <2>2, <4>1, <4>3, SMTT(30) DEF EndsInv, HarnessTypes, Alive, Starting, Stopping
      <4> QED
        BY <4>2, <4>3
    <3>2. PICK a \in S, b \in S : e = <<a, gen[a], b>>
      BY <3>1, EndOf, SMTT(30)
    <3>3. a \in Server /\ b \in Server /\ gen[a] \in Nat
      BY DEF HarnessTypes
    <3> QED
      BY <3>2, <3>3
  <2> QED
    BY <2>1, <2>2
<1>3. To(e) \in Server
  BY <1>2, ToServer
<1>4. servers[To(e)] \in Nat /\ writes + 1 \in Nat
  BY <1>3, SMTT(30) DEF HarnessTypes
<1>5. r \in CallRecord
  BY <1>2, <1>4 DEF CallRecord
<1>6. StoreInv' /\ Registered'
  BY <1>1 DEF StoreInv, Registered
<1>7. r.inst \in DOMAIN holds[To(r.end)] /\ r.st # "saved"
  BY <1>1, <1>3 DEF Registered
<1> HIDE DEF r
<1>8. CallInv'
  BY <1>1, <1>7 DEF CallInv
<1> QED
  BY <1>1, <1>4, <1>5, <1>6, <1>8 DEF HarnessTypes

\* The handler writes to the Persister of its own instance, superseded or not.
LEMMA SaveStores ==
    ASSUME HarnessTypes, StoreInv, Registered, CallInv,
           UNCHANGED <<saved, holds, servers>>, NEW c \in calls, SaveRaftState(c)
    PROVE  /\ calls' \subseteq CallRecord /\ acked' \in [Server -> SUBSET Nat] /\ writes' \in Nat
           /\ disk' \in [Server -> Seq(SUBSET Nat)]
           /\ StoreInv' /\ Registered' /\ CallInv'
<1> DEFINE s == To(c.end)
           p == holds[s][c.inst]
           d == [c EXCEPT !.st = "saved"]
<1>1. /\ disk' = [disk EXCEPT ![s][p] = @ \cup {c.w}]
      /\ calls' = (calls \ {c}) \cup {d} /\ UNCHANGED <<acked, writes>>
  BY DEF SaveRaftState
<1>2. c \in CallRecord
  BY DEF HarnessTypes
<1>3. s \in Server /\ c.w \in Nat
  BY <1>2, ToServer DEF CallRecord
<1>4. p \in DOMAIN disk[s]
  BY <1>3 DEF CallInv, StoreInv
<1>5. d \in CallRecord /\ d.end = c.end /\ d.inst = c.inst /\ d.w = c.w
  <2>1. d \in CallRecord
    BY <1>2 DEF CallRecord
  <2>2. d.end = c.end /\ d.inst = c.inst /\ d.w = c.w
    BY <1>2, SMTT(30) DEF CallRecord
  <2> QED
    BY <2>1, <2>2
<1> HIDE DEF s, p, d
<1>6. disk[s] \in Seq(SUBSET Nat)
  BY <1>3 DEF HarnessTypes
<1>7. /\ [disk[s] EXCEPT ![p] = @ \cup {c.w}] \in Seq(SUBSET Nat)
      /\ Len([disk[s] EXCEPT ![p] = @ \cup {c.w}]) = Len(disk[s])
  BY <1>3, <1>4, <1>6, SMTT(30)
<1>8. disk' = [disk EXCEPT ![s] = [disk[s] EXCEPT ![p] = disk[s][p] \cup {c.w}]]
  BY <1>1
<1>9. disk' \in [Server -> Seq(SUBSET Nat)]
  BY <1>3, <1>7, <1>8 DEF HarnessTypes
<1>10. /\ disk'[s] = [disk[s] EXCEPT ![p] = disk[s][p] \cup {c.w}]
       /\ \A t \in Server \ {s} : disk'[t] = disk[t]
  BY <1>3, <1>8 DEF HarnessTypes
<1>11. c.w \in disk'[s][p] /\ \A k \in DOMAIN disk[s] : disk[s][k] \subseteq disk'[s][k]
  BY <1>4, <1>10, SMTT(30)
<1>12. \A t \in Server : /\ Len(disk'[t]) = Len(disk[t]) /\ DOMAIN disk'[t] = DOMAIN disk[t]
                         /\ \A k \in DOMAIN disk[t] : disk[t][k] \subseteq disk'[t][k]
  <2>1. DOMAIN disk'[s] = DOMAIN disk[s] /\ Len(disk'[s]) = Len(disk[s])
    BY <1>7, <1>10
  <2> QED
    BY <1>10, <1>11, <2>1
<1>13. StoreInv'
  <2> SUFFICES ASSUME NEW t \in Server
               PROVE  /\ saved[t] = Len(disk'[t])
                      /\ \A j \in DOMAIN holds[t] : holds[t][j] \in DOMAIN disk'[t]
                      /\ acked[t] # {} => saved[t] # 0 /\ acked[t] \subseteq disk'[t][saved[t]]
    BY <1>1 DEF StoreInv
  <2>1. /\ saved[t] = Len(disk'[t])
        /\ \A j \in DOMAIN holds[t] : holds[t][j] \in DOMAIN disk'[t]
    BY <1>12 DEF StoreInv
  <2>2. ASSUME acked[t] # {}
        PROVE  saved[t] # 0 /\ acked[t] \subseteq disk'[t][saved[t]]
    <3>1. saved[t] # 0 /\ saved[t] = Len(disk[t]) /\ acked[t] \subseteq disk[t][saved[t]] /\ disk[t] \in Seq(SUBSET Nat)
      BY <2>2 DEF StoreInv, HarnessTypes
    <3>2. saved[t] \in DOMAIN disk[t]
      BY <3>1, SMTT(30)
    <3> QED
      BY <1>12, <3>1, <3>2
  <2> QED
    BY <2>1, <2>2
<1>14. Registered'
  BY DEF Registered
<1>15. CallInv'
  <2> SUFFICES ASSUME NEW x \in calls'
               PROVE  /\ x.inst \in DOMAIN holds[To(x.end)]
                      /\ x.st = "saved" => x.w \in disk'[To(x.end)][holds[To(x.end)][x.inst]]
    BY <1>1 DEF CallInv
  <2>1. CASE x = d
    BY <1>5, <1>11, <2>1 DEF s, p, CallInv
  <2>2. CASE x \in calls
    <3>1. To(x.end) \in Server
      BY <2>2, ToServer DEF HarnessTypes, CallRecord
    <3>2. x.inst \in DOMAIN holds[To(x.end)]
      BY <2>2 DEF CallInv
    <3>3. holds[To(x.end)][x.inst] \in DOMAIN disk[To(x.end)]
      BY <3>1, <3>2 DEF StoreInv
    <3> QED
      BY <1>12, <2>2, <3>1, <3>2, <3>3 DEF CallInv
  <2> QED
    BY <1>1, <2>1, <2>2
<1>16. calls' \subseteq CallRecord
  BY <1>1, <1>5 DEF HarnessTypes
<1> QED
  BY <1>1, <1>9, <1>13, <1>14, <1>15, <1>16 DEF HarnessTypes

\* ProcessReq answers only while the instance is the one registered, and that
\* one writes to the Persister that saved[s] names.
LEMMA ReplyStores ==
    ASSUME HarnessTypes, StoreInv, Registered, CallInv,
           UNCHANGED <<saved, holds, servers>>, NEW c \in calls, Reply(c)
    PROVE  /\ calls' \subseteq CallRecord /\ acked' \in [Server -> SUBSET Nat] /\ writes' \in Nat
           /\ disk' \in [Server -> Seq(SUBSET Nat)]
           /\ StoreInv' /\ Registered' /\ CallInv'
<1> DEFINE s == To(c.end)
<1>1. /\ c.st = "saved" /\ calls' = calls \ {c} /\ UNCHANGED <<disk, writes>>
      /\ \/ acked' = acked
         \/ acked' = [acked EXCEPT ![s] = @ \cup {c.w}] /\ servers[s] = c.inst
  BY DEF Reply, IsServerDead
<1>2. c \in CallRecord
  BY DEF HarnessTypes
<1>3. s \in Server /\ c.w \in Nat
  BY <1>2, ToServer DEF CallRecord
<1>4. CallInv' /\ Registered' /\ calls' \subseteq CallRecord
  BY <1>1 DEF CallInv, Registered, HarnessTypes
<1>5. CASE acked' = acked
  <2>1. StoreInv'
    BY <1>1, <1>5 DEF StoreInv
  <2> QED
    BY <1>1, <1>4, <1>5, <2>1 DEF HarnessTypes
<1>6. CASE acked' = [acked EXCEPT ![s] = @ \cup {c.w}] /\ servers[s] = c.inst
  <2>1. c.inst \in DOMAIN holds[s] /\ c.w \in disk[s][holds[s][c.inst]]
    BY <1>1 DEF CallInv
  <2>2. servers[s] # 0
    BY <1>3, <1>6, <2>1, SeqBounds, Zenon DEF HarnessTypes
  <2>3. saved[s] = holds[s][c.inst]
    BY <1>3, <1>6, <2>2 DEF Registered
  <2>4. saved[s] # 0
    <3>1. saved[s] \in DOMAIN disk[s] /\ disk[s] \in Seq(SUBSET Nat)
      BY <1>3, <2>1, <2>3 DEF StoreInv, HarnessTypes
    <3> QED
      BY <3>1, SMTT(30)
  <2>5. c.w \in disk[s][saved[s]]
    BY <2>1, <2>3
  <2> HIDE DEF s
  <2>6. acked'[s] = acked[s] \cup {c.w} /\ \A t \in Server \ {s} : acked'[t] = acked[t]
    BY <1>3, <1>6 DEF HarnessTypes
  <2>7. acked'[s] \subseteq disk[s][saved[s]]
    <3>1. acked[s] \subseteq disk[s][saved[s]]
      BY <1>3 DEF StoreInv
    <3> QED
      BY <2>5, <2>6, <3>1
  <2>8. StoreInv'
    <3> SUFFICES ASSUME NEW t \in Server
                 PROVE  /\ saved[t] = Len(disk[t])
                        /\ \A j \in DOMAIN holds[t] : holds[t][j] \in DOMAIN disk[t]
                        /\ acked'[t] # {} => saved[t] # 0 /\ acked'[t] \subseteq disk[t][saved[t]]
      BY <1>1 DEF StoreInv
    <3>1. CASE t = s
      BY <2>4, <2>7, <3>1 DEF StoreInv
    <3>2. CASE t # s
      BY <2>6, <3>2 DEF StoreInv
    <3> QED
      BY <3>1, <3>2
  <2>9. acked' \in [Server -> SUBSET Nat]
    <3>1. acked[s] \cup {c.w} \in SUBSET Nat
      BY <1>3 DEF HarnessTypes
    <3> QED
      BY <1>3, <1>6, <3>1 DEF HarnessTypes
  <2> QED
    BY <1>1, <1>4, <2>8, <2>9 DEF HarnessTypes
<1> QED
  BY <1>1, <1>5, <1>6

LEMMA GivenStep ==
    ASSUME HarnessTypes, LoopInv, Given, Next
    PROVE  Given'
<1>1. CASE StartServer
  <2>1. i \in Server /\ disk[i] \in Seq(SUBSET Nat)
    BY <1>1, SMTT(30) DEF StartServer, LoopInv, Starting, HarnessTypes
  <2>2. i' = i /\ saved'[i] = Len(disk'[i]) /\ disk'[i] = Append(disk[i], Fresh(i))
    BY <1>1, <2>1 DEF StartServer, HarnessTypes
  <2> HIDE DEF Fresh
  <2>3. Len(Append(disk[i], Fresh(i))) # 0
    BY <2>1, SeqBounds, Zenon
  <2> QED
    BY <2>2, <2>3 DEF Given
<1>2. CASE StartKVServer \/ ShutDisconnect \/ ShutDelete \/ ShutCopy \/ ShutKill
  BY <1>2, SMTT(30) DEF Given, StartKVServer, ShutDisconnect, ShutDelete, ShutCopy, ShutKill
<1>3. CASE Steady
  BY <1>3, SteadyStep, SMTT(30) DEF Given, Running
<1>4. CASE Partitioner \/ Clients \/ Traffic
  <2>1. i' = i /\ saved' = saved
    BY <1>4 DEF Partitioner, Clients, Traffic, stores
  <2>2. pc' = pc \/ pc' = "exited"
    BY <1>4, OthersStep
  <2> QED
    BY <2>1, <2>2, SMTT(30) DEF Given
<1> QED
  BY <1>1, <1>2, <1>3, <1>4, NextSteps

LEMMA ZeroAt ==
    ASSUME NEW f \in [Server -> Nat], NEW s
    PROVE  [f EXCEPT ![s] = 0] \in [Server -> Nat]
<1>1. 0 \in Nat
  OBVIOUS
<1> QED
  BY <1>1

\* Persisters, registrations and calls, with the types of what they are made of.
LEMMA StoresStep ==
    ASSUME HarnessInv, Next
    PROVE  /\ StoreInv' /\ Registered' /\ CallInv'
           /\ gen' \in [Server -> Nat] /\ servers' \in [Server -> Nat] /\ kvservers' \in [Server -> Nat]
           /\ disk' \in [Server -> Seq(SUBSET Nat)] /\ saved' \in [Server -> Nat]
           /\ holds' \in [Server -> Seq(Nat)] /\ acked' \in [Server -> SUBSET Nat] /\ writes' \in Nat
           /\ calls' \subseteq CallRecord
<1>0. /\ HarnessTypes /\ Groups(sides) /\ StoreInv /\ Registered /\ CallInv
      /\ ServersInv /\ EndsInv /\ LoopInv /\ Given /\ Alive
  BY DEF HarnessInv, Next
<1>1. CASE Steady \/ Partitioner \/ Clients
  <2>1. UNCHANGED <<test, gen, servers, kvservers, disk, saved, holds, calls, acked, writes>>
    BY <1>1, SteadyKeeps
  <2>2. StoreInv' /\ Registered' /\ CallInv'
    BY <1>0, <2>1, StoresKept
  <2> QED
    BY <1>0, <2>1, <2>2 DEF HarnessTypes
<1>2. CASE StartServer
  <2>1. i \in Server /\ servers[i] = 0 /\ gen[i] + 1 \in Nat
    BY <1>0, <1>2, SMTT(30) DEF StartServer, LoopInv, Starting, ServersInv, Down, HarnessTypes
  <2>2. /\ UNCHANGED <<calls, acked, writes, holds, servers, kvservers>>
        /\ gen' = [gen EXCEPT ![i] = gen[i] + 1]
        /\ disk' = [disk EXCEPT ![i] = Append(@, Fresh(i))]
        /\ saved' = [saved EXCEPT ![i] = Len(disk'[i])]
    BY <1>2 DEF StartServer, net, traffic
  <2>3. gen' \in [Server -> Nat]
    BY <1>0, <2>1, <2>2 DEF HarnessTypes
  <2>4. /\ disk' \in [Server -> Seq(SUBSET Nat)] /\ saved' \in [Server -> Nat]
        /\ StoreInv' /\ Registered' /\ CallInv'
    BY <1>0, <2>1, <2>2, StoresGrow
  <2> QED
    BY <1>0, <2>2, <2>3, <2>4 DEF HarnessTypes
<1>3. CASE StartKVServer
  <2>1. saved[i] # 0 /\ UNCHANGED <<gen, disk, saved, calls, acked, writes>>
    BY <1>0, <1>3 DEF StartKVServer, Given, traffic
  <2>2. /\ holds' \in [Server -> Seq(Nat)] /\ servers' \in [Server -> Nat] /\ kvservers' \in [Server -> Nat]
        /\ StoreInv' /\ Registered' /\ CallInv'
    BY <1>0, <1>3, <2>1, StartKVServerStores
  <2> QED
    BY <1>0, <2>1, <2>2 DEF HarnessTypes
<1>4. CASE ShutDisconnect \/ ShutDelete \/ ShutKill
  <2>1. UNCHANGED <<gen, disk, saved, holds, calls, acked, writes>>
    BY <1>4 DEF ShutDisconnect, ShutDelete, ShutKill, stores, traffic
  <2>2. i \in Server
    BY <1>0, <1>4, SMTT(30) DEF ShutDisconnect, ShutDelete, ShutKill, LoopInv, Stopping
  <2>3. /\ servers' = servers \/ servers' = [servers EXCEPT ![i] = 0]
        /\ kvservers' = kvservers \/ kvservers' = [kvservers EXCEPT ![i] = 0]
    BY <1>4 DEF ShutDisconnect, ShutDelete, ShutKill, net
  <2>4. servers' \in [Server -> Nat] /\ kvservers' \in [Server -> Nat]
    <3>1. servers \in [Server -> Nat] /\ kvservers \in [Server -> Nat]
      BY <1>0 DEF HarnessTypes
    <3> QED
      BY <2>3, <3>1, ZeroAt, SMTT(30)
  <2>5. \A s \in Server : servers'[s] \in {0, servers[s]}
    BY <1>0, <2>3, SMTT(30) DEF HarnessTypes
  <2>6. StoreInv' /\ Registered' /\ CallInv'
    BY <1>0, <2>1, <2>5, StoresKept
  <2> QED
    BY <1>0, <2>1, <2>4, <2>6 DEF HarnessTypes
<1>5. CASE ShutCopy
  <2>1. i \in Server /\ servers[i] = 0
    BY <1>0, <1>5, SMTT(30) DEF ShutCopy, LoopInv, Stopping, ServersInv
  <2>2. /\ UNCHANGED <<gen, calls, acked, writes, holds, servers, kvservers>>
        /\ disk' = [disk EXCEPT ![i] = Append(@, Fresh(i))]
        /\ saved' = [saved EXCEPT ![i] = Len(disk'[i])]
    BY <1>5 DEF ShutCopy, net, traffic
  <2>3. /\ disk' \in [Server -> Seq(SUBSET Nat)] /\ saved' \in [Server -> Nat]
        /\ StoreInv' /\ Registered' /\ CallInv'
    BY <1>0, <2>1, <2>2, StoresGrow
  <2> QED
    BY <1>0, <2>2, <2>3 DEF HarnessTypes
<1>6. CASE Traffic
  <2>1. UNCHANGED <<gen, servers, kvservers, saved, holds>>
    BY <1>6 DEF Traffic, net
  <2>2. /\ calls' \subseteq CallRecord /\ acked' \in [Server -> SUBSET Nat] /\ writes' \in Nat
        /\ disk' \in [Server -> Seq(SUBSET Nat)]
        /\ StoreInv' /\ Registered' /\ CallInv'
    <3>1. CASE \E e \in enabled \cup cends : Call(e)
      BY <1>0, <2>1, <3>1, CallStores
    <3>2. CASE \E c \in calls : SaveRaftState(c)
      BY <1>0, <2>1, <3>2, SaveStores
    <3>3. CASE \E c \in calls : Reply(c)
      BY <1>0, <2>1, <3>3, ReplyStores
    <3> QED
      BY <1>6, <3>1, <3>2, <3>3 DEF Traffic
  <2> QED
    BY <1>0, <2>1, <2>2 DEF HarnessTypes
<1> QED
  BY <1>1, <1>2, <1>3, <1>4, <1>5, <1>6, NextSteps

LEMMA TypesStep ==
    ASSUME HarnessInv, Next
    PROVE  HarnessTypes'
<1>0. HarnessTypes /\ Groups(sides) /\ LoopInv /\ ClientInv /\ Alive
  BY DEF HarnessInv, Next
<1>1. cends' \subseteq ClerkEnds
  BY <1>0, ClerkEndsStep
<1>2. test' = test
  <2>1. CASE Steady \/ Partitioner \/ Clients
    BY <2>1, SteadyKeeps
  <2>2. CASE ~(Steady \/ Partitioner \/ Clients)
    BY <2>2, NextSteps DEF StartServer, StartKVServer, ShutDisconnect, ShutDelete, ShutCopy, ShutKill, Traffic
  <2> QED
    BY <2>1, <2>2
<1>3. /\ i' \in Nat /\ iter' \in Nat
      /\ pc' \in Starting \cup Stopping \cup Running \cup {"exited"}
  <2>0. i \in Nat /\ iter \in Nat /\ iter + 1 \in Nat
    BY <1>0, SMTT(30) DEF HarnessTypes
  <2>1. CASE Steady
    <3>1. pc' \in Running \/ pc' = "shut"
      BY <1>0, <2>1, SteadyStep
    <3>2. iter' = iter \/ iter' = iter + 1
      BY <2>1 DEF Steady, OnePartition, Connected, FirstClient, Iterate, GoPartitioner, TellToQuit, Join,
           Heal, Wait, cleanup, Choose, Cut, SideClient, Check, Mend, Free
    <3>3. i' \in Nat
      <4>1. CASE Wait
        BY <1>0, <2>0, <4>1, WaitTakes, SMTT(30)
      <4>2. CASE ~Wait
        <5>1. i' = i \/ i' \in Server
          BY <2>1, <4>2 DEF Steady, OnePartition, Connected, FirstClient, Iterate, GoPartitioner, TellToQuit,
               Join, Heal, cleanup, Choose, Cut, SideClient, Check, Mend, Free
        <5> QED
          BY <2>0, <5>1, NAssumption, SMTT(30) DEF Server
      <4> QED
        BY <4>1, <4>2
    <3> QED
      BY <2>0, <3>1, <3>2, <3>3, SMTT(30) DEF Stopping
  <2>2. CASE Partitioner \/ Clients \/ Traffic
    BY <1>0, <2>0, <2>2, OthersStep DEF HarnessTypes
  <2>3. CASE StartServer \/ ShutDisconnect \/ ShutDelete \/ ShutCopy
    BY <2>0, <2>3, SMTT(30) DEF StartServer, ShutDisconnect, ShutDelete, ShutCopy, Starting, Stopping
  <2>4. CASE StartKVServer \/ ShutKill
    <3>1. i \in Server
      BY <1>0, <2>4, Zenon DEF StartKVServer, ShutKill, LoopInv, Starting, Stopping
    <3>2. /\ i' = (i + 1) % N /\ iter' = iter
          /\ pc' \in {"connect", "start", "shut"}
      BY <2>4, SMTT(30) DEF StartKVServer, ShutKill
    <3>3. i' \in Nat
      BY <2>0, <3>1, <3>2, NextServer, SMTT(30)
    <3> QED
      BY <2>0, <3>2, <3>3, Zenon DEF Starting, Stopping
  <2> QED
    BY <2>1, <2>2, <2>3, <2>4, NextSteps
<1> QED
  BY <1>0, <1>1, <1>2, <1>3, StoresStep DEF HarnessTypes

LEMMA HarnessInit == Init => HarnessInv
<1> SUFFICES ASSUME Init
             PROVE  HarnessInv
  OBVIOUS
<1>1. 0 \in Server /\ pc = "start" /\ i = 0 /\ iter = 0 /\ part = "none" /\ clnt = {} /\ calls = {} /\ cends = {}
      /\ enabled = {} /\ sides = Whole /\ writes = 0
  BY NAssumption, SMTT(30) DEF Init, Server
<1>2. /\ gen = [s \in Server |-> 0] /\ servers = gen /\ kvservers = gen /\ saved = gen
      /\ disk = [s \in Server |-> <<>>] /\ holds = disk /\ acked = [s \in Server |-> {}]
  BY DEF Init
<1>3. HarnessTypes
  <2>1. /\ gen \in [Server -> Nat] /\ disk \in [Server -> Seq(SUBSET Nat)] /\ holds \in [Server -> Seq(Nat)]
        /\ acked \in [Server -> SUBSET Nat] /\ pc \in Starting
    BY <1>1, <1>2, SMTT(30) DEF Starting
  <2>2. test \in [name : {"generic", "onepartition"}, partitions : BOOLEAN, crash : BOOLEAN]
    BY DEF Init
  <2>3. 0 \in Nat
    OBVIOUS
  <2> QED
    BY <1>1, <1>2, <2>1, <2>2, <2>3 DEF HarnessTypes
<1>4. Groups(sides)
  BY <1>1, WholeGroups
<1>5. StoreInv /\ Registered /\ CallInv
  BY <1>1, <1>2, SMTT(30) DEF StoreInv, Registered, CallInv
<1>6. ServersInv
  BY <1>1, <1>2, SMTT(30) DEF ServersInv, Up, Down, Running, Server
<1>7. EndsInv /\ LoopInv /\ Given /\ ClerkInv /\ ClientInv
  <2>1. EndsInv /\ Given
    BY <1>1, Zenon DEF EndsInv, Given, Starting, Stopping, Running
  <2>2. LoopInv
    BY <1>1, SMTT(30) DEF LoopInv, Starting, Stopping, Divided
  <2>3. ClerkInv /\ ClientInv
    BY <1>1 DEF ClerkInv, ClientInv, Early
  <2> QED
    BY <2>1, <2>2, <2>3
<1> QED
  BY <1>1, <1>3, <1>4, <1>5, <1>6, <1>7 DEF HarnessInv, Alive

\* When a client ends the process, the network is as it was.
LEMMA ExitStep ==
    ASSUME HarnessInv, Next, ~Alive'
    PROVE  ZombiesSilent' /\ ClientsOfThisIteration'
<1>0. HarnessTypes /\ Groups(sides) /\ ServersInv /\ EndsInv /\ LoopInv /\ ClientInv /\ Alive
  BY DEF HarnessInv, Next
<1>1. ZombiesSilent /\ ClientsOfThisIteration
  BY <1>0, EndsUp DEF ClientInv, Early, ClientsOfThisIteration
<1>2. Clients /\ pc' = "exited" /\ pc # "exited"
  <2>1. pc' = "exited" /\ pc # "exited"
    BY <1>0 DEF Alive
  <2>2. CASE Steady
    BY <1>0, <2>1, <2>2, SteadyStep, Zenon DEF Running
  <2>3. CASE StartServer \/ StartKVServer \/ ShutDisconnect \/ ShutDelete \/ ShutCopy \/ ShutKill
    BY <2>1, <2>3, SMTT(30) DEF StartServer, StartKVServer, ShutDisconnect, ShutDelete, ShutCopy, ShutKill
  <2>4. CASE Partitioner \/ Clients \/ Traffic
    BY <2>1, <2>4, OthersStep
  <2> QED
    BY <2>1, <2>2, <2>3, <2>4, NextSteps
<1>3. PICK c \in clnt : run_client(c)
  BY <1>2 DEF Clients
<1>4. clnt' = clnt
  BY <1>2, <1>3 DEF run_client
<1>5. UNCHANGED <<enabled, gen, kvservers, iter>>
  BY <1>2 DEF Clients, net
<1> QED
  BY <1>1, <1>4, <1>5 DEF ZombiesSilent, ClientsOfThisIteration

LEMMA HarnessStep == HarnessInv /\ [Next]_vars => HarnessInv'
<1>1. ASSUME HarnessInv, Next
      PROVE  HarnessInv'
  <2>0. /\ HarnessTypes /\ Groups(sides) /\ ServersInv /\ EndsInv /\ LoopInv /\ Given /\ ClerkInv /\ ClientInv
    BY <1>1 DEF HarnessInv, Next
  <2>1. HarnessTypes' /\ StoreInv' /\ Registered' /\ CallInv'
    BY <1>1, TypesStep, StoresStep
  <2>2. Groups(sides)'
    BY <1>1, <2>0, GroupsStep
  <2>3. ASSUME Alive'
        PROVE  ServersInv' /\ EndsInv' /\ LoopInv' /\ Given' /\ ClerkInv' /\ ClientInv'
    BY <1>1, <2>0, <2>2, <2>3, ServersStep, EndsStep, LoopStep, GivenStep, ClerkStep, ClientStep
  <2>4. ASSUME ~Alive'
        PROVE  ZombiesSilent' /\ ClientsOfThisIteration'
    BY <1>1, <2>4, ExitStep
  <2> QED
    BY <2>1, <2>2, <2>3, <2>4 DEF HarnessInv
<1>2. ASSUME HarnessInv, UNCHANGED vars
      PROVE  HarnessInv'
  <2> USE UNCHANGED vars DEF vars, net, stores, traffic, drive
  <2>0. HarnessTypes' /\ Groups(sides)'
    BY <1>2 DEF HarnessInv, HarnessTypes, Groups
  <2>1. StoreInv' /\ Registered' /\ CallInv'
    BY <1>2 DEF HarnessInv, StoreInv, Registered, CallInv
  <2>2. Alive => ServersInv' /\ EndsInv' /\ LoopInv' /\ Given' /\ ClerkInv' /\ ClientInv'
    <3> SUFFICES ASSUME ServersInv, EndsInv, LoopInv, Given, ClerkInv, ClientInv
                 PROVE  ServersInv' /\ EndsInv' /\ LoopInv' /\ Given' /\ ClerkInv' /\ ClientInv'
      BY <1>2 DEF HarnessInv
    <3>1. ServersInv' /\ Given'
      BY <1>2 DEF ServersInv, Up, Down, Given
    <3>4. ClerkInv' /\ ClientInv'
      BY <1>2 DEF ClerkInv, ClientInv, Early
    <3>2. LoopInv'
      BY <1>2 DEF LoopInv
    <3>3. EndsInv'
      <4>1. UNCHANGED <<gen, pc, i, enabled, sides>>
        BY <1>2
      <4> QED
        BY <4>1, EndsSame
    <3> QED
      BY <3>1, <3>2, <3>3, <3>4
  <2>3. ~Alive => ZombiesSilent' /\ ClientsOfThisIteration'
    BY <1>2 DEF HarnessInv, ZombiesSilent, ClientsOfThisIteration
  <2>4. Alive' <=> Alive
    BY <1>2 DEF Alive
  <2> QED
    BY <2>0, <2>1, <2>2, <2>3, <2>4 DEF HarnessInv
<1> QED
  BY <1>1, <1>2

-----------------------------------------------------------------------------
(* The theorems. *)

\* At every point of GenericTest and TestOnePartition, whatever the partitioner,
\* the clients and the instances that were given up do: which servers are up,
\* exactly which ends connectUnlocked and disconnectUnlocked left enabled, which
\* Persister each instance writes to, and which clients still have a count to send.
THEOREM HarnessInvariant == Spec => []HarnessInv
<1>1. Init => HarnessInv
  BY HarnessInit
<1>2. HarnessInv /\ [Next]_vars => HarnessInv'
  BY HarnessStep
<1> QED
  BY <1>1, <1>2, PTL DEF Spec

\* Kill stops nothing, but an instance that ShutdownServer gave up has no end
\* enabled: an enabled end is one of an instance that is up, to one that is.
THEOREM GivenUpAreSilent == Spec => []ZombiesSilent
<1>1. HarnessInv => ZombiesSilent
  BY EndsUp DEF HarnessInv
<1> QED
  BY <1>1, HarnessInvariant, PTL

\* DeleteServer before the copy of the Persister: no positive reply is for a
\* write that went to a superseded Persister.
THEOREM AnswersAreSaved == Spec => []AckedSurvives
<1>1. HarnessInv => AckedSurvives
  BY DEF HarnessInv, StoreInv, AckedSurvives
<1> QED
  BY <1>1, HarnessInvariant, PTL

\* partition and ConnectAll, in whatever order the test and the partitioner
\* call them, leave exactly the ends within the two groups enabled, and
\* makeClient gives the clerks of TestOnePartition no end across them.
THEOREM PartitionsHold == Spec => []SidesApart
<1>1. HarnessInv => SidesApart
  <2> SUFFICES ASSUME HarnessInv,
                      pc \notin {"start", "serve", "connect", "shut", "delete", "copy", "kill", "cut", "exited"}
               PROVE  /\ \A a, b \in Server :
                            <<a, gen[a], b>> \in enabled <=> \E g \in 1..2 : {a, b} \subseteq Range(sides[g])
                      /\ pc \in {"ckp1", "ckp2a", "ckp2b", "check", "mend"} =>
                            \A k \in DOMAIN SideOf : \A s \in Server :
                                <<Named(k), s>> \in cends => s \in Range(sides[SideOf[k]])
    BY DEF SidesApart
  <2>1. pc \in Running \ {"cut"} /\ Alive
    BY SMTT(30) DEF HarnessInv, HarnessTypes, Starting, Stopping, Alive
  <2>2. enabled = GroupEnds(sides) /\ ClerkInv
    BY <2>1 DEF HarnessInv, EndsInv
  <2>3. ASSUME NEW a \in Server, NEW b \in Server
        PROVE  <<a, gen[a], b>> \in enabled <=> \E g \in 1..2 : {a, b} \subseteq Range(sides[g])
    <3>1. \A S : <<a, gen[a], b>> \in Ends(S) <=> {a, b} \subseteq S
      BY EndBetween
    <3>2. 1..2 = {1, 2}
      BY SMTT(30)
    <3> QED
      BY <2>2, <3>1, <3>2 DEF GroupEnds
  <2>4. pc \in {"ckp1", "ckp2a", "ckp2b", "check", "mend"} => pc \notin Late
    BY SMTT(30) DEF Late
  <2> QED
    BY <2>2, <2>3, <2>4 DEF ClerkInv
<1> QED
  BY <1>1, HarnessInvariant, PTL

\* make_partition, for any odd number of servers: the groups cover the servers
\* and are disjoint, the first is a majority, and the leader is in the other.
THEOREM MinorityHasLeader == Spec => []LeaderInMinority
<1>1. HarnessInv => LeaderInMinority
  <2> SUFFICES ASSUME HarnessInv, pc = "cut"
               PROVE  /\ i \in Range(sides[2]) /\ Len(sides[1]) > Len(sides[2])
                      /\ IsInjective(sides[1]) /\ IsInjective(sides[2])
                      /\ Range(sides[1]) \cap Range(sides[2]) = {} /\ Range(sides[1]) \cup Range(sides[2]) = Server
    BY DEF LeaderInMinority
  <2>1. i \in Server /\ sides = make_partition(i) /\ Groups(sides)
    BY SMTT(30) DEF HarnessInv, Alive, LoopInv
  <2> QED
    BY <2>1, MakePartitionGroups DEF Groups
<1> QED
  BY <1>1, HarnessInvariant, PTL

\* When GenericTest waits for its clients, ConnectAll, the restarts and the end
\* of the partitioner have left every server up, registered, on the Persister
\* that saved names and connected to all.
THEOREM WaitsWhenHealed == Spec => []HealedWhileWaiting
<1>1. HarnessInv => HealedWhileWaiting
  <2> SUFFICES ASSUME HarnessInv, pc = "wait", NEW s \in Server
               PROVE  /\ kvservers[s] = gen[s] /\ servers[s] = gen[s] /\ saved[s] = holds[s][gen[s]]
                      /\ \A t \in Server : <<s, gen[s], t>> \in enabled
    BY DEF HealedWhileWaiting
  <2>1. Alive /\ pc \in Running \ {"cut"}
    BY SMTT(30) DEF Alive, Running
  <2>2. Up(s) /\ Registered /\ LoopInv /\ enabled = GroupEnds(sides)
    BY <2>1 DEF HarnessInv, ServersInv, EndsInv
  <2>3. kvservers[s] = gen[s] /\ servers[s] = gen[s] /\ saved[s] = holds[s][gen[s]]
    BY <2>2 DEF Up, Registered
  <2>4. sides = Whole
    BY <2>2, SMTT(30) DEF LoopInv, Divided
  <2>5. enabled = Ends(Server)
    BY <2>2, <2>4, WholeEnds
  <2> QED
    BY <2>3, <2>5, EndBetween
<1> QED
  BY <1>1, HarnessInvariant, PTL

\* GenericTest takes one count from every client before the next iteration
\* resets done_clients, so no client of an earlier one can still read it.
THEOREM NoClientLeftBehind == Spec => []ClientsOfThisIteration
<1>1. HarnessInv => ClientsOfThisIteration
  BY DEF HarnessInv, ClientInv, Early, ClientsOfThisIteration
<1> QED
  BY <1>1, HarnessInvariant, PTL

=============================================================================
