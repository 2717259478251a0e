----------------------------- MODULE KVHarness ------------------------------
(***************************************************************************)
(* src/kvraft/config.go, the harness of the key/value service's tests, and *)
(* the tests that drive it: GenericTest with its clients and its           *)
(* partitioner, and TestOnePartition.  Which ends of the simulated network *)
(* are enabled, which instance of a server is registered and which         *)
(* Persister it writes to are the harness's; what the servers say to each  *)
(* other is one kind of call, whose handler persists before it replies.    *)
(***************************************************************************)
EXTENDS Naturals, Sequences, Functions

CONSTANTS
    N,           \* servers of a test; 5 (TestSnapshotRPC, TestUnreliableOneKey: 3)
    NClients,    \* clients GenericTest spawns
    Iterations,  \* of GenericTest's loop; 3 in the code
    MaxWrites    \* bound: calls the servers make to each other

\* The tests' numbers of servers are odd, and more than one: make_partition needs it.
ASSUME NAssumption == N \in Nat /\ N > 1 /\ N % 2 = 1
ASSUME ClientsAssumption == NClients \in Nat \ {0}

Server == 0..(N - 1)
Client == 0..(NClients - 1)

VARIABLES
    test,      \* which test runs, and GenericTest's flags
    gen,       \* endnames[i]: the incarnation its names were made for; 0 is nil
    enabled,   \* net.enabled: the servers' ends that are, <<from, incarnation, to>>
    servers,   \* net.servers: the incarnation registered; 0 is nil
    kvservers, \* kvservers[i]: the incarnation; 0 is nil
    disk,      \* the Persister objects made for server i, and what each holds
    saved,     \* saved[i]: an index of disk[i]; 0 is nil
    holds,     \* the Persister each incarnation of server i was given
    clerks,    \* the keys of the clerks map
    cends,     \* net.enabled: the clerks' ends that are, <<clerk, to>>
    mu,        \* cfg.mu is held by the test's goroutine between two of its steps
    pc, i,     \* the test's goroutine: where it is, and its loop variable or the leader it found
    iter,      \* the iteration of GenericTest's loop
    done,      \* done_clients, done_partitioner
    sides,     \* history: the two groups the network is cut into
    part,      \* the partitioner goroutine
    clnt,      \* client goroutines, the spawner's included
    calls,     \* calls under way between servers
    acked,     \* history: what server i has answered for
    writes     \* history: calls made

net == <<enabled, servers>>
stores == <<disk, saved, holds>>
traffic == <<calls, acked, writes>>
drive == <<done, sides, part, clnt>>
vars == <<test, gen, net, kvservers, stores, clerks, cends, mu, pc, i, iter, drive, traffic>>

\* cfg.All()
All == [k \in 1..N |-> k - 1]

\* After ConnectAll every server is in the one group.
Whole == <<All, <<>>>>

\* log.Fatalf in a client ends the process, every goroutine with it.
Alive == pc # "exited"

Init ==
    /\ test \in [name : {"generic", "onepartition"}, partitions : BOOLEAN, crash : BOOLEAN]
    /\ test.name = "onepartition" => ~test.partitions /\ ~test.crash
    /\ gen = [s \in Server |-> 0] /\ enabled = {} /\ servers = gen /\ kvservers = gen
    /\ disk = [s \in Server |-> <<>>] /\ saved = gen /\ holds = disk
    /\ clerks = {} /\ cends = {} /\ mu = FALSE
    /\ pc = "start" /\ i = 0 /\ iter = 0
    /\ done = [clients |-> FALSE, partitioner |-> FALSE]
    /\ sides = Whole /\ part = "none" /\ clnt = {}
    /\ calls = {} /\ acked = [s \in Server |-> {}] /\ writes = 0

-----------------------------------------------------------------------------
(* The operations of config.go on the set E of enabled ends. *)

\* The ends between s and the servers listed in "to".
Joined(s, to) ==
    {<<s, gen[s], to[j]>> : j \in DOMAIN to} \cup {<<to[j], gen[to[j]], s>> : j \in DOMAIN to}

connectUnlocked(E, s, to) == E \cup Joined(s, to)

\* The second loop asks whether endnames[j], not endnames[from[j]], is nil.
Parted(s, from) ==
    {<<s, gen[s], from[j]>> : j \in DOMAIN from}
      \cup {<<from[j], gen[from[j]], s>> : j \in {k \in DOMAIN from : gen[k - 1] # 0}}

disconnectUnlocked(E, s, from) == E \ Parted(s, from)

ConnectAll(E) == UNION {connectUnlocked(E, s, All) : s \in Server}

\* Fault: the first group's servers are cut from the second, the second's are not.
partitionOneWay(E, p1, p2) ==
    (E \ UNION {{<<p1[j], gen[p1[j]], p2[k]>> : k \in DOMAIN p2} : j \in DOMAIN p1})
      \cup UNION {Joined(p1[j], p1) : j \in DOMAIN p1}
      \cup UNION {Joined(p2[j], p2) : j \in DOMAIN p2}

\* One of partition's loops: every server of p is cut from q and joined with p.
\* No server is in both, so the order in which the loop takes them is nothing.
Regroup(E, p, q) ==
    (E \ UNION {Parted(p[j], q) : j \in DOMAIN p}) \cup UNION {Joined(p[j], p) : j \in DOMAIN p}

partition(E, p1, p2) == Regroup(Regroup(E, p1, p2), p2, p1)

\* make_partition, with the leader l that Leader() found: the other servers
\* fill p1 and then p2, and l takes the last place of p2.
others(l) == [k \in 1..(N - 1) |-> IF k - 1 < l THEN k - 1 ELSE k]

\* Fault: the leader is left out of p2, whose last place keeps the zero value.
make_partitionNoLeader(l) ==
    LET h == N \div 2 + 1
    IN  <<SubSeq(others(l), 1, h), Append(SubSeq(others(l), h + 1, N - 1), 0)>>

make_partition(l) ==
    LET h == N \div 2 + 1
    IN  <<SubSeq(others(l), 1, h), Append(SubSeq(others(l), h + 1, N - 1), l)>>

\* A clerk that a test's variable names, and not a client's.
Named(k) == <<k, 0, 0>>

\* makeClient and ConnectClient: fresh ends to every server, those to "to" enabled.
ConnectClientUnlocked(ck, to) == cends' = cends \cup {<<ck, to[j]>> : j \in DOMAIN to}

makeClient(ck, to) ==
    /\ ~mu
    /\ clerks' = clerks \cup {ck}
    /\ ConnectClientUnlocked(ck, to)

deleteClient(ck) == ~mu /\ clerks' = clerks \ {ck}

-----------------------------------------------------------------------------
(* StartServer: what it does under cfg.mu, and what it does after. *)

\* The Persister handed to the next instance: a new one, or a copy of saved[s].
Fresh(s) == IF saved[s] = 0 THEN {} ELSE disk[s][saved[s]]

StartServer ==
    /\ pc = "start" /\ ~mu
    /\ gen' = [gen EXCEPT ![i] = @ + 1]
    /\ disk' = [disk EXCEPT ![i] = Append(@, Fresh(i))]
    /\ saved' = [saved EXCEPT ![i] = Len(disk'[i])]
    /\ pc' = "serve"
    /\ UNCHANGED <<test, net, kvservers, holds, clerks, cends, mu, i, iter, drive, traffic>>

StartKVServer ==
    /\ pc = "serve"
    /\ kvservers' = [kvservers EXCEPT ![i] = gen[i]]
    /\ holds' = [holds EXCEPT ![i] = Append(@, saved[i])]
    /\ servers' = [servers EXCEPT ![i] = gen[i]]
    /\ i' = (i + 1) % N
    /\ pc' = IF i = N - 1 THEN "connect" ELSE "start"
    /\ UNCHANGED <<test, gen, enabled, disk, saved, clerks, cends, mu, iter, drive, traffic>>

(* ShutdownServer holds cfg.mu but neither the network's mutex nor the     *)
(* Persister's, and gives cfg.mu up while it calls Kill.                   *)

\* Fault: the ends of the other servers to this one stay enabled.
ShutDisconnectOutgoing ==
    /\ pc = "shut" /\ ~mu
    /\ mu' = TRUE
    /\ enabled' = enabled \ {<<i, gen[i], s>> : s \in Server}
    /\ pc' = "delete"
    /\ UNCHANGED <<test, gen, servers, kvservers, stores, clerks, cends, i, iter, drive, traffic>>

ShutDisconnect ==
    /\ pc = "shut" /\ ~mu
    /\ mu' = TRUE
    /\ enabled' = disconnectUnlocked(enabled, i, All)
    /\ pc' = "delete"
    /\ UNCHANGED <<test, gen, servers, kvservers, stores, clerks, cends, i, iter, drive, traffic>>

\* Fault: the server stays registered in the network.
ShutDeleteNot ==
    /\ pc = "delete"
    /\ pc' = "copy"
    /\ UNCHANGED <<test, gen, net, kvservers, stores, clerks, cends, mu, i, iter, drive, traffic>>

ShutDelete ==
    /\ pc = "delete"
    /\ servers' = [servers EXCEPT ![i] = 0]
    /\ pc' = "copy"
    /\ UNCHANGED <<test, gen, enabled, kvservers, stores, clerks, cends, mu, i, iter, drive, traffic>>

ShutCopy ==
    /\ pc = "copy"
    /\ disk' = [disk EXCEPT ![i] = Append(@, Fresh(i))]
    /\ saved' = [saved EXCEPT ![i] = Len(disk'[i])]
    /\ mu' = FALSE
    /\ pc' = "kill"
    /\ UNCHANGED <<test, gen, net, kvservers, holds, clerks, cends, i, iter, drive, traffic>>

\* Kill changes nothing: the old instance goes on running.
ShutKill ==
    /\ pc = "kill" /\ ~mu
    /\ kvservers' = [kvservers EXCEPT ![i] = 0]
    /\ i' = (i + 1) % N
    /\ pc' = IF i = N - 1 THEN "start" ELSE "shut"
    /\ UNCHANGED <<test, gen, net, stores, clerks, cends, mu, iter, drive, traffic>>

-----------------------------------------------------------------------------
(* GenericTest: the test's goroutine. *)

AfterConnect ==
    IF iter = 0 THEN "client" ELSE "wait"

Connected ==
    /\ pc = "connect" /\ ~mu
    /\ enabled' = ConnectAll(enabled) /\ sides' = Whole
    /\ pc' = AfterConnect
    /\ UNCHANGED <<test, gen, servers, kvservers, stores, clerks, cends, mu, i, iter, done, part, clnt, traffic>>

FirstClient ==
    /\ pc = "client"
    /\ makeClient(Named("ck"), All)
    /\ pc' = IF test.name = "generic" THEN "iterate" ELSE "choose"
    /\ UNCHANGED <<test, gen, net, kvservers, stores, mu, i, iter, drive, traffic>>

\* The flags are reset and the clients' spawner is started.
Iterate ==
    /\ pc = "iterate"
    /\ iter' = iter + 1
    /\ done' = [clients |-> FALSE, partitioner |-> FALSE]
    /\ clnt' = clnt \cup {[it |-> iter', me |-> c, st |-> "spawn"] : c \in Client}
    /\ pc' = IF test.partitions THEN "go" ELSE "sleep"
    /\ UNCHANGED <<test, gen, net, kvservers, stores, clerks, cends, mu, i, sides, part, traffic>>

GoPartitioner ==
    /\ pc = "go"
    /\ part' = "test"
    /\ pc' = "sleep"
    /\ UNCHANGED <<test, gen, net, kvservers, stores, clerks, cends, mu, i, iter, done, sides, clnt, traffic>>

Settle == IF test.crash THEN "shut" ELSE "wait"

\* Fault: the partitioner is never told to quit.
TellToQuitClients ==
    /\ pc = "sleep"
    /\ done' = [done EXCEPT !.clients = TRUE]
    /\ pc' = IF test.partitions THEN "join" ELSE Settle
    /\ UNCHANGED <<test, gen, net, kvservers, stores, clerks, cends, mu, i, iter, sides, part, clnt, traffic>>

TellToQuit ==
    /\ pc = "sleep"
    /\ done' = [clients |-> TRUE, partitioner |-> TRUE]
    /\ pc' = IF test.partitions THEN "join" ELSE Settle
    /\ UNCHANGED <<test, gen, net, kvservers, stores, clerks, cends, mu, i, iter, sides, part, clnt, traffic>>

\* Fault: the test does not wait for ch_partitioner.
JoinNot ==
    /\ pc = "join"
    /\ part' = IF part = "send" THEN "none" ELSE part
    /\ pc' = "heal"
    /\ UNCHANGED <<test, gen, net, kvservers, stores, clerks, cends, mu, i, iter, done, sides, clnt, traffic>>

Join ==
    /\ pc = "join" /\ part = "send"
    /\ part' = "none"
    /\ pc' = "heal"
    /\ UNCHANGED <<test, gen, net, kvservers, stores, clerks, cends, mu, i, iter, done, sides, clnt, traffic>>

Heal ==
    /\ pc = "heal" /\ ~mu
    /\ enabled' = ConnectAll(enabled) /\ sides' = Whole
    /\ pc' = Settle
    /\ UNCHANGED <<test, gen, servers, kvservers, stores, clerks, cends, mu, i, iter, done, part, clnt, traffic>>

NextIteration == IF iter < Iterations THEN "iterate" ELSE "cleanup"

\* Fault: the test goes on without the client's count.
WaitNot ==
    /\ pc = "wait"
    /\ i' = (i + 1) % NClients
    /\ pc' = IF i = NClients - 1 THEN NextIteration ELSE "wait"
    /\ UNCHANGED <<test, gen, net, kvservers, stores, clerks, cends, mu, iter, done, sides, part, clnt, traffic>>

\* The count of client i arrives; what ck.Get then returns, or at the end the
\* size of the logs, may fail the test.
Wait ==
    /\ pc = "wait"
    /\ \E c \in clnt :
        /\ c.st = "report" /\ c.me = i
        /\ clnt' = (clnt \ {c}) \cup {[c EXCEPT !.st = "delete"]}
    /\ i' = (i + 1) % NClients
    /\ \/ pc' = "cleanup"
       \/ pc' = IF i = NClients - 1 THEN NextIteration ELSE "wait"
    /\ UNCHANGED <<test, gen, net, kvservers, stores, clerks, cends, mu, iter, done, sides, part, traffic>>

\* cleanup kills the servers that are there; Kill changes nothing.
cleanup ==
    /\ pc = "cleanup" /\ ~mu
    /\ pc' = "passed"
    /\ UNCHANGED <<test, gen, net, kvservers, stores, clerks, cends, mu, i, iter, drive, traffic>>

Generic ==
    \/ StartServer \/ StartKVServer \/ Connected \/ FirstClient \/ Iterate \/ GoPartitioner
    \/ TellToQuit \/ Join \/ Heal \/ Wait \/ cleanup
    \/ ShutDisconnect \/ ShutDelete \/ ShutCopy \/ ShutKill

-----------------------------------------------------------------------------
(* The partitioner goroutine and the clients of GenericTest. *)

\* Every server falls into one of two groups, each listed in order.
Ascending(n) == {p \in [1..n -> Server] : \A j, k \in 1..n : j < k => p[j] < p[k]}

Splits ==
    {s \in UNION {Ascending(n) \X Ascending(N - n) : n \in 0..N} :
        Range(s[1]) \cap Range(s[2]) = {} /\ Range(s[1]) \cup Range(s[2]) = Server}

partitioner ==
    \/ /\ part = "test"
       /\ part' = IF done.partitioner THEN "send" ELSE "split"
       /\ UNCHANGED <<enabled, sides>>
    \/ /\ part = "split" /\ ~mu
       /\ sides' \in Splits
       /\ enabled' = partition(enabled, sides'[1], sides'[2])
       /\ part' = "test"

Partitioner ==
    /\ partitioner
    /\ UNCHANGED <<test, gen, servers, kvservers, stores, clerks, cends, mu, pc, i, iter, done, clnt, traffic>>

Move(c, st) == clnt' = (clnt \ {c}) \cup {[c EXCEPT !.st = st]}

\* run_client with GenericTest's function; spawn_clients_and_wait takes the
\* clients' signals in order.  A Get that returns the wrong value ends the process.
run_client(c) ==
    \/ /\ c.st = "spawn" /\ makeClient(<<"client", c.it, c.me>>, All) /\ Move(c, "run")
       /\ UNCHANGED pc
    \/ /\ c.st = "run" /\ done.clients /\ Move(c, "report")
       /\ UNCHANGED <<clerks, cends, pc>>
    \/ /\ c.st = "run" /\ pc' = "exited"
       /\ UNCHANGED <<clerks, cends, clnt>>
    \/ /\ c.st = "delete" /\ deleteClient(<<"client", c.it, c.me>>) /\ Move(c, "signal")
       /\ UNCHANGED <<cends, pc>>
    \/ /\ c.st = "signal" /\ \A d \in clnt : d.it = c.it => d.me >= c.me
       /\ clnt' = clnt \ {c}
       /\ UNCHANGED <<clerks, cends, pc>>

Clients ==
    /\ \E c \in clnt : run_client(c)
    /\ UNCHANGED <<test, gen, net, kvservers, stores, mu, i, iter, done, sides, part, traffic>>

-----------------------------------------------------------------------------
(* TestOnePartition, after its first clerk. *)

\* Leader() may find any server, and answers 0 when it finds none.
Choose ==
    /\ pc = "choose" /\ ~mu
    /\ i' \in Server /\ sides' = make_partition(i')
    /\ pc' = "cut"
    /\ UNCHANGED <<test, gen, net, kvservers, stores, clerks, cends, mu, iter, done, part, clnt, traffic>>

Cut ==
    /\ pc = "cut" /\ ~mu
    /\ enabled' = partition(enabled, sides[1], sides[2])
    /\ pc' = "ckp1"
    /\ UNCHANGED <<test, gen, servers, kvservers, stores, clerks, cends, mu, i, iter, drive, traffic>>

SideOf == [ckp1 |-> 1, ckp2a |-> 2, ckp2b |-> 2]
After == [ckp1 |-> "ckp2a", ckp2a |-> "ckp2b", ckp2b |-> "check"]

SideClient ==
    /\ pc \in DOMAIN SideOf
    /\ makeClient(Named(pc), sides[SideOf[pc]])
    /\ pc' = After[pc]
    /\ UNCHANGED <<test, gen, net, kvservers, stores, mu, i, iter, drive, traffic>>

\* The checks may fail the test.
Check ==
    /\ pc = "check"
    /\ pc' \in {"mend", "cleanup"}
    /\ UNCHANGED <<test, gen, net, kvservers, stores, clerks, cends, mu, i, iter, drive, traffic>>

Mend ==
    /\ pc = "mend" /\ ~mu
    /\ enabled' = ConnectAll(enabled) /\ sides' = Whole
    /\ pc' = "free"
    /\ UNCHANGED <<test, gen, servers, kvservers, stores, clerks, cends, mu, i, iter, done, part, clnt, traffic>>

ConnectClient(ck) == ~mu /\ ConnectClientUnlocked(ck, All)

Free ==
    /\ \/ pc = "free" /\ ConnectClient(Named("ckp2a")) /\ pc' = "free2"
       \/ pc = "free2" /\ ConnectClient(Named("ckp2b")) /\ pc' = "cleanup"
    /\ UNCHANGED <<test, gen, net, kvservers, stores, clerks, mu, i, iter, drive, traffic>>

OnePartition == Choose \/ Cut \/ SideClient \/ Check \/ Mend \/ Free

-----------------------------------------------------------------------------
(* Calls through the network: by an instance, dead ones included, or by a  *)
(* clerk, over an end that is enabled and to a server that is registered.  *)

Reaches(e) == e \in enabled \/ e \in cends
To(e) == e[Len(e)]

Call(e) ==
    /\ writes < MaxWrites /\ servers[To(e)] # 0
    /\ Len(e) = 3 => e[1] # e[3]
    /\ writes' = writes + 1
    /\ calls' = calls \cup {[end |-> e, inst |-> servers[To(e)], w |-> writes', st |-> "run"]}
    /\ UNCHANGED <<disk, acked>>

\* The handler, in the instance that was registered: it saves what it knows.
SaveRaftState(c) ==
    LET s == To(c.end)
    IN  /\ c.st = "run"
        /\ disk' = [disk EXCEPT ![s][holds[s][c.inst]] = @ \cup {c.w}]
        /\ calls' = (calls \ {c}) \cup {[c EXCEPT !.st = "saved"]}
        /\ UNCHANGED <<acked, writes>>

IsServerDead(c) == ~Reaches(c.end) \/ servers[To(c.end)] # c.inst

\* ProcessReq: no positive reply from a server that was deleted meanwhile.
Reply(c) ==
    /\ c.st = "saved"
    /\ acked' = IF IsServerDead(c) THEN acked ELSE [acked EXCEPT ![To(c.end)] = @ \cup {c.w}]
    /\ calls' = calls \ {c}
    /\ UNCHANGED <<disk, writes>>

Traffic ==
    /\ \/ \E e \in enabled \cup cends : Call(e)
       \/ \E c \in calls : SaveRaftState(c) \/ Reply(c)
    /\ UNCHANGED <<test, gen, net, kvservers, saved, holds, clerks, cends, mu, pc, i, iter, drive>>

-----------------------------------------------------------------------------
Main == Generic \/ OnePartition

Next == Alive /\ (Main \/ Partitioner \/ Clients \/ Traffic)

\* The Go scheduler runs every goroutine that can go on.
Spec ==
    /\ Init /\ [][Next]_vars
    /\ WF_vars(Alive /\ Main)
    /\ WF_vars(Alive /\ Partitioner)
    /\ WF_vars(Alive /\ Clients)

-----------------------------------------------------------------------------
\* An enabled end joins two servers that are up, and is one of the ends of the
\* instance that is: the goroutines of an instance that ShutdownServer gave up
\* (Kill stops none of them) can send nothing, because partition and
\* ConnectAll never run between ShutdownServer and the StartServer after it.
ZombiesSilent ==
    \A e \in enabled : e[2] = kvservers[e[1]] /\ e[2] = gen[e[1]] /\ kvservers[e[3]] # 0

\* What a server answered for is in saved[s], the state its next instance is
\* given: ShutdownServer calls DeleteServer before it supersedes the
\* Persister, "to avoid the possibility of the server returning a positive
\* reply to an Append but persisting the result in the superseded Persister".
AckedSurvives == \A s \in Server : acked[s] # {} => acked[s] \subseteq disk[s][saved[s]]

\* Between restarts the servers' ends are enabled exactly within the two
\* groups of the last partition, and a clerk made for one group reaches no
\* server of the other until the test has healed the network.
SidesApart ==
    pc \notin {"start", "serve", "connect", "shut", "delete", "copy", "kill", "cut", "exited"} =>
        /\ \A a, b \in Server :
            <<a, gen[a], b>> \in enabled <=> \E g \in 1..2 : {a, b} \subseteq Range(sides[g])
        /\ pc \in {"ckp1", "ckp2a", "ckp2b", "check", "mend"} =>
            \A k \in DOMAIN SideOf : \A s \in Server :
                <<Named(k), s>> \in cends => s \in Range(sides[SideOf[k]])

\* make_partition lists every server once: p1 is a majority, and the leader it
\* found is in the other group ("put current leader in minority").
LeaderInMinority ==
    pc = "cut" =>
        /\ i \in Range(sides[2]) /\ Len(sides[1]) > Len(sides[2])
        /\ IsInjective(sides[1]) /\ IsInjective(sides[2])
        /\ Range(sides[1]) \cap Range(sides[2]) = {}
        /\ Range(sides[1]) \cup Range(sides[2]) = Server

\* While the test waits for its clients every server is up and registered,
\* writes to the Persister that saved names, and is connected to every other.
HealedWhileWaiting ==
    pc = "wait" =>
        \A s \in Server :
            /\ kvservers[s] = gen[s] /\ servers[s] = gen[s] /\ saved[s] = holds[s][gen[s]]
            /\ \A t \in Server : <<s, gen[s], t>> \in enabled

\* The flags and the channels are used again in every iteration, but a client
\* that may still read done_clients or send its count is one of this iteration.
ClientsOfThisIteration ==
    \A c \in clnt : c.st \in {"spawn", "run", "report"} => c.it = iter

\* The test ends: the partitioner and the clients see that they are to quit.
Finishes == <>(pc \in {"passed", "exited"})
=============================================================================
