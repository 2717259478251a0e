------------------------------ MODULE Services ------------------------------
(***************************************************************************)
(* Two services behind Unix sockets and their clerks: the shard masters of *)
(* src/paxos-shardmaster, whose clerk goes round its servers until one     *)
(* answers and whose servers can be made unreliable, and the view server   *)
(* of src/viewservice, whose clerk asks once.  The handlers are empty: that *)
(* one has run is all there is to know of it.                              *)
(***************************************************************************)
EXTENDS Naturals, FiniteSets, Sequences, Functions

CONSTANTS
    Master,      \* Clerk.servers, a sequence
    ViewServer,
    ShardClerk, ViewClerk,
    Mortal,      \* the servers that may be killed
    MaxOps,      \* bound: operations of the clerks
    MaxLate      \* bound: connections served at a time whose reply is discarded

Server == Range(Master) \cup {ViewServer}
Clerk == ShardClerk \cup ViewClerk

ASSUME MasterAssumption ==
    Len(Master) \in Nat \ {0} /\ IsInjective(Master) /\ ViewServer \notin Range(Master)
ASSUME ClerkAssumption == IsFiniteSet(Clerk) /\ ShardClerk \cap ViewClerk = {} /\ MaxOps \in Nat

VARIABLES
    started,  \* the servers of the test that runs: one service or the other
    srv,      \* the servers: their flags, their listener, accept and tick loops
    backlog,  \* connections not yet accepted, by their clerks
    conn,     \* the connection the accept loop has just accepted
    serving,  \* connections that have their goroutine
    ck,       \* the clerks: where they are, and how their operations ended
    runs,     \* history: how often the handler has run for an operation, up to 2
    shaky,    \* history: some server has been unreliable
    reported  \* history: an accept loop has reported an error

vars == <<started, srv, backlog, conn, serving, ck, runs, shaky, reported>>

servers(c) == IF c \in ShardClerk THEN Master ELSE <<ViewServer>>

\* The Paxos peer of a shard master shares its listener.
PaxosMake(s) == IF s = ViewServer THEN "none" ELSE "alive"
PaxosKill(px) == IF px = "alive" THEN "killed" ELSE px

\* StartServer of both services; the tick loop is the view server's.
StartServer(s) ==
    [dead |-> FALSE, unreliable |-> FALSE, open |-> TRUE, loop |-> "test", kill |-> "no",
     px |-> PaxosMake(s),
     tick |-> IF s = ViewServer THEN "on" ELSE "none", rpccount |-> 0]

Init ==
    /\ started \in {Range(Master), {ViewServer}}
    /\ srv = [s \in started |-> StartServer(s)]
    /\ backlog = [s \in started |-> <<>>]
    /\ conn = [s \in started |-> "none"]
    /\ serving = {}
    /\ ck = [c \in Clerk |-> [pc |-> "idle", k |-> 1, op |-> 0, ok |-> {}, failed |-> {}]]
    /\ runs = [c \in Clerk |-> [o \in 1..MaxOps |-> 0]]
    /\ shaky = FALSE /\ reported = FALSE

-----------------------------------------------------------------------------
(* The clerks. *)

Begun == {x \in Clerk \X (1..MaxOps) : x[2] <= ck[x[1]].op}

Begin(c) ==
    /\ ck[c].pc = "idle" /\ Cardinality(Begun) < MaxOps
    /\ ck' = [ck EXCEPT ![c].pc = "call", ![c].k = 1, ![c].op = @ + 1]
    /\ UNCHANGED <<started, srv, backlog, conn, serving, runs, shaky, reported>>

\* The operations of a shard clerk: each calls until a server has answered.
Operation(c) == c \in ShardClerk /\ ViewServer \notin started /\ Begin(c)

Query(c) == Operation(c)
Join(c) == Operation(c)
Leave(c) == Operation(c)
Move(c) == Operation(c)

\* The operations of a view clerk: each calls once.
Once(c) == c \in ViewClerk /\ ViewServer \in started /\ Begin(c)

Ping(c) == Once(c)
Get(c) == Once(c)
Primary(c) == Get(c)

\* Fault: after a failed call the clerk asks the same server again.
TryAgainSame(r) == [r EXCEPT !.pc = "call"]

\* A shard clerk's call has failed: the next server, or after a sleep the first.
TryAgain(r) == [r EXCEPT !.pc = "call", !.k = (@ % Len(Master)) + 1]

GiveUp(r) == [r EXCEPT !.pc = "idle", !.failed = @ \cup {r.op}]

\* call returned false to the clerks in C.
CallFailed(C) ==
    [c \in Clerk |-> IF c \notin C THEN ck[c]
                     ELSE IF c \in ShardClerk THEN TryAgain(ck[c]) ELSE GiveUp(ck[c])]

\* Fault: the shard clerk goes on to the next server after a call that succeeded.
CallReturnedOn(c) ==
    LET r == [ck[c] EXCEPT !.ok = @ \cup {ck[c].op}]
    IN  [ck EXCEPT ![c] = IF c \in ShardClerk THEN TryAgain(r) ELSE [r EXCEPT !.pc = "idle"]]

\* call returned true, and so does the clerk.
CallReturned(c) == [ck EXCEPT ![c].pc = "idle", ![c].ok = @ \cup {ck[c].op}]

\* call: Dial joins the backlog of a listener, or fails; then it waits.
Dial(c) ==
    LET s == servers(c)[ck[c].k]
    IN  /\ ck[c].pc = "call"
        /\ IF srv[s].open
           THEN /\ backlog' = [backlog EXCEPT ![s] = Append(@, c)]
                /\ ck' = [ck EXCEPT ![c].pc = "wait"]
           ELSE ck' = CallFailed({c}) /\ UNCHANGED backlog
        /\ UNCHANGED <<started, srv, conn, serving, runs, shaky, reported>>

-----------------------------------------------------------------------------
(* The accept loop. *)

\* Fault: the loop never looks whether the server has been killed.
IsdeadNever(s) ==
    /\ srv[s].loop = "test"
    /\ srv' = [srv EXCEPT ![s].loop = "accept"]
    /\ UNCHANGED <<started, backlog, conn, serving, ck, runs, shaky, reported>>

Isdead(s) ==
    /\ srv[s].loop = "test"
    /\ srv' = [srv EXCEPT ![s].loop = IF srv[s].dead THEN "exit" ELSE "accept"]
    /\ UNCHANGED <<started, backlog, conn, serving, ck, runs, shaky, reported>>

Accept(s) ==
    /\ srv[s].loop = "accept" /\ srv[s].open /\ backlog[s] # <<>>
    /\ conn' = [conn EXCEPT ![s] = Head(backlog[s])]
    /\ backlog' = [backlog EXCEPT ![s] = Tail(@)]
    /\ srv' = [srv EXCEPT ![s].loop = "got"]
    /\ UNCHANGED <<started, serving, ck, runs, shaky, reported>>

\* Accept fails on a closed listener; unless the server has been killed the
\* loop reports it, and kills it.
AcceptError(s) ==
    /\ srv[s].loop = "accept" /\ ~srv[s].open
    /\ reported' = (reported \/ ~srv[s].dead)
    /\ srv' = [srv EXCEPT ![s].dead = TRUE, ![s].loop = "test",
                          ![s].px = IF srv[s].dead THEN @ ELSE PaxosKill(@)]
    /\ UNCHANGED <<started, backlog, conn, serving, ck, runs, shaky>>

Handled(s) == conn' = [conn EXCEPT ![s] = "none"] /\ UNCHANGED <<started, backlog, runs, shaky, reported>>

Conn(s, deaf) == [c |-> conn[s], op |-> ck[conn[s]].op, deaf |-> deaf]

\* Fault: the connection is served before it is closed.
CloseDeadServing(s) ==
    /\ srv[s].loop = "got" /\ srv[s].dead
    /\ srv' = [srv EXCEPT ![s].loop = "test"]
    /\ ck' = CallFailed({conn[s]})
    /\ serving' = serving \cup {Conn(s, TRUE)}
    /\ Handled(s)

\* A server killed in the meantime closes the connection.
CloseDead(s) ==
    /\ srv[s].loop = "got" /\ srv[s].dead
    /\ srv' = [srv EXCEPT ![s].loop = "test"]
    /\ ck' = CallFailed({conn[s]})
    /\ UNCHANGED serving
    /\ Handled(s)

\* Fault: the connection that is discarded counts as an answer.
DiscardAnswered(s) ==
    /\ srv[s].loop = "got" /\ ~srv[s].dead /\ srv[s].unreliable
    /\ srv' = [srv EXCEPT ![s].loop = "test"]
    /\ ck' = CallReturned(conn[s])
    /\ UNCHANGED serving
    /\ Handled(s)

\* An unreliable server discards one request in ten,
Discard(s) ==
    /\ srv[s].loop = "got" /\ ~srv[s].dead /\ srv[s].unreliable
    /\ srv' = [srv EXCEPT ![s].loop = "test"]
    /\ ck' = CallFailed({conn[s]})
    /\ UNCHANGED serving
    /\ Handled(s)

\* and two in ten of the others it serves with its side shut for writing: the
\* caller reads the end of the file at once, whether or not the handler has run.
ServeDeaf(s) ==
    /\ srv[s].loop = "got" /\ ~srv[s].dead /\ srv[s].unreliable
    /\ Cardinality({h \in serving : h.deaf}) < MaxLate
    /\ srv' = [srv EXCEPT ![s].loop = "test"]
    /\ ck' = CallFailed({conn[s]})
    /\ serving' = serving \cup {Conn(s, TRUE)}
    /\ Handled(s)

ServeConn(s) ==
    /\ srv[s].loop = "got" /\ ~srv[s].dead /\ s # ViewServer
    /\ srv' = [srv EXCEPT ![s].loop = "test"]
    /\ serving' = serving \cup {Conn(s, FALSE)}
    /\ UNCHANGED ck
    /\ Handled(s)

\* The view server has no unreliable mode, and counts the connections it serves.
ServeView(s) ==
    /\ srv[s].loop = "got" /\ ~srv[s].dead /\ s = ViewServer
    /\ srv' = [srv EXCEPT ![s].loop = "test", ![s].rpccount = @ + 1]
    /\ serving' = serving \cup {Conn(s, FALSE)}
    /\ UNCHANGED ck
    /\ Handled(s)

-----------------------------------------------------------------------------
(* The goroutines of the connections: net/rpc runs the handler and replies. *)

More(n) == IF n < 2 THEN n + 1 ELSE 2

Handler(h) ==
    /\ h \in serving
    /\ serving' = serving \ {h}
    /\ runs' = [runs EXCEPT ![h.c][h.op] = More(@)]
    /\ ck' = IF h.deaf THEN ck ELSE CallReturned(h.c)
    /\ UNCHANGED <<started, srv, backlog, conn, shaky, reported>>

\* The caller may see the end of the file before it has written its request.
Unsent(h) ==
    /\ h \in serving /\ h.deaf
    /\ serving' = serving \ {h}
    /\ UNCHANGED <<started, srv, backlog, conn, ck, runs, shaky, reported>>

-----------------------------------------------------------------------------
(* The test's goroutine, and the tick loop. *)

\* Closing a listener resets the connections it has not accepted.
Close(s) ==
    /\ ck' = CallFailed(Range(backlog[s]))
    /\ backlog' = [backlog EXCEPT ![s] = <<>>]

\* Fault: the listener is closed before dead is set.
KillClosing(s) ==
    /\ \/ /\ srv[s].kill = "no" /\ s \in Mortal
          /\ srv' = [srv EXCEPT ![s].open = FALSE, ![s].kill = "half"]
          /\ Close(s)
       \/ /\ srv[s].kill = "half"
          /\ srv' = [srv EXCEPT ![s].dead = TRUE, ![s].kill = "done",
                                ![s].px = PaxosKill(@)]
          /\ UNCHANGED <<backlog, ck>>
    /\ UNCHANGED <<started, conn, serving, runs, shaky, reported>>

\* Kill: dead, the listener, and a shard master's Paxos peer, whose own
\* listener is nil.
Kill(s) ==
    /\ \/ /\ srv[s].kill = "no" /\ s \in Mortal
          /\ srv' = [srv EXCEPT ![s].dead = TRUE, ![s].kill = "half"]
          /\ UNCHANGED <<backlog, ck>>
       \/ /\ srv[s].kill = "half"
          /\ srv' = [srv EXCEPT ![s].open = FALSE, ![s].kill = "done",
                                ![s].px = PaxosKill(@)]
          /\ Close(s)
    /\ UNCHANGED <<started, conn, serving, runs, shaky, reported>>

setunreliable(s) ==
    /\ s # ViewServer
    /\ srv' = [srv EXCEPT ![s].unreliable = ~@]
    /\ shaky' = TRUE
    /\ UNCHANGED <<started, backlog, conn, serving, ck, runs, reported>>

\* tick is empty; its loop ends when the server is dead.
TickEnd(s) ==
    /\ srv[s].tick = "on" /\ srv[s].dead
    /\ srv' = [srv EXCEPT ![s].tick = "off"]
    /\ UNCHANGED <<started, backlog, conn, serving, ck, runs, shaky, reported>>

-----------------------------------------------------------------------------
Loop(s) ==
    \/ Isdead(s) \/ Accept(s) \/ AcceptError(s) \/ CloseDead(s)
    \/ Discard(s) \/ ServeDeaf(s) \/ ServeConn(s) \/ ServeView(s)

Next ==
    \/ \E c \in Clerk : Query(c) \/ Join(c) \/ Leave(c) \/ Move(c)
    \/ \E c \in Clerk : Ping(c) \/ Get(c) \/ Primary(c)
    \/ \E c \in Clerk : Dial(c)
    \/ \E s \in started : Loop(s) \/ Kill(s) \/ setunreliable(s) \/ TickEnd(s)
    \/ \E h \in serving : Handler(h) \/ Unsent(h)

\* A server whose loops, or whose Kill, can go on goes on, and so does a clerk or
\* the goroutine that serves it; and a clerk whose connections are accepted again
\* and again is not discarded each time.
Spec ==
    /\ Init /\ [][Next]_vars
    /\ \A s \in Server :
          WF_vars(s \in started /\ (Loop(s) \/ TickEnd(s) \/ (srv[s].kill = "half" /\ Kill(s))))
    /\ \A c \in Clerk : WF_vars(Dial(c) \/ \E h \in serving : h.c = c /\ Handler(h))
    /\ \A c \in ShardClerk : SF_vars(\E s \in started : conn[s] = c /\ ServeConn(s))

-----------------------------------------------------------------------------
\* An operation that has returned has been executed, whatever was discarded,
\* served deaf, reset or closed on the way.
ReturnedRan == \A c \in Clerk : \A o \in ck[c].ok : runs[c][o] >= 1

\* As long as no server has been unreliable the retries of a clerk duplicate
\* nothing, even when servers are killed under it: a connection that Kill
\* resets or the accept loop closes has not been served.
OnceIfReliable == ~shaky => \A c \in Clerk : \A o \in 1..MaxOps : runs[c][o] <= 1

\* A Ping or Get that fails at the view server has not run there, and will not.
FailedPingNotRun == \A c \in ViewClerk : \A o \in ck[c].failed : runs[c][o] = 0

\* Kill sets dead before it closes the listener: no accept loop ever finds its
\* listener closed and its server alive, which it would report.
QuietKill == ~reported

\* With a server that is not killed, every operation of a shard clerk returns.
OperationReturns == \A c \in ShardClerk : ck[c].pc # "idle" ~> ck[c].pc = "idle"

\* The loops of a server that is killed end.
KillEnds ==
    \A s \in Mortal :
        (s \in started /\ srv[s].dead) ~> (s \in started /\ srv[s].loop = "exit" /\ srv[s].tick # "on")
=============================================================================
