------------------------------- MODULE Labrpc -------------------------------
(***************************************************************************)
(* The simulated network of src/labrpc/labrpc.go together with the part of *)
(* src/raft/config.go that connects, disconnects, crashes and restarts the *)
(* servers, and with the persisters a handler writes.                      *)
(*                                                                         *)
(* Every critical section of Network.mu is one action.  The n calls of     *)
(* Enable in connect and disconnect are one action each: a request looks   *)
(* at its own end only.  Delays are the time between two actions.          *)
(*                                                                         *)
(* A server has one instance per incarnation; the instance, its ClientEnds *)
(* and its Persister carry the number of the incarnation.  An old instance *)
(* is never killed: it goes on calling and handling.                       *)
(***************************************************************************)
EXTENDS Naturals, FiniteSets

CONSTANTS
    Server,   \* the names of the servers
    NoEnd,    \* the end of a call that has not been made
    CallId,   \* bound: the calls made in a behaviour
    MaxGen    \* bound: incarnations of a server

ClientEnd == [src : Server, gen : 1..MaxGen, dst : Server]

ASSUME MaxGenAssumption == MaxGen \in Nat \ {0}

ASSUME NoEndAssumption == NoEnd \notin ClientEnd

VARIABLES
    reliable,   \* Network.reliable
    servers,    \* Network.servers: the current instance of each name, 0 is nil
    enabled,    \* the ClientEnds that Network.enabled holds as true
    connected,  \* config.connected
    gen,        \* the incarnation whose ClientEnds are config.endnames[i]
    step,       \* how far crash1 and start1 are with each server
    owner,      \* the instance that writes to config.saved[i]; 0: nobody
    saved,      \* the contents of config.saved[i]: the calls saved in it
    call        \* the calls

vars == <<reliable, servers, enabled, connected, gen, step, owner, saved, call>>

cluster == <<servers, enabled, connected, gen, step, owner>>

End(i, g, j) == [src |-> i, gen |-> g, dst |-> j]

\* The current ends that lead from i to others and from them to i.
EndsOf(i, others) == {End(i, gen[i], j) : j \in others} \cup {End(j, gen[j], i) : j \in others}

NoCall == [pc |-> "idle", end |-> NoEnd, server |-> 0, reliable |-> TRUE,
           handler |-> "none", ok |-> FALSE]

\* make_config has started and connected every server.
Init ==
    /\ reliable \in BOOLEAN
    /\ servers = [i \in Server |-> 1]
    /\ enabled = {End(i, 1, j) : i, j \in Server}
    /\ connected = [i \in Server |-> TRUE]
    /\ gen = [i \in Server |-> 1]
    /\ step = [i \in Server |-> "up"]
    /\ owner = [i \in Server |-> 1]
    /\ saved = [i \in Server |-> {}]
    /\ call = [c \in CallId |-> NoCall]

Dst(c) == call[c].end.dst

-----------------------------------------------------------------------------
\* A call, from the caller's goroutine through ProcessReq and back.

\* Fault: the request does not say which end it comes from.
CallNoEnd(c, i, g, j) ==
    /\ call[c].pc = "idle"
    /\ g <= gen[i] /\ (g = gen[i] => step[i] # "ends")
    /\ call' = [call EXCEPT ![c].pc = "sent"]
    /\ UNCHANGED <<reliable, cluster, saved>>

\* Call hands the request to the network's goroutine.  The caller is the
\* current instance of i or one that has been superseded.
Call(c, i, g, j) ==
    /\ call[c].pc = "idle"
    /\ g <= gen[i] /\ (g = gen[i] => step[i] # "ends")
    /\ call' = [call EXCEPT ![c].pc = "sent", ![c].end = End(i, g, j)]
    /\ UNCHANGED <<reliable, cluster, saved>>

\* ReadEndnameInfo: the end is enabled and its server exists, now.
ReadEndnameInfo(c) ==
    LET j == Dst(c)
        found == call[c].end \in enabled /\ servers[j] # 0
    IN /\ call[c].pc = "sent"
       /\ call' = [call EXCEPT ![c].pc = IF found THEN "accepted" ELSE "failing",
                               ![c].server = servers[j], ![c].reliable = reliable]
       /\ UNCHANGED <<reliable, cluster, saved>>

\* Unreliable network: the request is dropped.
DropRequest(c) ==
    /\ call[c].pc = "accepted" /\ ~call[c].reliable
    /\ call' = [call EXCEPT ![c].pc = "failing"]
    /\ UNCHANGED <<reliable, cluster, saved>>

\* The handler gets a goroutine of its own.
Dispatch(c) ==
    /\ call[c].pc = "accepted"
    /\ call' = [call EXCEPT ![c].pc = "waiting", ![c].handler = "running"]
    /\ UNCHANGED <<reliable, cluster, saved>>

\* The handler runs on the instance that was looked up, saves its update with
\* the persister of that instance and returns.
Handle(c) ==
    LET j == Dst(c)
    IN /\ call[c].handler = "running"
       /\ call' = [call EXCEPT ![c].handler = "done"]
       /\ saved' = IF owner[j] = call[c].server
                   THEN [saved EXCEPT ![j] = @ \cup {c}]
                   ELSE saved
       /\ UNCHANGED <<reliable, cluster>>

\* Fault: a superseded instance passes for the current one.
IsServerDisconnected(c) == call[c].end \notin enabled

IsServerDead(c) == call[c].end \notin enabled \/ servers[Dst(c)] # call[c].server

\* Fault: ProcessReq waits for the handler whatever happens to the server.
StopWaitingNever(c) == FALSE /\ UNCHANGED vars

\* Fault: the timer sends the request to the server once more.
StopWaitingRetry(c) ==
    /\ call[c].pc = "waiting"
    /\ call' = [call EXCEPT ![c].handler = "running"]
    /\ UNCHANGED <<reliable, cluster, saved>>

\* The timer of the select fires and the server is found dead.
StopWaiting(c) ==
    /\ call[c].pc = "waiting" /\ IsServerDead(c)
    /\ call' = [call EXCEPT ![c].pc = "failing"]
    /\ UNCHANGED <<reliable, cluster, saved>>

\* The handler's reply is received.
ReceiveReply(c) ==
    /\ call[c].pc = "waiting" /\ call[c].handler = "done"
    /\ call' = [call EXCEPT ![c].pc = "replied"]
    /\ UNCHANGED <<reliable, cluster, saved>>

\* The last look at the server decides what the caller is told; an unreliable
\* network may still drop the reply.
CheckReply(c) ==
    /\ call[c].pc = "replied"
    /\ \E pc \in {"failing", "replying"} :
          /\ pc = "replying" => ~IsServerDead(c)
          /\ pc = "failing" => IsServerDead(c) \/ ~call[c].reliable
          /\ call' = [call EXCEPT ![c].pc = pc]
    /\ UNCHANGED <<reliable, cluster, saved>>

\* The reply goes out, after a long delay if longReordering says so, and Call
\* returns.
Return(c) ==
    /\ call[c].pc \in {"failing", "replying"}
    /\ call' = [call EXCEPT ![c].pc = "returned", ![c].ok = call[c].pc = "replying"]
    /\ UNCHANGED <<reliable, cluster, saved>>

-----------------------------------------------------------------------------
\* The test harness.

SetUnreliable ==
    /\ reliable' = ~reliable
    /\ UNCHANGED <<cluster, saved, call>>

\* Fault: only the outgoing ends are enabled.
EnabledOutgoing(i) == enabled \cup {End(i, gen[i], j) : j \in {k \in Server : k = i \/ connected[k]}}

\* What connect(i) leaves enabled: both directions, to the servers connected.
EnabledBy(i) ==
    enabled \cup EndsOf(i, {k \in Server : k = i \/ connected[k]})

connect(i) ==
    /\ step[i] = "up"
    /\ connected' = [connected EXCEPT ![i] = TRUE]
    /\ enabled' = EnabledBy(i)
    /\ UNCHANGED <<reliable, servers, gen, step, owner, saved, call>>

disconnect(i) ==
    /\ connected' = [connected EXCEPT ![i] = FALSE]
    /\ enabled' = enabled \ EndsOf(i, Server)

\* A partition, without a crash.
Partition(i) ==
    /\ step[i] = "up"
    /\ disconnect(i)
    /\ UNCHANGED <<reliable, servers, gen, step, owner, saved, call>>

\* crash1: disconnect, DeleteServer, then replace the persister by a copy that
\* the old instance does not know.
CrashDisconnect(i) ==
    /\ step[i] = "up"
    /\ disconnect(i)
    /\ step' = [step EXCEPT ![i] = "cut"]
    /\ UNCHANGED <<reliable, servers, gen, owner, saved, call>>

\* Fault: the persister is superseded while the server can still be reached.
CopyFirst(i) ==
    /\ step[i] = "cut"
    /\ owner' = [owner EXCEPT ![i] = 0]
    /\ step' = [step EXCEPT ![i] = "down"]
    /\ UNCHANGED <<reliable, servers, enabled, connected, gen, saved, call>>

DeleteServer(i) ==
    /\ step[i] = "cut"
    /\ servers' = [servers EXCEPT ![i] = 0]
    /\ step' = [step EXCEPT ![i] = "deleted"]
    /\ UNCHANGED <<reliable, enabled, connected, gen, owner, saved, call>>

Copy(i) ==
    /\ step[i] = "deleted"
    /\ owner' = [owner EXCEPT ![i] = 0]
    /\ step' = [step EXCEPT ![i] = "down"]
    /\ UNCHANGED <<reliable, servers, enabled, connected, gen, saved, call>>

\* start1 (its own crash1 finds the server down already): new ends, disabled;
\* a new copy of the persister, given to the new instance; AddServer.
MakeEnds(i) ==
    /\ step[i] = "down" /\ gen[i] < MaxGen
    /\ gen' = [gen EXCEPT ![i] = @ + 1]
    /\ step' = [step EXCEPT ![i] = "ends"]
    /\ UNCHANGED <<reliable, servers, enabled, connected, owner, saved, call>>

Make(i) ==
    /\ step[i] = "ends"
    /\ owner' = [owner EXCEPT ![i] = gen[i]]
    /\ step' = [step EXCEPT ![i] = "made"]
    /\ UNCHANGED <<reliable, servers, enabled, connected, gen, saved, call>>

AddServer(i) ==
    /\ step[i] = "made"
    /\ servers' = [servers EXCEPT ![i] = gen[i]]
    /\ step' = [step EXCEPT ![i] = "up"]
    /\ UNCHANGED <<reliable, enabled, connected, gen, owner, saved, call>>

-----------------------------------------------------------------------------
ProcessReq(c) ==
    \/ ReadEndnameInfo(c) \/ DropRequest(c) \/ Dispatch(c)
    \/ StopWaiting(c) \/ ReceiveReply(c) \/ CheckReply(c) \/ Return(c)

Calls ==
    \/ \E c \in CallId, i, j \in Server, g \in 1..MaxGen : Call(c, i, g, j)
    \/ \E c \in CallId : ProcessReq(c)
    \/ \E c \in CallId : Handle(c)

Harness ==
    \/ SetUnreliable
    \/ \E i \in Server : connect(i) \/ Partition(i) \/ CrashDisconnect(i)
                         \/ DeleteServer(i) \/ Copy(i) \/ MakeEnds(i) \/ Make(i) \/ AddServer(i)

Next == Calls \/ Harness

Spec == Init /\ [][Next]_vars

\* Goroutines of the network run on; a handler may hang.
FairSpec == Spec /\ \A c \in CallId : WF_vars(ProcessReq(c))

-----------------------------------------------------------------------------
CallRecord ==
    [pc : {"idle", "sent", "accepted", "waiting", "replied", "failing", "replying", "returned"},
     end : ClientEnd \cup {NoEnd}, server : 0..MaxGen,
     reliable : BOOLEAN, handler : {"none", "running", "done"}, ok : BOOLEAN]

\* Every variable holds values of its type; a call has an end once it is made.
TypeOK ==
    /\ reliable \in BOOLEAN
    /\ servers \in [Server -> 0..MaxGen]
    /\ enabled \subseteq ClientEnd
    /\ connected \in [Server -> BOOLEAN]
    /\ gen \in [Server -> 1..MaxGen]
    /\ step \in [Server -> {"up", "cut", "deleted", "down", "ends", "made"}]
    /\ owner \in [Server -> 0..MaxGen]
    /\ saved \in [Server -> SUBSET CallId]
    /\ call \in [CallId -> CallRecord]
    /\ \A c \in CallId : call[c].end = NoEnd <=> call[c].pc = "idle"

\* config.go is "careful to call DeleteServer() before superseding the
\* Persister" (labrpc.go): an instance the network still reaches is the one
\* that writes to the persister the next incarnation starts from.
ReachedOwnsPersister ==
    \A i \in Server : servers[i] # 0 => servers[i] = owner[i]

\* labrpc.go, before the last IsServerDead: a caller that got a positive reply
\* finds its update in the persister that the next incarnation starts from.
AckedDurable ==
    \A c \in CallId : call[c].ok => c \in saved[Dst(c)]

\* config.go: exactly the ends of the current incarnations of connected servers
\* are enabled, so an old instance cannot send and a partition is complete.
EndsCurrent ==
    enabled = {End(i, gen[i], j) : i, j \in {k \in Server : connected[k]}}

\* labrpc.go: Call is guaranteed to return except if the handler does not, and
\* then too if the server is deleted or disconnected for good.
CallReturns ==
    \A c \in CallId :
        \/ <>[](call[c].handler = "running") /\ []<>~IsServerDead(c)
        \/ call[c].pc = "sent" ~> call[c].pc = "returned"

\* The instances of a server, as far as crash1 and start1 have come.
InstanceInv ==
    \A i \in Server :
        /\ servers[i] = IF step[i] \in {"up", "cut"} THEN gen[i] ELSE 0
        /\ owner[i] = IF step[i] \in {"down", "ends"} THEN 0 ELSE gen[i]
        /\ connected[i] => step[i] = "up"

\* What is known of a call: an update that is not in the persister was made by
\* an instance that is gone for good; a positive reply is on its way only if
\* the update is in the persister.
CallOK(c) ==
    LET r == call[c]
        j == Dst(c)
    IN /\ r.ok => r.pc = "returned"
       /\ r.pc \in {"idle", "sent", "accepted"} => r.handler = "none"
       /\ r.pc = "accepted" \/ r.handler # "none" =>
             /\ r.server \in 1..gen[j]
             /\ step[j] \in {"ends", "made"} => r.server < gen[j]
       /\ r.handler = "done" => c \in saved[j] \/ r.server < gen[j] \/ step[j] = "down"
       /\ r.pc = "replied" => r.handler = "done"
       /\ r.pc = "replying" \/ r.ok => r.handler = "done" /\ c \in saved[j]

\* The inductive invariant behind AckedDurable: instances agree with the
\* harness's steps, and calls with instances and persisters.
NetworkInv == InstanceInv /\ \A c \in CallId : CallOK(c)

\* What the caller sees of call c, and the calls whose handler has run.
Outcome(c) ==
    CASE call[c].pc = "idle" -> "none"
      [] call[c].pc = "returned" -> IF call[c].ok THEN "ok" ELSE "failed"
      [] OTHER -> "pending"

Outcomes == [c \in CallId |-> Outcome(c)]

Executed == {c \in CallId : call[c].handler = "done"}

R == INSTANCE Rpc WITH outcome <- Outcomes, executed <- Executed

\* Every call behaves as labrpc.go's head comment says: true only after the
\* handler ran, at most one execution, any failure possible.
ImplementsRpc == R!Spec
=============================================================================
