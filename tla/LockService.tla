---------------------------- MODULE LockService -----------------------------
(***************************************************************************)
(* src/lockservice: the primary and the backup lock server, each with its  *)
(* accept loop and the test's kill and dying switches, and the clerks.     *)
(* Clerks talk to the primary only, and the primary never to the backup.   *)
(***************************************************************************)
EXTENDS Naturals, FiniteSets

CONSTANTS
    Client,
    Lockname,
    MaxCalls   \* bound: calls of one clerk

Srv == {"primary", "backup"}

VARIABLES
    ls,     \* the LockServers: their switches, their listener, their accept loop
    locks,  \* LockServer.locks: the names locked
    ck      \* the clerks: where the current call is, and what came of the last

vars == <<ls, locks, ck>>

LockServer == [dead : BOOLEAN, dying : BOOLEAN, open : BOOLEAN, loop : {"accept", "accepted", "deaf", "exit"}]

Clerk ==
    [pc : {"idle", "dialed", "accepted", "serving", "deaf", "unheard", "replied", "failed", "unlocked"},
     name : Lockname \cup {"none"}, ok : BOOLEAN, calls : Nat,
     granted : SUBSET Lockname,  \* what Lock ever returned true for
     held : SUBSET Lockname]     \* what it has not called Unlock for since

Init ==
    /\ ls = [s \in Srv |-> [dead |-> FALSE, dying |-> FALSE, open |-> TRUE, loop |-> "accept"]]
    /\ locks = [s \in Srv |-> {}]
    /\ ck = [c \in Client |-> [pc |-> "idle", name |-> "none", ok |-> FALSE, calls |-> 0,
                           granted |-> {}, held |-> {}]]

\* Closing a listener resets the connections it has not accepted.
Reset == [c \in Client |-> IF ck[c].pc = "dialed" THEN [ck[c] EXCEPT !.pc = "failed"] ELSE ck[c]]

-----------------------------------------------------------------------------
\* Clerk.Lock: dial the primary.
Lock(c, l) ==
    /\ ck[c].pc = "idle" /\ ck[c].calls < MaxCalls
    /\ ck' = [ck EXCEPT ![c].pc = IF ls["primary"].open THEN "dialed" ELSE "failed",
                        ![c].name = l, ![c].ok = FALSE, ![c].calls = @ + 1]
    /\ UNCHANGED <<ls, locks>>

\* Clerk.Unlock: the clerk gives the lock up; the call asks nobody and returns
\* false.
Unlock(c, l) ==
    /\ ck[c].pc = "idle" /\ ck[c].calls < MaxCalls
    /\ ck' = [ck EXCEPT ![c].pc = "unlocked", ![c].name = l, ![c].ok = FALSE, ![c].calls = @ + 1,
                        ![c].held = @ \ {l}]
    /\ UNCHANGED <<ls, locks>>

\* call returned true and the reply says OK.
Answered(c) == ck[c].pc = "replied" /\ ck[c].ok

\* The name that the call is about to return true for.
Answer(c) == IF Answered(c) THEN {ck[c].name} ELSE {}

Return(c) ==
    /\ ck[c].pc \in {"failed", "replied", "unlocked"}
    /\ ck' = [ck EXCEPT ![c].pc = "idle", ![c].granted = @ \cup Answer(c), ![c].held = @ \cup Answer(c)]
    /\ UNCHANGED <<ls, locks>>

-----------------------------------------------------------------------------
\* The accept loop of the primary takes a connection.
Accept(c) ==
    /\ ls["primary"].loop = "accept" /\ ls["primary"].open /\ ck[c].pc = "dialed"
    /\ ls' = [ls EXCEPT !["primary"].loop = "accepted"]
    /\ ck' = [ck EXCEPT ![c].pc = "accepted"]
    /\ UNCHANGED locks

\* A server that has been killed since then closes it and leaves the loop.
CloseDead(c) ==
    /\ ck[c].pc = "accepted" /\ ls["primary"].dead
    /\ ck' = [ck EXCEPT ![c].pc = "failed"]
    /\ ls' = [ls EXCEPT !["primary"].loop = "exit"]
    /\ UNCHANGED locks

\* Fault: the deaf connection gets a goroutine, and the loop goes on.
ServeDeafAside(c) ==
    /\ ck[c].pc = "accepted" /\ ~ls["primary"].dead /\ ls["primary"].dying
    /\ ck' = [ck EXCEPT ![c].pc = "deaf"]
    /\ ls' = [ls EXCEPT !["primary"].loop = "accept"]
    /\ UNCHANGED locks

\* A dying server closes its listener and serves the request, deaf, before the
\* loop goes on.
ServeDeaf(c) ==
    /\ ck[c].pc = "accepted" /\ ~ls["primary"].dead /\ ls["primary"].dying
    /\ ck' = [Reset EXCEPT ![c].pc = "deaf"]
    /\ ls' = [ls EXCEPT !["primary"].open = FALSE, !["primary"].loop = "deaf"]
    /\ UNCHANGED locks

\* Otherwise the connection gets a goroutine.
ServeConn(c) ==
    /\ ck[c].pc = "accepted" /\ ~ls["primary"].dead /\ ~ls["primary"].dying
    /\ ck' = [ck EXCEPT ![c].pc = "serving"]
    /\ ls' = [ls EXCEPT !["primary"].loop = "accept"]
    /\ UNCHANGED locks

\* Accept fails: the loop ends, killing the server if nobody has.
AcceptError(s) ==
    /\ ls[s].loop = "accept" /\ ~ls[s].open
    /\ ls' = [ls EXCEPT ![s].dead = TRUE, ![s].loop = "exit"]
    /\ UNCHANGED <<locks, ck>>

\* ls.locks[name] = true
Grant(l) == locks' = [locks EXCEPT !["primary"] = @ \cup {l}]

\* Fault: the map is not consulted.
HeldNever(l) == FALSE

\* locked, _ := ls.locks[name]
Held(l) == l \in locks["primary"]

\* LockServer.Lock, under ls.mu; a deaf connection discards the reply.
HandleLock(c) ==
    LET l == ck[c].name
        held == Held(l)
    IN /\ ck[c].pc \in {"serving", "deaf"}
       /\ IF held THEN UNCHANGED locks ELSE Grant(l)
       /\ ck' = [ck EXCEPT ![c].pc = IF ck[c].pc = "deaf" THEN "unheard" ELSE "replied",
                           ![c].ok = ck[c].pc = "serving" /\ ~held]
       /\ UNCHANGED ls

\* Fault: the connection of the unheard reply is never closed.
CloseDeafNever(c) == FALSE /\ UNCHANGED vars

\* Two seconds later the deaf connection is closed, and the loop goes on to set
\* dead and to end.
CloseDeaf(c) ==
    /\ ck[c].pc = "unheard"
    /\ ck' = [ck EXCEPT ![c].pc = "failed"]
    /\ ls' = [ls EXCEPT !["primary"].dead = TRUE, !["primary"].loop = "exit"]
    /\ UNCHANGED locks

\* kill, and the test's assignment to dying.
Kill(s) ==
    /\ ~ls[s].dead
    /\ ls' = [ls EXCEPT ![s].dead = TRUE, ![s].open = FALSE]
    /\ ck' = IF s = "primary" THEN Reset ELSE ck
    /\ UNCHANGED locks

SetDying(s) ==
    /\ ~ls[s].dying
    /\ ls' = [ls EXCEPT ![s].dying = TRUE]
    /\ UNCHANGED <<locks, ck>>

-----------------------------------------------------------------------------
Serve(c) ==
    \/ Accept(c) \/ CloseDead(c) \/ ServeDeaf(c) \/ ServeConn(c)
    \/ HandleLock(c) \/ CloseDeaf(c)

Next ==
    \/ \E c \in Client : \E l \in Lockname : Lock(c, l) \/ Unlock(c, l)
    \/ \E c \in Client : Return(c) \/ Serve(c)
    \/ \E s \in Srv : AcceptError(s) \/ Kill(s) \/ SetDying(s)

Spec == Init /\ [][Next]_vars

\* Servers that have a request and clerks that have an answer go on.
FairSpec == Spec /\ \A c \in Client : WF_vars(Serve(c)) /\ WF_vars(Return(c))

-----------------------------------------------------------------------------
\* The values of the state; a call that is under way has a name.
TypeOK ==
    /\ ls \in [Srv -> LockServer]
    /\ locks \in [Srv -> SUBSET Lockname]
    /\ ck \in [Client -> Clerk]
    /\ \A c \in Client : ck[c].pc # "idle" => ck[c].name \in Lockname

\* What a clerk holds, or is about to be told it holds.
Holds(c) == ck[c].held \cup Answer(c)

\* No two clerks hold a lock at the same time, nor is a clerk told that it got a
\* lock that it still holds, whatever replies get lost and whenever the primary
\* is killed.
LockExclusive ==
    /\ \A c, d \in Client : c # d => Holds(c) \cap Holds(d) = {}
    /\ \A c \in Client : Answered(c) => ck[c].name \notin ck[c].held

\* What a clerk was ever told it got, or is about to be told.
Told(c) == ck[c].granted \cup Answer(c)

\* The locks on the primary's record that no clerk was told of.
LostGrants == {l \in locks["primary"] : \A c \in Client : l \notin Told(c)}

\* A lock is taken without anybody knowing that it got it only by the one request
\* that a dying primary serves deaf: there is one such lock at most, none while
\* the primary is not dying, and once there is one the primary takes no further
\* connections.
OneLostGrant ==
    /\ \A l, m \in LostGrants : l = m
    /\ LostGrants # {} => /\ ls["primary"].dying /\ ~ls["primary"].open
                          /\ ls["primary"].loop \in {"deaf", "exit"}

\* client.go: call returns "an error after a while if the server is dead": a
\* call of Lock always comes back, kill and dying included.
LockReturns == \A c \in Client : ck[c].pc # "idle" ~> ck[c].pc = "idle"
=============================================================================
