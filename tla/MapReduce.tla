----------------------------- MODULE MapReduce ------------------------------
(***************************************************************************)
(* The distributed mode of src/mapreduce: the master (run, schedule,       *)
(* killWorkers), the goroutine of each task (execute), the workers         *)
(* (RunWorker and its handlers) and the files of the shared file system.   *)
(*                                                                         *)
(* call() opens one connection for each RPC.  A worker holds at most one   *)
(* connection, which OneTaskAtATime shows, so conn is one per worker.  A   *)
(* task's files are one: "partial" between os.Create and file.Close.       *)
(***************************************************************************)
EXTENDS Integers, Sequences, FiniteSets

CONSTANTS
    Worker,      \* the names of the workers
    NMap,        \* len(mr.files)
    NReduce,     \* mr.nReduce
    Mortal,      \* the workers whose process may die
    Limited,     \* the workers started with a limit on RPCs, and the limit
    Limit,
    Unreadable   \* the inputs that ioutil.ReadFile cannot read

ASSUME CountAssumption ==
    /\ NMap \in Nat /\ NReduce \in Nat /\ Limit \in Nat
    /\ Mortal \subseteq Worker /\ Limited \subseteq Worker /\ Unreadable \subseteq 0..NMap - 1

VARIABLES
    pc,               \* where Master.run is
    phase,            \* the jobPhase of schedule
    next,             \* schedule's i; in killWorkers, the workers handled
    wg,               \* schedule's WaitGroup
    exec,             \* the goroutine of each task of the phase
    registerChannel,  \* the goroutines blocked in a send, first come first served
    sending,          \* the goroutines about to send, by worker
    workers,          \* mr.workers
    stats,            \* what the Shutdown replies say: worker and Ntasks
    wk,               \* the workers
    conn,             \* the connection of each worker, from dial to reply
    mapOut,           \* the intermediate files of each map task
    mergeOut          \* the result file of each reduce task

master == <<pc, phase, next, wg>>
vars == <<master, exec, registerChannel, sending, workers, stats, wk, conn, mapOut, mergeOut>>

MapTask == 0..NMap - 1
ReduceTask == 0..NReduce - 1

\* ntasks of schedule(p).
Ntasks(p) == IF p = "map" THEN NMap ELSE NReduce

Idle == [pc |-> "none", worker |-> "none"]
NoConn == [kind |-> "none", task |-> 0, st |-> "none", intact |-> TRUE, ntasks |-> 0]

Init ==
    /\ pc = "assign" /\ phase = "map" /\ next = 0 /\ wg = NMap
    /\ exec = [t \in MapTask \cup ReduceTask |-> Idle]
    /\ registerChannel = <<>> /\ sending = {} /\ workers = <<>> /\ stats = {}
    /\ wk = [w \in Worker |-> [pc |-> "new", nRPC |-> IF w \in Limited THEN Limit ELSE -1,
                               nTasks |-> 0]]
    /\ conn = [w \in Worker |-> NoConn]
    /\ mapOut = [t \in MapTask |-> "none"]
    /\ mergeOut = [t \in ReduceTask |-> "none"]

Running == pc # "crashed"

Listening(w) == wk[w].pc \in {"check", "accept", "accepted", "served"}

\* rpc.Dial: the listener queues the connection.
Dial(w, kind, t) ==
    /\ Listening(w)
    /\ conn' = [conn EXCEPT ![w] = [NoConn EXCEPT !.kind = kind, !.task = t, !.st = "dialed"]]

-----------------------------------------------------------------------------
\* schedule.

\* worker := <-mr.registerChannel; go execute(worker, i)
Assign ==
    /\ pc = "assign" /\ next < Ntasks(phase) /\ registerChannel # <<>>
    /\ exec' = [exec EXCEPT ![next] = [pc |-> "call", worker |-> Head(registerChannel)]]
    /\ registerChannel' = Tail(registerChannel)
    /\ next' = next + 1
    /\ UNCHANGED <<pc, phase, wg, sending, workers, stats, wk, conn, mapOut, mergeOut>>

\* Fault: the second phase starts as soon as its tasks can be handed out.
ScheduledAll == next = Ntasks(phase)

\* The loop is done and wg.Wait returns.
ScheduleDone == next = Ntasks(phase) /\ wg = 0

\* schedule(mapPhase) returns and schedule(reducePhase) begins; or it is over
\* and finish, that is killWorkers, begins.
NextPhase ==
    /\ pc = "assign" /\ ScheduleDone
    /\ next' = 0
    /\ IF phase = "map"
       THEN phase' = "reduce" /\ wg' = NReduce /\ UNCHANGED pc
       ELSE pc' = "kill" /\ UNCHANGED <<phase, wg>>
    /\ UNCHANGED <<exec, registerChannel, sending, workers, stats, wk, conn, mapOut, mergeOut>>

\* execute up to the dial.  mr.files[taskId] is evaluated in both phases.
Execute(t) ==
    LET w == exec[t].worker
    IN /\ Running /\ exec[t].pc = "call"
       /\ IF t >= NMap
          THEN pc' = "crashed" /\ UNCHANGED <<exec, conn>>
          ELSE \/ /\ Dial(w, phase, t)
                  /\ exec' = [exec EXCEPT ![t].pc = "wait"]
                  /\ UNCHANGED pc
               \/ /\ ~Listening(w)
                  /\ exec' = [exec EXCEPT ![t].pc = "failed"]
                  /\ UNCHANGED <<pc, conn>>
       /\ UNCHANGED <<phase, next, wg, registerChannel, sending, workers, stats, wk, mapOut, mergeOut>>

\* Fault: a worker that has done its task is not given back.
CallReturnsKept(t) ==
    LET w == exec[t].worker
    IN /\ Running /\ exec[t].pc = "wait"
       /\ conn' = [conn EXCEPT ![w] = NoConn]
       /\ \/ /\ conn[w].st = "ok"
             /\ exec' = [exec EXCEPT ![t] = Idle]
             /\ wg' = wg - 1
          \/ /\ conn[w].st = "failed"
             /\ exec' = [exec EXCEPT ![t].pc = "failed"]
             /\ UNCHANGED wg
       /\ UNCHANGED <<pc, phase, next, registerChannel, sending, workers, stats, wk, mapOut, mergeOut>>

\* call returns true: wg.Done, and the worker is to be sent to the channel; or
\* false.
CallReturns(t) ==
    LET w == exec[t].worker
    IN /\ Running /\ exec[t].pc = "wait"
       /\ conn' = [conn EXCEPT ![w] = NoConn]
       /\ \/ /\ conn[w].st = "ok"
             /\ exec' = [exec EXCEPT ![t] = Idle]
             /\ wg' = wg - 1 /\ sending' = sending \cup {w}
          \/ /\ conn[w].st = "failed"
             /\ exec' = [exec EXCEPT ![t].pc = "failed"]
             /\ UNCHANGED <<wg, sending>>
       /\ UNCHANGED <<pc, phase, next, registerChannel, workers, stats, wk, mapOut, mergeOut>>

\* Fault: the failed worker is sent, and the task forgotten.
RetryForgotten(t) ==
    /\ Running /\ exec[t].pc = "failed"
    /\ sending' = sending \cup {exec[t].worker}
    /\ exec' = [exec EXCEPT ![t] = Idle]
    /\ UNCHANGED <<master, registerChannel, workers, stats, wk, conn, mapOut, mergeOut>>

\* Fault: the failed worker is sent twice, once in place of the new one.
RetrySameWorker(t) ==
    /\ Running /\ exec[t].pc = "failed"
    /\ sending' = sending \cup {exec[t].worker}
    /\ exec' = [exec EXCEPT ![t].pc = "call"]
    /\ UNCHANGED <<master, registerChannel, workers, stats, wk, conn, mapOut, mergeOut>>

\* A failed task waits for another worker; only then is the failed one sent.
Retry(t) ==
    /\ Running /\ exec[t].pc = "failed" /\ registerChannel # <<>>
    /\ exec' = [exec EXCEPT ![t] = [pc |-> "call", worker |-> Head(registerChannel)]]
    /\ registerChannel' = Tail(registerChannel)
    /\ sending' = sending \cup {exec[t].worker}
    /\ UNCHANGED <<master, workers, stats, wk, conn, mapOut, mergeOut>>

\* mr.registerChannel <- w blocks until a receiver comes.
Send(w) ==
    /\ Running /\ w \in sending
    /\ sending' = sending \ {w}
    /\ registerChannel' = Append(registerChannel, w)
    /\ UNCHANGED <<master, exec, workers, stats, wk, conn, mapOut, mergeOut>>

-----------------------------------------------------------------------------
\* finish and merge.

\* Shutdown RPC to the next of mr.workers, under the master's lock.
KillNext ==
    /\ pc = "kill" /\ next < Len(workers)
    /\ LET w == workers[next + 1]
       IN \/ /\ Dial(w, "shutdown", 0)
             /\ pc' = "killing" /\ UNCHANGED next
          \/ /\ ~Listening(w)
             /\ next' = next + 1 /\ UNCHANGED <<pc, conn>>
    /\ UNCHANGED <<phase, wg, exec, registerChannel, sending, workers, stats, wk, mapOut, mergeOut>>

KillReturns ==
    LET w == workers[next + 1]
    IN /\ pc = "killing" /\ conn[w].st \in {"ok", "failed"}
       /\ stats' = IF conn[w].st = "ok"
                   THEN stats \cup {[worker |-> w, Ntasks |-> conn[w].ntasks]}
                   ELSE stats
       /\ conn' = [conn EXCEPT ![w] = NoConn]
       /\ next' = next + 1 /\ pc' = "kill"
       /\ UNCHANGED <<phase, wg, exec, registerChannel, sending, workers, wk, mapOut, mergeOut>>

\* killWorkers returns and releases the lock; then stopRPCServer closes the
\* master's listener.
KillDone ==
    /\ pc = "kill" /\ next = Len(workers)
    /\ pc' = "stop"
    /\ UNCHANGED <<phase, next, wg, exec, registerChannel, sending, workers, stats, wk, conn, mapOut, mergeOut>>

stopRPCServer ==
    /\ pc = "stop"
    /\ pc' = "merge"
    /\ UNCHANGED <<phase, next, wg, exec, registerChannel, sending, workers, stats, wk, conn, mapOut, mergeOut>>

\* merge reads every result file; it is fatal if one does not exist.
Merge ==
    /\ pc = "merge"
    /\ pc' = IF \E r \in ReduceTask : mergeOut[r] = "none" THEN "crashed" ELSE "done"
    /\ UNCHANGED <<phase, next, wg, exec, registerChannel, sending, workers, stats, wk, conn, mapOut, mergeOut>>

-----------------------------------------------------------------------------
\* The workers.

\* RunWorker listens and registers; Register takes the master's lock and starts
\* a goroutine that sends.  Once the master has stopped listening, the call
\* fails and the worker goes on.
Register(w) ==
    /\ wk[w].pc = "new" /\ pc \notin {"kill", "killing"}
    /\ wk' = [wk EXCEPT ![w].pc = "check"]
    /\ IF pc \in {"assign", "stop"}
       THEN workers' = Append(workers, w) /\ sending' = sending \cup {w}
       ELSE UNCHANGED <<workers, sending>>
    /\ UNCHANGED <<master, exec, registerChannel, stats, conn, mapOut, mergeOut>>

\* The head of the loop; when the limit is reached, the listener is closed and
\* a connection still queued is reset.
CheckLimit(w) ==
    /\ wk[w].pc = "check"
    /\ wk' = [wk EXCEPT ![w].pc = IF wk[w].nRPC = 0 THEN "closed" ELSE "accept"]
    /\ conn' = IF wk[w].nRPC = 0 /\ conn[w].st = "dialed"
               THEN [conn EXCEPT ![w].st = "failed"] ELSE conn
    /\ UNCHANGED <<master, exec, registerChannel, sending, workers, stats, mapOut, mergeOut>>

Accept(w) ==
    /\ wk[w].pc = "accept" /\ conn[w].st = "dialed"
    /\ wk' = [wk EXCEPT ![w].pc = "accepted"]
    /\ conn' = [conn EXCEPT ![w].st = "accepted"]
    /\ UNCHANGED <<master, exec, registerChannel, sending, workers, stats, mapOut, mergeOut>>

\* wk.nRPC--; go rpcs.ServeConn(conn)
ServeConn(w) ==
    /\ wk[w].pc = "accepted"
    /\ wk' = [wk EXCEPT ![w].pc = "served", ![w].nRPC = @ - 1]
    /\ conn' = IF conn[w].st = "accepted" THEN [conn EXCEPT ![w].st = "open"] ELSE conn
    /\ UNCHANGED <<master, exec, registerChannel, sending, workers, stats, mapOut, mergeOut>>

\* wk.nTasks++ races with the handler of the connection.
CountTask(w) ==
    /\ wk[w].pc = "served"
    /\ wk' = [wk EXCEPT ![w].pc = "check", ![w].nTasks = @ + 1]
    /\ UNCHANGED <<master, exec, registerChannel, sending, workers, stats, conn, mapOut, mergeOut>>

\* Worker.Shutdown.
Shutdown(w) ==
    /\ wk[w].pc # "dead" /\ conn[w].kind = "shutdown" /\ conn[w].st = "open"
    /\ conn' = [conn EXCEPT ![w].st = "ok", ![w].ntasks = wk[w].nTasks]
    /\ wk' = [wk EXCEPT ![w].nRPC = 1, ![w].nTasks = @ - 1]
    /\ UNCHANGED <<master, exec, registerChannel, sending, workers, stats, mapOut, mergeOut>>

\* Worker.DoTask of a map task.  An input that cannot be read ends the task at
\* once, with no error for the caller.
DoMap(w) ==
    LET t == conn[w].task
    IN /\ conn[w].kind = "map" /\ conn[w].st = "open"
       /\ conn' = [conn EXCEPT ![w].st = IF t \in Unreadable THEN "ok" ELSE "writing"]
       /\ mapOut' = IF t \in Unreadable THEN mapOut ELSE [mapOut EXCEPT ![t] = "partial"]
       /\ UNCHANGED <<master, exec, registerChannel, sending, workers, stats, wk, mergeOut>>

\* A process that ends: killed, by log.Fatal, or because RunWorker returned.
\* Its listener and its connections go with it.
Die(w) ==
    /\ wk' = [wk EXCEPT ![w].pc = "dead"]
    /\ conn' = IF conn[w].kind = "none" THEN conn ELSE [conn EXCEPT ![w].st = "failed"]

\* Worker.DoTask of a reduce task: reads what the map tasks wrote, fatal if it
\* does not exist, and creates the result file.
DoReduce(w) ==
    LET t == conn[w].task
    IN /\ conn[w].kind = "reduce" /\ conn[w].st = "open"
       /\ IF \E m \in MapTask : mapOut[m] = "none"
          THEN Die(w) /\ UNCHANGED mergeOut
          ELSE /\ conn' = [conn EXCEPT ![w].st = "writing",
                                       ![w].intact = \A m \in MapTask : mapOut[m] = "full"]
               /\ mergeOut' = [mergeOut EXCEPT ![t] = "partial"]
               /\ UNCHANGED wk
       /\ UNCHANGED <<master, exec, registerChannel, sending, workers, stats, mapOut>>

\* The files are written and closed, and DoTask returns.
TaskWritten(w) ==
    LET t == conn[w].task
    IN /\ conn[w].st = "writing"
       /\ conn' = [conn EXCEPT ![w].st = "ok"]
       /\ IF conn[w].kind = "map"
          THEN mapOut' = [mapOut EXCEPT ![t] = "full"] /\ UNCHANGED mergeOut
          ELSE /\ mergeOut' = [mergeOut EXCEPT ![t] = IF conn[w].intact THEN "full" ELSE "bad"]
               /\ UNCHANGED mapOut
       /\ UNCHANGED <<master, exec, registerChannel, sending, workers, stats, wk>>

Crash(w) ==
    /\ w \in Mortal /\ wk[w].pc \notin {"new", "dead"}
    /\ Die(w)
    /\ UNCHANGED <<master, exec, registerChannel, sending, workers, stats, mapOut, mergeOut>>

-----------------------------------------------------------------------------
Master == Assign \/ NextPhase \/ KillNext \/ KillReturns \/ KillDone \/ stopRPCServer \/ Merge

Task(t) == Execute(t) \/ CallReturns(t) \/ Retry(t)

AcceptLoop(w) == Register(w) \/ CheckLimit(w) \/ Accept(w) \/ ServeConn(w) \/ CountTask(w)

Handler(w) == Shutdown(w) \/ DoMap(w) \/ DoReduce(w) \/ TaskWritten(w)

Next ==
    \/ Master
    \/ \E t \in MapTask \cup ReduceTask : Task(t)
    \/ \E w \in Worker : Send(w) \/ AcceptLoop(w) \/ Handler(w) \/ Crash(w)

Spec == Init /\ [][Next]_vars

\* Goroutines and processes that can go on do; nothing makes a worker die.
FairSpec ==
    /\ Spec /\ WF_vars(Master)
    /\ \A t \in MapTask \cup ReduceTask : WF_vars(Task(t))
    /\ \A w \in Worker : WF_vars(Send(w)) /\ WF_vars(AcceptLoop(w)) /\ WF_vars(Handler(w))

-----------------------------------------------------------------------------
\* The tasks whose execute is going on.
Active == {t \in DOMAIN exec : exec[t].pc # "none"}

\* schedule.go: "only once all of them have been completed successfully should
\* the function return": all map output is there, complete and no longer being
\* written, when a reduce task can start, and all results when merge can.
ScheduleComplete ==
    /\ phase = "reduce" => \A m \in MapTask : mapOut[m] = "full"
    /\ pc \in {"kill", "killing", "stop", "merge", "done"} => \A r \in ReduceTask : mergeOut[r] = "full"

\* schedule: a worker is in one place, and at most one task is on it: what
\* execute takes from registerChannel it gives back once, failed or not.
OneTaskAtATime ==
    \A w \in Worker :
        Cardinality({k \in DOMAIN registerChannel : registerChannel[k] = w})
        + Cardinality(sending \cap {w})
        + Cardinality({t \in Active : exec[t].worker = w}) <= 1

\* schedule: every task not done is either still to be handed out or in the
\* hands of a goroutine, so wg.Wait cannot wait for a task nobody runs.
NoTaskLost ==
    pc = "assign" => wg = (Ntasks(phase) - next) + Cardinality(Active)

\* TestOneFailure: with one worker that stays, the job ends, whatever happens to
\* the others and whenever they register.
JobEnds == <>(pc = "done")
=============================================================================
