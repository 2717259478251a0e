-------------------------- MODULE MapReduceProofs ---------------------------
(***************************************************************************)
(* schedule, for any numbers of map and reduce tasks and any workers,      *)
(* whichever of them die.  It loses no task: wg counts exactly the tasks   *)
(* still to be handed out or that an execute goroutine has (SchedInv).  It *)
(* gives no worker two tasks: a worker is in registerChannel, about to be  *)
(* sent on it, or with one goroutine (PlaceInv).  And it returns only when *)
(* all outputs are there: a connection belongs to the goroutine that waits *)
(* for it (ConnInv), so only the last attempt of a task writes its files   *)
(* (OutputInv).                                                            *)
(***************************************************************************)
EXTENDS MapReduce, FiniteSetTheorems, TLAPS

AllTasks == MapTask \cup ReduceTask

\* The counting argument needs that what execute has was handed out before.
SchedInv ==
    /\ phase \in {"map", "reduce"} /\ next \in Nat /\ wg \in Int
    /\ exec = [t \in AllTasks |-> exec[t]] /\ \A t \in AllTasks : "pc" \in DOMAIN exec[t]
    /\ pc = "assign" => next <= Ntasks(phase) /\ \A t \in Active : t < next
    /\ NoTaskLost

-----------------------------------------------------------------------------
\* The provers of every leaf, after the one it names.
USE ZenonT(30), SMTT(45), SMTT(60)

\* There are finitely many tasks.
LEMMA ActiveFinite == SchedInv => IsFiniteSet(Active) /\ Cardinality(Active) \in Nat
<1> SUFFICES ASSUME SchedInv PROVE IsFiniteSet(Active)
    BY FS_CardinalityType
<1>1. IsFiniteSet(MapTask) /\ IsFiniteSet(ReduceTask)
    BY CountAssumption, FS_Interval, SMTT(30) DEF MapTask, ReduceTask
<1>2. IsFiniteSet(AllTasks)
    BY <1>1, FS_Union DEF AllTasks
<1>3. Active \subseteq AllTasks
    BY SMTT(30) DEF Active, SchedInv
<1> QED
    BY <1>2, <1>3, FS_Subset

\* Tasks are numbers.
LEMMA TasksAreNumbers == SchedInv => Active \subseteq AllTasks /\ AllTasks \subseteq Nat
<1>1. AllTasks \subseteq Nat
    BY CountAssumption, SMTT(30) DEF AllTasks, MapTask, ReduceTask
<1>2. SchedInv => Active \subseteq AllTasks
    BY SMTT(30) DEF SchedInv, Active
<1> QED
    BY <1>1, <1>2

\* A task is handed out: one fewer to come, one more in the hands of execute.
LEMMA AssignStep == SchedInv /\ Assign => SchedInv'
<1> SUFFICES ASSUME SchedInv, Assign PROVE SchedInv'
    OBVIOUS
<1>1. next \in AllTasks /\ next < Ntasks(phase) /\ Ntasks(phase) \in Nat
    BY CountAssumption, SMTT(30) DEF SchedInv, Assign, Ntasks, AllTasks, MapTask, ReduceTask
<1>2. next \notin Active
    BY SMTT(30) DEF SchedInv, Assign
<1>3. exec' = [exec EXCEPT ![next] = [pc |-> "call", worker |-> Head(registerChannel)]]
    BY DEF Assign
<1>4. Active' = Active \cup {next}
    BY <1>1, <1>3, SMTT(30) DEF SchedInv, Active
<1>5. Cardinality(Active') = Cardinality(Active) + 1
    BY <1>2, <1>4, ActiveFinite, FS_AddElement, SMTT(30)
<1>6. /\ pc' = pc /\ phase' = phase /\ wg' = wg /\ next' = next + 1
      /\ exec' = [t \in AllTasks |-> exec'[t]] /\ \A t \in AllTasks : "pc" \in DOMAIN exec'[t]
    BY <1>1, <1>3, SMTT(30) DEF SchedInv, Assign
<1>7. NoTaskLost'
    BY <1>1, <1>5, <1>6, ActiveFinite, SMTT(30) DEF SchedInv, NoTaskLost, Assign, Ntasks
<1>8. next' \in Nat /\ next' <= Ntasks(phase)
    BY <1>1, <1>6, SMTT(30) DEF SchedInv
<1>9. ASSUME NEW t \in Active' PROVE t < next'
    <2>1. t \in Nat /\ next \in Nat /\ (t = next \/ t < next)
        BY <1>4, <1>1, TasksAreNumbers, SMTT(30) DEF SchedInv, Assign
    <2> QED
        BY <1>6, <2>1, SMTT(30)
<1> QED
    BY <1>6, <1>7, <1>8, <1>9, SMTT(30) DEF SchedInv, Ntasks

\* schedule returns only when execute has nothing left.
LEMMA NextPhaseStep == SchedInv /\ NextPhase => SchedInv'
<1> SUFFICES ASSUME SchedInv, NextPhase PROVE SchedInv'
    OBVIOUS
<1>1. NReduce \in Nat /\ Ntasks(phase) \in Nat
    BY CountAssumption, SMTT(30) DEF Ntasks
<1>2. Cardinality(Active) = 0
    BY <1>1, ActiveFinite, SMTT(30) DEF SchedInv, NoTaskLost, NextPhase, ScheduleDone
<1>3. Active = {}
    BY <1>2, ActiveFinite, FS_EmptySet
<1>4. Active' = {} /\ exec' = exec
    BY <1>3, SMTT(30) DEF NextPhase, Active
<1>5. Cardinality(Active') = 0
    BY <1>4, FS_EmptySet
<1>6. CASE phase = "map"
    <2>1. pc' = "assign" /\ phase' = "reduce" /\ wg' = NReduce /\ next' = 0
        BY <1>6 DEF NextPhase
    <2> QED
        BY <1>1, <1>4, <1>5, <2>1, SMTT(30) DEF SchedInv, NoTaskLost, Ntasks
<1>7. CASE phase # "map"
    <2>1. pc' = "kill" /\ phase' = phase /\ wg' = wg /\ next' = 0
        BY <1>7 DEF NextPhase
    <2> QED
        BY <1>4, <2>1, SMTT(30) DEF SchedInv, NoTaskLost
<1> QED
    BY <1>6, <1>7

\* A step of execute keeps the task, or is done with it and says so to wg; or
\* the master dies.
LEMMA TaskStep == ASSUME SchedInv, NEW t \in AllTasks, Task(t) PROVE SchedInv'
<1>0. t \in Nat /\ phase' = phase /\ next' = next
    BY CountAssumption, SMTT(30) DEF AllTasks, MapTask, ReduceTask, Task, Execute, CallReturns, Retry, master
<1>1. CASE exec'[t].pc # "none" /\ wg' = wg /\ exec[t].pc # "none" /\ pc' = pc
           /\ (\A u \in AllTasks \ {t} : exec'[u] = exec[u]) /\ exec' = [u \in AllTasks |-> exec'[u]]
           /\ "pc" \in DOMAIN exec'[t]
    <2>1. Active' = Active
        BY <1>1, SMTT(30) DEF SchedInv, Active
    <2> QED
        BY <1>0, <1>1, <2>1, SMTT(30) DEF SchedInv, NoTaskLost, Ntasks
<1>2. CASE exec'[t].pc = "none" /\ wg' = wg - 1 /\ exec[t].pc # "none" /\ pc' = pc
           /\ (\A u \in AllTasks \ {t} : exec'[u] = exec[u]) /\ exec' = [u \in AllTasks |-> exec'[u]]
           /\ "pc" \in DOMAIN exec'[t]
    <2>1. Active' = Active \ {t} /\ t \in Active
        BY <1>2, SMTT(30) DEF SchedInv, Active
    <2>2. Cardinality(Active') = Cardinality(Active) - 1
        BY <2>1, ActiveFinite, FS_RemoveElement, ZenonT(30)
    <2>3. Cardinality(Active) \in Nat
        BY ActiveFinite
    <2>4. Ntasks(phase) \in Nat /\ Ntasks(phase)' = Ntasks(phase)
        BY <1>0, CountAssumption, SMTT(30) DEF Ntasks
    <2>5. NoTaskLost'
        BY <1>0, <1>2, <2>2, <2>3, <2>4, SMTT(30) DEF SchedInv, NoTaskLost
    <2> QED
        BY <1>0, <1>2, <2>1, <2>4, <2>5, SMTT(30) DEF SchedInv
<1>3. CASE pc' = "crashed" /\ exec' = exec /\ wg' = wg
    BY <1>0, <1>3, SMTT(30) DEF SchedInv, NoTaskLost
<1>4. CASE Execute(t)
    <2>0. exec[t].pc = "call" /\ wg' = wg
        BY <1>4 DEF Execute
    <2>1. CASE t >= NMap
        BY <1>3, <1>4, <2>1 DEF Execute
    <2>2. ASSUME NEW x \in {"wait", "failed"}, exec' = [exec EXCEPT ![t].pc = x], pc' = pc PROVE SchedInv'
        BY <1>1, <2>0, <2>2, SMTT(30) DEF SchedInv
    <2>3. CASE exec' = [exec EXCEPT ![t].pc = "wait"] /\ pc' = pc
        BY <2>2, <2>3, SMTT(30)
    <2>4. CASE exec' = [exec EXCEPT ![t].pc = "failed"] /\ pc' = pc
        BY <2>2, <2>4, SMTT(30)
    <2> QED
        BY <1>4, <2>1, <2>3, <2>4 DEF Execute
<1>5. CASE CallReturns(t)
    <2>1. CASE exec' = [exec EXCEPT ![t] = Idle] /\ wg' = wg - 1
        BY <1>2, <1>5, <2>1, SMTT(30) DEF SchedInv, CallReturns, Idle
    <2>2. CASE exec' = [exec EXCEPT ![t].pc = "failed"] /\ wg' = wg
        BY <1>1, <1>5, <2>2, SMTT(30) DEF SchedInv, CallReturns
    <2> QED
        BY <1>5, <2>1, <2>2 DEF CallReturns
<1>6. CASE Retry(t)
    BY <1>1, <1>6, SMTT(30) DEF SchedInv, Retry, master
<1> QED
    BY <1>4, <1>5, <1>6 DEF Task

\* Any other step leaves schedule alone, or comes after it.
LEMMA OtherStep ==
    ASSUME SchedInv, UNCHANGED <<phase, wg, exec>>, next' \in Nat,
           pc' = "assign" => pc = "assign" /\ next' = next
    PROVE  SchedInv'
<1>1. Active' = Active
    BY DEF Active
<1> QED
    BY <1>1, SMTT(30) DEF SchedInv, NoTaskLost, Ntasks

-----------------------------------------------------------------------------
\* The counting argument holds when schedule begins.
LEMMA SchedInit == Init => SchedInv
<1> SUFFICES ASSUME Init PROVE SchedInv
    OBVIOUS
<1>1. Active = {} /\ exec = [t \in AllTasks |-> exec[t]] /\ \A t \in AllTasks : "pc" \in DOMAIN exec[t]
    BY SMTT(30) DEF Init, Active, Idle, AllTasks
<1>2. Cardinality(Active) = 0
    BY <1>1, FS_EmptySet
<1> QED
    BY <1>1, <1>2, CountAssumption, SMTT(30) DEF Init, SchedInv, NoTaskLost, Ntasks

\* Every step keeps it.
LEMMA SchedStep == SchedInv /\ [Next]_vars => SchedInv'
<1> SUFFICES ASSUME SchedInv, [Next]_vars PROVE SchedInv'
    OBVIOUS
<1>1. CASE KillNext \/ KillReturns \/ KillDone \/ stopRPCServer \/ Merge
    BY <1>1, OtherStep, SMTT(30) DEF SchedInv, KillNext, KillReturns, KillDone, stopRPCServer, Merge
<1>2. ASSUME NEW w \in Worker, Send(w) \/ AcceptLoop(w) PROVE SchedInv'
    BY <1>2, OtherStep, ZenonT(30) DEF SchedInv, Send, AcceptLoop, Register, CheckLimit, Accept, ServeConn, CountTask, master
<1>3. ASSUME NEW w \in Worker, Handler(w) \/ Crash(w) PROVE SchedInv'
    BY <1>3, OtherStep, ZenonT(30) DEF SchedInv, Handler, Shutdown, DoMap, DoReduce, TaskWritten, Crash, master
<1>4. CASE UNCHANGED vars
    BY <1>4, OtherStep, SMTT(30) DEF SchedInv, vars, master
<1> QED
    BY <1>1, <1>2, <1>3, <1>4, AssignStep, NextPhaseStep, TaskStep DEF Next, Master, AllTasks

\* schedule: every task that is not done is still to be handed out or in the
\* hands of a goroutine.
THEOREM TasksKept == Spec => []NoTaskLost
<1>1. SchedInv => NoTaskLost
    BY DEF SchedInv
<1> QED
    BY <1>1, SchedInit, SchedStep, PTL DEF Spec

\* A set whose elements are all the same has one or none.
LEMMA AtMostOne ==
    ASSUME NEW S, \A x, y \in S : x = y
    PROVE  Cardinality(S) \in {0, 1}
<1>1. CASE S = {}
    BY <1>1, FS_EmptySet
<1>2. CASE S # {}
    <2>1. PICK x : x \in S
        BY <1>2
    <2>2. S = {x}
        BY <2>1
    <2> QED
        BY <2>2, FS_Singleton
<1> QED
    BY <1>1, <1>2

-----------------------------------------------------------------------------
ExecState == [pc : {"none", "call", "wait", "failed"}, worker : Worker \cup {"none"}]
WorkerState == [pc : {"new", "check", "accept", "accepted", "served", "closed", "dead"},
                nRPC : Int, nTasks : Int]
ConnState == [kind : {"none", "map", "reduce", "shutdown"}, task : AllTasks \cup {0},
              st : {"none", "dialed", "accepted", "open", "writing", "ok", "failed"},
              intact : BOOLEAN, ntasks : Int]

\* The state has its type.
TypeInv ==
    /\ pc \in {"assign", "kill", "killing", "stop", "merge", "done", "crashed"}
    /\ registerChannel \in Seq(Worker) /\ sending \subseteq Worker /\ workers \in Seq(Worker)
    /\ exec \in [AllTasks -> ExecState] /\ wk \in [Worker -> WorkerState]
    /\ conn \in [Worker -> ConnState]
    /\ mapOut \in [MapTask -> {"none", "partial", "full"}]
    /\ mergeOut \in [ReduceTask -> {"none", "partial", "full", "bad"}]

\* The workers queued in registerChannel.
Queue == {registerChannel[k] : k \in DOMAIN registerChannel}

\* A worker is in one place: it is queued once, or about to be sent, or on one
\* task, or has not registered and is nowhere.
PlaceInv ==
    /\ \A j, k \in DOMAIN registerChannel : registerChannel[j] = registerChannel[k] => j = k
    /\ \A w \in sending : w \notin Queue
    /\ \A t \in Active : exec[t].worker \in Worker \ sending /\ exec[t].worker \notin Queue
    /\ \A t, u \in Active : exec[t].worker = exec[u].worker => t = u
    /\ \A w \in Worker : wk[w].pc = "new" =>
        w \notin sending /\ w \notin Queue /\ \A t \in Active : exec[t].worker # w
    /\ \A t \in Active : t < Ntasks(phase)

\* After schedule.
Scheduled == pc \in {"kill", "killing", "stop", "merge", "done"}

\* The connection for a task is the one its execute waits for.
ConnInv ==
    /\ \A w \in Worker : conn[w].kind \in {"map", "reduce"} =>
        /\ conn[w].kind = phase
        /\ conn[w].task \in Active /\ exec[conn[w].task].pc = "wait" /\ exec[conn[w].task].worker = w
    /\ \A t \in Active : exec[t].pc = "wait" =>
        conn[exec[t].worker].kind = phase /\ conn[exec[t].worker].task = t
    /\ \A w \in Worker : conn[w].st = "writing" => conn[w].kind \in {"map", "reduce"}
    /\ Scheduled => Active = {}

\* A task that is done has its output, which nobody writes any more.
OutputInv ==
    /\ \A w \in Worker :
        /\ conn[w].kind = "map" /\ conn[w].st = "ok" => mapOut[conn[w].task] = "full"
        /\ conn[w].kind = "reduce" /\ conn[w].st = "writing" => conn[w].intact
        /\ conn[w].kind = "reduce" /\ conn[w].st = "ok" => mergeOut[conn[w].task] = "full"
    /\ phase = "map" => \A t \in MapTask : t < next /\ t \notin Active => mapOut[t] = "full"
    /\ phase = "reduce" => \A t \in MapTask : mapOut[t] = "full"
    /\ phase = "reduce" /\ pc = "assign" =>
        \A t \in ReduceTask : t < next /\ t \notin Active => mergeOut[t] = "full"
    /\ Scheduled => phase = "reduce" /\ \A t \in ReduceTask : mergeOut[t] = "full"

-----------------------------------------------------------------------------
\* What the operations make of a connection is one.
LEMMA ConnTypes ==
    ASSUME NEW c \in ConnState
    PROVE  /\ \A x \in {"accepted", "open", "writing", "ok", "failed"} : [c EXCEPT !.st = x] \in ConnState
           /\ \A b \in BOOLEAN : [c EXCEPT !.st = "writing", !.intact = b] \in ConnState
           /\ \A n \in Int : [c EXCEPT !.st = "ok", !.ntasks = n] \in ConnState
           /\ NoConn \in ConnState
           /\ \A k \in {"map", "reduce", "shutdown"}, t \in AllTasks \cup {0} :
                [NoConn EXCEPT !.kind = k, !.task = t, !.st = "dialed"] \in ConnState
           /\ c.ntasks \in Int /\ c.task \in AllTasks \cup {0}
<1>1. NoConn \in ConnState
    BY SMTT(30) DEF ConnState, NoConn
<1>2. \A k \in {"map", "reduce", "shutdown"}, t \in AllTasks \cup {0} :
                [NoConn EXCEPT !.kind = k, !.task = t, !.st = "dialed"] \in ConnState
    BY <1>1 DEF ConnState
<1>3. \A x \in {"accepted", "open", "writing", "ok", "failed"} : [c EXCEPT !.st = x] \in ConnState
    BY DEF ConnState
<1>4. \A b \in BOOLEAN : [c EXCEPT !.st = "writing", !.intact = b] \in ConnState
    BY DEF ConnState
<1>5. \A n \in Int : [c EXCEPT !.st = "ok", !.ntasks = n] \in ConnState
    BY DEF ConnState
<1> QED
    BY <1>1, <1>2, <1>3, <1>4, <1>5 DEF ConnState

\* What the accept loop and the handlers make of a worker is one.
LEMMA WorkerTypes ==
    ASSUME NEW r \in WorkerState
    PROVE  /\ \A x \in {"check", "accept", "accepted", "served", "closed", "dead"} :
                [r EXCEPT !.pc = x] \in WorkerState
           /\ [r EXCEPT !.pc = "served", !.nRPC = @ - 1] \in WorkerState
           /\ [r EXCEPT !.pc = "check", !.nTasks = @ + 1] \in WorkerState
           /\ [r EXCEPT !.nRPC = 1, !.nTasks = @ - 1] \in WorkerState
           /\ r.nTasks \in Int
<1>1. r.nRPC - 1 \in Int /\ r.nTasks + 1 \in Int /\ r.nTasks - 1 \in Int /\ r.nTasks \in Int
    BY SMTT(30) DEF WorkerState
<1>2. 1 \in Int
    BY SMTT(30)
<1> QED
    BY <1>1, <1>2 DEF WorkerState

\* What schedule and execute make of a goroutine is one.
LEMMA ExecTypes ==
    ASSUME NEW e \in ExecState
    PROVE  /\ \A x \in {"wait", "failed"} : [e EXCEPT !.pc = x] \in ExecState
           /\ Idle \in ExecState
           /\ \A w \in Worker : [pc |-> "call", worker |-> w] \in ExecState
    BY SMTT(30) DEF ExecState, Idle

\* One connection changes, to a connection; the same for workers and goroutines.
LEMMA OneConn ==
    ASSUME TypeInv, NEW w \in Worker, NEW c \in ConnState, conn' = [conn EXCEPT ![w] = c]
    PROVE  conn' \in [Worker -> ConnState]
    BY DEF TypeInv

LEMMA OneWorker ==
    ASSUME TypeInv, NEW w \in Worker, NEW r \in WorkerState, wk' = [wk EXCEPT ![w] = r]
    PROVE  wk' \in [Worker -> WorkerState]
    BY DEF TypeInv

LEMMA OneExec ==
    ASSUME TypeInv, NEW t \in AllTasks, NEW e \in ExecState, exec' = [exec EXCEPT ![t] = e]
    PROVE  exec' \in [AllTasks -> ExecState]
    BY DEF TypeInv

\* A goroutine that takes a worker from the channel.
LEMMA TakeWorker ==
    ASSUME TypeInv, registerChannel # <<>>
    PROVE  Head(registerChannel) \in Worker /\ Tail(registerChannel) \in Seq(Worker)
    BY SMTT(30) DEF TypeInv

\* Dial makes a connection.
LEMMA DialTypes ==
    ASSUME TypeInv, NEW w \in Worker, NEW k \in {"map", "reduce", "shutdown"}, NEW t \in AllTasks \cup {0},
           Dial(w, k, t)
    PROVE  conn' \in [Worker -> ConnState]
<1>1. conn[w] \in ConnState
    BY DEF TypeInv
<1> QED
    BY <1>1, ConnTypes, OneConn DEF Dial

\* A worker's end leaves the types as they are.
LEMMA DieTypes ==
    ASSUME TypeInv, NEW w \in Worker, Die(w)
    PROVE  wk' \in [Worker -> WorkerState] /\ conn' \in [Worker -> ConnState]
<1>1. conn[w] \in ConnState /\ wk[w] \in WorkerState
    BY DEF TypeInv
<1>2. [wk[w] EXCEPT !.pc = "dead"] \in WorkerState /\ [conn[w] EXCEPT !.st = "failed"] \in ConnState
    BY <1>1, WorkerTypes, ConnTypes
<1> QED
    BY <1>2, OneWorker, OneConn DEF Die, TypeInv

\* The tasks of a phase are tasks.
LEMMA TaskNumbers ==
    /\ AllTasks \subseteq Nat
    /\ \A p \in {"map", "reduce"} : Ntasks(p) \in Nat /\ \A t \in Nat : t < Ntasks(p) => t \in AllTasks
    /\ \A t : t \in MapTask <=> t \in Nat /\ t < Ntasks("map")
    /\ \A t : t \in ReduceTask <=> t \in Nat /\ t < Ntasks("reduce")
    BY CountAssumption, SMTT(30) DEF AllTasks, MapTask, ReduceTask, Ntasks

\* The master and the goroutines keep the types.
LEMMA MasterTypes == ASSUME TypeInv, SchedInv, Master PROVE TypeInv'
<1>1. CASE Assign
    <2>1. next \in AllTasks /\ Head(registerChannel) \in Worker /\ Tail(registerChannel) \in Seq(Worker)
        BY <1>1, TakeWorker, TaskNumbers, SMTT(30) DEF Assign, SchedInv
    <2>2. exec[next] \in ExecState
        BY <2>1 DEF TypeInv
    <2>3. [pc |-> "call", worker |-> Head(registerChannel)] \in ExecState
        BY <2>1, <2>2, ExecTypes
    <2>4. exec' \in [AllTasks -> ExecState]
        BY <1>1, <2>1, <2>3, OneExec DEF Assign
    <2> QED
        BY <1>1, <2>1, <2>4 DEF Assign, TypeInv
<1>2. CASE NextPhase
    BY <1>2 DEF NextPhase, TypeInv
<1>3. CASE KillNext
    <2>1. workers[next + 1] \in Worker
        BY <1>3, SMTT(30) DEF KillNext, TypeInv, SchedInv
    <2>2. conn' \in [Worker -> ConnState]
        BY <1>3, <2>1, DialTypes DEF KillNext, TypeInv
    <2>3. pc' \in {"kill", "killing"}
        BY <1>3 DEF KillNext
    <2> QED
        BY <1>3, <2>2, <2>3 DEF KillNext, TypeInv
<1>4. CASE KillReturns
    <2>1. CASE workers[next + 1] \in Worker
        <3>1. conn[workers[next + 1]] \in ConnState
            BY <2>1 DEF TypeInv
        <3> QED
            BY <1>4, <2>1, <3>1, ConnTypes, OneConn DEF KillReturns, TypeInv
    <2>2. CASE workers[next + 1] \notin Worker
        <3>1. conn' = conn
            BY <1>4, <2>2, SMTT(30) DEF KillReturns, TypeInv
        <3> QED
            BY <1>4, <3>1 DEF KillReturns, TypeInv
    <2> QED
        BY <2>1, <2>2
<1>5. CASE KillDone \/ stopRPCServer \/ Merge
    BY <1>5 DEF KillDone, stopRPCServer, Merge, TypeInv
<1> QED
    BY <1>1, <1>2, <1>3, <1>4, <1>5 DEF Master

\* The execute goroutines keep them too.
LEMMA TaskTypes == ASSUME TypeInv, SchedInv, PlaceInv, NEW t \in AllTasks, Task(t) PROVE TypeInv'
<1>0. exec[t] \in ExecState /\ (exec[t].pc # "none" => t \in Active /\ exec[t].worker \in Worker)
    BY DEF TypeInv, Active, PlaceInv
<1>1. CASE Execute(t)
    <2> DEFINE w == exec[t].worker
    <2>1. w \in Worker /\ phase \in {"map", "reduce"} /\ t \in AllTasks \cup {0}
        BY <1>0, <1>1, SMTT(30) DEF Execute, SchedInv
    <2>2. conn' \in [Worker -> ConnState]
        BY <1>1, <2>1, DialTypes DEF Execute, TypeInv
    <2>3. exec' \in [AllTasks -> ExecState]
        BY <1>0, <1>1, ExecTypes, OneExec DEF Execute, TypeInv
    <2>4. pc' \in {pc, "crashed"}
        BY <1>1 DEF Execute
    <2> QED
        BY <1>1, <2>2, <2>3, <2>4 DEF Execute, TypeInv
<1>2. CASE CallReturns(t)
    <2>1. exec[t].worker \in Worker
        BY <1>0, <1>2, ZenonT(30) DEF CallReturns
    <2>2. conn[exec[t].worker] \in ConnState
        BY <2>1 DEF TypeInv
    <2>3. conn' \in [Worker -> ConnState]
        BY <1>2, <2>1, <2>2, ConnTypes, OneConn DEF CallReturns
    <2>4. exec' \in [AllTasks -> ExecState]
        BY <1>0, <1>2, ExecTypes, OneExec DEF CallReturns
    <2>5. sending' \subseteq Worker
        BY <1>2, <2>1, SMTT(30) DEF CallReturns, TypeInv
    <2> QED
        BY <1>2, <2>3, <2>4, <2>5 DEF CallReturns, TypeInv
<1>3. CASE Retry(t)
    <2>1. exec[t].worker \in Worker /\ Head(registerChannel) \in Worker /\ Tail(registerChannel) \in Seq(Worker)
        BY <1>0, <1>3, TakeWorker, SMTT(30) DEF Retry
    <2>2. exec' \in [AllTasks -> ExecState]
        BY <1>0, <1>3, <2>1, ExecTypes, OneExec DEF Retry
    <2>3. sending' \subseteq Worker
        BY <1>3, <2>1, SMTT(30) DEF Retry, TypeInv
    <2> QED
        BY <1>3, <2>1, <2>2, <2>3 DEF Retry, TypeInv, master
<1> QED
    BY <1>1, <1>2, <1>3 DEF Task

\* The workers keep the types.
LEMMA LoopTypes == ASSUME TypeInv, NEW w \in Worker, Send(w) \/ AcceptLoop(w) PROVE TypeInv'
<1>0. wk[w] \in WorkerState /\ conn[w] \in ConnState
    BY DEF TypeInv
<1>1. CASE Send(w)
    <2>1. registerChannel' \in Seq(Worker) /\ sending' \subseteq Worker
        BY <1>1, SMTT(30) DEF Send, TypeInv
    <2> QED
        BY <1>1, <2>1 DEF Send, TypeInv, master
<1>2. CASE Register(w)
    <2>1. workers' \in Seq(Worker) /\ sending' \subseteq Worker
        <3>1. Append(workers, w) \in Seq(Worker) /\ sending \cup {w} \subseteq Worker
            BY SMTT(30) DEF TypeInv
        <3> QED
            BY <1>2, <3>1 DEF Register, TypeInv
    <2>2. wk' \in [Worker -> WorkerState]
        BY <1>0, <1>2, WorkerTypes, OneWorker DEF Register
    <2> QED
        BY <1>2, <2>1, <2>2 DEF Register, TypeInv, master
<1>3. CASE CheckLimit(w)
    <2>1. wk' \in [Worker -> WorkerState]
        BY <1>0, <1>3, WorkerTypes, OneWorker DEF CheckLimit
    <2>2. conn' \in [Worker -> ConnState]
        BY <1>0, <1>3, ConnTypes, OneConn DEF CheckLimit, TypeInv
    <2> QED
        BY <1>3, <2>1, <2>2 DEF CheckLimit, TypeInv, master
<1>4. CASE Accept(w)
    <2>1. wk' \in [Worker -> WorkerState] /\ conn' \in [Worker -> ConnState]
        BY <1>0, <1>4, WorkerTypes, OneWorker, ConnTypes, OneConn DEF Accept
    <2> QED
        BY <1>4, <2>1 DEF Accept, TypeInv, master
<1>5. CASE ServeConn(w)
    <2>1. wk' = [wk EXCEPT ![w] = [wk[w] EXCEPT !.pc = "served", !.nRPC = @ - 1]]
        BY <1>5 DEF ServeConn, TypeInv
    <2>2. conn' \in [Worker -> ConnState]
        BY <1>0, <1>5, ConnTypes, OneConn DEF ServeConn, TypeInv
    <2> QED
        BY <1>0, <1>5, <2>1, <2>2, WorkerTypes, OneWorker DEF ServeConn, TypeInv, master
<1>6. CASE CountTask(w)
    <2>1. wk' = [wk EXCEPT ![w] = [wk[w] EXCEPT !.pc = "check", !.nTasks = @ + 1]]
        BY <1>6 DEF CountTask, TypeInv
    <2> QED
        BY <1>0, <1>6, <2>1, WorkerTypes, OneWorker DEF CountTask, TypeInv, master
<1> QED
    BY <1>1, <1>2, <1>3, <1>4, <1>5, <1>6 DEF AcceptLoop

\* So do the handlers and a crash.
LEMMA HandlerTypes == ASSUME TypeInv, NEW w \in Worker, Handler(w) \/ Crash(w) PROVE TypeInv'
<1>0. wk[w] \in WorkerState /\ conn[w] \in ConnState
    BY DEF TypeInv
<1>1. CASE Shutdown(w)
    <2>1. wk' = [wk EXCEPT ![w] = [wk[w] EXCEPT !.nRPC = 1, !.nTasks = @ - 1]]
        BY <1>1, ZenonT(30) DEF Shutdown, TypeInv
    <2>2. conn' = [conn EXCEPT ![w] = [conn[w] EXCEPT !.st = "ok", !.ntasks = wk[w].nTasks]]
        BY <1>1 DEF Shutdown, TypeInv
    <2>3. wk' \in [Worker -> WorkerState]
        BY <1>0, <2>1, WorkerTypes, OneWorker
    <2>4. conn' \in [Worker -> ConnState]
        BY <1>0, <2>2, WorkerTypes, ConnTypes, OneConn
    <2> QED
        BY <1>1, <2>3, <2>4 DEF Shutdown, TypeInv, master
<1>2. CASE DoMap(w)
    <2>1. conn' \in [Worker -> ConnState]
        BY <1>0, <1>2, ConnTypes, OneConn DEF DoMap
    <2>2. mapOut' \in [MapTask -> {"none", "partial", "full"}]
        <3>1. [mapOut EXCEPT ![conn[w].task] = "partial"] \in [MapTask -> {"none", "partial", "full"}]
            BY DEF TypeInv
        <3> QED
            BY <1>2, <3>1 DEF DoMap, TypeInv
    <2> QED
        BY <1>2, <2>1, <2>2 DEF DoMap, TypeInv, master
<1>3. CASE DoReduce(w)
    <2>1. CASE Die(w) /\ UNCHANGED mergeOut
        BY <1>3, <2>1, DieTypes DEF DoReduce, TypeInv, master
    <2>2. CASE ~\E m \in MapTask : mapOut[m] = "none"
        <3>1. PICK b \in BOOLEAN : b = \A m \in MapTask : mapOut[m] = "full"
            OBVIOUS
        <3>2. conn' = [conn EXCEPT ![w] = [conn[w] EXCEPT !.st = "writing", !.intact = b]]
            BY <1>3, <2>2, <3>1 DEF DoReduce, TypeInv
        <3>3. mergeOut' \in [ReduceTask -> {"none", "partial", "full", "bad"}] /\ UNCHANGED wk
            BY <1>3, <2>2, ZenonT(30) DEF DoReduce, TypeInv
        <3>4. conn' \in [Worker -> ConnState]
            BY <1>0, <3>2, ConnTypes, OneConn
        <3> QED
            BY <1>3, <3>3, <3>4 DEF DoReduce, TypeInv, master
    <2> QED
        BY <1>3, <2>1, <2>2 DEF DoReduce
<1>4. CASE TaskWritten(w)
    <2>1. conn' \in [Worker -> ConnState]
        BY <1>0, <1>4, ConnTypes, OneConn DEF TaskWritten
    <2>2. mapOut' \in [MapTask -> {"none", "partial", "full"}]
        BY <1>4, ZenonT(30) DEF TaskWritten, TypeInv
    <2>3. mergeOut' \in [ReduceTask -> {"none", "partial", "full", "bad"}]
        BY <1>4, SMTT(30) DEF TaskWritten, TypeInv
    <2> QED
        BY <1>4, <2>1, <2>2, <2>3 DEF TaskWritten, TypeInv, master
<1>5. CASE Crash(w)
    BY <1>5, DieTypes DEF Crash, TypeInv, master
<1> QED
    BY <1>1, <1>2, <1>3, <1>4, <1>5 DEF Handler

-----------------------------------------------------------------------------
\* registerChannel holds no worker twice.
NoneTwice == \A j, k \in DOMAIN registerChannel : registerChannel[j] = registerChannel[k] => j = k

\* Receiving takes the first worker out of the channel.
LEMMA Received ==
    ASSUME TypeInv, NoneTwice, registerChannel # <<>>, registerChannel' = Tail(registerChannel)
    PROVE  /\ NoneTwice' /\ Head(registerChannel) \in Queue
           /\ \A w : w \in Queue' <=> w \in Queue /\ w # Head(registerChannel)
<1> DEFINE c == registerChannel
           n == Len(registerChannel)
<1>1. /\ c \in Seq(Worker) /\ n \in Nat \ {0} /\ DOMAIN c = 1..n /\ Head(c) = c[1]
      /\ DOMAIN c' = 1..(n - 1) /\ \A k \in 1..(n - 1) : c'[k] = c[k + 1]
    BY SMTT(30) DEF TypeInv
<1>2. NoneTwice'
    BY <1>1, SMTT(30) DEF NoneTwice
<1>3. Head(c) \in Queue
    BY <1>1, SMTT(30) DEF Queue
<1>4. ASSUME NEW w, w \in Queue' PROVE w \in Queue /\ w # Head(c)
    <2>1. PICK k \in 1..(n - 1) : c[k + 1] = w
        BY <1>1, <1>4, SMTT(30) DEF Queue
    <2>2. k + 1 \in DOMAIN c /\ 1 \in DOMAIN c /\ k + 1 # 1
        BY <1>1, SMTT(30)
    <2> QED
        BY <1>1, <2>1, <2>2, SMTT(30) DEF NoneTwice, Queue
<1>5. ASSUME NEW w, w \in Queue, w # Head(c) PROVE w \in Queue'
    <2>1. PICK k \in 1..n : c[k] = w
        BY <1>1, <1>5, SMTT(30) DEF Queue
    <2>2. k - 1 \in DOMAIN registerChannel' /\ registerChannel'[k - 1] = w
        BY <1>1, <1>5, <2>1, SMTT(30)
    <2> QED
        BY <2>2 DEF Queue
<1> QED
    BY <1>2, <1>3, <1>4, <1>5

\* Sending puts a worker at its end.
LEMMA Sent ==
    ASSUME TypeInv, NoneTwice, NEW x \in Worker, x \notin Queue,
           registerChannel' = Append(registerChannel, x)
    PROVE  NoneTwice' /\ \A w : w \in Queue' <=> w \in Queue \/ w = x
<1> DEFINE c == registerChannel
           n == Len(registerChannel)
<1>1. /\ c \in Seq(Worker) /\ n \in Nat /\ DOMAIN c = 1..n
      /\ DOMAIN c' = 1..(n + 1) /\ (\A k \in 1..n : c'[k] = c[k]) /\ c'[n + 1] = x
    BY SMTT(30) DEF TypeInv
<1>2. \A k \in 1..n : c[k] # x
    BY <1>1 DEF Queue
<1>3. NoneTwice'
    BY <1>1, <1>2, SMTT(30) DEF NoneTwice
<1>4. \A w : w \in Queue' <=> w \in Queue \/ w = x
    BY <1>1, SMTT(30) DEF Queue
<1> QED
    BY <1>3, <1>4

\* Nobody moves: a worker may register or die, and a goroutine may go on with
\* the task and the worker it has.
LEMMA NobodyMoves ==
    ASSUME PlaceInv, UNCHANGED <<registerChannel, sending>>,
           Active' \subseteq Active, \A t \in Active' : exec'[t].worker = exec[t].worker,
           \A w \in Worker : wk'[w].pc = "new" => wk[w].pc = "new",
           Active' = {} \/ phase' = phase
    PROVE  PlaceInv'
<1>1. \A w : w \in Queue' <=> w \in Queue
    BY DEF Queue
<1>2. \A t \in Active' : t < Ntasks(phase)'
    BY SMTT(30) DEF PlaceInv, Ntasks
<1> QED
    BY <1>1, <1>2 DEF PlaceInv

\* A worker leaves the channel for a task; the one the task had, if any, is to
\* be sent.
LEMMA WorkerTaken ==
    ASSUME TypeInv, PlaceInv, NEW t \in AllTasks, t < Ntasks(phase), registerChannel # <<>>,
           registerChannel' = Tail(registerChannel),
           exec' = [exec EXCEPT ![t] = [pc |-> "call", worker |-> Head(registerChannel)]],
           sending' = IF t \in Active THEN sending \cup {exec[t].worker} ELSE sending,
           UNCHANGED <<phase, wk>>
    PROVE  PlaceInv'
<1> DEFINE h == Head(registerChannel)
<1>0. NoneTwice /\ h \in Worker
    BY TakeWorker DEF PlaceInv, NoneTwice
<1>1. NoneTwice' /\ h \in Queue /\ \A w : w \in Queue' <=> w \in Queue /\ w # h
    BY <1>0, Received
<1>2. exec \in [AllTasks -> ExecState]
    BY DEF TypeInv
<1>3. /\ Active' = Active \cup {t} /\ exec'[t].worker = h
      /\ \A u \in Active \ {t} : exec'[u].worker = exec[u].worker
    BY <1>2, SMTT(30) DEF Active
<1> HIDE DEF h
<1>4. h \notin sending /\ \A u \in Active : exec[u].worker # h
    BY <1>1 DEF PlaceInv
<1>5. \A w : w \in sending' <=> w \in sending \/ (t \in Active /\ w = exec[t].worker)
    OBVIOUS
<1>6. h \notin sending'
    BY <1>4, <1>5
<1>7. \A w \in sending' : w \notin Queue'
    <2>1. \A w \in sending : w \notin Queue
        BY DEF PlaceInv
    <2>2. t \in Active => exec[t].worker \notin Queue
        BY DEF PlaceInv
    <2> QED
        BY <1>1, <1>5, <2>1, <2>2
<1>8. \A u \in Active' : exec'[u].worker \in Worker \ sending' /\ exec'[u].worker \notin Queue'
    <2> SUFFICES ASSUME NEW u \in Active'
                 PROVE  exec'[u].worker \in Worker \ sending' /\ exec'[u].worker \notin Queue'
        OBVIOUS
    <2>1. CASE u = t
        BY <1>0, <1>1, <1>3, <1>6, <2>1
    <2>2. CASE u # t
        <3>1. u \in Active /\ exec'[u].worker = exec[u].worker
            BY <1>3, <2>2
        <3>2. t \in Active => exec[u].worker # exec[t].worker
            BY <2>2, <3>1 DEF PlaceInv
        <3>3. exec[u].worker \in Worker \ sending /\ exec[u].worker \notin Queue
            BY <3>1 DEF PlaceInv
        <3> QED
            BY <1>1, <1>5, <3>1, <3>2, <3>3
    <2> QED
        BY <2>1, <2>2
<1>9. \A u, v \in Active' : exec'[u].worker = exec'[v].worker => u = v
    <2>1. \A u, v \in Active : exec[u].worker = exec[v].worker => u = v
        BY DEF PlaceInv
    <2>2. \A u \in Active' : u = t \/ (u \in Active /\ exec'[u].worker = exec[u].worker)
        BY <1>3
    <2> QED
        BY <1>3, <1>4, <2>1, <2>2, SMTT(30)
<1>10. \A w \in Worker : wk'[w].pc = "new" =>
        w \notin sending' /\ w \notin Queue' /\ \A u \in Active' : exec'[u].worker # w
    <2>1. \A w \in Worker : wk[w].pc = "new" => w \notin Queue /\ w # h
        BY <1>1 DEF PlaceInv
    <2> QED
        BY <1>1, <1>3, <1>5, <2>1, SMTT(30) DEF PlaceInv
<1>11. \A u \in Active' : u < Ntasks(phase)'
    BY <1>3 DEF PlaceInv, Ntasks
<1> QED
    BY <1>1, <1>7, <1>8, <1>9, <1>10, <1>11 DEF PlaceInv, NoneTwice

\* A goroutine is done with its task, and its worker is to be sent.
LEMMA WorkerDone ==
    ASSUME TypeInv, PlaceInv, NEW t \in Active, Active' = Active \ {t},
           \A u \in Active' : exec'[u].worker = exec[u].worker,
           sending' = sending \cup {exec[t].worker},
           UNCHANGED <<phase, registerChannel, wk>>
    PROVE  PlaceInv'
<1>1. Queue' = Queue
    BY DEF Queue
<1>2. \A w \in sending' : w \notin Queue'
    BY <1>1 DEF PlaceInv
<1>3. \A u \in Active' : exec'[u].worker \in Worker \ sending' /\ exec'[u].worker \notin Queue'
    <2>1. \A u \in Active' : exec[u].worker # exec[t].worker
        BY SMTT(30) DEF PlaceInv
    <2> QED
        BY <1>1, <2>1 DEF PlaceInv
<1>4. \A u, v \in Active' : exec'[u].worker = exec'[v].worker => u = v
    BY SMTT(30) DEF PlaceInv
<1>5. \A w \in Worker : wk'[w].pc = "new" =>
        w \notin sending' /\ w \notin Queue' /\ \A u \in Active' : exec'[u].worker # w
    BY <1>1 DEF PlaceInv
<1>6. \A u \in Active' : u < Ntasks(phase)'
    BY DEF PlaceInv, Ntasks
<1>7. \A j, k \in DOMAIN registerChannel' : registerChannel'[j] = registerChannel'[k] => j = k
    BY DEF PlaceInv
<1> QED
    BY <1>2, <1>3, <1>4, <1>5, <1>6, <1>7 DEF PlaceInv

\* A worker that registers, or is sent, moves to where it was not.
LEMMA SendStep == ASSUME TypeInv, PlaceInv, NEW x \in Worker, Send(x) PROVE PlaceInv'
<1>1. x \in sending /\ x \notin Queue /\ sending' = sending \ {x} /\ NoneTwice
    BY DEF Send, PlaceInv, NoneTwice
<1>2. NoneTwice' /\ \A w : w \in Queue' <=> w \in Queue \/ w = x
    BY <1>1, Sent DEF Send
<1>3. Active' = Active /\ UNCHANGED <<exec, phase, wk>>
    BY DEF Send, Active, master
<1>4. \A w \in sending' : w \notin Queue'
    BY <1>1, <1>2 DEF PlaceInv
<1>5. \A u \in Active' : exec'[u].worker \in Worker \ sending' /\ exec'[u].worker \notin Queue'
    BY <1>1, <1>2, <1>3, SMTT(30) DEF PlaceInv
<1>6. \A w \in Worker : wk'[w].pc = "new" =>
        w \notin sending' /\ w \notin Queue' /\ \A u \in Active' : exec'[u].worker # w
    BY <1>1, <1>2, <1>3 DEF PlaceInv
<1>7. \A u \in Active' : u < Ntasks(phase)'
    BY <1>3 DEF PlaceInv, Ntasks
<1>8. \A u, v \in Active' : exec'[u].worker = exec'[v].worker => u = v
    BY <1>3, SMTT(30) DEF PlaceInv
<1> QED
    BY <1>2, <1>4, <1>5, <1>6, <1>7, <1>8 DEF PlaceInv, NoneTwice

\* A worker that registers was nowhere, and is to be sent.
LEMMA RegisterStep == ASSUME TypeInv, PlaceInv, NEW x \in Worker, Register(x) PROVE PlaceInv'
<1>1. /\ wk[x].pc = "new" /\ wk'[x].pc = "check" /\ \A w \in Worker \ {x} : wk'[w] = wk[w]
      /\ UNCHANGED <<registerChannel, exec, phase>>
    BY SMTT(30) DEF Register, TypeInv, WorkerState, master
<1>2. sending' \in {sending, sending \cup {x}}
    BY DEF Register
<1>3. Queue' = Queue /\ Active' = Active
    BY <1>1 DEF Queue, Active
<1>4. x \notin sending /\ x \notin Queue /\ \A t \in Active : exec[t].worker # x
    BY <1>1 DEF PlaceInv
<1>5. \A w \in sending' : w \notin Queue'
    BY <1>2, <1>3, <1>4 DEF PlaceInv
<1>6. \A u \in Active' : exec'[u].worker \in Worker \ sending' /\ exec'[u].worker \notin Queue'
    BY <1>1, <1>2, <1>3, <1>4 DEF PlaceInv
<1>7. \A w \in Worker : wk'[w].pc = "new" =>
        w \notin sending' /\ w \notin Queue' /\ \A u \in Active' : exec'[u].worker # w
    <2>1. \A w \in Worker : wk'[w].pc = "new" => w # x /\ wk[w].pc = "new"
        BY <1>1, SMTT(30)
    <2> QED
        BY <1>1, <1>2, <1>3, <2>1 DEF PlaceInv
<1>8. \A u \in Active' : u < Ntasks(phase)'
    BY <1>1, <1>3 DEF PlaceInv, Ntasks
<1>9. /\ \A u, v \in Active' : exec'[u].worker = exec'[v].worker => u = v
      /\ \A j, k \in DOMAIN registerChannel' : registerChannel'[j] = registerChannel'[k] => j = k
    BY <1>1, <1>3, SMTT(30) DEF PlaceInv
<1> QED
    BY <1>5, <1>6, <1>7, <1>8, <1>9 DEF PlaceInv

\* A worker is in one place, whatever happens.
LEMMA PlaceStep == ASSUME TypeInv, SchedInv, SchedInv', PlaceInv, [Next]_vars PROVE PlaceInv'
<1>0. exec \in [AllTasks -> ExecState] /\ wk \in [Worker -> WorkerState]
    BY DEF TypeInv
<1>1. CASE Assign
    <2>1. next \in AllTasks /\ next < Ntasks(phase) /\ next \notin Active
        BY <1>1, TaskNumbers, SMTT(30) DEF Assign, SchedInv
    <2> QED
        BY <1>1, <2>1, WorkerTaken DEF Assign
<1>2. CASE NextPhase
    <2>1. Ntasks(phase) \in Nat /\ exec' = exec
        BY <1>2, TaskNumbers, ZenonT(30) DEF SchedInv, NextPhase
    <2>2. Cardinality(Active) = 0
        BY <1>2, <2>1, ActiveFinite, SMTT(30) DEF SchedInv, NoTaskLost, NextPhase, ScheduleDone
    <2>3. Active = {} /\ Active' = {}
        BY <2>1, <2>2, ActiveFinite, FS_EmptySet DEF Active
    <2> QED
        BY <1>2, <2>3, NobodyMoves DEF NextPhase
<1>3. CASE KillNext \/ KillReturns \/ KillDone \/ stopRPCServer \/ Merge
    <2>1. UNCHANGED <<registerChannel, sending, exec, wk, phase>>
        BY <1>3 DEF KillNext, KillReturns, KillDone, stopRPCServer, Merge
    <2>2. Active' = Active
        BY <2>1 DEF Active
    <2> QED
        BY <2>1, <2>2, NobodyMoves
<1>4. ASSUME NEW t \in AllTasks, Execute(t) PROVE PlaceInv'
    <2>1. UNCHANGED <<registerChannel, sending, wk, phase>> /\ exec[t].pc = "call"
        BY <1>4 DEF Execute
    <2>2. \/ exec' = exec
          \/ exec' = [exec EXCEPT ![t].pc = "wait"] \/ exec' = [exec EXCEPT ![t].pc = "failed"]
        BY <1>4 DEF Execute
    <2>3. Active' = Active /\ \A u \in Active : exec'[u].worker = exec[u].worker
        BY <1>0, <2>1, <2>2, SMTT(30) DEF Active, ExecState
    <2> QED
        BY <2>1, <2>3, NobodyMoves
<1>5. ASSUME NEW t \in AllTasks, CallReturns(t) PROVE PlaceInv'
    <2>1. CASE exec' = [exec EXCEPT ![t].pc = "failed"] /\ UNCHANGED sending
        <3>1. Active' = Active /\ \A u \in Active : exec'[u].worker = exec[u].worker
            BY <1>0, <1>5, <2>1, SMTT(30) DEF Active, ExecState, CallReturns
        <3> QED
            BY <1>5, <2>1, <3>1, NobodyMoves DEF CallReturns
    <2>2. CASE exec' = [exec EXCEPT ![t] = Idle] /\ sending' = sending \cup {exec[t].worker}
        <3>1. t \in Active /\ Active' = Active \ {t} /\ \A u \in Active' : exec'[u].worker = exec[u].worker
            BY <1>0, <1>5, <2>2, ZenonT(30) DEF Active, ExecState, Idle, CallReturns
        <3> QED
            BY <1>5, <2>2, <3>1, WorkerDone DEF CallReturns
    <2> QED
        BY <1>5, <2>1, <2>2 DEF CallReturns
<1>6. ASSUME NEW t \in AllTasks, Retry(t) PROVE PlaceInv'
    <2>1. t \in Active /\ t < Ntasks(phase)
        BY <1>0, <1>6, SMTT(30) DEF Active, ExecState, PlaceInv, Retry
    <2> QED
        BY <1>6, <2>1, WorkerTaken DEF Retry, master
<1>7. ASSUME NEW w \in Worker, CheckLimit(w) \/ Accept(w) \/ ServeConn(w) \/ CountTask(w) \/ Handler(w) \/ Crash(w)
      PROVE PlaceInv'
    <2>1. UNCHANGED <<registerChannel, sending, exec, phase>>
        BY <1>7 DEF CheckLimit, Accept, ServeConn, CountTask, Handler, Shutdown, DoMap, DoReduce,
                           TaskWritten, Crash, master
    <2>2. \A v \in Worker : wk'[v].pc = "new" => wk[v].pc = "new"
        <3>1. CASE CheckLimit(w)
            BY <1>0, <3>1, SMTT(30) DEF CheckLimit, WorkerState
        <3>2. CASE Accept(w) \/ ServeConn(w) \/ CountTask(w) \/ Shutdown(w)
            BY <1>0, <3>2, SMTT(30) DEF Accept, ServeConn, CountTask, Shutdown, WorkerState
        <3>3. CASE Die(w)
            BY <1>0, <3>3, SMTT(30) DEF Die, WorkerState
        <3>4. CASE UNCHANGED wk
            BY <3>4
        <3> QED
            BY <1>7, <3>1, <3>2, <3>3, <3>4 DEF Handler, DoMap, DoReduce, TaskWritten, Crash
    <2>3. Active' = Active
        BY <2>1 DEF Active
    <2> QED
        BY <2>1, <2>2, <2>3, NobodyMoves
<1>8. CASE UNCHANGED vars
    <2>1. UNCHANGED <<registerChannel, sending, exec, wk, phase>> /\ Active' = Active
        BY <1>8 DEF vars, master, Active
    <2> QED
        BY <2>1, NobodyMoves
<1> QED
    BY <1>1, <1>2, <1>3, <1>4, <1>5, <1>6, <1>7, <1>8, SendStep, RegisterStep
    DEF Next, Master, Task, AcceptLoop, AllTasks

-----------------------------------------------------------------------------
\* Every connection is for what it was for.
LEMMA SameConnections ==
    ASSUME ConnInv, UNCHANGED <<exec, phase>>, Scheduled' => Scheduled,
           \A w \in Worker : conn'[w].kind = conn[w].kind /\ conn'[w].task = conn[w].task,
           \A w \in Worker : conn'[w].st = "writing" => conn[w].kind \in {"map", "reduce"},
           \A t \in Active : exec[t].worker \in Worker
    PROVE  ConnInv'
<1>1. Active' = Active
    BY DEF Active
<1>2. \A t \in Active : exec[t].pc = "wait" =>
        conn'[exec[t].worker].kind = phase /\ conn'[exec[t].worker].task = t
    BY SMTT(30) DEF ConnInv
<1>3. \A w \in Worker : conn'[w].kind \in {"map", "reduce"} =>
        /\ conn'[w].kind = phase
        /\ conn'[w].task \in Active /\ exec[conn'[w].task].pc = "wait" /\ exec[conn'[w].task].worker = w
    BY SMTT(30) DEF ConnInv
<1>4. \A w \in Worker : conn'[w].st = "writing" => conn'[w].kind \in {"map", "reduce"}
    OBVIOUS
<1>5. Scheduled' => Active' = {}
    BY <1>1 DEF ConnInv
<1> QED
    BY <1>1, <1>2, <1>3, <1>4, <1>5 DEF ConnInv

\* A goroutine that waits for no call gets a worker, or finds that it is gone.
LEMMA SameCalls ==
    ASSUME ConnInv, NEW t \in AllTasks, exec[t].pc # "wait", exec'[t].pc # "wait",
           \A u \in AllTasks \ {t} : exec'[u] = exec[u],
           DOMAIN exec = AllTasks, DOMAIN exec' = AllTasks,
           UNCHANGED <<conn, phase>>, ~Scheduled'
    PROVE  ConnInv'
<1>1. \A u \in AllTasks \ {t} : u \in Active' <=> u \in Active
    BY DEF Active
<1>2. \A w \in Worker : conn[w].kind \in {"map", "reduce"} => conn[w].task \in AllTasks \ {t}
    <2>1. \A w \in Worker : conn[w].kind \in {"map", "reduce"} =>
            conn[w].task \in Active /\ exec[conn[w].task].pc = "wait"
        BY DEF ConnInv
    <2>2. \A u \in Active : u \in AllTasks
        BY DEF Active
    <2> QED
        BY <2>1, <2>2
<1>3. \A w \in Worker : conn'[w].kind \in {"map", "reduce"} =>
        /\ conn'[w].kind = phase'
        /\ conn'[w].task \in Active' /\ exec'[conn'[w].task].pc = "wait" /\ exec'[conn'[w].task].worker = w
    BY <1>1, <1>2, SMTT(30) DEF ConnInv
<1>4. \A u \in Active' : exec'[u].pc = "wait" => u \in AllTasks \ {t}
    BY DEF Active
<1>5. \A u \in Active' : exec'[u].pc = "wait" =>
        conn'[exec'[u].worker].kind = phase' /\ conn'[exec'[u].worker].task = u
    BY <1>1, <1>4, SMTT(30) DEF ConnInv
<1> QED
    BY <1>3, <1>5 DEF ConnInv

\* The call of task t begins or ends: its connection is for it or for nothing.
LEMMA OneCall ==
    ASSUME ConnInv, PlaceInv, NEW t \in Active, NEW c,
           exec \in [AllTasks -> ExecState], conn \in [Worker -> ConnState],
           conn' = [conn EXCEPT ![exec[t].worker] = c], c.st # "writing",
           \/ exec'[t].pc = "wait" /\ exec'[t].worker = exec[t].worker /\ c.kind = phase /\ c.task = t
           \/ exec'[t].pc # "wait" /\ c.kind = "none",
           \A u \in AllTasks \ {t} : exec'[u] = exec[u],
           DOMAIN exec' = AllTasks, UNCHANGED phase, ~Scheduled'
    PROVE  ConnInv'
<1> DEFINE w == exec[t].worker
<1>1. /\ w \in Worker /\ t \in AllTasks /\ conn'[w] = c
      /\ \A v \in Worker \ {w} : conn'[v] = conn[v]
    BY SMTT(30) DEF PlaceInv, Active
<1>2. \A u \in AllTasks \ {t} : u \in Active' <=> u \in Active
    BY <1>1 DEF Active
<1>3. \A u \in Active \ {t} : exec[u].worker \in Worker \ {w}
    BY DEF PlaceInv
<1> HIDE DEF w
<1>4. ASSUME NEW v \in Worker, conn'[v].kind \in {"map", "reduce"}
      PROVE  /\ conn'[v].kind = phase'
             /\ conn'[v].task \in Active' /\ exec'[conn'[v].task].pc = "wait" /\ exec'[conn'[v].task].worker = v
    <2>1. CASE v = w
        <3>1. c.kind # "none"
            BY <1>1, <1>4, <2>1, SMTT(30)
        <3>2. exec'[t].pc = "wait" /\ exec'[t].worker = w /\ c.kind = phase /\ c.task = t
            BY <3>1 DEF w
        <3>3. t \in Active'
            BY <1>1, <3>2, SMTT(30) DEF Active
        <3> QED
            BY <1>1, <2>1, <3>2, <3>3
    <2>2. CASE v # w
        <3>1. conn'[v] = conn[v]
            BY <1>1, <2>2
        <3>2. /\ conn[v].kind = phase /\ conn[v].task \in Active
              /\ exec[conn[v].task].pc = "wait" /\ exec[conn[v].task].worker = v
            BY <1>4, <3>1 DEF ConnInv
        <3>3. conn[v].task \in AllTasks \ {t}
            BY <2>2, <3>2 DEF w, Active
        <3> QED
            BY <1>2, <3>1, <3>2, <3>3
    <2> QED
        BY <2>1, <2>2
<1>5. ASSUME NEW u \in Active', exec'[u].pc = "wait"
      PROVE  conn'[exec'[u].worker].kind = phase' /\ conn'[exec'[u].worker].task = u
    <2>1. CASE u = t
        BY <1>1, <1>5, <2>1 DEF w
    <2>2. CASE u # t
        <3>1. u \in AllTasks \ {t}
            BY <2>2 DEF Active
        <3>2. u \in Active \ {t} /\ exec'[u] = exec[u]
            BY <1>2, <3>1
        <3>3. conn'[exec[u].worker] = conn[exec[u].worker]
            BY <1>1, <1>3, <3>2
        <3>4. conn[exec[u].worker].kind = phase /\ conn[exec[u].worker].task = u
            BY <1>5, <3>2, SMTT(30) DEF ConnInv
        <3> QED
            BY <3>2, <3>3, <3>4
    <2> QED
        BY <2>1, <2>2
<1>6. \A v \in Worker : conn'[v].st = "writing" => conn'[v].kind \in {"map", "reduce"}
    BY <1>1, SMTT(30) DEF ConnInv
<1> QED
    BY <1>4, <1>5, <1>6 DEF ConnInv

\* How far the call of one worker is changes, or nothing does.
LEMMA OneState ==
    ASSUME conn \in [Worker -> ConnState], NEW w \in Worker, NEW x,
           conn' \in {conn, [conn EXCEPT ![w].st = x]}
    PROVE  /\ \A v \in Worker : conn'[v].kind = conn[v].kind /\ conn'[v].task = conn[v].task
                                /\ conn'[v].intact = conn[v].intact
           /\ \A v \in Worker : conn'[v].st = conn[v].st \/ (v = w /\ conn'[v].st = x)
    BY SMTT(30) DEF ConnState

\* A worker's step leaves every connection for what it was for.
LEMMA WorkerConnections ==
    ASSUME TypeInv, NEW w \in Worker, Send(w) \/ AcceptLoop(w) \/ Handler(w) \/ Crash(w)
    PROVE  /\ UNCHANGED <<exec, phase, pc, next>>
           /\ \A v \in Worker : conn'[v].kind = conn[v].kind /\ conn'[v].task = conn[v].task
           /\ \A v \in Worker : conn'[v].st = "writing" =>
                conn[v].st = "writing" \/ (v = w /\ conn[v].kind \in {"map", "reduce"} /\ conn[v].st = "open"
                                           /\ (DoMap(w) \/ DoReduce(w)))
<1>0. conn \in [Worker -> ConnState]
    BY DEF TypeInv
<1>1. UNCHANGED <<exec, phase, pc, next>>
    BY DEF Send, AcceptLoop, Register, CheckLimit, Accept, ServeConn, CountTask, Handler, Shutdown,
                 DoMap, DoReduce, TaskWritten, Crash, master
<1>2. CASE Send(w) \/ Register(w) \/ CountTask(w)
    <2>1. conn' = conn
        BY <1>2 DEF Send, Register, CountTask
    <2> QED
        BY <1>1, <2>1
<1>3. ASSUME NEW x \in {"failed", "accepted", "open", "ok"}, conn' \in {conn, [conn EXCEPT ![w].st = x]}
      PROVE  /\ \A v \in Worker : conn'[v].kind = conn[v].kind /\ conn'[v].task = conn[v].task
             /\ \A v \in Worker : conn'[v].st = "writing" => conn[v].st = "writing"
    BY <1>0, <1>3, OneState, SMTT(30)
<1>4. CASE CheckLimit(w) \/ Crash(w)
    <2>1. conn' \in {conn, [conn EXCEPT ![w].st = "failed"]}
        BY <1>4 DEF CheckLimit, Crash, Die
    <2> QED
        BY <1>1, <1>3, <2>1
<1>5. CASE Accept(w)
    BY <1>1, <1>3, <1>5 DEF Accept
<1>6. CASE ServeConn(w)
    BY <1>1, <1>3, <1>6 DEF ServeConn
<1>7. CASE Shutdown(w)
    <2>1. conn' = [conn EXCEPT ![w].st = "ok", ![w].ntasks = wk[w].nTasks]
        BY <1>7 DEF Shutdown
    <2> QED
        BY <1>0, <1>1, <2>1, SMTT(30) DEF ConnState
<1>8. CASE DoMap(w)
    <2>1. conn' \in {conn, [conn EXCEPT ![w].st = "writing"]} \/ conn' \in {conn, [conn EXCEPT ![w].st = "ok"]}
        BY <1>8 DEF DoMap
    <2>2. conn[w].kind = "map" /\ conn[w].st = "open"
        BY <1>8 DEF DoMap
    <2> QED
        BY <1>0, <1>1, <1>8, <2>1, <2>2, OneState, SMTT(30)
<1>9. CASE DoReduce(w)
    <2>1. conn[w].kind = "reduce" /\ conn[w].st = "open"
        BY <1>9 DEF DoReduce
    <2>2. CASE Die(w)
        <3>1. conn' \in {conn, [conn EXCEPT ![w].st = "failed"]}
            BY <2>2 DEF Die
        <3> QED
            BY <1>1, <1>3, <3>1
    <2>3. CASE ~\E m \in MapTask : mapOut[m] = "none"
        <3>1. PICK b : conn' = [conn EXCEPT ![w].st = "writing", ![w].intact = b]
            BY <1>9, <2>3 DEF DoReduce
        <3> QED
            BY <1>0, <1>1, <1>9, <2>1, <3>1, SMTT(30) DEF ConnState
    <2> QED
        BY <1>9, <2>2, <2>3 DEF DoReduce
<1>10. CASE TaskWritten(w)
    BY <1>1, <1>3, <1>10 DEF TaskWritten
<1> QED
    BY <1>2, <1>4, <1>5, <1>6, <1>7, <1>8, <1>9, <1>10 DEF AcceptLoop, Handler

\* When schedule returns, no task is active.
LEMMA PhaseOver == ASSUME SchedInv, NextPhase PROVE Active = {} /\ Active' = {} /\ exec' = exec
<1>1. Ntasks(phase) \in Nat /\ exec' = exec
    BY TaskNumbers, SMTT(30) DEF SchedInv, NextPhase
<1>2. Cardinality(Active) = 0
    BY <1>1, ActiveFinite, SMTT(30) DEF SchedInv, NoTaskLost, NextPhase, ScheduleDone
<1> QED
    BY <1>1, <1>2, ActiveFinite, FS_EmptySet DEF Active

\* The connections are those that execute waits for.
LEMMA ConnStep == ASSUME TypeInv, SchedInv, PlaceInv, ConnInv, [Next]_vars PROVE ConnInv'
<1>0. /\ exec \in [AllTasks -> ExecState] /\ conn \in [Worker -> ConnState]
      /\ \A t \in Active : t \in AllTasks /\ exec[t].worker \in Worker
    BY DEF TypeInv, PlaceInv, Active
<1>1. CASE Assign
    <2>1. next \in AllTasks /\ exec[next].pc = "none" /\ ~Scheduled'
        BY <1>0, <1>1, TaskNumbers, SMTT(30) DEF Assign, SchedInv, Active, Scheduled
    <2>2. exec'[next].pc = "call" /\ (\A u \in AllTasks \ {next} : exec'[u] = exec[u]) /\ DOMAIN exec' = AllTasks
        BY <1>0, <1>1, <2>1, SMTT(30) DEF Assign
    <2> QED
        BY <1>0, <1>1, <2>1, <2>2, SameCalls, SMTT(30) DEF Assign
<1>2. CASE NextPhase
    <2>1. Active = {} /\ Active' = {} /\ conn' = conn
        BY <1>2, PhaseOver DEF NextPhase
    <2>2. \A w \in Worker : conn[w].kind \notin {"map", "reduce"} /\ conn[w].st # "writing"
        BY <2>1 DEF ConnInv
    <2> QED
        BY <2>1, <2>2 DEF ConnInv
<1>3. CASE KillNext \/ KillReturns
    <2>1. Scheduled /\ UNCHANGED <<exec, phase>>
        BY <1>3 DEF KillNext, KillReturns, Scheduled
    <2>2. Active = {} /\ Active' = {}
        BY <2>1 DEF ConnInv, Active
    <2>3. \A w \in Worker : conn[w].kind \notin {"map", "reduce"} /\ conn[w].st # "writing"
        BY <2>2 DEF ConnInv
    <2>4. \E v, c : conn' \in {conn, [conn EXCEPT ![v] = c]} /\ c.kind \notin {"map", "reduce"} /\ c.st # "writing"
        <3>1. CASE KillNext
            <4>1. conn' \in {conn, [conn EXCEPT ![workers[next + 1]] =
                                        [NoConn EXCEPT !.kind = "shutdown", !.task = 0, !.st = "dialed"]]}
                BY <3>1 DEF KillNext, Dial
            <4>2. PICK c : c = [NoConn EXCEPT !.kind = "shutdown", !.task = 0, !.st = "dialed"]
                OBVIOUS
            <4>3. c.kind \notin {"map", "reduce"} /\ c.st # "writing"
                BY <4>2, SMTT(30) DEF NoConn
            <4> QED
                BY <4>1, <4>2, <4>3
        <3>2. CASE KillReturns
            <4>1. conn' = [conn EXCEPT ![workers[next + 1]] = NoConn]
                BY <3>2 DEF KillReturns
            <4>2. NoConn.kind \notin {"map", "reduce"} /\ NoConn.st # "writing"
                BY SMTT(30) DEF NoConn
            <4> QED
                BY <4>1, <4>2
        <3> QED
            BY <1>3, <3>1, <3>2
    <2>5. \A w \in Worker : conn'[w].kind \notin {"map", "reduce"} /\ conn'[w].st # "writing"
        BY <1>0, <2>3, <2>4, SMTT(30)
    <2> QED
        BY <2>2, <2>5 DEF ConnInv
<1>4. CASE KillDone \/ stopRPCServer \/ Merge
    <2>1. UNCHANGED <<exec, phase, conn>> /\ Scheduled
        BY <1>4 DEF KillDone, stopRPCServer, Merge, Scheduled
    <2> QED
        BY <1>0, <2>1, SameConnections DEF ConnInv
<1>5. ASSUME NEW t \in AllTasks, Execute(t) PROVE ConnInv'
    <2>1. exec[t].pc = "call" /\ t \in Active /\ UNCHANGED phase
        BY <1>0, <1>5, ZenonT(30) DEF Execute, Active
    <2>2. ~Scheduled /\ ~Scheduled'
        <3>1. ~Scheduled
            BY <2>1 DEF ConnInv
        <3>2. pc' \in {pc, "crashed"}
            BY <1>5 DEF Execute
        <3> QED
            BY <3>1, <3>2, SMTT(30) DEF Scheduled
    <2>3. CASE exec' = exec /\ conn' = conn
        BY <1>0, <2>1, <2>2, <2>3, SameConnections DEF ConnInv
    <2>4. CASE exec' = [exec EXCEPT ![t].pc = "failed"] /\ conn' = conn
        <3>1. exec'[t].pc = "failed" /\ (\A u \in AllTasks \ {t} : exec'[u] = exec[u]) /\ DOMAIN exec' = AllTasks
            BY <1>0, <2>4, SMTT(30) DEF ExecState
        <3> QED
            BY <1>0, <2>1, <2>2, <2>4, <3>1, SameCalls, SMTT(30)
    <2>5. CASE exec' = [exec EXCEPT ![t].pc = "wait"] /\ Dial(exec[t].worker, phase, t)
        <3>1. /\ exec'[t].pc = "wait" /\ exec'[t].worker = exec[t].worker
              /\ (\A u \in AllTasks \ {t} : exec'[u] = exec[u]) /\ DOMAIN exec' = AllTasks
            BY <1>0, <2>5, SMTT(30) DEF ExecState
        <3>2. PICK c : c = [NoConn EXCEPT !.kind = phase, !.task = t, !.st = "dialed"]
            OBVIOUS
        <3>3. c.kind = phase /\ c.task = t /\ c.st # "writing"
            BY <3>2, SMTT(30) DEF NoConn
        <3>4. conn' = [conn EXCEPT ![exec[t].worker] = c]
            BY <2>5, <3>2 DEF Dial
        <3> QED
            BY <1>0, <2>1, <2>2, <3>1, <3>3, <3>4, OneCall
    <2> QED
        BY <1>5, <2>3, <2>4, <2>5 DEF Execute
<1>6. ASSUME NEW t \in AllTasks, CallReturns(t) PROVE ConnInv'
    <2>1. t \in Active /\ UNCHANGED <<phase, pc>> /\ conn' = [conn EXCEPT ![exec[t].worker] = NoConn]
        BY <1>0, <1>6, ZenonT(30) DEF CallReturns, Active
    <2>2. exec'[t].pc # "wait" /\ (\A u \in AllTasks \ {t} : exec'[u] = exec[u]) /\ DOMAIN exec' = AllTasks
        <3>1. CASE exec' = [exec EXCEPT ![t].pc = "failed"]
            BY <1>0, <3>1, SMTT(30) DEF ExecState
        <3>2. CASE exec' = [exec EXCEPT ![t] = Idle]
            BY <1>0, <3>2, ZenonT(30) DEF Idle
        <3> QED
            BY <1>6, <3>1, <3>2 DEF CallReturns
    <2>3. NoConn.kind = "none" /\ NoConn.st # "writing"
        BY SMTT(30) DEF NoConn
    <2>4. ~Scheduled'
        BY <2>1 DEF ConnInv, Scheduled
    <2> QED
        BY <1>0, <2>1, <2>2, <2>3, <2>4, OneCall
<1>7. ASSUME NEW t \in AllTasks, Retry(t) PROVE ConnInv'
    <2>1. t \in Active /\ exec[t].pc = "failed" /\ UNCHANGED <<phase, pc, conn>>
        BY <1>0, <1>7, ZenonT(30) DEF Retry, Active, master
    <2>2. exec'[t].pc = "call" /\ (\A u \in AllTasks \ {t} : exec'[u] = exec[u]) /\ DOMAIN exec' = AllTasks
        BY <1>0, <1>7, SMTT(30) DEF Retry
    <2>3. ~Scheduled'
        BY <2>1 DEF ConnInv, Scheduled
    <2> QED
        BY <1>0, <2>1, <2>2, <2>3, SameCalls, SMTT(30)
<1>8. ASSUME NEW w \in Worker, Send(w) \/ AcceptLoop(w) \/ Handler(w) \/ Crash(w) PROVE ConnInv'
    <2>1. /\ UNCHANGED <<exec, phase, pc>>
          /\ \A v \in Worker : conn'[v].kind = conn[v].kind /\ conn'[v].task = conn[v].task
          /\ \A v \in Worker : conn'[v].st = "writing" => conn[v].st = "writing" \/ conn[v].kind \in {"map", "reduce"}
        BY <1>8, WorkerConnections, ZenonT(30)
    <2>2. \A v \in Worker : conn'[v].st = "writing" => conn[v].kind \in {"map", "reduce"}
        BY <2>1 DEF ConnInv
    <2>3. Scheduled' => Scheduled
        BY <2>1 DEF Scheduled
    <2> QED
        BY <1>0, <2>1, <2>2, <2>3, SameConnections
<1>9. CASE UNCHANGED vars
    <2>1. UNCHANGED <<exec, phase, conn, pc>>
        BY <1>9 DEF vars, master
    <2> QED
        BY <1>0, <2>1, SameConnections DEF ConnInv, Scheduled
<1> QED
    BY <1>1, <1>2, <1>3, <1>4, <1>5, <1>6, <1>7, <1>8, <1>9 DEF Next, Master, Task, AllTasks

-----------------------------------------------------------------------------
\* No file is written, no call ends well, and no task is done.
LEMMA OutputsKept ==
    ASSUME OutputInv, UNCHANGED <<phase, mapOut, mergeOut>>,
           \A w \in Worker : conn'[w].kind \in {"map", "reduce"} /\ conn'[w].st \in {"writing", "ok"} =>
               /\ conn'[w].kind = conn[w].kind /\ conn'[w].task = conn[w].task
               /\ conn'[w].st = conn[w].st /\ conn'[w].intact = conn[w].intact,
           \A t \in AllTasks : t < next' /\ t \notin Active' => t < next /\ t \notin Active,
           pc' = "assign" => pc = "assign", Scheduled' => Scheduled
    PROVE  OutputInv'
<1>1. ASSUME NEW w \in Worker
      PROVE  /\ conn'[w].kind = "map" /\ conn'[w].st = "ok" => mapOut'[conn'[w].task] = "full"
             /\ conn'[w].kind = "reduce" /\ conn'[w].st = "writing" => conn'[w].intact
             /\ conn'[w].kind = "reduce" /\ conn'[w].st = "ok" => mergeOut'[conn'[w].task] = "full"
    <2>1. /\ conn[w].kind = "map" /\ conn[w].st = "ok" => mapOut[conn[w].task] = "full"
          /\ conn[w].kind = "reduce" /\ conn[w].st = "writing" => conn[w].intact
          /\ conn[w].kind = "reduce" /\ conn[w].st = "ok" => mergeOut[conn[w].task] = "full"
        BY DEF OutputInv
    <2> QED
        BY <2>1
<1>2. phase' = "map" => \A t \in MapTask : t < next' /\ t \notin Active' => mapOut'[t] = "full"
    BY DEF OutputInv, AllTasks
<1>3. phase' = "reduce" => \A t \in MapTask : mapOut'[t] = "full"
    BY DEF OutputInv
<1>4. phase' = "reduce" /\ pc' = "assign" =>
        \A t \in ReduceTask : t < next' /\ t \notin Active' => mergeOut'[t] = "full"
    BY DEF OutputInv, AllTasks
<1>5. Scheduled' => phase' = "reduce" /\ \A t \in ReduceTask : mergeOut'[t] = "full"
    BY DEF OutputInv
<1> QED
    BY <1>1, <1>2, <1>3, <1>4, <1>5 DEF OutputInv

\* A goroutine's step: the task of a call that ended well has its output.
LEMMA TaskOutput ==
    ASSUME TypeInv, PlaceInv, ConnInv, OutputInv, NEW t \in AllTasks, Task(t)
    PROVE  OutputInv'
<1>0. /\ exec \in [AllTasks -> ExecState] /\ conn \in [Worker -> ConnState]
      /\ \A u \in Active : u \in AllTasks /\ exec[u].worker \in Worker
    BY DEF TypeInv, PlaceInv, Active
<1>1. UNCHANGED <<phase, next, mapOut, mergeOut>>
    BY DEF Task, Execute, CallReturns, Retry, master
<1>2. pc' \in {pc, "crashed"}
    BY DEF Task, Execute, CallReturns, Retry, master
<1>3. (pc' = "assign" => pc = "assign") /\ (Scheduled' => Scheduled)
    BY <1>2, SMTT(30) DEF Scheduled
<1>4. t \in Active
    BY <1>0, SMTT(30) DEF Task, Execute, CallReturns, Retry, Active
<1>5. \A w \in Worker : conn'[w] # conn[w] => conn'[w].st \notin {"writing", "ok"}
    <2>1. CASE Execute(t)
        <3>1. PICK c : c = [NoConn EXCEPT !.kind = phase, !.task = t, !.st = "dialed"]
            OBVIOUS
        <3>2. c.st = "dialed"
            BY <3>1, SMTT(30) DEF NoConn
        <3>3. conn' \in {conn, [conn EXCEPT ![exec[t].worker] = c]}
            BY <2>1, <3>1 DEF Execute, Dial
        <3> QED
            BY <1>0, <3>2, <3>3, SMTT(30)
    <2>2. CASE CallReturns(t)
        <3>1. conn' = [conn EXCEPT ![exec[t].worker] = NoConn]
            BY <2>2 DEF CallReturns
        <3> QED
            BY <1>0, <3>1, SMTT(30) DEF NoConn
    <2>3. CASE Retry(t)
        BY <2>3 DEF Retry
    <2> QED
        BY <2>1, <2>2, <2>3 DEF Task
<1>6. \A w \in Worker : conn'[w].kind \in {"map", "reduce"} /\ conn'[w].st \in {"writing", "ok"} =>
               /\ conn'[w].kind = conn[w].kind /\ conn'[w].task = conn[w].task
               /\ conn'[w].st = conn[w].st /\ conn'[w].intact = conn[w].intact
    BY <1>5
<1>7. CASE Active' = Active
    BY <1>1, <1>3, <1>6, <1>7, OutputsKept, ZenonT(30)
<1>8. CASE conn[exec[t].worker].st = "ok" /\ Active' = Active \ {t} /\ exec[t].pc = "wait"
    <2> DEFINE w == exec[t].worker
    <2>1. w \in Worker /\ conn[w].kind = phase /\ conn[w].task = t
        BY <1>0, <1>4, <1>8 DEF ConnInv
    <2>2. (phase = "map" => mapOut[t] = "full") /\ (phase = "reduce" => mergeOut[t] = "full")
        BY <1>8, <2>1 DEF OutputInv
    <2>3. ASSUME NEW v \in Worker
          PROVE  /\ conn'[v].kind = "map" /\ conn'[v].st = "ok" => mapOut'[conn'[v].task] = "full"
                 /\ conn'[v].kind = "reduce" /\ conn'[v].st = "writing" => conn'[v].intact
                 /\ conn'[v].kind = "reduce" /\ conn'[v].st = "ok" => mergeOut'[conn'[v].task] = "full"
        <3>1. /\ conn[v].kind = "map" /\ conn[v].st = "ok" => mapOut[conn[v].task] = "full"
              /\ conn[v].kind = "reduce" /\ conn[v].st = "writing" => conn[v].intact
              /\ conn[v].kind = "reduce" /\ conn[v].st = "ok" => mergeOut[conn[v].task] = "full"
            BY DEF OutputInv
        <3> QED
            BY <1>1, <1>6, <3>1
    <2>4. phase' = "map" => \A u \in MapTask : u < next' /\ u \notin Active' => mapOut'[u] = "full"
        BY <1>1, <1>8, <2>2 DEF OutputInv
    <2>5. phase' = "reduce" => \A u \in MapTask : mapOut'[u] = "full"
        BY <1>1 DEF OutputInv
    <2>6. phase' = "reduce" /\ pc' = "assign" =>
            \A u \in ReduceTask : u < next' /\ u \notin Active' => mergeOut'[u] = "full"
        BY <1>1, <1>3, <1>8, <2>2 DEF OutputInv
    <2>7. Scheduled' => phase' = "reduce" /\ \A u \in ReduceTask : mergeOut'[u] = "full"
        BY <1>1, <1>3 DEF OutputInv
    <2> QED
        BY <2>3, <2>4, <2>5, <2>6, <2>7 DEF OutputInv
<1>9. CASE Execute(t) \/ Retry(t)
    <2>1. exec' = exec \/ exec' = [exec EXCEPT ![t].pc = "wait"] \/ exec' = [exec EXCEPT ![t].pc = "failed"]
          \/ exec' = [exec EXCEPT ![t] = [pc |-> "call", worker |-> Head(registerChannel)]]
        BY <1>9 DEF Execute, Retry
    <2>2. Active' = Active
        BY <1>0, <1>4, <2>1, SMTT(30) DEF Active, ExecState
    <2> QED
        BY <1>7, <2>2
<1>10. CASE CallReturns(t)
    <2>1. CASE exec' = [exec EXCEPT ![t].pc = "failed"]
        <3>1. Active' = Active
            BY <1>0, <1>4, <2>1, SMTT(30) DEF Active, ExecState
        <3> QED
            BY <1>7, <3>1
    <2>2. CASE exec' = [exec EXCEPT ![t] = Idle] /\ conn[exec[t].worker].st = "ok"
        <3>1. Active' = Active \ {t}
            BY <1>0, <1>4, <2>2, SMTT(30) DEF Active, ExecState, Idle
        <3> QED
            BY <1>8, <1>10, <2>2, <3>1 DEF CallReturns
    <2> QED
        BY <1>10, <2>1, <2>2 DEF CallReturns
<1> QED
    BY <1>9, <1>10 DEF Task

\* The master's step: schedule returns when the output of every task is there.
LEMMA MasterOutput ==
    ASSUME TypeInv, SchedInv, ConnInv, ConnInv', OutputInv, Master
    PROVE  OutputInv'
<1>1. CASE Assign
    <2>1. next \in AllTasks /\ next \in Nat /\ next' = next + 1
        BY <1>1, TaskNumbers, ZenonT(30) DEF Assign, SchedInv
    <2>2. Active' = Active \cup {next}
        BY <1>1, <2>1, SMTT(30) DEF Assign, Active, TypeInv
    <2>3. \A t \in AllTasks : t < next' /\ t \notin Active' => t < next /\ t \notin Active
        BY <2>1, <2>2, TaskNumbers, SMTT(30)
    <2>4. UNCHANGED <<phase, mapOut, mergeOut, conn, pc>>
        BY <1>1 DEF Assign
    <2> QED
        BY <2>3, <2>4, OutputsKept DEF Scheduled
<1>2. CASE NextPhase
    <2>1. Active = {} /\ Active' = {} /\ UNCHANGED <<conn, mapOut, mergeOut>>
        BY <1>2, PhaseOver DEF NextPhase
    <2>2. \A w \in Worker : conn'[w].kind \notin {"map", "reduce"}
        BY <2>1 DEF ConnInv
    <2>3. next = Ntasks(phase) /\ next' = 0 /\ pc = "assign" /\ phase \in {"map", "reduce"}
        BY <1>2 DEF NextPhase, ScheduleDone, SchedInv
    <2>4. \A t \in AllTasks : ~(t < next')
        BY <2>3, TaskNumbers, SMTT(30)
    <2>5. CASE phase = "map"
        <3>1. phase' = "reduce" /\ pc' = "assign"
            BY <1>2, <2>3, <2>5 DEF NextPhase
        <3>2. \A t \in MapTask : t < next
            BY <2>3, <2>5, TaskNumbers
        <3>3. \A t \in MapTask : mapOut'[t] = "full"
            BY <2>1, <2>5, <3>2 DEF OutputInv
        <3>4. ~Scheduled' /\ phase' # "map"
            BY <3>1, SMTT(30) DEF Scheduled
        <3> QED
            BY <2>2, <2>4, <3>1, <3>3, <3>4 DEF OutputInv, AllTasks
    <2>6. CASE phase = "reduce"
        <3>1. phase' = "reduce" /\ pc' = "kill"
            BY <1>2, <2>6 DEF NextPhase
        <3>2. \A t \in ReduceTask : t < next
            BY <2>3, <2>6, TaskNumbers
        <3>3. \A t \in ReduceTask : mergeOut'[t] = "full"
            BY <2>1, <2>3, <2>6, <3>2 DEF OutputInv
        <3>4. \A t \in MapTask : mapOut'[t] = "full"
            BY <2>1, <2>6 DEF OutputInv
        <3>5. pc' # "assign" /\ phase' # "map"
            BY <3>1
        <3> QED
            BY <2>2, <3>1, <3>3, <3>4, <3>5 DEF OutputInv
    <2> QED
        BY <2>3, <2>5, <2>6
<1>3. CASE KillNext \/ KillReturns \/ KillDone \/ stopRPCServer \/ Merge
    <2>1. Scheduled /\ UNCHANGED <<exec, phase, mapOut, mergeOut>> /\ pc' # "assign"
        BY <1>3, SMTT(30) DEF KillNext, KillReturns, KillDone, stopRPCServer, Merge, Scheduled
    <2>2. Active' = {} /\ phase = "reduce"
        BY <2>1, SMTT(30) DEF ConnInv, OutputInv, Active
    <2>3. \A w \in Worker : conn'[w].kind \notin {"map", "reduce"}
        BY <2>2 DEF ConnInv
    <2>4. phase' # "map"
        BY <2>1, <2>2
    <2> QED
        BY <2>1, <2>2, <2>3, <2>4 DEF OutputInv
<1> QED
    BY <1>1, <1>2, <1>3 DEF Master

\* A task's files are written only while its goroutine waits for the call.
LEMMA OneWriter ==
    ASSUME TypeInv, PlaceInv, ConnInv, NEW w \in Worker, conn[w].kind \in {"map", "reduce"}
    PROVE  /\ conn[w].task \in Active /\ conn[w].kind = phase
           /\ \A v \in Worker \ {w} : conn[v].kind \in {"map", "reduce"} => conn[v].task # conn[w].task
           /\ phase = "map" => conn[w].task \in MapTask
           /\ phase = "reduce" => conn[w].task \in ReduceTask
           /\ ~Scheduled
<1>1. conn[w].task \in Active /\ conn[w].kind = phase /\ exec[conn[w].task].worker = w
    BY DEF ConnInv
<1>2. \A v \in Worker \ {w} : conn[v].kind \in {"map", "reduce"} => exec[conn[v].task].worker = v
    BY DEF ConnInv
<1>3. conn[w].task \in AllTasks /\ conn[w].task < Ntasks(phase)
    BY <1>1 DEF TypeInv, PlaceInv, Active
<1>4. conn[w].task \in Nat
    BY <1>3, TaskNumbers
<1>5. (phase = "map" => conn[w].task \in MapTask) /\ (phase = "reduce" => conn[w].task \in ReduceTask)
    BY <1>3, <1>4, TaskNumbers
<1>6. ~Scheduled
    BY <1>1 DEF ConnInv
<1> QED
    BY <1>1, <1>2, <1>5, <1>6

\* The accept loop, Shutdown and a crash write no file and end no task well.
LEMMA QuietWorker ==
    ASSUME TypeInv, OutputInv, NEW w \in Worker, Send(w) \/ AcceptLoop(w) \/ Shutdown(w) \/ Crash(w)
    PROVE  OutputInv'
<1>0. conn \in [Worker -> ConnState]
    BY DEF TypeInv
<1>1. UNCHANGED <<exec, phase, pc, next, mapOut, mergeOut>>
    BY DEF Send, AcceptLoop, Register, CheckLimit, Accept, ServeConn, CountTask, Shutdown, Crash, master
<1>2. ASSUME NEW x \in {"failed", "accepted", "open"}, conn' \in {conn, [conn EXCEPT ![w].st = x]}
      PROVE  \A v \in Worker : conn'[v].kind \in {"map", "reduce"} /\ conn'[v].st \in {"writing", "ok"} =>
               /\ conn'[v].kind = conn[v].kind /\ conn'[v].task = conn[v].task
               /\ conn'[v].st = conn[v].st /\ conn'[v].intact = conn[v].intact
    BY <1>0, <1>2, OneState, SMTT(30)
<1>3. \A v \in Worker : conn'[v].kind \in {"map", "reduce"} /\ conn'[v].st \in {"writing", "ok"} =>
               /\ conn'[v].kind = conn[v].kind /\ conn'[v].task = conn[v].task
               /\ conn'[v].st = conn[v].st /\ conn'[v].intact = conn[v].intact
    <2>1. CASE Send(w) \/ Register(w) \/ CountTask(w)
        BY <2>1 DEF Send, Register, CountTask
    <2>2. CASE CheckLimit(w) \/ Crash(w)
        <3>1. conn' \in {conn, [conn EXCEPT ![w].st = "failed"]}
            BY <2>2 DEF CheckLimit, Crash, Die
        <3> QED
            BY <1>2, <3>1
    <2>3. CASE Accept(w)
        BY <1>2, <2>3 DEF Accept
    <2>4. CASE ServeConn(w)
        BY <1>2, <2>4 DEF ServeConn
    <2>5. CASE Shutdown(w)
        <3>1. conn' = [conn EXCEPT ![w].st = "ok", ![w].ntasks = wk[w].nTasks] /\ conn[w].kind = "shutdown"
            BY <2>5 DEF Shutdown
        <3> QED
            BY <1>0, <3>1, SMTT(30) DEF ConnState
    <2> QED
        BY <2>1, <2>2, <2>3, <2>4, <2>5 DEF AcceptLoop
<1>4. Active' = Active
    BY <1>1 DEF Active
<1> QED
    BY <1>1, <1>3, <1>4, OutputsKept DEF Scheduled

\* A reduce task that read complete files is marked so.
LEMMA MarkedIntact == \A c \in ConnState : [c EXCEPT !.st = "writing", !.intact = TRUE].intact
    BY SMTT(30) DEF ConnState

\* DoTask writes the files of its task only, and none that is done.
LEMMA DoTaskOutput ==
    ASSUME Unreadable = {}, TypeInv, PlaceInv, ConnInv, OutputInv,
           NEW w \in Worker, DoMap(w) \/ DoReduce(w) \/ TaskWritten(w)
    PROVE  OutputInv'
<1> DEFINE t == conn[w].task
<1>0. /\ conn \in [Worker -> ConnState] /\ mapOut \in [MapTask -> {"none", "partial", "full"}]
      /\ mergeOut \in [ReduceTask -> {"none", "partial", "full", "bad"}]
    BY DEF TypeInv
<1>1. UNCHANGED <<exec, phase, pc, next>> /\ Active' = Active /\ (Scheduled' <=> Scheduled)
    BY DEF DoMap, DoReduce, TaskWritten, master, Active, Scheduled
<1>2. conn[w].kind \in {"map", "reduce"}
    <2>1. CASE DoMap(w)
        BY <2>1, SMTT(30) DEF DoMap
    <2>2. CASE DoReduce(w)
        BY <2>2, SMTT(30) DEF DoReduce
    <2>3. CASE TaskWritten(w)
        BY <2>3 DEF TaskWritten, ConnInv
    <2> QED
        BY <2>1, <2>2, <2>3
<1>3. /\ t \in Active /\ conn[w].kind = phase /\ ~Scheduled
      /\ \A v \in Worker \ {w} : conn[v].kind \in {"map", "reduce"} => conn[v].task # t
      /\ phase = "map" => t \in MapTask
      /\ phase = "reduce" => t \in ReduceTask
    BY <1>2, OneWriter
<1> HIDE DEF t
<1>4. SUFFICES ASSUME /\ \A v \in Worker \ {w} : conn'[v] = conn[v]
                      /\ \A m \in MapTask : m # t \/ phase = "reduce" => mapOut'[m] = mapOut[m]
                      /\ \A r \in ReduceTask \ {t} : mergeOut'[r] = mergeOut[r]
                      /\ conn'[w].kind = phase /\ conn'[w].task = t
                      /\ phase = "map" /\ conn'[w].st = "ok" => mapOut'[t] = "full"
                      /\ phase = "reduce" /\ conn'[w].st = "writing" => conn'[w].intact
                      /\ phase = "reduce" /\ conn'[w].st = "ok" => mergeOut'[t] = "full"
               PROVE  OutputInv'
    <2>1. CASE DoMap(w)
        <3>1. conn[w].kind = "map" /\ conn' = [conn EXCEPT ![w].st = "writing"]
              /\ mapOut' = [mapOut EXCEPT ![t] = "partial"] /\ mergeOut' = mergeOut
            BY <2>1, SMTT(30) DEF DoMap, t
        <3>2. /\ \A v \in Worker \ {w} : conn'[v] = conn[v]
              /\ conn'[w].kind = conn[w].kind /\ conn'[w].task = t /\ conn'[w].st = "writing"
            BY <1>0, <3>1, SMTT(30) DEF ConnState, t
        <3>3. \A m \in MapTask \ {t} : mapOut'[m] = mapOut[m]
            BY <1>0, <3>1, SMTT(30)
        <3> QED
            BY <1>3, <1>4, <3>1, <3>2, <3>3, SMTT(30)
    <2>2. CASE DoReduce(w)
        <3>1. conn[w].kind = "reduce" /\ phase = "reduce"
            BY <1>3, <2>2, ZenonT(30) DEF DoReduce
        <3>2. \A m \in MapTask : mapOut[m] = "full"
            BY <3>1 DEF OutputInv
        <3>3. ~\E m \in MapTask : mapOut[m] = "none"
            BY <3>2, SMTT(30)
        <3>4. PICK b \in BOOLEAN : b = \A m \in MapTask : mapOut[m] = "full"
            OBVIOUS
        <3>5. conn' = [conn EXCEPT ![w] = [conn[w] EXCEPT !.st = "writing", !.intact = b]]
              /\ mergeOut' = [mergeOut EXCEPT ![t] = "partial"] /\ mapOut' = mapOut
            BY <1>0, <2>2, <3>3, <3>4 DEF DoReduce, t
        <3>6. b = TRUE
            BY <3>2, <3>4
        <3>7. /\ \A v \in Worker \ {w} : conn'[v] = conn[v]
              /\ conn'[w].kind = conn[w].kind /\ conn'[w].task = t /\ conn'[w].st = "writing"
              /\ \A r \in ReduceTask \ {t} : mergeOut'[r] = mergeOut[r]
            BY <1>0, <3>5, SMTT(30) DEF ConnState, t
        <3>8. conn'[w].intact
            <4>1. conn'[w] = [conn[w] EXCEPT !.st = "writing", !.intact = TRUE]
                BY <1>0, <3>5, <3>6
            <4>2. conn[w] \in ConnState
                BY <1>0
            <4> QED
                BY <4>1, <4>2, MarkedIntact
        <3> QED
            BY <1>3, <1>4, <3>1, <3>5, <3>7, <3>8, SMTT(30)
    <2>3. CASE TaskWritten(w)
        <3>1. conn' = [conn EXCEPT ![w].st = "ok"] /\ conn[w].st = "writing"
            BY <2>3 DEF TaskWritten
        <3>2. /\ \A v \in Worker \ {w} : conn'[v] = conn[v]
              /\ conn'[w].kind = conn[w].kind /\ conn'[w].task = t /\ conn'[w].st = "ok"
            BY <1>0, <3>1, SMTT(30) DEF ConnState, t
        <3>3. CASE conn[w].kind = "map"
            <4>1. mapOut' = [mapOut EXCEPT ![t] = "full"] /\ mergeOut' = mergeOut /\ phase = "map"
                BY <1>3, <2>3, <3>3 DEF TaskWritten, t
            <4>2. mapOut'[t] = "full" /\ \A m \in MapTask \ {t} : mapOut'[m] = mapOut[m]
                BY <1>0, <1>3, <4>1, SMTT(30)
            <4> QED
                BY <1>3, <1>4, <3>2, <4>1, <4>2, SMTT(30)
        <3>4. CASE conn[w].kind = "reduce"
            <4>1. conn[w].intact /\ phase = "reduce"
                BY <1>3, <3>1, <3>4 DEF OutputInv
            <4>2. mergeOut' = [mergeOut EXCEPT ![t] = "full"] /\ mapOut' = mapOut
                BY <2>3, <3>4, <4>1 DEF TaskWritten, t
            <4>3. mergeOut'[t] = "full" /\ \A r \in ReduceTask \ {t} : mergeOut'[r] = mergeOut[r]
                BY <1>0, <1>3, <4>1, <4>2, SMTT(30)
            <4> QED
                BY <1>3, <1>4, <3>2, <4>1, <4>2, <4>3, SMTT(30)
        <3> QED
            BY <1>2, <3>3, <3>4, SMTT(30)
    <2> QED
        BY <2>1, <2>2, <2>3
<1>5. ASSUME NEW v \in Worker
      PROVE  /\ conn'[v].kind = "map" /\ conn'[v].st = "ok" => mapOut'[conn'[v].task] = "full"
             /\ conn'[v].kind = "reduce" /\ conn'[v].st = "writing" => conn'[v].intact
             /\ conn'[v].kind = "reduce" /\ conn'[v].st = "ok" => mergeOut'[conn'[v].task] = "full"
    <2>1. CASE v = w
        BY <1>3, <1>4, <2>1
    <2>2. CASE v # w /\ conn[v].kind \in {"map", "reduce"}
        <3>1. /\ conn[v].kind = "map" /\ conn[v].st = "ok" => mapOut[conn[v].task] = "full"
              /\ conn[v].kind = "reduce" /\ conn[v].st = "writing" => conn[v].intact
              /\ conn[v].kind = "reduce" /\ conn[v].st = "ok" => mergeOut[conn[v].task] = "full"
            BY DEF OutputInv
        <3>2. conn'[v] = conn[v] /\ conn[v].task # t /\ conn[v].kind = phase
            BY <1>3, <1>4, <2>2 DEF ConnInv
        <3>3. (phase = "map" => conn[v].task \in MapTask) /\ (phase = "reduce" => conn[v].task \in ReduceTask)
            BY <2>2, OneWriter
        <3> QED
            BY <1>4, <3>1, <3>2, <3>3, SMTT(30)
    <2>3. CASE v # w /\ conn[v].kind \notin {"map", "reduce"}
        BY <1>4, <2>3, SMTT(30)
    <2> QED
        BY <2>1, <2>2, <2>3
<1>6. phase' = "map" => \A m \in MapTask : m < next' /\ m \notin Active' => mapOut'[m] = "full"
    BY <1>1, <1>3, <1>4, SMTT(30) DEF OutputInv
<1>7. phase' = "reduce" => \A m \in MapTask : mapOut'[m] = "full"
    <2>1. phase = "reduce" => \A m \in MapTask : mapOut[m] = "full"
        BY SMTT(30) DEF OutputInv
    <2> QED
        BY <1>1, <1>4, <2>1
<1>8. phase' = "reduce" /\ pc' = "assign" =>
        \A r \in ReduceTask : r < next' /\ r \notin Active' => mergeOut'[r] = "full"
    <2>1. phase = "reduce" /\ pc = "assign" =>
            \A r \in ReduceTask : r < next /\ r \notin Active => mergeOut[r] = "full"
        BY DEF OutputInv
    <2> QED
        BY <1>1, <1>3, <1>4, <2>1, SMTT(30)
<1> QED
    BY <1>1, <1>3, <1>5, <1>6, <1>7, <1>8 DEF OutputInv

-----------------------------------------------------------------------------
\* The invariants hold at the start.
LEMMA JobInit == Init => TypeInv /\ PlaceInv /\ ConnInv /\ OutputInv
<1> SUFFICES ASSUME Init PROVE TypeInv /\ PlaceInv /\ ConnInv /\ OutputInv
    OBVIOUS
<1>1. Idle \in ExecState /\ NoConn \in ConnState
    BY SMTT(30) DEF Idle, ExecState, NoConn, ConnState
<1>2. ASSUME NEW w \in Worker
      PROVE  [pc |-> "new", nRPC |-> IF w \in Limited THEN Limit ELSE -1, nTasks |-> 0] \in WorkerState
    BY CountAssumption, SMTT(30) DEF WorkerState
<1>3. exec \in [AllTasks -> ExecState] /\ conn \in [Worker -> ConnState] /\ wk \in [Worker -> WorkerState]
    BY <1>1, <1>2 DEF Init, AllTasks
<1>4. TypeInv
    BY <1>3, SMTT(30) DEF Init, TypeInv
<1>5. Active = {} /\ Queue = {} /\ sending = {} /\ registerChannel = <<>>
    BY SMTT(30) DEF Init, Active, Queue, Idle
<1>6. PlaceInv
    BY <1>5, SMTT(30) DEF PlaceInv
<1>7. /\ \A w \in Worker : conn[w].kind = "none" /\ conn[w].st = "none"
      /\ ~Scheduled /\ phase = "map" /\ next = 0
    BY SMTT(30) DEF Init, NoConn, Scheduled
<1>8. ConnInv
    BY <1>5, <1>7, ZenonT(30) DEF ConnInv
<1>9. OutputInv
    BY <1>7, TaskNumbers, SMTT(30) DEF OutputInv
<1> QED
    BY <1>4, <1>6, <1>8, <1>9

\* The tasks are all there, the workers in one place and the connections known.
JobInv == SchedInv /\ TypeInv /\ PlaceInv /\ ConnInv

\* Every step keeps the four together.
LEMMA JobStep == JobInv /\ [Next]_vars => JobInv'
<1> SUFFICES ASSUME JobInv, [Next]_vars PROVE JobInv'
    OBVIOUS
<1>0. SchedInv /\ TypeInv /\ PlaceInv /\ ConnInv
    BY DEF JobInv
<1>1. SchedInv'
    BY <1>0, SchedStep
<1>2. TypeInv'
    <2>1. CASE UNCHANGED vars
        BY <1>0, <2>1 DEF vars, master, TypeInv
    <2> QED
        BY <1>0, <2>1, MasterTypes, TaskTypes, LoopTypes, HandlerTypes DEF Next, AllTasks
<1>3. PlaceInv' /\ ConnInv'
    BY <1>0, <1>1, PlaceStep, ConnStep
<1> QED
    BY <1>1, <1>2, <1>3 DEF JobInv

\* schedule.go and worker.go: wg counts the tasks still to come, each worker is in
\* the channel, about to be sent or with one goroutine, and each connection
\* belongs to the goroutine that waits for its answer, whichever workers die.
THEOREM JobInvariant == Spec => []JobInv
<1>1. Init => JobInv
    BY JobInit, SchedInit DEF JobInv
<1> QED
    BY <1>1, JobStep, PTL DEF Spec

\* schedule: a worker is in one place and has at most one task, whichever
\* workers die or stop, and however often a task is retried.
THEOREM WorkersNeverShared == Spec => []OneTaskAtATime
<1>1. JobInv => OneTaskAtATime
    <2> SUFFICES ASSUME JobInv, NEW w \in Worker
                 PROVE  Cardinality({k \in DOMAIN registerChannel : registerChannel[k] = w})
                        + Cardinality(sending \cap {w})
                        + Cardinality({t \in Active : exec[t].worker = w}) <= 1
        BY DEF OneTaskAtATime
    <2> DEFINE Q == {k \in DOMAIN registerChannel : registerChannel[k] = w}
               S == sending \cap {w}
               T == {t \in Active : exec[t].worker = w}
    <2>0. PlaceInv
        BY DEF JobInv
    <2>1. \A j, k \in Q : j = k
        BY <2>0 DEF PlaceInv
    <2>2. \A t, u \in T : t = u
        BY <2>0 DEF PlaceInv
    <2>3. (Q = {} /\ S = {}) \/ (Q = {} /\ T = {}) \/ (S = {} /\ T = {})
        <3>1. Q # {} => w \in Queue
            BY DEF Queue
        <3>2. S # {} => w \in sending
            OBVIOUS
        <3>3. T # {} => w \notin Queue /\ w \notin sending
            BY <2>0, SMTT(30) DEF PlaceInv
        <3>4. w \in sending => w \notin Queue
            BY <2>0 DEF PlaceInv
        <3> QED
            BY <3>1, <3>2, <3>3, <3>4
    <2>4. \A s, t \in S : s = t
        OBVIOUS
    <2> HIDE DEF Q, S, T
    <2>5. Cardinality({}) = 0
        BY FS_EmptySet
    <2>6. Cardinality(Q) \in {0, 1} /\ Cardinality(S) \in {0, 1} /\ Cardinality(T) \in {0, 1}
        BY <2>1, <2>2, <2>4, AtMostOne
    <2>7. Cardinality(Q) + Cardinality(S) + Cardinality(T) <= 1
        BY <2>3, <2>5, <2>6, SMTT(30)
    <2> QED
        BY <2>7 DEF Q, S, T
<1> QED
    BY <1>1, JobInvariant, PTL

\* schedule: "only once all of them have been completed successfully should the
\* function return".  When the reduce phase begins all intermediate files are
\* complete, and stay so, and when killWorkers begins all results are, provided
\* that every input can be read.
THEOREM ScheduleReturnsLate == ASSUME Unreadable = {} PROVE Spec => []ScheduleComplete
<1>1. Init => OutputInv
    BY JobInit
<1>2. JobInv /\ JobInv' /\ OutputInv /\ [Next]_vars => OutputInv'
    <2> SUFFICES ASSUME JobInv, JobInv', OutputInv, [Next]_vars PROVE OutputInv'
        OBVIOUS
    <2>0. SchedInv /\ TypeInv /\ PlaceInv /\ ConnInv /\ ConnInv'
        BY DEF JobInv
    <2>1. CASE UNCHANGED vars
        <3>1. UNCHANGED <<exec, phase, pc, next, conn, mapOut, mergeOut>> /\ Active' = Active
            BY <2>1 DEF vars, master, Active
        <3> QED
            BY <3>1, OutputsKept DEF Scheduled
    <2> QED
        BY <2>0, <2>1, MasterOutput, TaskOutput, QuietWorker, DoTaskOutput DEF Next, Handler, AllTasks
<1>3. OutputInv => ScheduleComplete
    BY DEF OutputInv, ScheduleComplete, Scheduled
<1> QED
    BY <1>1, <1>2, <1>3, JobInvariant, PTL DEF Spec
=============================================================================
