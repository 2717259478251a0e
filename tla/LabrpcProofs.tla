---------------------------- MODULE LabrpcProofs ----------------------------
(***************************************************************************)
(* Proofs about Labrpc, for any servers, calls and incarnations: the type  *)
(* invariant, the inductive invariant NetworkInv, that an acknowledged     *)
(* update is in the persister, that only current ends are enabled, and     *)
(* that the network implements Rpc.                                        *)
(***************************************************************************)
EXTENDS Labrpc, TLAPS

\* A call that has been made goes to a server.
LEMMA DstType ==
    ASSUME TypeOK, NEW c \in CallId, call[c].pc # "idle"
    PROVE  call[c].end \in ClientEnd /\ Dst(c) \in Server
<1>1. call[c].end \in ClientEnd
    BY DEF TypeOK, CallRecord
<1> QED
    BY <1>1 DEF ClientEnd, Dst

\* A step that replaces the record of one call keeps the types.
LEMMA TypeOneCall ==
    ASSUME TypeOK, NEW c \in CallId, NEW r \in CallRecord,
           r.end = NoEnd <=> r.pc = "idle",
           call' = [call EXCEPT ![c] = r],
           saved' \in [Server -> SUBSET CallId],
           UNCHANGED <<reliable, cluster>>
    PROVE  TypeOK'
<1>1. call' \in [CallId -> CallRecord]
    BY DEF TypeOK
<1>2. \A d \in CallId : call'[d].end = NoEnd <=> call'[d].pc = "idle"
    BY DEF TypeOK
<1> QED
    BY <1>1, <1>2 DEF TypeOK, cluster

\* The steps of a call keep the types.
LEMMA TypeCalls ==
    ASSUME TypeOK, Calls
    PROVE  TypeOK'
<1>1. CASE \E c \in CallId, i, j \in Server, g \in 1..MaxGen : Call(c, i, g, j)
  <2> PICK c \in CallId, i \in Server, j \in Server, g \in 1..MaxGen : Call(c, i, g, j)
      BY <1>1
  <2> DEFINE r == [call[c] EXCEPT !.pc = "sent", !.end = End(i, g, j)]
  <2>1. End(i, g, j) \in ClientEnd
      BY DEF End, ClientEnd
  <2>2. r \in CallRecord /\ r.end # NoEnd /\ r.pc # "idle"
      BY <2>1, NoEndAssumption, ZenonT(60) DEF TypeOK, CallRecord
  <2>3. call' = [call EXCEPT ![c] = r]
      BY Zenon DEF Call, TypeOK
  <2> QED
      BY <2>2, <2>3, TypeOneCall, Zenon DEF Call, TypeOK
<1>2. CASE \E c \in CallId : ProcessReq(c)
  <2> PICK c \in CallId : ProcessReq(c)
      BY <1>2
  <2>0. SUFFICES ASSUME NEW r \in CallRecord, r.end = call[c].end, r.pc # "idle",
                        call[c].pc # "idle", call' = [call EXCEPT ![c] = r],
                        UNCHANGED <<reliable, cluster, saved>>
                 PROVE  TypeOK'
    <3>0. call[c] \in CallRecord
        BY DEF TypeOK
    <3>1. CASE ReadEndnameInfo(c)
      <4> DEFINE pc == IF call[c].end \in enabled /\ servers[Dst(c)] # 0 THEN "accepted" ELSE "failing"
                 r == [call[c] EXCEPT !.pc = pc, !.server = servers[Dst(c)], !.reliable = reliable]
      <4>1. call[c].pc = "sent" /\ call' = [call EXCEPT ![c] = r] /\ UNCHANGED <<reliable, cluster, saved>>
          BY <3>1, Zenon DEF ReadEndnameInfo, TypeOK
      <4>2. servers[Dst(c)] \in 0..MaxGen /\ reliable \in BOOLEAN /\ pc \in {"accepted", "failing"}
          BY <4>1, DstType DEF TypeOK
      <4>3. r \in CallRecord /\ r.end = call[c].end /\ r.pc # "idle"
          BY <3>0, <4>2, Zenon DEF CallRecord
      <4> QED
          BY <2>0, <4>1, <4>3, Zenon
    <3>2. CASE DropRequest(c) \/ StopWaiting(c) \/ ReceiveReply(c) \/ CheckReply(c)
      <4>1. PICK pc \in {"failing", "replied", "replying"} :
                 /\ call[c].pc # "idle"
                 /\ call' = [call EXCEPT ![c].pc = pc]
                 /\ UNCHANGED <<reliable, cluster, saved>>
          BY <3>2 DEF DropRequest, StopWaiting, ReceiveReply, CheckReply
      <4> DEFINE r == [call[c] EXCEPT !.pc = pc]
      <4>2. call' = [call EXCEPT ![c] = r]
          BY <4>1 DEF TypeOK
      <4>3. r \in CallRecord /\ r.end = call[c].end /\ r.pc # "idle"
          BY <3>0 DEF CallRecord
      <4> QED
          BY <2>0, <4>1, <4>2, <4>3, Zenon
    <3>3. CASE Dispatch(c)
      <4> DEFINE r == [call[c] EXCEPT !.pc = "waiting", !.handler = "running"]
      <4>1. call[c].pc # "idle" /\ call' = [call EXCEPT ![c] = r] /\ UNCHANGED <<reliable, cluster, saved>>
          BY <3>3, Zenon DEF Dispatch, TypeOK
      <4>2. r \in CallRecord /\ r.end = call[c].end /\ r.pc # "idle"
          BY <3>0, Zenon DEF CallRecord
      <4> QED
          BY <2>0, <4>1, <4>2, Zenon
    <3>4. CASE Return(c)
      <4> DEFINE ok == call[c].pc = "replying"
                 r == [call[c] EXCEPT !.pc = "returned", !.ok = ok]
      <4>1. call[c].pc # "idle" /\ call' = [call EXCEPT ![c] = r] /\ UNCHANGED <<reliable, cluster, saved>>
          BY <3>4, Zenon DEF Return, TypeOK
      <4>2. ok \in BOOLEAN
          OBVIOUS
      <4> HIDE DEF ok
      <4>3. r \in CallRecord /\ r.end = call[c].end /\ r.pc # "idle"
          BY <3>0, <4>2, Zenon DEF CallRecord
      <4> QED
          BY <2>0, <4>1, <4>3, Zenon
    <3> QED
        BY <3>1, <3>2, <3>3, <3>4 DEF ProcessReq
  <2>1. r.end # NoEnd /\ saved' \in [Server -> SUBSET CallId]
      BY <2>0 DEF TypeOK
  <2> QED
      BY <2>0, <2>1, TypeOneCall, Zenon
<1>3. CASE \E c \in CallId : Handle(c)
  <2> PICK c \in CallId : Handle(c)
      BY <1>3
  <2> DEFINE r == [call[c] EXCEPT !.handler = "done"]
  <2>1. r \in CallRecord /\ r.end = call[c].end /\ r.pc = call[c].pc
      BY DEF TypeOK, CallRecord
  <2>2. call' = [call EXCEPT ![c] = r]
      BY DEF Handle, TypeOK
  <2>3. saved' \in [Server -> SUBSET CallId]
      BY Zenon DEF Handle, TypeOK
  <2>4. (r.end = NoEnd <=> r.pc = "idle") /\ UNCHANGED <<reliable, cluster>>
      BY <2>1 DEF Handle, TypeOK
  <2> HIDE DEF r
  <2> QED
      BY <2>1, <2>2, <2>3, <2>4, TypeOneCall, Zenon
<1> QED
    BY <1>1, <1>2, <1>3 DEF Calls

\* The steps of the harness keep the types.
LEMMA TypeHarness ==
    ASSUME TypeOK, Harness
    PROVE  TypeOK'
<1> USE MaxGenAssumption, NoEndAssumption DEF ClientEnd
<1>1. CASE SetUnreliable
    BY <1>1 DEF SetUnreliable, TypeOK, cluster
<1>2. CASE \E i \in Server : connect(i) \/ Partition(i) \/ CrashDisconnect(i)
                         \/ DeleteServer(i) \/ Copy(i) \/ MakeEnds(i) \/ Make(i) \/ AddServer(i)
  <2> PICK i \in Server : connect(i) \/ Partition(i) \/ CrashDisconnect(i)
                         \/ DeleteServer(i) \/ Copy(i) \/ MakeEnds(i) \/ Make(i) \/ AddServer(i)
      BY <1>2
  <2>1. CASE connect(i)
      BY <2>1 DEF connect, EnabledBy, EndsOf, End, TypeOK
  <2>2. CASE Partition(i)
      BY <2>2 DEF Partition, disconnect, TypeOK
  <2>3. CASE CrashDisconnect(i)
      BY <2>3 DEF CrashDisconnect, disconnect, TypeOK
  <2>4. CASE DeleteServer(i)
      BY <2>4 DEF DeleteServer, TypeOK
  <2>5. CASE Copy(i)
      BY <2>5 DEF Copy, TypeOK
  <2>6. CASE MakeEnds(i)
      BY <2>6 DEF MakeEnds, TypeOK
  <2>7. CASE Make(i)
      BY <2>7 DEF Make, TypeOK
  <2>8. CASE AddServer(i)
      BY <2>8 DEF AddServer, TypeOK
  <2> QED
      BY <2>1, <2>2, <2>3, <2>4, <2>5, <2>6, <2>7, <2>8
<1> QED
    BY <1>1, <1>2 DEF Harness

\* The variables of Labrpc keep their types.
THEOREM TypeCorrect == Spec => []TypeOK
<1>1. Init => TypeOK
    BY MaxGenAssumption, NoEndAssumption DEF ClientEnd, Init, TypeOK, CallRecord, NoCall, End
<1>2. TypeOK /\ [Next]_vars => TypeOK'
  <2>1. CASE UNCHANGED vars
      BY <2>1 DEF vars, TypeOK
  <2> QED
      BY <2>1, TypeCalls, TypeHarness DEF Next
<1> QED
    BY <1>1, <1>2, PTL DEF Spec

-----------------------------------------------------------------------------
\* A step that changes no server and loses no update keeps what is known of a
\* call it does not touch.
LEMMA CallUntouched ==
    ASSUME TypeOK, NEW c \in CallId, CallOK(c), call'[c] = call[c],
           UNCHANGED cluster, \A j \in Server : saved[j] \subseteq saved'[j]
    PROVE  CallOK(c)'
<1>1. CASE call[c].pc = "idle"
    BY <1>1 DEF CallOK, cluster, Dst, TypeOK, CallRecord
<1>2. CASE call[c].pc # "idle"
    BY <1>2, DstType DEF CallOK, cluster, Dst
<1> QED
    BY <1>1, <1>2

\* The steps of a call keep NetworkInv.
LEMMA NetworkCalls ==
    ASSUME TypeOK, NetworkInv, Calls
    PROVE  NetworkInv'
<1>1. UNCHANGED cluster
    BY Zenon DEF Calls, Call, ProcessReq, ReadEndnameInfo, DropRequest, Dispatch, StopWaiting,
           ReceiveReply, CheckReply, Return, Handle
<1>2. InstanceInv'
    BY <1>1 DEF NetworkInv, InstanceInv, cluster
<1>3. SUFFICES \E c \in CallId :
                  /\ \A d \in CallId \ {c} : call'[d] = call[d]
                  /\ \A j \in Server : saved[j] \subseteq saved'[j]
                  /\ CallOK(c)'
    BY <1>1, <1>2, CallUntouched DEF NetworkInv
<1>4. CASE \E c \in CallId, i, j \in Server, g \in 1..MaxGen : Call(c, i, g, j)
  <2> PICK c \in CallId, i \in Server, j \in Server, g \in 1..MaxGen : Call(c, i, g, j)
      BY <1>4
  <2>1. CallOK(c)
      BY DEF NetworkInv
  <2>2. /\ call'[c].pc = "sent" /\ call'[c].ok = call[c].ok /\ call'[c].handler = call[c].handler
        /\ \A d \in CallId \ {c} : call'[d] = call[d]
        /\ call[c].pc = "idle" /\ saved' = saved
      BY DEF Call, TypeOK, CallRecord
  <2> QED
      BY <2>1, <2>2 DEF CallOK
<1>5. CASE \E c \in CallId : Handle(c)
  <2> PICK c \in CallId : Handle(c)
      BY <1>5
  <2>1. CallOK(c) /\ InstanceInv
      BY DEF NetworkInv
  <2>2. call[c].pc # "idle" /\ Dst(c) \in Server
      BY <2>1, DstType DEF CallOK, Handle
  <2>3. /\ call'[c].pc = call[c].pc /\ call'[c].ok = call[c].ok /\ call'[c].handler = "done"
        /\ call'[c].server = call[c].server /\ Dst(c)' = Dst(c)
        /\ \A d \in CallId \ {c} : call'[d] = call[d]
        /\ call[c].handler = "running"
      BY DEF Handle, TypeOK, CallRecord, Dst
  <2>4. /\ \A j \in Server : saved[j] \subseteq saved'[j]
        /\ owner[Dst(c)] = call[c].server => c \in saved'[Dst(c)]
      BY <2>2 DEF Handle, TypeOK
  <2>5. owner[Dst(c)] = call[c].server \/ call[c].server < gen[Dst(c)] \/ step[Dst(c)] = "down"
      BY <2>1, <2>2, <2>3 DEF CallOK, InstanceInv, TypeOK
  <2>6. CallOK(c)'
      BY <1>1, <2>1, <2>2, <2>3, <2>4, <2>5 DEF CallOK, cluster
  <2> QED
      BY <2>3, <2>4, <2>6
<1>6. CASE \E c \in CallId : ProcessReq(c)
  <2> PICK c \in CallId : ProcessReq(c)
      BY <1>6
  <2>1. CallOK(c) /\ InstanceInv
      BY DEF NetworkInv
  <2>2. /\ call[c].pc # "idle" /\ saved' = saved
        /\ \A d \in CallId \ {c} : call'[d] = call[d]
        /\ call'[c].end = call[c].end
      BY DEF ProcessReq, ReadEndnameInfo, DropRequest, Dispatch, StopWaiting, ReceiveReply,
             CheckReply, Return, TypeOK, CallRecord
  <2>3. Dst(c) \in Server /\ Dst(c)' = Dst(c)
      BY <2>2, DstType DEF Dst
  <2> SUFFICES CallOK(c)'
      BY <2>2
  <2>4. CASE ReadEndnameInfo(c)
    <3>1. /\ call[c].pc = "sent" /\ call'[c].server = servers[Dst(c)]
          /\ call'[c].pc = IF call[c].end \in enabled /\ servers[Dst(c)] # 0 THEN "accepted" ELSE "failing"
          /\ call'[c].handler = call[c].handler /\ call'[c].ok = call[c].ok
        BY <2>4 DEF ReadEndnameInfo, TypeOK, CallRecord
    <3>2. servers[Dst(c)] # 0 => /\ servers[Dst(c)] \in 1..gen[Dst(c)]
                                 /\ step[Dst(c)] \notin {"ends", "made"}
        BY <2>1, <2>3 DEF InstanceInv, TypeOK
    <3> QED
        BY <1>1, <2>1, <2>3, <3>1, <3>2 DEF CallOK, cluster
  <2>5. CASE DropRequest(c) \/ StopWaiting(c) \/ ReceiveReply(c)
    <3>1. /\ call[c].pc \in {"accepted", "waiting"} /\ call'[c].server = call[c].server
          /\ call'[c].pc \in {"failing", "replied"}
          /\ call'[c].pc = "replied" => call[c].handler = "done"
          /\ call'[c].handler = call[c].handler /\ call'[c].ok = call[c].ok
        BY <2>5 DEF DropRequest, StopWaiting, ReceiveReply, TypeOK, CallRecord
    <3> QED
        BY <1>1, <2>1, <2>2, <2>3, <3>1 DEF CallOK, cluster
  <2>6. CASE Dispatch(c)
    <3>1. /\ call[c].pc = "accepted" /\ call'[c].server = call[c].server
          /\ call'[c].pc = "waiting" /\ call'[c].handler = "running" /\ call'[c].ok = call[c].ok
        BY <2>6 DEF Dispatch, TypeOK, CallRecord
    <3> QED
        BY <1>1, <2>1, <2>2, <2>3, <3>1 DEF CallOK, cluster
  <2>7. CASE CheckReply(c)
    <3>1. /\ call[c].pc = "replied" /\ call'[c].server = call[c].server
          /\ call'[c].pc \in {"failing", "replying"}
          /\ call'[c].pc = "replying" => servers[Dst(c)] = call[c].server
          /\ call'[c].handler = call[c].handler /\ call'[c].ok = call[c].ok
        BY <2>7 DEF CheckReply, IsServerDead, TypeOK, CallRecord
    <3>2. servers[Dst(c)] = call[c].server => c \in saved[Dst(c)]
        BY <2>1, <2>3, <3>1 DEF CallOK, InstanceInv, TypeOK
    <3> QED
        BY <1>1, <2>1, <2>2, <2>3, <3>1, <3>2 DEF CallOK, cluster
  <2>8. CASE Return(c)
    <3>1. /\ call[c].pc \in {"failing", "replying"} /\ call'[c].server = call[c].server
          /\ call'[c].pc = "returned" /\ call'[c].handler = call[c].handler
          /\ call'[c].ok <=> call[c].pc = "replying"
        BY <2>8 DEF Return, TypeOK, CallRecord
    <3> QED
        BY <1>1, <2>1, <2>2, <2>3, <3>1 DEF CallOK, cluster
  <2> QED
      BY <2>4, <2>5, <2>6, <2>7, <2>8 DEF ProcessReq
<1> QED
    BY <1>4, <1>5, <1>6, SMTT(60), SMTT(90) DEF Calls

\* A step of the harness that goes on with crash1 or start1 of one server.
LEMMA NetworkHarness ==
    ASSUME TypeOK, NetworkInv, Harness
    PROVE  NetworkInv'
<1>0. call' = call /\ saved' = saved
    BY DEF Harness, SetUnreliable, connect, Partition, CrashDisconnect, DeleteServer, Copy, MakeEnds,
           Make, AddServer
<1>1. CASE UNCHANGED <<gen, step>>
  <2>1. InstanceInv'
      BY <1>1 DEF Harness, SetUnreliable, connect, Partition, disconnect, CrashDisconnect, DeleteServer,
                  Copy, MakeEnds, Make, AddServer, NetworkInv, InstanceInv, TypeOK, cluster
  <2>2. \A c \in CallId : CallOK(c)'
      BY <1>0, <1>1 DEF NetworkInv, CallOK, Dst
  <2> QED
      BY <2>1, <2>2 DEF NetworkInv
<1>2. CASE \E i \in Server : CrashDisconnect(i) \/ DeleteServer(i) \/ Copy(i) \/ MakeEnds(i)
                             \/ Make(i) \/ AddServer(i)
  <2> PICK i \in Server : CrashDisconnect(i) \/ DeleteServer(i) \/ Copy(i) \/ MakeEnds(i)
                         \/ Make(i) \/ AddServer(i)
      BY <1>2
  <2>1. InstanceInv'
      BY DEF CrashDisconnect, disconnect, DeleteServer, Copy, MakeEnds, Make, AddServer,
             NetworkInv, InstanceInv, TypeOK
  <2>2. \A j \in Server :
            /\ gen'[j] >= gen[j] /\ gen[j] \in Nat /\ gen'[j] \in Nat
            /\ step'[j] \in {"ends", "made"} => gen'[j] > gen[j] \/ step[j] \in {"ends", "made"}
            /\ step[j] = "down" => gen'[j] > gen[j] \/ step'[j] = "down"
      BY MaxGenAssumption DEF CrashDisconnect, DeleteServer, Copy, MakeEnds, Make, AddServer, TypeOK
  <2>3. ASSUME NEW c \in CallId
        PROVE  CallOK(c)'
    <3>1. CallOK(c) /\ call[c].server \in Nat /\ Dst(c)' = Dst(c)
        BY <1>0, MaxGenAssumption DEF NetworkInv, TypeOK, CallRecord, Dst
    <3>2. CASE call[c].pc = "idle"
        BY <1>0, <3>1, <3>2 DEF CallOK
    <3>3. CASE call[c].pc # "idle"
      <4>1. Dst(c) \in Server
          BY <3>3, DstType
      <4> QED
          BY <1>0, <2>2, <3>1, <4>1 DEF CallOK
    <3> QED
        BY <3>2, <3>3
  <2> QED
      BY <2>1, <2>3 DEF NetworkInv
<1> QED
    BY <1>1, <1>2 DEF Harness, SetUnreliable, connect, Partition, cluster

\* Instances, persisters and calls always agree: NetworkInv is inductive.
THEOREM NetworkCorrect == Spec => []NetworkInv
<1>1. Init => NetworkInv
    BY DEF Init, NetworkInv, InstanceInv, CallOK, NoCall
<1>2. TypeOK /\ NetworkInv /\ [Next]_vars => NetworkInv'
  <2>1. CASE UNCHANGED vars
      BY <2>1 DEF vars, NetworkInv, InstanceInv, CallOK, Dst
  <2> QED
      BY <2>1, NetworkCalls, NetworkHarness DEF Next
<1> QED
    BY <1>1, <1>2, TypeCorrect, PTL DEF Spec

\* An instance that ProcessReq can reach writes to the persister that the next
\* incarnation of its server starts from.
THEOREM AlwaysReachedOwnsPersister == Spec => []ReachedOwnsPersister
<1>1. NetworkInv => ReachedOwnsPersister
    BY DEF NetworkInv, InstanceInv, ReachedOwnsPersister
<1> QED
    BY <1>1, NetworkCorrect, PTL

\* A caller that got a positive reply finds its update in the persister.
THEOREM AlwaysAckedDurable == Spec => []AckedDurable
<1>1. NetworkInv => AckedDurable
    BY DEF NetworkInv, CallOK, AckedDurable
<1> QED
    BY <1>1, NetworkCorrect, PTL

-----------------------------------------------------------------------------
\* Different triples are different ends.
LEMMA EndInjective ==
    ASSUME NEW i, NEW g, NEW j, NEW k, NEW h, NEW l, End(i, g, j) = End(k, h, l)
    PROVE  i = k /\ g = h /\ j = l
    BY DEF End

\* disconnect leaves the ends between the servers still connected.
LEMMA EndsDisconnect ==
    ASSUME TypeOK, EndsCurrent, NEW i \in Server, disconnect(i), gen' = gen
    PROVE  EndsCurrent'
<1> DEFINE on == {k \in Server : connected[k]}
           off == {k \in Server : connected'[k]}
<1>1. off = on \ {i}
    BY DEF disconnect, TypeOK
<1>2. \A k, l \in Server : End(k, gen[k], l) \in EndsOf(i, Server) <=> k = i \/ l = i
    BY EndInjective DEF EndsOf
<1>3. {End(k, gen[k], l) : k, l \in on} \ EndsOf(i, Server) = {End(k, gen[k], l) : k, l \in off}
  <2> HIDE DEF off
  <2> QED
      BY <1>1, <1>2, SMTT(60), SMTT(90)
<1> QED
    BY <1>3 DEF disconnect, EndsCurrent

\* Every step keeps the enabled ends current.
LEMMA EndsStep ==
    ASSUME TypeOK, NetworkInv, EndsCurrent, [Next]_vars
    PROVE  EndsCurrent'
<1>1. CASE UNCHANGED <<enabled, connected, gen>>
    BY <1>1 DEF EndsCurrent
<1>2. CASE \E i \in Server : Partition(i) \/ CrashDisconnect(i)
    BY <1>2, EndsDisconnect DEF Partition, CrashDisconnect
<1>3. CASE \E i \in Server : MakeEnds(i)
  <2> PICK i \in Server : MakeEnds(i)
      BY <1>3
  <2>1. ~connected[i] /\ connected' = connected /\ enabled' = enabled
      BY DEF MakeEnds, NetworkInv, InstanceInv
  <2>2. \A k \in Server : connected[k] => gen'[k] = gen[k]
      BY <2>1 DEF MakeEnds, TypeOK
  <2> QED
      BY <2>1, <2>2 DEF EndsCurrent
<1>4. CASE \E i \in Server : connect(i)
  <2> PICK i \in Server : connect(i)
      BY <1>4
  <2> DEFINE on == {k \in Server : connected[k]}
             now == {k \in Server : connected'[k]}
  <2>1. now = on \cup {i} /\ now = {k \in Server : k = i \/ connected[k]} /\ gen' = gen
      BY DEF connect, TypeOK
  <2>2. enabled' = enabled \cup EndsOf(i, now)
      BY <2>1 DEF connect, EnabledBy
  <2>3. {End(k, gen[k], l) : k, l \in on} \cup EndsOf(i, now) = {End(k, gen[k], l) : k, l \in now}
    <3> HIDE DEF now
    <3> QED
        BY <2>1 DEF EndsOf
  <2> QED
      BY <2>1, <2>2, <2>3 DEF EndsCurrent
<1> QED
    BY <1>1, <1>2, <1>3, <1>4, Zenon DEF Next, vars, Calls, Call, ProcessReq, ReadEndnameInfo, DropRequest, Dispatch, StopWaiting,
        ReceiveReply, CheckReply, Return, Handle, Harness, SetUnreliable, DeleteServer, Copy, Make,
        AddServer, cluster

\* Exactly the current ends of connected servers are enabled, always.
THEOREM AlwaysEndsCurrent == Spec => []EndsCurrent
<1>1. Init => EndsCurrent
    BY DEF Init, EndsCurrent
<1> QED
    BY <1>1, EndsStep, TypeCorrect, NetworkCorrect, PTL DEF Spec

-----------------------------------------------------------------------------
\* A step that touches one call changes the mapping at that call only.
LEMMA OneOutcome ==
    ASSUME TypeOK, NEW c \in CallId, \A d \in CallId \ {c} : call'[d] = call[d]
    PROVE  /\ Outcomes' = [Outcomes EXCEPT ![c] = Outcome(c)']
           /\ Executed' = IF call'[c].handler = "done" THEN Executed \cup {c} ELSE Executed \ {c}
<1>1. \A d \in CallId \ {c} : Outcome(d)' = Outcome(d)
    BY DEF Outcome
<1>2. Outcomes' = [Outcomes EXCEPT ![c] = Outcome(c)']
    BY <1>1, Zenon DEF Outcomes
<1>3. Executed' = IF call'[c].handler = "done" THEN Executed \cup {c} ELSE Executed \ {c}
    BY DEF Executed
<1> QED
    BY <1>2, <1>3

\* Every step of the network is a step of Rpc or leaves what callers see alone.
LEMMA RpcStep ==
    ASSUME TypeOK, NetworkInv, [Next]_vars
    PROVE  R!Next \/ UNCHANGED <<Outcomes, Executed>>
<1>1. CASE call' = call
    BY <1>1 DEF Outcomes, Outcome, Executed
<1>2. CASE \E c \in CallId, i, j \in Server, g \in 1..MaxGen : Call(c, i, g, j)
  <2> PICK c \in CallId, i \in Server, j \in Server, g \in 1..MaxGen : Call(c, i, g, j)
      BY <1>2
  <2>1. /\ call[c].pc = "idle" /\ call'[c].pc = "sent" /\ call'[c].handler = call[c].handler
        /\ \A d \in CallId \ {c} : call'[d] = call[d]
      BY DEF Call, TypeOK, CallRecord
  <2>2. Outcome(c) = "none" /\ Outcome(c)' = "pending"
      BY <2>1 DEF Outcome
  <2>3. Executed' = Executed
      BY <2>1, OneOutcome DEF Executed
  <2>4. R!Issue(c)
      BY <2>1, <2>2, <2>3, OneOutcome DEF R!Issue, Outcomes, Outcome, Executed
  <2> QED
      BY <2>4 DEF R!Next
<1>3. CASE \E c \in CallId : Handle(c)
  <2> PICK c \in CallId : Handle(c)
      BY <1>3
  <2>1. /\ call[c].handler = "running" /\ call'[c].handler = "done"
        /\ call'[c].pc = call[c].pc /\ call'[c].ok = call[c].ok
        /\ \A d \in CallId \ {c} : call'[d] = call[d]
      BY DEF Handle, TypeOK, CallRecord
  <2>2. call[c].pc # "idle" /\ ~call[c].ok
      BY <2>1 DEF NetworkInv, CallOK
  <2>3. Outcome(c) \in {"pending", "failed"} /\ Outcome(c)' = Outcome(c)
      BY <2>1, <2>2 DEF Outcome
  <2>4. Outcomes' = Outcomes /\ Outcomes[c] = Outcome(c)
      BY <2>1, <2>3, OneOutcome, Zenon DEF Outcomes
  <2>5. c \notin Executed /\ Executed' = Executed \cup {c}
      BY <2>1, OneOutcome DEF Executed
  <2>6. R!Execute(c)
      BY <2>3, <2>4, <2>5 DEF R!Execute
  <2> QED
      BY <2>6 DEF R!Next
<1>4. CASE \E c \in CallId : Return(c)
  <2> PICK c \in CallId : Return(c)
      BY <1>4
  <2>1. /\ call[c].pc \in {"failing", "replying"} /\ call'[c].pc = "returned"
        /\ call'[c].ok <=> call[c].pc = "replying"
        /\ call'[c].handler = call[c].handler
        /\ \A d \in CallId \ {c} : call'[d] = call[d]
      BY DEF Return, TypeOK, CallRecord
  <2>2. Outcome(c) = "pending" /\ Outcome(c)' = IF call[c].pc = "replying" THEN "ok" ELSE "failed"
      BY <2>1 DEF Outcome
  <2>3. Outcomes' = [Outcomes EXCEPT ![c] = Outcome(c)'] /\ Outcomes[c] = Outcome(c)
      BY <2>1, OneOutcome DEF Outcomes
  <2>4. Executed' = Executed /\ (call[c].pc = "replying" => c \in Executed)
      BY <2>1, OneOutcome DEF Executed, NetworkInv, CallOK
  <2>5. R!Succeed(c) \/ R!Fail(c)
      BY <2>2, <2>3, <2>4, Zenon DEF R!Succeed, R!Fail
  <2> QED
      BY <2>5 DEF R!Next
<1>5. CASE \E c \in CallId : /\ ProcessReq(c) /\ ~Return(c)
  <2> PICK c \in CallId : ProcessReq(c) /\ ~Return(c)
      BY <1>5
  <2>1. CallOK(c)
      BY DEF NetworkInv
  <2>2. /\ call[c].pc \notin {"idle", "returned"} /\ call'[c].pc \notin {"idle", "returned"}
        /\ call'[c].handler = "done" <=> call[c].handler = "done"
        /\ \A d \in CallId \ {c} : call'[d] = call[d]
    <3>1. CASE Dispatch(c)
        BY <2>1, <3>1 DEF Dispatch, TypeOK, CallRecord, CallOK
    <3>2. CASE ~Dispatch(c)
        BY <3>2 DEF ProcessReq, ReadEndnameInfo, DropRequest, StopWaiting, ReceiveReply,
                    CheckReply, TypeOK, CallRecord
    <3> QED
        BY <3>1, <3>2
  <2>3. Outcome(c)' = Outcome(c)
      BY <2>2 DEF Outcome
  <2>4. Outcomes' = Outcomes
      BY <2>2, <2>3, OneOutcome, Zenon DEF Outcomes
  <2>5. Executed' = Executed
      BY <2>2, OneOutcome DEF Executed
  <2> QED
      BY <2>4, <2>5
<1>6. CASE Harness
    BY <1>1, <1>6 DEF Harness, SetUnreliable, connect, Partition, CrashDisconnect, DeleteServer, Copy,
                      MakeEnds, Make, AddServer
<1>7. CASE UNCHANGED vars
    BY <1>1, <1>7 DEF vars
<1> QED
    BY <1>2, <1>3, <1>4, <1>5, <1>6, <1>7 DEF Next, Calls, ProcessReq

\* labrpc.go keeps the promises of its head comment: Labrpc implements Rpc.
THEOREM NetworkImplementsRpc == Spec => ImplementsRpc
<1>1. Init => R!Init
    BY DEF Init, R!Init, Outcomes, Outcome, Executed, NoCall
<1>2. TypeOK /\ NetworkInv /\ [Next]_vars => [R!Next]_<<Outcomes, Executed>>
    BY RpcStep
<1> QED
    BY <1>1, <1>2, TypeCorrect, NetworkCorrect, PTL DEF Spec, ImplementsRpc, R!Spec
=============================================================================
