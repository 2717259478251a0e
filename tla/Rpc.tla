-------------------------------- MODULE Rpc ---------------------------------
(***************************************************************************)
(* What the comment at the head of src/labrpc/labrpc.go promises of Call:  *)
(* true means that the server executed the request; false means nothing,   *)
(* since the request, the reply or the server may have been lost.  A       *)
(* request is executed at most once, possibly after its call has failed.   *)
(***************************************************************************)
CONSTANT CallId

VARIABLES
    outcome,   \* of each call: "none" (not made), "pending", "ok" or "failed"
    executed   \* the calls whose handler has run

Init ==
    /\ outcome = [c \in CallId |-> "none"]
    /\ executed = {}

Issue(c) ==
    /\ outcome[c] = "none"
    /\ outcome' = [outcome EXCEPT ![c] = "pending"]
    /\ UNCHANGED executed

Execute(c) ==
    /\ outcome[c] \in {"pending", "failed"} /\ c \notin executed
    /\ executed' = executed \cup {c}
    /\ UNCHANGED outcome

Succeed(c) ==
    /\ outcome[c] = "pending" /\ c \in executed
    /\ outcome' = [outcome EXCEPT ![c] = "ok"]
    /\ UNCHANGED executed

Fail(c) ==
    /\ outcome[c] = "pending"
    /\ outcome' = [outcome EXCEPT ![c] = "failed"]
    /\ UNCHANGED executed

Next == \E c \in CallId : Issue(c) \/ Execute(c) \/ Succeed(c) \/ Fail(c)

Spec == Init /\ [][Next]_<<outcome, executed>>
=============================================================================
