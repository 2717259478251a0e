------------------------- MODULE LockServiceProofs --------------------------
(***************************************************************************)
(* The lock service gives a lock to one clerk at a time and loses at most  *)
(* one grant, for any clerks, any lock names and any number of calls.  The *)
(* two invariants become inductive with GrantsInv, which ties what clerks  *)
(* were told to the primary's record, and LoopInv, which ties the accept   *)
(* loop to the connection it is at.                                        *)
(***************************************************************************)
EXTENDS LockService, TLAPS

\* What a clerk holds it was told of, and what it was told of is on record.
GrantsInv ==
    \A c \in Client : ck[c].held \subseteq ck[c].granted /\ Told(c) \subseteq locks["primary"]

\* The loop is at one connection at a time; while it is not at a deaf one, or has
\* not run its handler, no grant is lost.
LoopInv ==
    /\ \A c \in Client : ck[c].pc = "accepted" => ls["primary"].loop = "accepted"
    /\ \A c, d \in Client : ck[c].pc = "accepted" /\ ck[d].pc = "accepted" => c = d
    /\ \A c \in Client : ck[c].pc \in {"deaf", "unheard"} =>
          ls["primary"].loop = "deaf" /\ ls["primary"].dying /\ ~ls["primary"].open
    /\ \A c, d \in Client : ck[c].pc \in {"deaf", "unheard"} /\ ck[d].pc \in {"deaf", "unheard"} => c = d
    /\ \A c \in Client : ck[c].pc = "deaf" => LostGrants = {}

LockInv == TypeOK /\ GrantsInv /\ LoopInv /\ LockExclusive /\ OneLostGrant

-----------------------------------------------------------------------------
\* A step that takes no record away, gives no clerk a new answer and lets a
\* clerk at most give locks up keeps grants exclusive and on record.
LEMMA NothingGranted ==
    ASSUME LockInv, locks["primary"] \subseteq locks'["primary"],
           \A c \in Client : ck'[c].held \subseteq ck'[c].granted,
           \A c \in Client : Told(c)' \subseteq Told(c),
           \A c \in Client : Holds(c)' \subseteq Holds(c),
           \A c \in Client : Answered(c)' =>
               Answered(c) /\ ck'[c].name = ck[c].name /\ ck'[c].held = ck[c].held
    PROVE  LockExclusive' /\ GrantsInv'
<1>1. GrantsInv'
    BY SMT DEF LockInv, GrantsInv
<1>2. \A c, d \in Client : c # d => Holds(c)' \cap Holds(d)' = {}
    BY SMT DEF LockInv, LockExclusive
<1>3. \A c \in Client : Answered(c)' => ck'[c].name \notin ck'[c].held
    BY Zenon DEF LockInv, LockExclusive
<1> QED
    BY <1>1, <1>2, <1>3 DEF LockExclusive

\* A step that changes the clerks only in ways that no answer depends on also
\* leaves the lost grants as they are.
LEMMA AnswersKept ==
    ASSUME LockInv, UNCHANGED locks,
           \A c \in Client : ck'[c].granted = ck[c].granted /\ ck'[c].held = ck[c].held,
           \A c \in Client : Answered(c)' <=> Answered(c),
           \A c \in Client : Answered(c) => ck'[c].name = ck[c].name
    PROVE  LockExclusive' /\ GrantsInv' /\ LostGrants' = LostGrants
<1>1. \A c \in Client : Answer(c)' = Answer(c)
    BY Zenon DEF Answer
<1>2. \A c \in Client : Holds(c)' = Holds(c) /\ Told(c)' = Told(c)
    BY <1>1, Zenon DEF Holds, Told
<1>3. LockExclusive' /\ GrantsInv'
    BY <1>2, NothingGranted, SMT DEF LockInv, GrantsInv
<1>4. LostGrants' = LostGrants
    BY <1>2, SMT DEF LostGrants
<1> QED
    BY <1>3, <1>4

\* Closing the listener fails the calls it had not accepted, and nothing else.
LEMMA ResetKept ==
    ASSUME TypeOK, NEW c \in Client
    PROVE  /\ Reset \in [Client -> Clerk]
           /\ Reset[c].granted = ck[c].granted /\ Reset[c].held = ck[c].held
           /\ Reset[c].name = ck[c].name
           /\ Reset[c].ok = ck[c].ok
           /\ Reset[c].pc = ck[c].pc \/ (ck[c].pc = "dialed" /\ Reset[c].pc = "failed")
    BY SMT DEF TypeOK, Reset, Clerk

-----------------------------------------------------------------------------
\* One clerk changes, to a clerk.
LEMMA TypeOneClerk ==
    ASSUME TypeOK, NEW c \in Client, NEW r \in Clerk, r.pc # "idle" => r.name \in Lockname,
           ck' = [ck EXCEPT ![c] = r]
    PROVE  /\ ck' \in [Client -> Clerk]
           /\ \A d \in Client : ck'[d].pc # "idle" => ck'[d].name \in Lockname
    BY SMT DEF TypeOK

\* One clerk goes on to the next place.
LEMMA TypeOnePc ==
    ASSUME TypeOK, NEW c \in Client, ck[c].pc # "idle",
           NEW p \in {"accepted", "serving", "failed"}, ck' = [ck EXCEPT ![c].pc = p]
    PROVE  /\ ck' \in [Client -> Clerk]
           /\ \A d \in Client : ck'[d].pc # "idle" => ck'[d].name \in Lockname
<1> DEFINE r == [ck[c] EXCEPT !.pc = p]
<1>1. ck' = [ck EXCEPT ![c] = r]
    BY Zenon
<1>2. r \in Clerk /\ r.name = ck[c].name
    BY SMT DEF TypeOK, Clerk
<1> QED
    BY <1>1, <1>2, TypeOneClerk, SMT DEF TypeOK

\* One server changes, to a server.
LEMMA TypeOneServer ==
    ASSUME TypeOK, NEW s \in Srv, NEW r \in LockServer, ls' = [ls EXCEPT ![s] = r]
    PROVE  ls' \in [Srv -> LockServer]
    BY Zenon DEF TypeOK

\* Only the accept loop of a server moves.
LEMMA TypeOneLoop ==
    ASSUME TypeOK, NEW s \in Srv, NEW x \in {"accept", "accepted", "deaf", "exit"},
           ls' = [ls EXCEPT ![s].loop = x]
    PROVE  ls' \in [Srv -> LockServer]
<1>1. [ls[s] EXCEPT !.loop = x] \in LockServer
    BY Zenon DEF TypeOK, LockServer
<1> QED
    BY <1>1, TypeOneServer, Zenon

\* The state keeps its type.
LEMMA TypeStep == TypeOK /\ [Next]_vars => TypeOK'
<1> SUFFICES ASSUME TypeOK, [Next]_vars PROVE TypeOK'
    OBVIOUS
<1>0. "primary" \in Srv /\ \A s \in Srv : ls[s] \in LockServer
    BY DEF TypeOK, Srv
<1>1. ASSUME NEW c \in Client, NEW l \in Lockname, Lock(c, l) PROVE TypeOK'
    BY <1>0, <1>1, SMT DEF TypeOK, Clerk, Lock
<1>2. ASSUME NEW c \in Client, NEW l \in Lockname, Unlock(c, l) PROVE TypeOK'
    BY <1>0, <1>2, SMT DEF TypeOK, Clerk, Unlock
<1>3. ASSUME NEW c \in Client, Return(c) PROVE TypeOK'
    <2> DEFINE g == ck[c].granted \cup Answer(c)
               h == ck[c].held \cup Answer(c)
               r == [ck[c] EXCEPT !.pc = "idle", !.granted = g, !.held = h]
    <2>1. ck' = [ck EXCEPT ![c] = r] /\ UNCHANGED <<ls, locks>>
        BY <1>3, Zenon DEF TypeOK, Return
    <2>2. g \in SUBSET Lockname /\ h \in SUBSET Lockname
        BY <1>3, SMT DEF TypeOK, Clerk, Return, Answer
    <2>3. r \in Clerk /\ r.pc = "idle"
        BY <2>2, Zenon DEF TypeOK, Clerk
    <2> QED
        BY <2>1, <2>3, TypeOneClerk, Zenon DEF TypeOK
<1>4. ASSUME NEW c \in Client, Accept(c) PROVE TypeOK'
    BY <1>0, <1>4, TypeOnePc, TypeOneLoop, Zenon DEF TypeOK, Accept
<1>5. ASSUME NEW c \in Client, CloseDead(c) PROVE TypeOK'
    BY <1>0, <1>5, TypeOnePc, TypeOneLoop, Zenon DEF TypeOK, CloseDead
<1>6. ASSUME NEW c \in Client, ServeConn(c) PROVE TypeOK'
    BY <1>0, <1>6, TypeOnePc, TypeOneLoop, Zenon DEF TypeOK, ServeConn
<1>7. ASSUME NEW c \in Client, CloseDeaf(c) PROVE TypeOK'
    <2>1. [ls["primary"] EXCEPT !.dead = TRUE, !.loop = "exit"] \in LockServer
        BY <1>0, Zenon DEF LockServer
    <2>2. ls' = [ls EXCEPT !["primary"] = [ls["primary"] EXCEPT !.dead = TRUE, !.loop = "exit"]]
        BY <1>0, <1>7, Zenon DEF TypeOK, CloseDeaf
    <2>3. ls' \in [Srv -> LockServer]
        BY <1>0, <2>1, <2>2, TypeOneServer, Zenon
    <2> QED
        BY <1>7, <2>3, TypeOnePc, Zenon DEF TypeOK, CloseDeaf
<1>8. ASSUME NEW c \in Client, ServeDeaf(c) PROVE TypeOK'
    <2>1. [ls["primary"] EXCEPT !.open = FALSE, !.loop = "deaf"] \in LockServer
        BY <1>0, Zenon DEF LockServer
    <2>2. ls' = [ls EXCEPT !["primary"] = [ls["primary"] EXCEPT !.open = FALSE, !.loop = "deaf"]]
        BY <1>0, <1>8, Zenon DEF TypeOK, ServeDeaf
    <2>3. ls' \in [Srv -> LockServer]
        BY <1>0, <2>1, <2>2, TypeOneServer, Zenon
    <2>4. /\ ck' \in [Client -> Clerk]
          /\ \A d \in Client : ck'[d].pc # "idle" => ck'[d].name \in Lockname
        BY <1>8, ResetKept, SMT DEF TypeOK, Clerk, ServeDeaf
    <2> QED
        BY <1>8, <2>3, <2>4, Zenon DEF TypeOK, ServeDeaf
<1>9. ASSUME NEW c \in Client, HandleLock(c) PROVE TypeOK'
    <2> DEFINE p == IF ck[c].pc = "deaf" THEN "unheard" ELSE "replied"
               o == ck[c].pc = "serving" /\ ~Held(ck[c].name)
               r == [ck[c] EXCEPT !.pc = p, !.ok = o]
    <2>1. ck' = [ck EXCEPT ![c] = r] /\ UNCHANGED ls
        BY <1>9, Zenon DEF HandleLock
    <2>2. r \in Clerk
        BY Zenon DEF TypeOK, Clerk
    <2>3. r.name = ck[c].name /\ ck[c].name \in Lockname
        BY <1>9, SMT DEF TypeOK, Clerk, HandleLock
    <2>4. locks' \in [Srv -> SUBSET Lockname]
        BY <1>0, <1>9, <2>3, SMT DEF TypeOK, HandleLock, Grant
    <2> QED
        BY <2>1, <2>2, <2>3, <2>4, TypeOneClerk, Zenon DEF TypeOK
<1>10. ASSUME NEW s \in Srv, AcceptError(s) PROVE TypeOK'
    <2>1. [ls[s] EXCEPT !.dead = TRUE, !.loop = "exit"] \in LockServer
        BY <1>0, Zenon DEF LockServer
    <2>2. ls' = [ls EXCEPT ![s] = [ls[s] EXCEPT !.dead = TRUE, !.loop = "exit"]]
        BY <1>10, Zenon DEF TypeOK, AcceptError
    <2>3. ls' \in [Srv -> LockServer]
        BY <1>0, <2>1, <2>2, TypeOneServer, Zenon
    <2> QED
        BY <1>10, <2>3, Zenon DEF TypeOK, AcceptError
<1>11. ASSUME NEW s \in Srv, SetDying(s) PROVE TypeOK'
    <2>1. [ls[s] EXCEPT !.dying = TRUE] \in LockServer
        BY <1>0, Zenon DEF LockServer
    <2>2. ls' \in [Srv -> LockServer]
        BY <1>11, <2>1, TypeOneServer, Zenon DEF SetDying
    <2> QED
        BY <1>11, <2>2, Zenon DEF TypeOK, SetDying
<1>12. ASSUME NEW s \in Srv, Kill(s) PROVE TypeOK'
    <2>1. [ls[s] EXCEPT !.dead = TRUE, !.open = FALSE] \in LockServer
        BY <1>0, Zenon DEF LockServer
    <2>2. ls' \in [Srv -> LockServer]
        BY <1>12, <2>1, TypeOneServer, Zenon DEF Kill
    <2>3. \A c \in Client : Reset[c].name = ck[c].name /\ (Reset[c].pc = ck[c].pc \/ ck[c].pc = "dialed")
        BY ResetKept, Zenon
    <2>4. Reset \in [Client -> Clerk]
        BY SMT DEF TypeOK, Reset, Clerk
    <2>5. /\ ck' \in [Client -> Clerk]
          /\ \A d \in Client : ck'[d].pc # "idle" => ck'[d].name \in Lockname
        BY <1>12, <2>3, <2>4, Zenon DEF TypeOK, Kill
    <2> QED
        BY <1>12, <2>2, <2>5, Zenon DEF TypeOK, Kill
<1>13. CASE UNCHANGED vars
    BY <1>13 DEF vars, TypeOK
<1> QED
    BY <1>1, <1>2, <1>3, <1>4, <1>5, <1>6, <1>7, <1>8, <1>9, <1>10, <1>11, <1>12, <1>13 DEF Next, Serve

-----------------------------------------------------------------------------
\* The handler grants a name that is not on record, and so that nobody holds.
LEMMA HandleLockGrants ==
    ASSUME LockInv, NEW c \in Client, HandleLock(c)
    PROVE  LockExclusive' /\ GrantsInv'
<1> DEFINE l == ck[c].name
<1>1. /\ ck[c].pc \in {"serving", "deaf"} /\ l \in Lockname
      /\ \A d \in Client \ {c} : ck'[d] = ck[d]
      /\ ck'[c].name = l /\ ck'[c].granted = ck[c].granted /\ ck'[c].held = ck[c].held
      /\ Answered(c)' => l \notin locks["primary"] /\ locks'["primary"] = locks["primary"] \cup {l}
    BY SMT DEF LockInv, TypeOK, Clerk, Srv, HandleLock, Grant, Held, Answered
<1>2. locks["primary"] \subseteq locks'["primary"]
    BY SMT DEF LockInv, TypeOK, Srv, HandleLock, Grant
<1>3. \A d \in Client \ {c} : /\ Holds(d)' = Holds(d) /\ Told(d)' = Told(d)
                              /\ Answered(d)' <=> Answered(d)
    BY <1>1, Zenon DEF Holds, Told, Answer, Answered
<1>4. ~Answered(c) /\ Holds(c) = ck[c].held /\ Told(c) = ck[c].granted
    BY <1>1, SMT DEF Answered, Answer, Holds, Told
<1>5. \A d \in Client : ck'[d].held \subseteq ck'[d].granted
    BY <1>1, SMT DEF LockInv, GrantsInv
<1>6. CASE Answered(c)'
    <2>1. Holds(c)' = Holds(c) \cup {l} /\ Told(c)' = Told(c) \cup {l}
        BY <1>1, <1>4, <1>6, SMT DEF Holds, Told, Answer
    <2>2. \A d \in Client : /\ l \notin Told(d) /\ l \notin Holds(d)
                            /\ Told(d) \subseteq locks["primary"]
        BY <1>1, <1>6, SMT DEF LockInv, GrantsInv, Holds, Told
    <2>3. GrantsInv'
        BY <1>1, <1>3, <1>5, <1>6, <2>1, <2>2, SMT DEF GrantsInv
    <2>4. \A d, e \in Client : d # e => Holds(d)' \cap Holds(e)' = {}
        BY <1>3, <2>1, <2>2, SMT DEF LockInv, LockExclusive
    <2>5. \A d \in Client : Answered(d)' => ck'[d].name \notin ck'[d].held
        BY <1>1, <1>3, <1>4, <2>2, SMT DEF LockInv, LockExclusive
    <2> QED
        BY <2>3, <2>4, <2>5 DEF LockExclusive
<1>7. CASE ~Answered(c)'
    <2>1. Holds(c)' = Holds(c) /\ Told(c)' = Told(c)
        BY <1>1, <1>4, <1>7, SMT DEF Holds, Told, Answer
    <2>2. \A d \in Client : Holds(d)' = Holds(d) /\ Told(d)' = Told(d)
        BY <1>3, <2>1, Zenon
    <2>3. \A d \in Client : Answered(d)' =>
              Answered(d) /\ ck'[d].name = ck[d].name /\ ck'[d].held = ck[d].held
        BY <1>1, <1>3, <1>7, SMT
    <2> QED
        BY <1>2, <1>5, <2>2, <2>3, NothingGranted, SMT
<1> QED
    BY <1>6, <1>7

\* The handler loses a grant only on a deaf connection, and then the first one.
LEMMA HandleLockLoses ==
    ASSUME LockInv, NEW c \in Client, HandleLock(c)
    PROVE  LoopInv' /\ OneLostGrant'
<1> DEFINE l == ck[c].name
<1>1. /\ ck[c].pc \in {"serving", "deaf"} /\ UNCHANGED ls
      /\ \A d \in Client \ {c} : ck'[d] = ck[d]
      /\ ck'[c].name = l /\ ck'[c].granted = ck[c].granted
      /\ ck'[c].pc = IF ck[c].pc = "deaf" THEN "unheard" ELSE "replied"
      /\ ck[c].pc = "serving" => (Answered(c)' <=> l \notin locks["primary"])
      /\ locks'["primary"] = locks["primary"] \cup {l}
    BY SMT DEF LockInv, TypeOK, Clerk, Srv, HandleLock, Grant, Held, Answered
<1>2. \A d \in Client \ {c} : Told(d)' = Told(d)
    BY <1>1, Zenon DEF Told, Answer, Answered
<1>3. Told(c) = ck[c].granted
    BY <1>1, SMT DEF Answered, Answer, Told
<1>4. CASE ck[c].pc = "serving"
    <2>1. Told(c) \subseteq Told(c)' /\ (l \notin locks["primary"] => l \in Told(c)')
        BY <1>1, <1>3, <1>4, SMT DEF Told, Answer
    <2>2. LostGrants' \subseteq LostGrants
        BY <1>1, <1>2, <2>1, SMT DEF LostGrants
    <2>3. LoopInv'
        BY <1>1, <1>4, <2>2, SMT DEF LockInv, LoopInv
    <2>4. OneLostGrant'
        BY <1>1, <2>2, SMT DEF LockInv, OneLostGrant
    <2> QED
        BY <2>3, <2>4
<1>5. CASE ck[c].pc = "deaf"
    <2>1. Told(c)' = Told(c)
        BY <1>1, <1>3, <1>5, SMT DEF Told, Answer, Answered
    <2>2. LostGrants = {} /\ ls["primary"].loop = "deaf" /\ ls["primary"].dying /\ ~ls["primary"].open
        BY <1>5, SMT DEF LockInv, LoopInv
    <2>3. LostGrants' \subseteq {l}
        BY <1>1, <1>2, <2>1, <2>2, SMT DEF LostGrants
    <2>4. LoopInv'
        BY <1>1, <1>5, <2>2, SMT DEF LockInv, LoopInv
    <2>5. OneLostGrant'
        BY <1>1, <2>2, <2>3, SMT DEF OneLostGrant
    <2> QED
        BY <2>4, <2>5
<1> QED
    BY <1>1, <1>4, <1>5

\* Return turns an answer into a lock that is held.
LEMMA ReturnStep ==
    ASSUME LockInv, NEW c \in Client, Return(c)
    PROVE  LockExclusive' /\ GrantsInv' /\ LostGrants' = LostGrants
<1>1. /\ \A d \in Client \ {c} : ck'[d] = ck[d]
      /\ ck'[c].pc = "idle" /\ ck'[c].granted = Told(c) /\ ck'[c].held = Holds(c)
    BY SMT DEF LockInv, TypeOK, Clerk, Return, Holds, Told
<1>2. ~Answered(c)' /\ Holds(c)' = Holds(c) /\ Told(c)' = Told(c)
    BY <1>1, SMT DEF Answered, Answer, Holds, Told
<1>3. \A d \in Client \ {c} : /\ Holds(d)' = Holds(d) /\ Told(d)' = Told(d)
                              /\ Answered(d)' <=> Answered(d)
    BY <1>1, Zenon DEF Holds, Told, Answer, Answered
<1>4. \A d \in Client : Holds(d)' = Holds(d) /\ Told(d)' = Told(d)
    BY <1>2, <1>3, Zenon
<1>5. \A d \in Client : Answered(d)' =>
          Answered(d) /\ ck'[d].name = ck[d].name /\ ck'[d].held = ck[d].held
    BY <1>1, <1>2, <1>3, Zenon
<1>6. \A d \in Client : ck'[d].held \subseteq ck'[d].granted
    BY <1>1, SMT DEF LockInv, GrantsInv, Holds, Told
<1>7. UNCHANGED locks
    BY Zenon DEF Return
<1>8. LostGrants' = LostGrants
    BY <1>4, <1>7, SMT DEF LostGrants
<1> QED
    BY <1>4, <1>5, <1>6, <1>7, <1>8, NothingGranted, SMT

\* Unlock gives a lock up, and changes nothing else that counts.
LEMMA UnlockStep ==
    ASSUME LockInv, NEW c \in Client, NEW l \in Lockname, Unlock(c, l)
    PROVE  LockExclusive' /\ GrantsInv' /\ LostGrants' = LostGrants
<1>1. /\ \A d \in Client \ {c} : ck'[d] = ck[d]
      /\ ck[c].pc = "idle" /\ ck'[c].pc = "unlocked"
      /\ ck'[c].granted = ck[c].granted /\ ck'[c].held = ck[c].held \ {l}
    BY SMT DEF LockInv, TypeOK, Clerk, Unlock
<1>2. ~Answered(c)' /\ Holds(c)' \subseteq Holds(c) /\ Told(c)' = Told(c)
    BY <1>1, SMT DEF Answered, Answer, Holds, Told
<1>3. \A d \in Client \ {c} : /\ Holds(d)' = Holds(d) /\ Told(d)' = Told(d)
                              /\ Answered(d)' <=> Answered(d)
    BY <1>1, Zenon DEF Holds, Told, Answer, Answered
<1>4. \A d \in Client : Holds(d)' \subseteq Holds(d) /\ Told(d)' = Told(d)
    BY <1>2, <1>3, SMT
<1>5. \A d \in Client : Answered(d)' =>
          Answered(d) /\ ck'[d].name = ck[d].name /\ ck'[d].held = ck[d].held
    BY <1>1, <1>2, <1>3, Zenon
<1>6. \A d \in Client : ck'[d].held \subseteq ck'[d].granted
    BY <1>1, SMT DEF LockInv, GrantsInv
<1>7. UNCHANGED locks
    BY Zenon DEF Unlock
<1>8. LostGrants' = LostGrants
    BY <1>4, <1>7, SMT DEF LostGrants
<1> QED
    BY <1>4, <1>5, <1>6, <1>7, <1>8, NothingGranted, SMT

\* A step that keeps LostGrants keeps LoopInv and OneLostGrant: where the loop
\* goes, and the clerk it serves.
LEMMA LoopStep ==
    ASSUME LockInv, Next, LostGrants' = LostGrants, \A c \in Client : ~HandleLock(c)
    PROVE  LoopInv' /\ OneLostGrant'
<1>0. "primary" \in Srv /\ \A s \in Srv : ls[s] \in LockServer
    BY DEF LockInv, TypeOK, Srv
<1>1. ASSUME NEW c \in Client, NEW l \in Lockname, Lock(c, l) \/ Unlock(c, l)
      PROVE  LoopInv' /\ OneLostGrant'
    <2>1. /\ UNCHANGED ls /\ \A d \in Client \ {c} : ck'[d] = ck[d]
          /\ ck'[c].pc \in {"dialed", "failed", "unlocked"}
        BY <1>1, SMT DEF LockInv, TypeOK, Clerk, Lock, Unlock
    <2> QED
        BY <2>1, SMT DEF LockInv, LoopInv, OneLostGrant
<1>2. ASSUME NEW c \in Client, Return(c) PROVE LoopInv' /\ OneLostGrant'
    <2>1. UNCHANGED ls /\ ck'[c].pc = "idle" /\ \A d \in Client \ {c} : ck'[d] = ck[d]
        BY <1>2, SMT DEF LockInv, TypeOK, Clerk, Return
    <2> QED
        BY <2>1, SMT DEF LockInv, LoopInv, OneLostGrant
<1>3. ASSUME NEW c \in Client, Accept(c) PROVE LoopInv' /\ OneLostGrant'
    <2>1. /\ ck'[c].pc = "accepted" /\ \A d \in Client \ {c} : ck'[d] = ck[d]
          /\ ls["primary"].loop = "accept" /\ ls'["primary"].loop = "accepted"
        BY <1>0, <1>3, SMT DEF LockInv, TypeOK, Clerk, LockServer, Accept
    <2> QED
        BY <2>1, SMT DEF LockInv, LoopInv, OneLostGrant
<1>4. ASSUME NEW c \in Client, CloseDead(c) PROVE LoopInv' /\ OneLostGrant'
    <2>1. /\ ck[c].pc = "accepted" /\ ck'[c].pc = "failed" /\ \A d \in Client \ {c} : ck'[d] = ck[d]
          /\ ls'["primary"].loop = "exit"
        BY <1>0, <1>4, SMT DEF LockInv, TypeOK, Clerk, LockServer, CloseDead
    <2> QED
        BY <2>1, SMT DEF LockInv, LoopInv, OneLostGrant
<1>5. ASSUME NEW c \in Client, ServeDeaf(c) PROVE LoopInv' /\ OneLostGrant'
    <2>1. /\ ck[c].pc = "accepted" /\ ck'[c].pc = "deaf"
          /\ \A d \in Client \ {c} : ck'[d].pc = ck[d].pc \/ ck'[d].pc = "failed"
          /\ ls'["primary"].loop = "deaf" /\ ls'["primary"].dying /\ ~ls'["primary"].open
        BY <1>0, <1>5, ResetKept, SMT DEF LockInv, TypeOK, Clerk, LockServer, ServeDeaf
    <2> QED
        BY <2>1, SMT DEF LockInv, LoopInv, OneLostGrant
<1>6. ASSUME NEW c \in Client, ServeConn(c) PROVE LoopInv' /\ OneLostGrant'
    <2>1. /\ ck[c].pc = "accepted" /\ ck'[c].pc = "serving" /\ \A d \in Client \ {c} : ck'[d] = ck[d]
          /\ ls'["primary"].loop = "accept"
        BY <1>0, <1>6, SMT DEF LockInv, TypeOK, Clerk, LockServer, ServeConn
    <2> QED
        BY <2>1, SMT DEF LockInv, LoopInv, OneLostGrant
<1>7. ASSUME NEW c \in Client, CloseDeaf(c) PROVE LoopInv' /\ OneLostGrant'
    <2>1. /\ ck[c].pc = "unheard" /\ ck'[c].pc = "failed" /\ \A d \in Client \ {c} : ck'[d] = ck[d]
          /\ ls'["primary"].loop = "exit" /\ ls'["primary"].dying = ls["primary"].dying
          /\ ls'["primary"].open = ls["primary"].open
        BY <1>0, <1>7, SMT DEF LockInv, TypeOK, Clerk, LockServer, CloseDeaf
    <2> QED
        BY <2>1, SMT DEF LockInv, LoopInv, OneLostGrant
<1>8. ASSUME NEW s \in Srv, AcceptError(s) \/ SetDying(s) \/ Kill(s) PROVE LoopInv' /\ OneLostGrant'
    <2>1. \A d \in Client : ck'[d].pc = ck[d].pc \/ ck'[d].pc = "failed"
        BY <1>8, ResetKept, SMT DEF LockInv, TypeOK, Clerk, AcceptError, SetDying, Kill
    <2>2. /\ \/ ls'["primary"].loop = ls["primary"].loop
             \/ ls["primary"].loop = "accept" /\ ls'["primary"].loop = "exit"
          /\ ls["primary"].dying => ls'["primary"].dying
          /\ ls'["primary"].open => ls["primary"].open
        BY <1>0, <1>8, SMT DEF LockInv, TypeOK, LockServer, Srv, AcceptError, SetDying, Kill
    <2> QED
        BY <2>1, <2>2, SMT DEF LockInv, LoopInv, OneLostGrant
<1> QED
    BY <1>1, <1>2, <1>3, <1>4, <1>5, <1>6, <1>7, <1>8 DEF Next, Serve

-----------------------------------------------------------------------------
\* lockservice: a lock is held by one clerk at a time, and at most one grant is
\* lost, to the one request that a dying primary answers on a deaf connection.
THEOREM LockSafety == Spec => [](TypeOK /\ LockExclusive /\ OneLostGrant)
<1>1. Init => LockInv
    <2>1. Init => TypeOK
        BY SMT DEF Init, TypeOK, LockServer, Clerk, Srv
    <2>2. Init => LockExclusive /\ GrantsInv
        BY SMT DEF Init, LockExclusive, GrantsInv, Holds, Told, Answer, Answered, Srv
    <2>3. Init => LostGrants = {}
        BY SMT DEF Init, LostGrants, Srv
    <2>4. Init => LoopInv /\ OneLostGrant
        BY <2>3, SMT DEF Init, LoopInv, OneLostGrant, Srv
    <2> QED
        BY <2>1, <2>2, <2>4 DEF LockInv
<1>2. LockInv /\ [Next]_vars => LockInv'
    <2> SUFFICES ASSUME LockInv, [Next]_vars
                 PROVE  LockExclusive' /\ GrantsInv' /\ LoopInv' /\ OneLostGrant'
        BY TypeStep DEF LockInv
    <2> DEFINE Kept == LockExclusive' /\ GrantsInv' /\ LostGrants' = LostGrants
    <2>1. ASSUME NEW c \in Client, NEW l \in Lockname, Lock(c, l) PROVE Kept
        BY <2>1, AnswersKept, SMT DEF LockInv, TypeOK, Clerk, Lock, Answered
    <2>2. ASSUME NEW c \in Client, Accept(c) \/ CloseDead(c) \/ ServeConn(c) \/ CloseDeaf(c) PROVE Kept
        BY <2>2, AnswersKept, SMT DEF LockInv, TypeOK, Clerk, Accept, CloseDead, ServeConn, CloseDeaf, Answered
    <2>3. ASSUME NEW c \in Client, ServeDeaf(c) PROVE Kept
        BY <2>3, AnswersKept, ResetKept, SMT DEF LockInv, Clerk, ServeDeaf, Answered
    <2>4. ASSUME NEW s \in Srv, Kill(s) PROVE Kept
        BY <2>4, AnswersKept, ResetKept, SMT DEF LockInv, Kill, Answered
    <2>5. ASSUME UNCHANGED <<locks, ck>> PROVE Kept
        BY <2>5, AnswersKept, SMT DEF Answered
    <2>6. CASE Next /\ \A c \in Client : ~HandleLock(c)
        <3>1. Kept
            BY <2>1, <2>2, <2>3, <2>4, <2>5, <2>6, ReturnStep, UnlockStep, ZenonT(30)
            DEF Next, Serve, AcceptError, SetDying
        <3> QED
            BY <2>6, <3>1, LoopStep
    <2>7. CASE UNCHANGED vars
        <3>1. Kept
            BY <2>5, <2>7, Zenon DEF vars
        <3> QED
            BY <2>7, <3>1, SMT DEF LockInv, LoopInv, OneLostGrant, vars
    <2> QED
        BY <2>6, <2>7, HandleLockGrants, HandleLockLoses, Zenon
<1> QED
    BY <1>1, <1>2, PTL DEF Spec, LockInv

\* server.go, Lock: no two clerks hold a lock at the same time, and none is told
\* true for one it still holds.
THEOREM OneHolder == Spec => []LockExclusive
BY LockSafety, PTL

\* server.go, the accept loop: a lock that was taken and that nobody was told of
\* is the only one, and the primary that took it was dying and takes no more
\* connections.
THEOREM AtMostOneLost == Spec => []OneLostGrant
BY LockSafety, PTL
=============================================================================
