-------------------------- MODULE DiskStoreProofs ---------------------------
(***************************************************************************)
(* Proofs about DiskStore, for any keys and values: the inductive          *)
(* invariant DiskInv, and from it the four invariants of the module.       *)
(***************************************************************************)
EXTENDS DiskStore, TLAPS

\* The program counter against the directory, the temporary file, the keys still
\* to be put and the keys that failed; only temporary files are ever torn.
StepInv ==
    /\ file \in Map
    /\ pc \in {"write", "rename"} => dir /\ key \notin todo /\ key \notin failed /\ goal[key] # NoFile
    /\ pc = "rename" => temp[key] = goal[key]
    /\ \A k \in todo : goal[k] # NoFile /\ k \notin failed
    /\ pc = "remove" => /\ dir /\ kind = "replace" /\ todo = {k \in Key : goal[k] # NoFile}
                        /\ failed = {} /\ ~left
    /\ Free => todo = {}

\* A put writes one key and touches nothing before its rename.
PutInv ==
    kind = "put" =>
        /\ ~Free => /\ file = before /\ failed = {}
                    /\ \A k \in Key : k \notin todo /\ (pc = "put" \/ k # key) => before[k] = goal[k]
        /\ pc = "put" => \E k \in Key : todo = {k}
        /\ pc \in {"write", "rename"} => todo = {}

\* filePut has returned nil for k.
Done(k) ==
    goal[k] # NoFile /\ k \notin todo /\ k \notin failed /\ (pc \in {"write", "rename"} => k # key)

\* A replacement first thins the old shard out, then puts the new one together.
ReplaceInv ==
    kind = "replace" =>
        /\ pc = "remove" => \A k \in Key : file[k] \in {before[k], NoFile}
        /\ pc \in {"put", "write", "rename"} =>
              \A k \in Key : IF Done(k) THEN file[k] = goal[k] ELSE file[k] \in Unput(k)

DiskInv ==
    TypeOK /\ StepInv /\ PutInv /\ ReplaceInv /\ PutAtomic /\ ReplaceNoMix /\ OperationDone

\* DiskInv is inductive: it holds of the empty directory and every step of
\* filePut and fileReplaceShard, each error of WriteFile, Rename and RemoveAll,
\* and a crash between any two steps preserve it.
THEOREM DiskCorrect == Spec => []DiskInv
<1> USE ContentAssumption DEF TypeOK, Content, Map, Empty, Free, fileReadShard, op, errors, Unput
<1>1. Init => DiskInv
    BY Zenon DEF Init, DiskInv, StepInv, PutInv, ReplaceInv, Done, PutAtomic, ReplaceNoMix, OperationDone
<1>2. ASSUME DiskInv, [Next]_vars
      PROVE  DiskInv'
  <2> USE <1>2 DEF DiskInv
  <2>1. ASSUME NEW k \in Key, NEW v \in Value, filePut(k, v)
        PROVE  DiskInv'
    <3>1. TypeOK'
        BY <2>1 DEF filePut, StepInv, PutAtomic, ReplaceNoMix
    <3>2. StepInv'
        BY <2>1 DEF filePut, StepInv
    <3>3. PutInv'
        BY <2>1 DEF filePut, StepInv, PutInv
    <3>4. ReplaceInv'
        BY <2>1 DEF filePut, StepInv, ReplaceInv, Done
    <3>5. PutAtomic'
        BY <2>1 DEF filePut, StepInv, PutInv, PutAtomic
    <3>6. ReplaceNoMix'
        BY <2>1 DEF filePut, StepInv, ReplaceInv, Done, ReplaceNoMix
    <3>7. OperationDone'
        BY <2>1 DEF filePut, StepInv, PutInv, ReplaceInv, Done, OperationDone
    <3> QED
        BY <3>1, <3>2, <3>3, <3>4, <3>5, <3>6, <3>7
  <2>2. ASSUME NEW m \in Map, fileReplaceShard(m)
        PROVE  DiskInv'
    <3>1. TypeOK'
        BY <2>2 DEF fileReplaceShard, StepInv, PutAtomic, ReplaceNoMix
    <3>2. StepInv'
        BY <2>2 DEF fileReplaceShard, StepInv
    <3>3. PutInv'
        BY <2>2 DEF fileReplaceShard, StepInv, PutInv
    <3>4. ReplaceInv'
        BY <2>2 DEF fileReplaceShard, StepInv, ReplaceInv, Done
    <3>5. PutAtomic'
        BY <2>2 DEF fileReplaceShard, StepInv, PutInv, PutAtomic
    <3>6. ReplaceNoMix'
        BY <2>2 DEF fileReplaceShard, StepInv, ReplaceInv, Done, ReplaceNoMix
    <3>7. OperationDone'
        BY <2>2 DEF fileReplaceShard, StepInv, PutInv, ReplaceInv, Done, OperationDone
    <3> QED
        BY <3>1, <3>2, <3>3, <3>4, <3>5, <3>6, <3>7
  <2>3. CASE RemoveFile
    <3>1. TypeOK'
        BY <2>3 DEF RemoveFile, StepInv
    <3>2. StepInv'
        BY <2>3 DEF RemoveFile, StepInv
    <3>3. PutInv'
        BY <2>3 DEF RemoveFile, StepInv, PutInv
    <3>4. ReplaceInv'
        BY <2>3 DEF RemoveFile, StepInv, ReplaceInv, Done
    <3>5. PutAtomic'
        BY <2>3 DEF RemoveFile, StepInv, PutInv, PutAtomic
    <3>6. ReplaceNoMix'
        BY <2>3 DEF RemoveFile, StepInv, ReplaceInv, Done, ReplaceNoMix
    <3>7. OperationDone'
        BY <2>3 DEF RemoveFile, StepInv, PutInv, ReplaceInv, Done, OperationDone
    <3> QED
        BY <3>1, <3>2, <3>3, <3>4, <3>5, <3>6, <3>7
  <2>4. CASE RemoveDir
    <3>1. TypeOK'
        BY <2>4, Zenon DEF RemoveDir, AllRemoved, StepInv
    <3>2. StepInv'
        BY <2>4 DEF RemoveDir, AllRemoved, StepInv
    <3>3. PutInv'
        BY <2>4 DEF RemoveDir, AllRemoved, StepInv, PutInv
    <3>4. ReplaceInv'
        BY <2>4 DEF RemoveDir, AllRemoved, StepInv, ReplaceInv, Done
    <3>5. PutAtomic'
        BY <2>4 DEF RemoveDir, AllRemoved, StepInv, PutInv, PutAtomic
    <3>6. ReplaceNoMix'
        BY <2>4 DEF RemoveDir, AllRemoved, StepInv, ReplaceInv, Done, ReplaceNoMix
    <3>7. OperationDone'
        BY <2>4 DEF RemoveDir, AllRemoved, StepInv, PutInv, ReplaceInv, Done, OperationDone
    <3> QED
        BY <3>1, <3>2, <3>3, <3>4, <3>5, <3>6, <3>7
  <2>5. CASE RemoveFails
    <3>1. TypeOK'
        BY <2>5 DEF RemoveFails, StepInv
    <3>2. StepInv'
        BY <2>5 DEF RemoveFails, StepInv
    <3>3. PutInv'
        BY <2>5 DEF RemoveFails, StepInv, PutInv
    <3>4. ReplaceInv'
        BY <2>5 DEF RemoveFails, StepInv, ReplaceInv, Done
    <3>5. PutAtomic'
        BY <2>5 DEF RemoveFails, StepInv, PutInv, PutAtomic
    <3>6. ReplaceNoMix'
        BY <2>5 DEF RemoveFails, StepInv, ReplaceInv, Done, ReplaceNoMix
    <3>7. OperationDone'
        BY <2>5 DEF RemoveFails, StepInv, PutInv, ReplaceInv, Done, OperationDone
    <3> QED
        BY <3>1, <3>2, <3>3, <3>4, <3>5, <3>6, <3>7
  <2>6. ASSUME NEW k \in Key, CreateTemp(k)
        PROVE  DiskInv'
    <3>1. TypeOK'
        BY <2>6 DEF CreateTemp, StepInv
    <3>2. StepInv'
        BY <2>6 DEF CreateTemp, StepInv
    <3>3. PutInv'
        BY <2>6 DEF CreateTemp, StepInv, PutInv
    <3>4. ReplaceInv'
        BY <2>6 DEF CreateTemp, StepInv, ReplaceInv, Done
    <3>5. PutAtomic'
        BY <2>6 DEF CreateTemp, StepInv, PutInv, PutAtomic
    <3>6. ReplaceNoMix'
        BY <2>6 DEF CreateTemp, StepInv, ReplaceInv, Done, ReplaceNoMix
    <3>7. OperationDone'
        BY <2>6 DEF CreateTemp, StepInv, PutInv, ReplaceInv, Done, OperationDone
    <3> QED
        BY <3>1, <3>2, <3>3, <3>4, <3>5, <3>6, <3>7
  <2>7. ASSUME NEW k \in Key, CreateFails(k)
        PROVE  DiskInv'
    <3>1. TypeOK'
        BY <2>7 DEF CreateFails, Return, StepInv
    <3>2. StepInv'
        BY <2>7 DEF CreateFails, Return, StepInv
    <3>3. PutInv'
        BY <2>7 DEF CreateFails, Return, StepInv, PutInv
    <3>4. ReplaceInv'
        BY <2>7 DEF CreateFails, Return, StepInv, ReplaceInv, Done
    <3>5. PutAtomic'
        BY <2>7 DEF CreateFails, Return, StepInv, PutInv, PutAtomic
    <3>6. ReplaceNoMix'
        BY <2>7 DEF CreateFails, Return, StepInv, ReplaceInv, Done, ReplaceNoMix
    <3>7. OperationDone'
        BY <2>7 DEF CreateFails, Return, StepInv, PutInv, ReplaceInv, Done, OperationDone
    <3> QED
        BY <3>1, <3>2, <3>3, <3>4, <3>5, <3>6, <3>7
  <2>8. CASE WriteTemp
    <3>1. TypeOK'
        BY <2>8 DEF WriteTemp, StepInv
    <3>2. StepInv'
        BY <2>8 DEF WriteTemp, StepInv
    <3>3. PutInv'
        BY <2>8 DEF WriteTemp, StepInv, PutInv
    <3>4. ReplaceInv'
        BY <2>8 DEF WriteTemp, StepInv, ReplaceInv, Done
    <3>5. PutAtomic'
        BY <2>8 DEF WriteTemp, StepInv, PutInv, PutAtomic
    <3>6. ReplaceNoMix'
        BY <2>8 DEF WriteTemp, StepInv, ReplaceInv, Done, ReplaceNoMix
    <3>7. OperationDone'
        BY <2>8 DEF WriteTemp, StepInv, PutInv, ReplaceInv, Done, OperationDone
    <3> QED
        BY <3>1, <3>2, <3>3, <3>4, <3>5, <3>6, <3>7
  <2>9. CASE Rename
    <3>1. TypeOK'
        BY <2>9 DEF Rename, Return, StepInv
    <3>2. StepInv'
        BY <2>9 DEF Rename, Return, StepInv
    <3>3. PutInv'
        BY <2>9 DEF Rename, Return, StepInv, PutInv
    <3>4. ReplaceInv'
        BY <2>9 DEF Rename, Return, StepInv, ReplaceInv, Done
    <3>5. PutAtomic'
        BY <2>9 DEF Rename, Return, StepInv, PutInv, PutAtomic
    <3>6. ReplaceNoMix'
        BY <2>9 DEF Rename, Return, StepInv, ReplaceInv, Done, ReplaceNoMix
    <3>7. OperationDone'
        BY <2>9 DEF Rename, Return, StepInv, PutInv, ReplaceInv, Done, OperationDone
    <3> QED
        BY <3>1, <3>2, <3>3, <3>4, <3>5, <3>6, <3>7
  <2>10. CASE PutFails
    <3>1. TypeOK'
        BY <2>10 DEF PutFails, Return, StepInv
    <3>2. StepInv'
        BY <2>10 DEF PutFails, Return, StepInv
    <3>3. PutInv'
        BY <2>10 DEF PutFails, Return, StepInv, PutInv
    <3>4. ReplaceInv'
        BY <2>10 DEF PutFails, Return, StepInv, ReplaceInv, Done
    <3>5. PutAtomic'
        BY <2>10 DEF PutFails, Return, StepInv, PutInv, PutAtomic
    <3>6. ReplaceNoMix'
        BY <2>10 DEF PutFails, Return, StepInv, ReplaceInv, Done, ReplaceNoMix
    <3>7. OperationDone'
        BY <2>10 DEF PutFails, Return, StepInv, PutInv, ReplaceInv, Done, OperationDone
    <3> QED
        BY <3>1, <3>2, <3>3, <3>4, <3>5, <3>6, <3>7
  <2>11. CASE NothingToPut
    <3>1. TypeOK'
        BY <2>11 DEF NothingToPut, StepInv
    <3>2. StepInv'
        BY <2>11 DEF NothingToPut, StepInv
    <3>3. PutInv'
        BY <2>11 DEF NothingToPut, StepInv, PutInv
    <3>4. ReplaceInv'
        BY <2>11 DEF NothingToPut, StepInv, ReplaceInv, Done
    <3>5. PutAtomic'
        BY <2>11 DEF NothingToPut, StepInv, PutInv, PutAtomic
    <3>6. ReplaceNoMix'
        BY <2>11 DEF NothingToPut, StepInv, ReplaceInv, Done, ReplaceNoMix
    <3>7. OperationDone'
        BY <2>11 DEF NothingToPut, StepInv, PutInv, ReplaceInv, Done, OperationDone
    <3> QED
        BY <3>1, <3>2, <3>3, <3>4, <3>5, <3>6, <3>7
  <2>12. CASE Crash
    <3>1. TypeOK'
        BY <2>12 DEF Crash, StepInv
    <3>2. StepInv'
        BY <2>12 DEF Crash, StepInv
    <3>3. PutInv'
        BY <2>12 DEF Crash, StepInv, PutInv
    <3>4. ReplaceInv'
        BY <2>12 DEF Crash, StepInv, ReplaceInv, Done
    <3>5. PutAtomic'
        BY <2>12 DEF Crash, StepInv, PutInv, PutAtomic
    <3>6. ReplaceNoMix'
        BY <2>12 DEF Crash, StepInv, ReplaceInv, Done, ReplaceNoMix
    <3>7. OperationDone'
        BY <2>12 DEF Crash, StepInv, PutInv, ReplaceInv, Done, OperationDone
    <3> QED
        BY <3>1, <3>2, <3>3, <3>4, <3>5, <3>6, <3>7
  <2>13. CASE UNCHANGED vars
      BY <2>13 DEF vars, StepInv, PutInv, ReplaceInv, Done, PutAtomic, ReplaceNoMix, OperationDone
  <2> QED
      BY <2>1, <2>2, <2>3, <2>4, <2>5, <2>6, <2>7, <2>8, <2>9, <2>10, <2>11, <2>12, <2>13 DEF Next
<1> QED
    BY <1>1, <1>2, PTL DEF Spec

\* Types are kept, and no file outlives its directory.
THEOREM TypeCorrect == Spec => []TypeOK
<1>1. DiskInv => TypeOK
    BY DEF DiskInv
<1> QED
    BY <1>1, DiskCorrect, PTL

\* filePut replaces a key's value atomically, whatever step a crash cuts or an
\* error ends.
THEOREM PutsAtomic == Spec => []PutAtomic
<1>1. DiskInv => PutAtomic
    BY DEF DiskInv
<1> QED
    BY <1>1, DiskCorrect, PTL

\* fileReplaceShard never leaves old and new files side by side, unless RemoveAll
\* failed: neither a crash nor a failed filePut does that.
THEOREM ReplacesNeverMix == Spec => []ReplaceNoMix
<1>1. DiskInv => ReplaceNoMix
    BY DEF DiskInv
<1> QED
    BY <1>1, DiskCorrect, PTL

\* filePut returns nil exactly when it replaced the value, and fileReplaceShard,
\* which goes on when filePut fails, returns with the new values of exactly the
\* keys for which it did not.
THEOREM OperationsDone == Spec => []OperationDone
<1>1. DiskInv => OperationDone
    BY DEF DiskInv
<1> QED
    BY <1>1, DiskCorrect, PTL
=============================================================================
