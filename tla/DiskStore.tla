----------------------------- MODULE DiskStore ------------------------------
(***************************************************************************)
(* The files of one shard of src/diskv/server.go: filePut,                 *)
(* fileReplaceShard and fileReadShard, with any call of the file system    *)
(* failing, and the process dying at any point and starting again on the   *)
(* directory it left.  Keys stand for their file names, which base32 keeps *)
(* apart.  A server runs one operation at a time: DisKV.mu is there for    *)
(* that.                                                                   *)
(***************************************************************************)
EXTENDS Naturals, FiniteSets

CONSTANTS
    Key,
    Value,
    NoFile,  \* content of a file that does not exist
    Torn     \* content of a file that is being written

ASSUME ContentAssumption == NoFile \notin Value /\ Torn \notin Value /\ NoFile # Torn

Content == Value \cup {NoFile, Torn}

\* A shard's content as a map.
Map == [Key -> Value \cup {NoFile}]

VARIABLES
    dir,     \* the shard's directory exists
    file,    \* the file "key-k" of each key
    temp,    \* the file "temp-k" of each key
    pc,      \* the step of the operation going on
    todo,    \* the keys still to be put, the current one first
    key,     \* the key being put
    kind,    \* the last operation begun: "put" or "replace"
    before,  \* what the shard held when it began
    goal,    \* what it shall hold in the end
    failed,  \* the keys for which filePut returned an error since
    left     \* RemoveAll returned an error since

vars == <<dir, file, temp, pc, todo, key, kind, before, goal, failed, left>>
op == <<kind, before, goal>>
errors == <<failed, left>>

\* fileReadShard: the directory is made if needed; only "key-" files count.
fileReadShard == file

Empty == [k \in Key |-> NoFile]

Init ==
    /\ dir = FALSE /\ file = Empty /\ temp = Empty
    /\ pc = "idle" /\ todo = {} /\ key \in Key
    /\ kind = "put" /\ before = Empty /\ goal = Empty
    /\ failed = {} /\ left = FALSE

-----------------------------------------------------------------------------
\* No operation is going on: the last one is over, or was cut short.
Free == pc \in {"idle", "cut"}

\* filePut is called: an operation of its own.
filePut(k, v) ==
    /\ Free
    /\ pc' = "put" /\ todo' = {k}
    /\ kind' = "put" /\ before' = fileReadShard /\ goal' = [fileReadShard EXCEPT ![k] = v]
    /\ failed' = {} /\ left' = FALSE
    /\ UNCHANGED <<dir, file, temp, key>>

\* fileReplaceShard is called; shardDir makes the directory that RemoveAll
\* removes.
fileReplaceShard(m) ==
    /\ Free
    /\ pc' = "remove" /\ dir' = TRUE /\ todo' = {k \in Key : m[k] # NoFile}
    /\ kind' = "replace" /\ before' = fileReadShard /\ goal' = m
    /\ failed' = {} /\ left' = FALSE
    /\ UNCHANGED <<file, temp, key>>

\* os.RemoveAll removes the files one by one, then the directory.
RemoveFile ==
    /\ pc = "remove"
    /\ \E k \in Key :
          \/ file[k] # NoFile /\ file' = [file EXCEPT ![k] = NoFile] /\ UNCHANGED temp
          \/ temp[k] # NoFile /\ temp' = [temp EXCEPT ![k] = NoFile] /\ UNCHANGED file
    /\ UNCHANGED <<dir, pc, todo, key, op, errors>>

AllRemoved == pc = "remove" /\ file = Empty /\ temp = Empty

RemoveDir ==
    /\ AllRemoved
    /\ dir' = FALSE /\ pc' = "put"
    /\ UNCHANGED <<file, temp, todo, key, op, errors>>

\* RemoveAll gives up with an error, which fileReplaceShard does not look at.
RemoveFails ==
    /\ pc = "remove"
    /\ pc' = "put" /\ left' = TRUE
    /\ UNCHANGED <<dir, file, temp, todo, key, op, failed>>

\* Where filePut returns to: its caller, or the next key of fileReplaceShard.
Return(rest) == pc' = IF rest = {} THEN "idle" ELSE "put"

\* Fault: the key's own file is written in place.
CreateInPlace(k) ==
    /\ pc = "put" /\ k \in todo
    /\ dir' = TRUE /\ key' = k /\ todo' = todo \ {k}
    /\ file' = [file EXCEPT ![k] = Torn] /\ temp' = [temp EXCEPT ![k] = Torn]
    /\ pc' = "write"
    /\ UNCHANGED <<op, errors>>

\* Fault: the files of a new directory are written in place.
CreateInNewDir(k) ==
    /\ pc = "put" /\ k \in todo
    /\ dir' = TRUE /\ key' = k /\ todo' = todo \ {k}
    /\ temp' = [temp EXCEPT ![k] = Torn]
    /\ file' = IF kind = "replace" THEN [file EXCEPT ![k] = Torn] ELSE file
    /\ pc' = "write"
    /\ UNCHANGED <<op, errors>>

\* The next key, in the order that Go leaves open for a map: shardDir, and
\* WriteFile creates or truncates the temporary file.
CreateTemp(k) ==
    /\ pc = "put" /\ k \in todo
    /\ dir' = TRUE /\ key' = k /\ todo' = todo \ {k}
    /\ temp' = [temp EXCEPT ![k] = Torn]
    /\ pc' = "write"
    /\ UNCHANGED <<file, op, errors>>

\* WriteFile cannot open the temporary file: filePut returns the error.
CreateFails(k) ==
    /\ pc = "put" /\ k \in todo
    /\ dir' = TRUE /\ key' = k /\ todo' = todo \ {k}
    /\ failed' = failed \cup {k}
    /\ Return(todo \ {k})
    /\ UNCHANGED <<file, temp, op, left>>

\* WriteFile writes the value.
WriteTemp ==
    /\ pc = "write"
    /\ temp' = [temp EXCEPT ![key] = goal[key]]
    /\ pc' = "rename"
    /\ UNCHANGED <<dir, file, todo, key, op, errors>>

\* os.Rename; filePut returns nil.
Rename ==
    /\ pc = "rename"
    /\ file' = [file EXCEPT ![key] = temp[key]]
    /\ temp' = [temp EXCEPT ![key] = NoFile]
    /\ Return(todo)
    /\ UNCHANGED <<dir, todo, key, op, errors>>

\* Fault: filePut returns nil although WriteFile or Rename failed.
PutFailsSilently ==
    /\ pc \in {"write", "rename"}
    /\ Return(todo)
    /\ UNCHANGED <<dir, file, temp, todo, key, op, errors>>

\* WriteFile fails half way, or Rename fails: filePut returns the error and
\* leaves the temporary file.  fileReplaceShard does not look at the error.
PutFails ==
    /\ pc \in {"write", "rename"}
    /\ failed' = failed \cup {key}
    /\ Return(todo)
    /\ UNCHANGED <<dir, file, temp, todo, key, op, left>>

\* A map with no keys: fileReplaceShard returns after RemoveAll.
NothingToPut ==
    /\ pc = "put" /\ todo = {}
    /\ pc' = "idle"
    /\ UNCHANGED <<dir, file, temp, todo, key, op, errors>>

\* The process dies (shardDir ends it when it cannot make the directory) and is
\* started again: StartServer begins with what is on the disk, whatever the
\* operation had in mind.
Crash ==
    /\ ~Free
    /\ pc' = "cut" /\ todo' = {}
    /\ UNCHANGED <<dir, file, temp, key, op, errors>>

Next ==
    \/ \E k \in Key, v \in Value : filePut(k, v)
    \/ \E m \in Map : fileReplaceShard(m)
    \/ RemoveFile \/ RemoveDir \/ RemoveFails
    \/ \E k \in Key : CreateTemp(k) \/ CreateFails(k)
    \/ WriteTemp \/ Rename \/ PutFails \/ NothingToPut
    \/ Crash

Spec == Init /\ [][Next]_vars

-----------------------------------------------------------------------------
\* Every variable holds values of its type, and no file is without its directory.
TypeOK ==
    /\ dir \in BOOLEAN
    /\ file \in [Key -> Content] /\ temp \in [Key -> Content]
    /\ pc \in {"idle", "cut", "remove", "put", "write", "rename"}
    /\ todo \subseteq Key /\ key \in Key
    /\ kind \in {"put", "replace"} /\ before \in Map /\ goal \in Map
    /\ failed \subseteq Key /\ left \in BOOLEAN
    /\ ~dir => file = Empty /\ temp = Empty

\* filePut: "uses rename() to make the replacement atomic with respect to
\* crashes": at every moment the shard reads as it did before the put or as it
\* shall after it, never with part of a value, whether the process dies or
\* WriteFile or Rename fails.
PutAtomic == kind = "put" => fileReadShard \in {before, goal}

\* The value of a key that fileReplaceShard did not put: none, unless RemoveAll
\* failed and left the old one.
Unput(k) == {NoFile} \cup (IF left THEN {before[k]} ELSE {})

\* What an operation that returned has done, whatever an earlier crash or error
\* had left in the directory.  filePut told the truth: the key is replaced if it
\* returned nil, and the shard is as it was if it returned an error.
\* fileReplaceShard, which drops the errors, holds the new values of exactly
\* those keys whose filePut returned nil, and nothing of the old shard unless
\* RemoveAll failed.
OperationDone ==
    pc = "idle" =>
        /\ kind = "put" => fileReadShard = IF failed = {} THEN goal ELSE before
        /\ kind = "replace" =>
              \A k \in Key : IF goal[k] = NoFile \/ k \in failed
                             THEN fileReadShard[k] \in Unput(k)
                             ELSE fileReadShard[k] = goal[k]

\* fileReplaceShard is not atomic, but it never mixes unless RemoveAll fails: a
\* crash or a failed put leaves part of the old shard or part of the new one, in
\* whole values.
ReplaceNoMix ==
    kind = "replace" /\ ~left =>
        \/ \A k \in Key : fileReadShard[k] \in {before[k], NoFile}
        \/ \A k \in Key : fileReadShard[k] \in {goal[k], NoFile}
=============================================================================
