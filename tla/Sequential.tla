----------------------------- MODULE Sequential -----------------------------
(***************************************************************************)
(* What a MapReduce job computes: Sequential of src/mapreduce/master.go    *)
(* with doMap, doReduce, merge and CleanupFiles, and the two applications  *)
(* of src/main, word count (wc.go) and inverted index (ii.go), against     *)
(* their definitions.  Reading and writing may fail, and the program may   *)
(* be run again in the directory it left.                                  *)
(*                                                                         *)
(* A file is its name's entry in disk.  An input is the sequence of its    *)
(* words.  The pairs that mapF returns have different keys, in an order    *)
(* that Go leaves open and no reader depends on: a function of the keys.   *)
(***************************************************************************)
EXTENDS Naturals, Sequences, FiniteSets, Functions, FiniteSetsExt, SequencesExt

CONSTANTS
    Key,       \* words
    MaxLen,    \* bound: words of an input
    MaxOld,    \* bound: words of an input of an earlier job
    MaxJobs,   \* bound: jobs, one after the other in the same directory
    NFiles,    \* bound: inputs
    MaxReduce  \* bound: reduce tasks

VARIABLES
    app,       \* "wc" or "ii"
    files,     \* the inputs, mr.files
    nReduce,
    ihash,     \* any hash function: FNV is not under study
    pc,        \* where run is
    i,         \* the loop variable of Sequential's schedule
    disk,      \* the files that exist, by name
    job,       \* the number of this job
    unread     \* the inputs that doMap of this job could not read

input == <<app, files, nReduce, ihash, job>>
vars == <<input, pc, i, disk, unread>>

reduceName(m, r) == <<"mrtmp", m, r>>
mergeName(r) == <<"mrtmp-res", r>>
outName == <<"mrtmp">>

\* What the inputs of job n may be.
Corpora(n) == TupleOf(BoundedSeq(Key, IF n < MaxJobs THEN MaxOld ELSE MaxLen), NFiles)

Init ==
    /\ app \in {"wc", "ii"}
    /\ files \in Corpora(1)
    /\ nReduce \in 1..MaxReduce
    /\ ihash \in [Key -> 0..MaxReduce - 1]
    /\ pc = "map" /\ i = 0
    /\ disk = [n \in {} |-> 0]
    /\ job = 1 /\ unread = {}


\* The contents of the files that are created, on top of those that exist.
Write(contents) == disk' = [n \in DOMAIN disk \cup DOMAIN contents |->
                               IF n \in DOMAIN contents THEN contents[n] ELSE disk[n]]

Occurrences(k, words) == Cardinality({p \in DOMAIN words : words[p] = k})

-----------------------------------------------------------------------------
\* mapF: each word once, with its count in the document or with the document.
mapF(document, words) ==
    [k \in Range(words) |-> IF app = "wc" THEN Occurrences(k, words) ELSE document]

\* reduceF: the sum of the values, or their number and list.
reduceF(values) ==
    IF app = "wc" THEN FoldFunction(LAMBDA x, y : x + y, 0, values)
                  ELSE <<Len(values), values>>

Bin(k) == ihash[k] % nReduce

\* doMap: file r gets the pairs whose key hashes to r; os.Create empties a file
\* that an earlier job left.
DoMap ==
    LET result == mapF(i, files[i + 1])
        bin(r) == {k \in DOMAIN result : Bin(k) = r}
    IN /\ pc = "map" /\ i < NFiles
       /\ Write([n \in {reduceName(i, r) : r \in 0..nReduce - 1} |-> Restrict(result, bin(n[3]))])
       /\ i' = i + 1
       /\ UNCHANGED <<input, pc, unread>>

\* ReadFile fails: doMap prints the error and returns, and the job goes on.
DoMapUnread ==
    /\ pc = "map" /\ i < NFiles
    /\ i' = i + 1 /\ unread' = unread \cup {i}
    /\ UNCHANGED <<input, pc, disk>>

\* Fault: a file that does not exist is passed over.
InputsExisting(r) ==
    SelectSeq([m \in 1..NFiles |-> reduceName(m - 1, r)], LAMBDA n : n \in DOMAIN disk)

\* The files a reduce task reads, in order.
Inputs(r) == [m \in 1..NFiles |-> reduceName(m - 1, r)]

\* keyValues[k]: the values of k, in the order of the map tasks.
keyValues(k, names) ==
    LET having == SelectSeq(names, LAMBDA n : k \in DOMAIN disk[n])
    IN [p \in DOMAIN having |-> disk[having[p]][k]]

\* doReduce: fatal if an input does not exist.
DoReduce ==
    LET names == Inputs(i)
        keys == UNION {DOMAIN disk[n] : n \in Range(names)}
    IN /\ pc = "reduce" /\ i < nReduce
       /\ IF Range(names) \subseteq DOMAIN disk
          THEN /\ Write(mergeName(i) :> [k \in keys |-> reduceF(keyValues(k, names))])
               /\ i' = i + 1 /\ UNCHANGED pc
          ELSE pc' = "fatal" /\ UNCHANGED <<i, disk>>
       /\ UNCHANGED <<input, unread>>

\* schedule(mapPhase), then schedule(reducePhase), then merge.
NextPhase ==
    /\ i' = 0
    /\ \/ pc = "map" /\ i = NFiles /\ pc' = "reduce"
       \/ pc = "reduce" /\ i = nReduce /\ pc' = "merge"
    /\ UNCHANGED <<input, disk, unread>>

\* kvs of merge: a later file replaces the value of an earlier one.
Merged ==
    LET having(k) == {r \in 0..nReduce - 1 : k \in DOMAIN disk[mergeName(r)]}
    IN [k \in {w \in Key : having(w) # {}} |-> disk[mergeName(Max(having(k)))][k]]

Merge ==
    /\ pc = "merge"
    /\ IF \A r \in 0..nReduce - 1 : mergeName(r) \in DOMAIN disk
       THEN Write(outName :> Merged) /\ pc' = "done"
       ELSE pc' = "fatal" /\ UNCHANGED disk
    /\ UNCHANGED <<input, i, unread>>

\* os.Create or Encode fails in doMap, doReduce or merge: log.Fatal, with some of
\* the files of the step made and, at the least, cut short: empty.
WriteFatal ==
    /\ \/ pc = "map" /\ i < NFiles
          /\ \E n \in 0..nReduce : Write([f \in {reduceName(i, r) : r \in 0..n - 1} |-> <<>>])
       \/ pc = "reduce" /\ i < nReduce /\ Range(Inputs(i)) \subseteq DOMAIN disk
          /\ (UNCHANGED disk \/ Write(mergeName(i) :> <<>>))
       \/ pc = "merge" /\ (UNCHANGED disk \/ Write(outName :> <<>>))
    /\ pc' = "fatal"
    /\ UNCHANGED <<input, i, unread>>

\* What CleanupFiles removes; removing a file that does not exist is fatal.
Created ==
    {reduceName(m, r) : m \in 0..NFiles - 1, r \in 0..nReduce - 1}
    \cup {mergeName(r) : r \in 0..nReduce - 1} \cup {outName}

CleanupFiles ==
    /\ pc = "done"
    /\ pc' = IF Created \subseteq DOMAIN disk THEN "clean" ELSE "fatal"
    /\ disk' = Restrict(disk, DOMAIN disk \ Created)
    /\ UNCHANGED <<input, i, unread>>

\* The program is started again with other inputs: a job of the same name, in the
\* directory that the last one left, whether it ended well or not.
Sequential ==
    /\ pc \in {"done", "clean", "fatal"} /\ job < MaxJobs
    /\ job' = job + 1 /\ files' \in Corpora(job + 1)
    /\ pc' = "map" /\ i' = 0 /\ unread' = {}
    /\ UNCHANGED <<app, nReduce, ihash, disk>>

Next ==
    \/ Sequential
    \/ DoMap \/ DoMapUnread \/ DoReduce \/ NextPhase \/ Merge \/ WriteFatal
    \/ CleanupFiles

Spec == Init /\ [][Next]_vars

-----------------------------------------------------------------------------
AllWords == FlattenSeq(files)

\* The definition of each application, on the inputs as a whole.
WordCount == [k \in Range(AllWords) |-> Occurrences(k, AllWords)]

Documents(k) == SelectSeq([d \in 1..NFiles |-> d - 1], LAMBDA d : k \in Range(files[d + 1]))

InvertedIndex == [k \in Range(AllWords) |-> <<Len(Documents(k)), Documents(k)>>]


\* doMap does not tell that it could not read its input, but no job passes an
\* input over: in a directory without files of an earlier job it ends at
\* doReduce, "create intermediate file failed", and merges nothing.
NoInputPassedOver == job = 1 /\ unread # {} => pc \in {"map", "reduce", "fatal"}
=============================================================================
