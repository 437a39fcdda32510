---------------------------- MODULE CoSwListProof ----------------------------
(***************************************************************************)
(* Proofs about the threads of a2l_info: for any command line and any      *)
(* number of pairs, main collects no result before its thread has ended,   *)
(* the list it returns has the results in order, and an S19 thread that is *)
(* not waited for belongs to a pair without an A2L file.                   *)
(***************************************************************************)
EXTENDS CoSwList, FiniteSetTheorems, SequenceTheorems, TLAPS

\* The types, as far as the proofs need them.
Typed ==
  /\ argv \in CommandLines
  /\ sw_pair_cnt \in 0 .. SW_PAIR_MAX
  /\ main \in {"args", "create", "join", "collect", "done", "failed", "exit"}
  /\ i \in Nat
  /\ main = "args" => sw_pair_cnt \in Pair /\ i >= 1
  /\ index \in [Pair -> Nat \cup {NULL}]
  /\ list \in [Pair -> {"none", "started", "s19", "a2l", "join", "store", "ended"}]
  /\ idx \in [Pair -> Nat \cup {NULL}]
  /\ s19 \in [Pair -> {"none", "started", "ended", "joined"}]

GaveUp == main \in {"failed", "exit"}

\* A thread is one of those that main has started, and those main has joined have
\* ended.
Started ==
  /\ main \in {"create", "join"} => i <= sw_pair_cnt
  /\ \A t \in Pair :
       /\ main = "args" => list[t] = "none"
       /\ main = "create" /\ list[t] # "none" => t < i
       /\ main \in {"join", "collect", "done"} /\ list[t] # "none" => t < sw_pair_cnt
       /\ main = "join" /\ t < i => list[t] = "ended"
       /\ main \in {"collect", "done"} /\ t < sw_pair_cnt => list[t] = "ended"
  /\ dangling => GaveUp

\* Unless getSWList gave up, thread t works on pair t, and the S19 thread it has
\* started is not joined yet, or will not be.
OwnPair ==
  ~GaveUp =>
    \A t \in Pair :
      /\ list[t] = "started" => index[t] = t
      /\ list[t] \notin {"none", "started"} => idx[t] = t
      /\ list[t] \in {"none", "started", "s19"} => s19[t] = "none"
      /\ s19[t] \in {"started", "ended"} =>
           /\ s19_file_name_list[t] # NULL
           /\ list[t] \in {"a2l", "join"} \/ a2l_file_name_list[t] \notin Readable

Inv == Typed /\ Started /\ OwnPair

LEMMA InitInv == SwInit => Inv
  BY SwListAssumption
  DEF SwListAssumption, SwInit, Inv, Typed, Started, OwnPair, GaveUp, Pair

LEMMA ParseInv == Inv /\ (ParseOption \/ ParseEnd) => Inv'
<1> USE SwListAssumption
    DEF SwListAssumption, Inv, Typed, Started, OwnPair, GaveUp, Pair, threads
<1>1. ASSUME Inv, ParseOption PROVE Inv'
  <2>1. sw_pair_cnt' \in Pair
    BY <1>1 DEF ParseOption, Option, NextPair
  <2>2. QED
    BY <1>1, <2>1 DEF ParseOption
<1>2. ASSUME Inv, ParseEnd PROVE Inv'
  BY <1>2 DEF ParseEnd, NextPair
<1>3. QED
  BY <1>1, <1>2

LEMMA MainInv == Inv /\ (getSWList \/ Exit) => Inv'
<1> SUFFICES ASSUME Inv, getSWList \/ Exit PROVE Inv'
  OBVIOUS
<1> USE SwListAssumption
    DEF SwListAssumption, Inv, Typed, Started, OwnPair, GaveUp, Pair, names, threads
<1>1. CASE CreateThread
  <2>1. i \in Pair
    BY <1>1 DEF CreateThread
  <2>2. QED
    BY <1>1, <2>1 DEF CreateThread
<1>2. CASE CreateThreadFails
  BY <1>2 DEF CreateThreadFails
<1>3. CASE AllCreated
  BY <1>3 DEF AllCreated
<1>4. CASE JoinThread
  BY <1>4 DEF JoinThread
<1>5. CASE AllJoined
  BY <1>5 DEF AllJoined
<1>6. CASE Collect
  BY <1>6 DEF Collect
<1>7. CASE AllCollected
  BY <1>7 DEF AllCollected
<1>8. CASE Exit
  BY <1>8 DEF Exit
<1>9. QED
  BY <1>1, <1>2, <1>3, <1>4, <1>5, <1>6, <1>7, <1>8 DEF getSWList

LEMMA ListThreadInv == \A t \in Pair : Inv /\ getSWListThread(t) => Inv'
<1> SUFFICES ASSUME NEW t \in Pair, Inv, getSWListThread(t) PROVE Inv'
  OBVIOUS
<1> USE SwListAssumption
    DEF SwListAssumption, Inv, Typed, Started, OwnPair, GaveUp, Pair, names, ThreadAt, ThreadGoes,
        A2lOf, S19Of
<1>1. CASE ReadIndex(t)
  <2>1. PICK n \in IF Active THEN {index[t]} ELSE Pair : idx' = [idx EXCEPT ![t] = n]
    BY <1>1 DEF ReadIndex
  <2>2. n \in Nat \cup {NULL}
    BY <2>1
  <2>3. Active \/ GaveUp
    BY <1>1 DEF ReadIndex, Active
  <2>4. ~GaveUp => n = t
    BY <1>1, <2>1, <2>3 DEF ReadIndex, Active
  <2>5. QED
    BY <1>1, <2>1, <2>2, <2>3, <2>4 DEF ReadIndex, Active
<1>2. CASE StartS19(t)
  BY <1>2 DEF StartS19
<1>3. CASE StartS19Fails(t)
  BY <1>3 DEF StartS19Fails
<1>4. CASE OpenA2lFails(t)
  BY <1>4 DEF OpenA2lFails
<1>5. CASE ReadA2l(t)
  BY <1>5 DEF ReadA2l
<1>6. CASE JoinS19(t)
  BY <1>6 DEF JoinS19
<1>7. CASE NoS19(t)
  BY <1>7 DEF NoS19
<1>8. CASE Store(t)
  BY <1>8 DEF Store
<1>9. QED
  BY <1>1, <1>2, <1>3, <1>4, <1>5, <1>6, <1>7, <1>8 DEF getSWListThread

LEMMA S19ThreadInv == \A t \in Pair : Inv /\ getS19Thread(t) => Inv'
  BY SwListAssumption
  DEF SwListAssumption, Inv, Typed, Started, OwnPair, GaveUp, Pair, getS19Thread, names

LEMMA StutterInv == Inv /\ UNCHANGED swVars => Inv'
  BY DEF Inv, Typed, Started, OwnPair, GaveUp, swVars, names, threads

\* The invariant holds in every state.
THEOREM InvAlways == SwSpec => []Inv
<1>1. Inv /\ [SwNext]_swVars => Inv'
  BY ParseInv, MainInv, ListThreadInv, S19ThreadInv, StutterInv DEF SwNext, Main
<1>2. QED
  BY <1>1, InitInv, PTL DEF SwSpec

\* The threads read the local array of getSWList while it exists, and write their
\* results before main collects them, unless a thread could not be started.
THEOREM CollectsAfterThreads == SwSpec => []ThreadsDone
<1>1. Inv => ThreadsDone
  BY SwListAssumption DEF SwListAssumption, Inv, Typed, Started, GaveUp, ThreadsDone, Pair
<1>2. QED
  BY <1>1, InvAlways, PTL

\* When getSWList is done, an S19 thread that was not waited for belongs to a pair
\* whose A2L file could not be read.
THEOREM OnlyFailedPairsLeaveThreads == SwSpec => []S19Joined
<1>1. Inv => S19Joined
  <2> SUFFICES ASSUME Inv, main = "done", NEW t \in 0 .. sw_pair_cnt - 1,
                      s19[t] \in {"started", "ended"}
               PROVE  a2l_file_name_list[t] \notin Readable
    BY DEF S19Joined
  <2>1. t \in Pair /\ t < sw_pair_cnt
    BY SwListAssumption DEF Inv, Typed, Pair
  <2>2. list[t] = "ended"
    BY <2>1 DEF Inv, Started
  <2> QED BY <2>1, <2>2 DEF Inv, OwnPair, GaveUp
<1>2. QED
  BY <1>1, InvAlways, PTL

-----------------------------------------------------------------------------
(* The list that main makes of the results *)

Object == [a2l : Readable, s19 : Readable \cup {NULL}]

\* what a file gives when it is read
FromFile(name) == IF name \in Readable THEN name ELSE NULL

\* Unless getSWList gave up, what thread t has made so far is a part of what it has to
\* make, and its result is in sw_object_list until it is collected.
PartMade ==
  ~GaveUp =>
    \A t \in Pair :
      /\ list[t] \in {"none", "started", "s19", "a2l"} => sw_object[t] = NULL
      /\ list[t] \in {"a2l", "join"} /\ s19[t] = "none" => s19_file_name_list[t] = NULL
      /\ list[t] = "join" =>
           /\ a2l_file_name_list[t] \in Readable
           /\ sw_object[t] = [a2l |-> a2l_file_name_list[t], s19 |-> NULL]
      /\ s19[t] = "ended" => s19_object[t] = FromFile(s19_file_name_list[t])
      /\ list[t] = "store" => sw_object[t] = Made[t]
      /\ /\ list[t] = "ended" /\ main # "done"
         /\ main = "collect" => t >= i
         => sw_object_list[t] = Made[t]

\* The types of what the threads make.
MadeTyped ==
  ~GaveUp =>
    /\ sw_object \in [Pair -> Object \cup {NULL}]
    /\ s19_object \in [Pair -> Readable \cup {NULL}]
    /\ sw_object_list \in [Pair -> Object \cup {NULL}]
    /\ sw_list \in Seq(Object)

\* sw_list has the results below i.
Collected ==
  /\ main \in {"args", "create", "join"} => sw_list = <<>>
  /\ main = "collect" => i <= sw_pair_cnt /\ IsFiltered(sw_list, Made, i)
  /\ main = "done" => IsFiltered(sw_list, Made, sw_pair_cnt)

ListInv == Inv /\ PartMade /\ MadeTyped /\ Collected

\* What a pair makes, from its names and from the thread that was started for it.
LEMMA MadeIs ==
  ASSUME NEW t \in Pair
  PROVE  Made[t] = IF \/ s19_file_name_list[t] # NULL /\ s19[t] = "none"
                      \/ a2l_file_name_list[t] \notin Readable
                   THEN NULL
                   ELSE [a2l |-> a2l_file_name_list[t],
                         s19 |-> FromFile(s19_file_name_list[t])]
BY DEF Made, Expected, FromFile

\* It does not change when the names and the fact that the thread was started do not.
LEMMA MadeKept ==
  ASSUME UNCHANGED names, \A t \in Pair : (s19'[t] = "none") = (s19[t] = "none")
  PROVE  Made' = Made
BY DEF Made, Expected, names

\* The next result is appended, and a NULL is left out.
LEMMA FilteredStep ==
  ASSUME NEW objects, NEW n \in Nat, NEW seq \in Seq(Object),
         objects[n] \in Object \cup {NULL}, IsFiltered(seq, objects, n)
  PROVE  IsFiltered(IF objects[n] # NULL THEN Append(seq, objects[n]) ELSE seq,
                    objects, n + 1)
<1> DEFINE S == Present(objects, n)
           T == Present(objects, n + 1)
<1>1. IsFiniteSet(S) /\ Cardinality(S) = Len(seq) /\ Len(seq) \in Nat
  <2>1. IsFiniteSet(0 .. n - 1) /\ S \in SUBSET (0 .. n - 1)
    BY FS_Interval DEF Present
  <2> QED BY <2>1, FS_Subset DEF IsFiltered
<1>2. T = IF objects[n] # NULL THEN S \cup {n} ELSE S
  BY DEF Present
<1>3. ASSUME NEW t \in S
      PROVE  /\ t \in Nat /\ t \in 0 .. n - 1
             /\ Cardinality(Present(objects, t + 1)) \in 1 .. Len(seq)
  <2> DEFINE P == Present(objects, t + 1)
  <2>1. t \in Nat /\ t \in 0 .. n - 1 /\ P \in SUBSET S /\ t \in P
    BY DEF Present
  <2>2. IsFiniteSet(P) /\ Cardinality(P) <= Len(seq) /\ Cardinality(P) \in Nat
    BY <1>1, <2>1, FS_Subset, FS_CardinalityType
  <2>3. Cardinality(P) # 0
    BY <2>1, <2>2, FS_EmptySet
  <2> QED BY <1>1, <2>1, <2>2, <2>3
<1>4. CASE objects[n] = NULL
  BY <1>2, <1>4 DEF IsFiltered
<1>5. CASE objects[n] # NULL
  <2> DEFINE all == Append(seq, objects[n])
  <2>1. /\ Len(all) = Len(seq) + 1 /\ all[Len(seq) + 1] = objects[n]
        /\ \A k \in 1 .. Len(seq) : all[k] = seq[k]
    BY <1>5, AppendProperties
  <2>2. n \notin S
    BY DEF Present
  <2>3. Cardinality(T) = Len(seq) + 1
    BY <1>1, <1>2, <1>5, <2>2, FS_AddElement
  <2> HIDE DEF all
  <2>4. ASSUME NEW t \in T PROVE all[Cardinality(Present(objects, t + 1))] = objects[t]
    <3>1. CASE t \in S
      <4>1. seq[Cardinality(Present(objects, t + 1))] = objects[t]
        BY <3>1 DEF IsFiltered
      <4> QED BY <1>3, <2>1, <3>1, <4>1
    <3>2. CASE t = n
      BY <2>1, <2>3, <3>2
    <3> QED BY <1>2, <1>5, <3>1, <3>2
  <2>5. IsFiltered(all, objects, n + 1)
    BY <2>1, <2>3, <2>4 DEF IsFiltered
  <2> QED BY <1>5, <2>5 DEF all
<1> QED BY <1>4, <1>5

LEMMA ListInitInv == ASSUME SwInit PROVE ListInv
<1>1. Inv
  BY InitInv
<1>2. PartMade /\ MadeTyped
  BY SwListAssumption DEF SwInit, PartMade, MadeTyped, Made, Expected
<1>3. Collected
  BY DEF SwInit, Collected
<1> QED BY <1>1, <1>2, <1>3 DEF ListInv

-----------------------------------------------------------------------------
(* The steps of main *)

\* As long as no thread was started, there is nothing.
LEMMA ListParseInv ==
  ASSUME ListInv, ParseOption \/ ParseEnd PROVE ListInv'
<1>1. Inv'
  BY ParseInv DEF ListInv
<1>2. /\ main = "args" /\ main' \in {"args", "create"}
      /\ UNCHANGED <<threads, results>>
  BY DEF ParseOption, ParseEnd
<1>3. \A t \in Pair : list[t] = "none" /\ s19[t] = "none"
  BY <1>2 DEF ListInv, Inv, Started, OwnPair, GaveUp
<1>4. PartMade' /\ MadeTyped'
  BY <1>2, <1>3 DEF ListInv, PartMade, MadeTyped, GaveUp, threads, results
<1>5. Collected'
  BY <1>2 DEF ListInv, Collected, results
<1> QED BY <1>1, <1>4, <1>5 DEF ListInv

\* One more result is collected.
LEMMA CollectInv == ASSUME ListInv, Collect PROVE ListInv'
<1>1. Inv'
  BY MainInv DEF ListInv, getSWList
<1>2. /\ main = "collect" /\ main' = "collect" /\ i' = i + 1 /\ i \in Nat
      /\ i < sw_pair_cnt /\ sw_pair_cnt' = sw_pair_cnt /\ i \in Pair
      /\ sw_pair_cnt \in Nat
      /\ UNCHANGED <<names, threads>>
      /\ sw_object_list' = [sw_object_list EXCEPT ![i] = NULL]
      /\ sw_list' = IF sw_object_list[i] # NULL THEN Append(sw_list, sw_object_list[i])
                    ELSE sw_list
  BY SwListAssumption DEF Collect, ListInv, Inv, Typed, Pair, names
<1>3. Made' = Made
  BY <1>2, MadeKept DEF threads
<1>4. sw_object_list[i] = Made[i] /\ sw_list \in Seq(Object)
      /\ Made[i] \in Object \cup {NULL} /\ IsFiltered(sw_list, Made, i)
  <2>1. list[i] = "ended"
    BY <1>2 DEF ListInv, Inv, Started
  <2> QED BY <1>2, <2>1 DEF ListInv, PartMade, MadeTyped, Collected, GaveUp
<1>5. IsFiltered(sw_list', Made, i + 1) /\ sw_list' \in Seq(Object)
  BY <1>2, <1>4, FilteredStep, AppendProperties
<1>6. Collected'
  <2>1. IsFiltered(sw_list', Made', i')
    BY <1>2, <1>3, <1>5
  <2>2. IsFiltered(sw_list, Made, i)'
    BY <2>1 DEF IsFiltered, Present
  <2> QED BY <1>2, <2>2 DEF Collected
<1>7. PartMade'
  BY <1>2, <1>3 DEF ListInv, PartMade, MadeTyped, GaveUp, names, threads, Inv, Typed, Started
<1>8. MadeTyped'
  BY <1>2, <1>5 DEF ListInv, MadeTyped, GaveUp, threads
<1> QED BY <1>1, <1>6, <1>7, <1>8 DEF ListInv

LEMMA ListMainInv == ASSUME ListInv, getSWList \/ Exit PROVE ListInv'
<1>1. Inv'
  BY MainInv DEF ListInv
<1>2. CASE Collect
  BY <1>2, CollectInv
<1>3. CASE CreateThread
  <2>1. /\ main = "create" /\ main' = "create" /\ i \in Pair /\ Made' = Made
        /\ UNCHANGED <<names, sw_object, s19, s19_object, results>>
        /\ list' = [list EXCEPT ![i] = "started"]
    BY <1>3, MadeKept, SwListAssumption DEF CreateThread, ListInv, Inv, Typed, Pair
  <2>2. list[i] = "none"
    BY <2>1 DEF ListInv, Inv, Started, Pair, Typed
  <2>3. PartMade' /\ MadeTyped'
    BY <2>1, <2>2 DEF ListInv, PartMade, MadeTyped, GaveUp, names, results, Inv, Typed
  <2>4. Collected'
    BY <2>1 DEF ListInv, Collected, results
  <2> QED BY <1>1, <2>3, <2>4 DEF ListInv
<1>4. CASE CreateThreadFails \/ Exit
  BY <1>1, <1>4 DEF CreateThreadFails, Exit, ListInv, PartMade, MadeTyped, Collected, GaveUp
<1>5. CASE AllCreated \/ JoinThread \/ AllJoined \/ AllCollected
  <2>1. /\ UNCHANGED <<names, index, threads, results>> /\ Made' = Made
        /\ ~GaveUp /\ ~GaveUp' /\ main # "done" /\ main # "args"
        /\ \/ main \in {"create", "join"} /\ main' = "join"
           \/ main = "join" /\ main' = "collect" /\ i' = 0
           \/ main = "collect" /\ main' = "done" /\ i = sw_pair_cnt
    BY <1>5, MadeKept
    DEF AllCreated, JoinThread, AllJoined, AllCollected, GaveUp, threads
  <2>2. PartMade' /\ MadeTyped'
    BY <2>1 DEF ListInv, PartMade, MadeTyped, names, threads, results, Pair
  <2>3. IsFiltered(<<>>, Made, 0)
    BY FS_EmptySet DEF IsFiltered, Present
  <2>4. Collected'
    <3>1. CASE main' = "join"
      BY <2>1, <3>1 DEF ListInv, Collected, results
    <3>2. CASE main = "join" /\ main' = "collect" /\ i' = 0
      <4>1. sw_list' = <<>> /\ Made' = Made /\ i' <= sw_pair_cnt'
        BY <2>1, <3>2, <1>1 DEF ListInv, Collected, results, Inv, Typed
      <4>2. IsFiltered(sw_list, Made, i)'
        BY <2>3, <3>2, <4>1 DEF IsFiltered, Present
      <4> QED BY <3>2, <4>1, <4>2 DEF Collected
    <3>3. CASE main = "collect" /\ main' = "done" /\ i = sw_pair_cnt
      <4>1. IsFiltered(sw_list, Made, sw_pair_cnt) /\ sw_list' = sw_list
            /\ sw_pair_cnt' = sw_pair_cnt
        BY <2>1, <3>3 DEF ListInv, Collected, results, names
      <4>2. IsFiltered(sw_list, Made, sw_pair_cnt)'
        BY <2>1, <4>1 DEF IsFiltered, Present
      <4> QED BY <3>3, <4>2 DEF Collected
    <3> QED BY <2>1, <3>1, <3>2, <3>3
  <2> QED BY <1>1, <2>2, <2>4 DEF ListInv
<1> QED BY <1>2, <1>3, <1>4, <1>5 DEF getSWList

-----------------------------------------------------------------------------
(* The steps of the threads *)

\* A thread whose result main has not collected yet may change what it makes.
LEMMA CollectedKept ==
  ASSUME ListInv, UNCHANGED <<names, main, i, sw_list>>,
         main \in {"collect", "done"} => Made' = Made
  PROVE  Collected'
<1>1. sw_pair_cnt' = sw_pair_cnt
  BY DEF names
<1>2. CASE main = "collect"
  <2>1. IsFiltered(sw_list, Made, i)'
    BY <1>2 DEF ListInv, Collected, IsFiltered, Present
  <2> QED BY <1>1, <1>2, <2>1 DEF ListInv, Collected
<1>3. CASE main = "done"
  <2>1. IsFiltered(sw_list, Made, sw_pair_cnt)'
    BY <1>1, <1>3 DEF ListInv, Collected, IsFiltered, Present
  <2> QED BY <1>3, <2>1 DEF Collected
<1>4. CASE main \notin {"collect", "done"}
  BY <1>4 DEF ListInv, Collected
<1> QED BY <1>2, <1>3, <1>4

\* A thread that runs has a pair of its own, and main waits for it.
LEMMA ThreadRuns ==
  ASSUME ListInv, ~GaveUp, NEW t \in Pair, list[t] \notin {"none", "ended"}
  PROVE  /\ main \in {"create", "join"}
         /\ list[t] # "started" => idx[t] = t
BY DEF ListInv, Inv, Typed, Started, OwnPair, GaveUp, Pair

\* When getSWList has given up, nothing is asked of the threads any more.
LEMMA GaveUpInv ==
  ASSUME ListInv, GaveUp, Inv', UNCHANGED <<main, sw_list>> PROVE ListInv'
<1>1. GaveUp'
  BY DEF GaveUp
<1> QED BY <1>1 DEF ListInv, PartMade, MadeTyped, Collected, GaveUp

\* One case per action of a thread for a pair.
LEMMA ListThreadStepInv ==
  ASSUME ListInv, NEW t \in Pair, getSWListThread(t) PROVE ListInv'
<1>1. Inv'
  BY ListThreadInv DEF ListInv
<1>2. /\ UNCHANGED <<names, main, i, s19_object, sw_list>>
      /\ list[t] \notin {"none", "ended"}
      /\ list' = [list EXCEPT ![t] = list'[t]]
  BY DEF getSWListThread, ReadIndex, StartS19, StartS19Fails, OpenA2lFails, ReadA2l, JoinS19,
         NoS19, Store, ThreadAt, ThreadGoes, results, ListInv, Inv, Typed
<1>3. CASE GaveUp
  BY <1>1, <1>2, <1>3, GaveUpInv
<1>4. CASE ~GaveUp
  <2>1. /\ main \in {"create", "join"} /\ ~GaveUp'
        /\ list[t] # "started" => idx[t] = t
    BY <1>2, <1>4, ThreadRuns DEF GaveUp
  <2>2. Collected'
    BY <1>2, <2>1, CollectedKept
  <2>3. /\ a2l_file_name_list' = a2l_file_name_list
        /\ s19_file_name_list' = s19_file_name_list /\ main' = main /\ i' = i
    BY <1>2 DEF names
  <2>4. /\ list \in [Pair -> {"none", "started", "s19", "a2l", "join", "store", "ended"}]
        /\ s19 \in [Pair -> {"none", "started", "ended", "joined"}]
        /\ idx \in [Pair -> Nat \cup {NULL}] /\ main # "done" /\ main # "collect"
        /\ list[t] \in {"started", "s19"} => s19[t] = "none"
    BY <1>4, <2>1 DEF ListInv, Inv, Typed, OwnPair
  <2>5. CASE ReadIndex(t) \/ StartS19Fails(t) \/ OpenA2lFails(t) \/ NoS19(t)
    <3>1. /\ UNCHANGED <<sw_object, s19, s19_object, sw_object_list, sw_list>>
          /\ list' = [list EXCEPT ![t] = IF list[t] = "started" THEN "s19" ELSE "store"]
      BY <2>4, <2>5 DEF ReadIndex, StartS19Fails, OpenA2lFails, NoS19, ThreadGoes, ThreadAt, results
    <3>2. Made' = Made
      BY <1>2, <3>1, MadeKept
    <3>3. list[t] # "started" => sw_object[t] = Made[t]
      <4>1. CASE StartS19Fails(t)
        <5>1. list[t] = "s19" /\ s19_file_name_list[t] # NULL /\ s19[t] = "none"
          BY <2>1, <2>4, <4>1 DEF StartS19Fails, ThreadAt, S19Of
        <5> QED BY <1>4, <5>1, MadeIs DEF ListInv, PartMade
      <4>2. CASE OpenA2lFails(t)
        <5>1. list[t] = "a2l" /\ a2l_file_name_list[t] \notin Readable
          BY <2>1, <4>2 DEF OpenA2lFails, ThreadAt, A2lOf
        <5> QED BY <1>4, <5>1, MadeIs DEF ListInv, PartMade
      <4>3. CASE NoS19(t)
        <5>1. list[t] = "join" /\ s19_file_name_list[t] = NULL
          BY <2>1, <4>3 DEF NoS19, ThreadAt, S19Of
        <5>2. FromFile(s19_file_name_list[t]) = NULL
          BY <5>1 DEF FromFile
        <5> QED BY <1>4, <5>1, <5>2, MadeIs DEF ListInv, PartMade
      <4> QED BY <2>5, <4>1, <4>2, <4>3 DEF ReadIndex, ThreadAt
    <3>4. PartMade'
      BY <1>4, <2>1, <2>3, <2>4, <3>1, <3>2, <3>3 DEF ListInv, PartMade
    <3>5. MadeTyped'
      BY <1>4, <3>1 DEF ListInv, MadeTyped
    <3> QED BY <1>1, <2>2, <3>4, <3>5 DEF ListInv
  <2>6. CASE StartS19(t)
    <3>1. /\ UNCHANGED <<sw_object, s19_object, sw_object_list, sw_list>>
          /\ list[t] = "s19" /\ list' = [list EXCEPT ![t] = "a2l"]
          /\ s19' = IF s19_file_name_list[t] # NULL THEN [s19 EXCEPT ![t] = "started"]
                    ELSE s19
      BY <2>1, <2>6 DEF StartS19, ThreadGoes, ThreadAt, S19Of, results
    <3>2. \A u \in Pair \ {t} : Made'[u] = Made[u]
      BY <2>3, <2>4, <3>1 DEF Made, Expected
    <3>3. PartMade'
      BY <1>4, <2>1, <2>3, <2>4, <3>1, <3>2 DEF ListInv, PartMade
    <3>4. MadeTyped'
      BY <1>4, <3>1 DEF ListInv, MadeTyped
    <3> QED BY <1>1, <2>2, <3>3, <3>4 DEF ListInv
  <2>7. CASE ReadA2l(t)
    <3> DEFINE o == [a2l |-> a2l_file_name_list[t], s19 |-> NULL]
    <3>1. /\ UNCHANGED <<s19, s19_object, sw_object_list, sw_list>>
          /\ list[t] = "a2l" /\ list' = [list EXCEPT ![t] = "join"]
          /\ sw_object' = [sw_object EXCEPT ![t] = o] /\ a2l_file_name_list[t] \in Readable
          /\ sw_object \in [Pair -> Object \cup {NULL}] /\ o \in Object
      BY <1>4, <2>1, <2>7 DEF ReadA2l, ThreadGoes, ThreadAt, A2lOf, results, ListInv, MadeTyped, Object
    <3>2. Made' = Made
      BY <1>2, <3>1, MadeKept
    <3>3. PartMade'
      BY <1>4, <2>1, <2>3, <2>4, <3>1, <3>2 DEF ListInv, PartMade
    <3> HIDE DEF o
    <3>4. MadeTyped'
      BY <1>4, <3>1 DEF ListInv, MadeTyped
    <3> QED BY <1>1, <2>2, <3>3, <3>4 DEF ListInv
  <2>8. CASE JoinS19(t)
    <3> DEFINE o == [a2l |-> a2l_file_name_list[t],
                     s19 |-> FromFile(s19_file_name_list[t])]
    <3>1. /\ UNCHANGED <<s19_object, sw_object_list, sw_list>>
          /\ list[t] = "join" /\ list' = [list EXCEPT ![t] = "store"]
          /\ s19[t] = "ended" /\ s19' = [s19 EXCEPT ![t] = "joined"]
          /\ sw_object' = [sw_object EXCEPT ![t].s19 = s19_object[t]]
      BY <2>1, <2>8 DEF JoinS19, ThreadGoes, ThreadAt, S19Of, results
    <3>2. Made' = Made
      BY <1>2, <2>4, <3>1, MadeKept
    <3>3. /\ sw_object \in [Pair -> Object \cup {NULL}]
          /\ a2l_file_name_list[t] \in Readable
          /\ sw_object[t] = [a2l |-> a2l_file_name_list[t], s19 |-> NULL]
          /\ s19_object[t] = FromFile(s19_file_name_list[t])
      BY <1>4, <3>1 DEF ListInv, PartMade, MadeTyped
    <3>4. sw_object' = [sw_object EXCEPT ![t] = o]
      <4>1. sw_object' =
              [sw_object EXCEPT ![t] = [sw_object[t] EXCEPT !.s19 = s19_object[t]]]
        BY <3>1
      <4>2. [sw_object[t] EXCEPT !.s19 = s19_object[t]] = o
        BY <3>3
      <4> QED BY <4>1, <4>2
    <3>5. o = Made[t] /\ o \in Object
      BY <3>1, <3>3, MadeIs DEF Object, FromFile
    <3> HIDE DEF o
    <3>6. PartMade'
      BY <1>4, <2>1, <2>3, <2>4, <3>1, <3>2, <3>3, <3>4, <3>5 DEF ListInv, PartMade
    <3>7. MadeTyped'
      BY <1>4, <3>1, <3>3, <3>4, <3>5 DEF ListInv, MadeTyped
    <3> QED BY <1>1, <2>2, <3>6, <3>7 DEF ListInv
  <2>9. CASE Store(t)
    <3>1. /\ UNCHANGED <<sw_object, s19, s19_object, sw_list>>
          /\ list[t] = "store" /\ list' = [list EXCEPT ![t] = "ended"]
          /\ sw_object_list' = [sw_object_list EXCEPT ![t] = sw_object[t]]
      BY <2>1, <2>9 DEF Store, ThreadGoes, ThreadAt
    <3>2. Made' = Made
      BY <1>2, <3>1, MadeKept
    <3>3. sw_object[t] = Made[t] /\ sw_object[t] \in Object \cup {NULL}
          /\ sw_object_list \in [Pair -> Object \cup {NULL}]
      BY <1>4, <3>1 DEF ListInv, PartMade, MadeTyped
    <3>4. PartMade'
      BY <1>4, <2>1, <2>3, <2>4, <3>1, <3>2, <3>3 DEF ListInv, PartMade
    <3>5. MadeTyped'
      BY <1>4, <3>1, <3>3 DEF ListInv, MadeTyped
    <3> QED BY <1>1, <2>2, <3>4, <3>5 DEF ListInv
  <2> QED BY <2>5, <2>6, <2>7, <2>8, <2>9 DEF getSWListThread
<1> QED BY <1>3, <1>4

\* The S19 file is that of the pair.
LEMMA S19ThreadStepInv ==
  ASSUME ListInv, NEW t \in Pair, getS19Thread(t) PROVE ListInv'
<1>1. Inv'
  BY S19ThreadInv DEF ListInv
<1>2. /\ UNCHANGED <<names, main, i, list, idx, sw_object, results>>
      /\ s19[t] = "started" /\ s19' = [s19 EXCEPT ![t] = "ended"]
      /\ s19 \in [Pair -> {"none", "started", "ended", "joined"}]
      /\ s19_object' = [s19_object EXCEPT ![t] = FromFile(S19Of(t))]
  BY DEF getS19Thread, FromFile, ListInv, Inv, Typed
<1>3. Made' = Made
  BY <1>2, MadeKept
<1>4. Collected'
  BY <1>2, <1>3, CollectedKept DEF results
<1>5. ~GaveUp => S19Of(t) = s19_file_name_list[t]
  BY <1>2 DEF S19Of, ListInv, Inv, OwnPair, Typed
<1>6. PartMade' /\ MadeTyped'
  BY <1>2, <1>3, <1>5
  DEF ListInv, PartMade, MadeTyped, GaveUp, FromFile, names, results
<1> QED BY <1>1, <1>4, <1>6 DEF ListInv

LEMMA ListStutterInv == ASSUME ListInv, UNCHANGED swVars PROVE ListInv'
<1>1. Inv' /\ Made' = Made
  BY StutterInv, MadeKept DEF ListInv, swVars, threads
<1>2. Collected'
  BY <1>1, CollectedKept DEF swVars, results
<1>3. PartMade' /\ MadeTyped'
  BY <1>1 DEF ListInv, PartMade, MadeTyped, GaveUp, swVars, names, threads, results
<1> QED BY <1>1, <1>2, <1>3 DEF ListInv

\* Whatever the threads do in which order, main returns the objects of the pairs that
\* could be read, each from its own files, in the order of the command line.
THEOREM ListReturnedInOrder == SwSpec => []ListInOrder
<1>1. ListInv /\ [SwNext]_swVars => ListInv'
  BY ListParseInv, ListMainInv, ListThreadStepInv, S19ThreadStepInv, ListStutterInv
  DEF SwNext, Main
<1>2. ListInv => ListInOrder
  BY DEF ListInv, Collected, ListInOrder
<1> QED BY <1>1, <1>2, ListInitInv, PTL DEF SwSpec
=============================================================================
