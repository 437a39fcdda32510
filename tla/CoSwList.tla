------------------------------- MODULE CoSwList -------------------------------
(***************************************************************************)
(* The threads of a2l_info (test/a2l_info.c, built with USE_PTHREAD): main *)
(* starts one thread for each pair of an A2L and an S19 file, which starts *)
(* a thread of its own for the S19 file; main collects what they made.     *)
(*                                                                         *)
(* A software object is the pair of the files it was read from.  A file    *)
(* that can be opened is read completely (see CoDocument, CoMemoryImage).  *)
(***************************************************************************)
EXTENDS Integers, Sequences, FiniteSets

CONSTANTS
  NULL,
  Readable,     \* the files that fopen opens
  CommandLines, \* sequences of options: records with opt and file
  SW_PAIR_MAX,
  CreateFails   \* TRUE: pthread_create may fail

Pair == 0 .. SW_PAIR_MAX - 1

ASSUME SwListAssumption ==
  /\ SW_PAIR_MAX \in Nat \ {0, 1}
  /\ CreateFails \in BOOLEAN
  /\ \A line \in CommandLines :
       Len(line) \in Nat /\ \A n \in 1 .. Len(line) : line[n].opt \in {"-a2l", "-s19"}
  /\ NULL \notin Readable

VARIABLES
  argv,
  a2l_file_name_list, s19_file_name_list, sw_pair_cnt,
  main,           \* where parse_args or getSWList is
  i,              \* the number of an argument, or the i of getSWList
  index,          \* the local array the threads have pointers into
  list,           \* list[t]: where getSWListThread t is
  idx,            \* idx[t]: what it has read from index
  sw_object,      \* sw_object[t]: what getSWObject has made
  s19,            \* s19[t]: where the thread for the S19 file is that it starts
  s19_object,     \* s19_object[t]: what that has read
  sw_object_list,
  sw_list,
  dangling        \* history: index was read after getSWList had returned

names   == <<argv, a2l_file_name_list, s19_file_name_list, sw_pair_cnt>>
threads == <<list, idx, sw_object, s19, s19_object>>
results == <<sw_object_list, sw_list>>
swVars  == <<names, main, i, index, threads, results, dangling>>

-----------------------------------------------------------------------------
(* parse_args *)

\* a name that is there already begins the next pair
NextPair(file_name_list) ==
  IF file_name_list[sw_pair_cnt] # NULL THEN sw_pair_cnt + 1 ELSE sw_pair_cnt

\* an option is ignored when all pairs are used, or could be
Option(opt, file) ==
  \/ /\ sw_pair_cnt + 1 >= SW_PAIR_MAX
     /\ UNCHANGED <<a2l_file_name_list, s19_file_name_list, sw_pair_cnt>>
  \/ /\ sw_pair_cnt + 1 < SW_PAIR_MAX /\ opt = "-a2l"
     /\ sw_pair_cnt' = NextPair(a2l_file_name_list)
     /\ a2l_file_name_list' = [a2l_file_name_list EXCEPT ![sw_pair_cnt'] = file]
     /\ UNCHANGED s19_file_name_list
  \/ /\ sw_pair_cnt + 1 < SW_PAIR_MAX /\ opt = "-s19"
     /\ sw_pair_cnt' = NextPair(s19_file_name_list)
     /\ s19_file_name_list' = [s19_file_name_list EXCEPT ![sw_pair_cnt'] = file]
     /\ UNCHANGED a2l_file_name_list

ParseOption ==
  /\ main = "args" /\ i <= Len(argv)
  /\ Option(argv[i].opt, argv[i].file)
  /\ i' = i + 1
  /\ UNCHANGED <<argv, main, index, threads, results, dangling>>

ParseEnd ==
  /\ main = "args" /\ i > Len(argv)
  /\ sw_pair_cnt' = NextPair(a2l_file_name_list)
  /\ main' = "create" /\ i' = 0
  /\ UNCHANGED <<argv, a2l_file_name_list, s19_file_name_list, index, threads, results,
                 dangling>>

-----------------------------------------------------------------------------
(* getSWList *)

\* the local variables of getSWList exist
Active == main \in {"create", "join", "collect"}

\* the thread gets the address of its own element of index
CreateThread ==
  /\ main = "create" /\ i < sw_pair_cnt
  /\ index' = [index EXCEPT ![i] = i]
  /\ list' = [list EXCEPT ![i] = "started"]
  /\ i' = i + 1
  /\ UNCHANGED <<names, main, idx, sw_object, s19, s19_object, results, dangling>>

\* NULL is returned; the threads that were started are not waited for
CreateThreadFails ==
  /\ CreateFails
  /\ main = "create" /\ i < sw_pair_cnt
  /\ main' = "failed"
  /\ UNCHANGED <<names, i, index, threads, results, dangling>>

\* main, which got NULL, skips its loop over the list (coVectorSize of NULL is 0) and
\* returns 0, which ends the program and the threads that still run
Exit ==
  /\ main = "failed" /\ main' = "exit"
  /\ UNCHANGED <<names, i, index, threads, results, dangling>>

AllCreated ==
  /\ main = "create" /\ i = sw_pair_cnt
  /\ main' = "join" /\ i' = 0
  /\ UNCHANGED <<names, index, threads, results, dangling>>

\* (mutant: main does not wait for the threads)
JoinsNone ==
  /\ main = "join" /\ i < sw_pair_cnt
  /\ i' = i + 1
  /\ UNCHANGED <<names, main, index, threads, results, dangling>>

JoinThread ==
  /\ main = "join" /\ i < sw_pair_cnt
  /\ list[i] = "ended"
  /\ i' = i + 1
  /\ UNCHANGED <<names, main, index, threads, results, dangling>>

AllJoined ==
  /\ main = "join" /\ i = sw_pair_cnt
  /\ main' = "collect" /\ i' = 0
  /\ UNCHANGED <<names, index, threads, results, dangling>>

\* a NULL is left out
Collect ==
  /\ main = "collect" /\ i < sw_pair_cnt
  /\ sw_list' = IF sw_object_list[i] # NULL THEN Append(sw_list, sw_object_list[i])
                ELSE sw_list
  /\ sw_object_list' = [sw_object_list EXCEPT ![i] = NULL]
  /\ i' = i + 1
  /\ UNCHANGED <<names, main, index, threads, dangling>>

AllCollected ==
  /\ main = "collect" /\ i = sw_pair_cnt
  /\ main' = "done"
  /\ UNCHANGED <<names, i, index, threads, results, dangling>>

-----------------------------------------------------------------------------
(* getSWListThread t, which calls getSWObject *)

ThreadAt(t, pc) == main # "exit" /\ list[t] = pc
ThreadGoes(t, pc) == list' = [list EXCEPT ![t] = pc]

A2lOf(t) == a2l_file_name_list[idx[t]]
S19Of(t) == s19_file_name_list[idx[t]]

\* (mutant: the thread is given the address of main's i)
ReadsMainI(t) ==
  /\ ThreadAt(t, "started")
  /\ ThreadGoes(t, "s19") /\ idx' = [idx EXCEPT ![t] = i % SW_PAIR_MAX]
  /\ dangling' = (dangling \/ ~Active)
  /\ UNCHANGED <<names, main, i, index, sw_object, s19, s19_object, results>>

\* what is at the address when getSWList has returned is any number (one outside of
\* the arrays ends the program at once)
ReadIndex(t) ==
  /\ ThreadAt(t, "started")
  /\ \E n \in IF Active THEN {index[t]} ELSE Pair : idx' = [idx EXCEPT ![t] = n]
  /\ ThreadGoes(t, "s19")
  /\ dangling' = (dangling \/ ~Active)
  /\ UNCHANGED <<names, main, i, index, sw_object, s19, s19_object, results>>

StartS19(t) ==
  /\ ThreadAt(t, "s19")
  /\ s19' = IF S19Of(t) # NULL THEN [s19 EXCEPT ![t] = "started"] ELSE s19
  /\ ThreadGoes(t, "a2l")
  /\ UNCHANGED <<names, main, i, index, idx, sw_object, s19_object, results, dangling>>

StartS19Fails(t) ==
  /\ CreateFails
  /\ ThreadAt(t, "s19") /\ S19Of(t) # NULL
  /\ ThreadGoes(t, "store")
  /\ UNCHANGED <<names, main, i, index, idx, sw_object, s19, s19_object, results, dangling>>

\* without the A2L file the S19 thread is not waited for
OpenA2lFails(t) ==
  /\ ThreadAt(t, "a2l") /\ A2lOf(t) \notin Readable
  /\ ThreadGoes(t, "store")
  /\ UNCHANGED <<names, main, i, index, idx, sw_object, s19, s19_object, results, dangling>>

ReadA2l(t) ==
  /\ ThreadAt(t, "a2l") /\ A2lOf(t) \in Readable
  /\ sw_object' = [sw_object EXCEPT ![t] = [a2l |-> A2lOf(t), s19 |-> NULL]]
  /\ ThreadGoes(t, "join")
  /\ UNCHANGED <<names, main, i, index, idx, s19, s19_object, results, dangling>>

\* (mutants: the S19 thread is waited for, started or not; it is never waited for)
AlwaysJoins(t) ==
  /\ ThreadAt(t, "join") /\ s19[t] = "ended"
  /\ s19' = [s19 EXCEPT ![t] = "joined"]
  /\ sw_object' = [sw_object EXCEPT ![t].s19 = s19_object[t]]
  /\ ThreadGoes(t, "store")
  /\ UNCHANGED <<names, main, i, index, idx, s19_object, results, dangling>>
NeverJoins(t) ==
  /\ ThreadAt(t, "join") /\ S19Of(t) # NULL
  /\ sw_object' = [sw_object EXCEPT ![t].s19 = s19_object[t]]
  /\ ThreadGoes(t, "store")
  /\ UNCHANGED <<names, main, i, index, idx, s19, s19_object, results, dangling>>

\* the S19 object is added when there is one
JoinS19(t) ==
  /\ ThreadAt(t, "join") /\ S19Of(t) # NULL
  /\ s19[t] = "ended"
  /\ s19' = [s19 EXCEPT ![t] = "joined"]
  /\ sw_object' = [sw_object EXCEPT ![t].s19 = s19_object[t]]
  /\ ThreadGoes(t, "store")
  /\ UNCHANGED <<names, main, i, index, idx, s19_object, results, dangling>>

NoS19(t) ==
  /\ ThreadAt(t, "join") /\ S19Of(t) = NULL
  /\ ThreadGoes(t, "store")
  /\ UNCHANGED <<names, main, i, index, idx, sw_object, s19, s19_object, results, dangling>>

\* sw_object_list[idx] = getSWObject(...)
Store(t) ==
  /\ ThreadAt(t, "store")
  /\ sw_object_list' = [sw_object_list EXCEPT ![idx[t]] = sw_object[t]]
  /\ ThreadGoes(t, "ended")
  /\ UNCHANGED <<names, main, i, index, idx, sw_object, s19, s19_object, sw_list, dangling>>

getSWListThread(t) ==
  \/ ReadIndex(t) \/ StartS19(t) \/ StartS19Fails(t) \/ OpenA2lFails(t) \/ ReadA2l(t)
  \/ JoinS19(t) \/ NoS19(t) \/ Store(t)

getS19Thread(t) ==
  /\ main # "exit" /\ s19[t] = "started"
  /\ s19' = [s19 EXCEPT ![t] = "ended"]
  /\ s19_object' = [s19_object EXCEPT ![t] = IF S19Of(t) \in Readable THEN S19Of(t) ELSE NULL]
  /\ UNCHANGED <<names, main, i, index, list, idx, sw_object, results, dangling>>

-----------------------------------------------------------------------------

SwInit ==
  /\ argv \in CommandLines
  /\ a2l_file_name_list = [t \in Pair |-> NULL]
  /\ s19_file_name_list = [t \in Pair |-> NULL]
  /\ sw_pair_cnt = 0
  /\ main = "args" /\ i = 1
  /\ index = [t \in Pair |-> NULL]
  /\ list = [t \in Pair |-> "none"]
  /\ idx = [t \in Pair |-> NULL]
  /\ sw_object = [t \in Pair |-> NULL]
  /\ s19 = [t \in Pair |-> "none"]
  /\ s19_object = [t \in Pair |-> NULL]
  /\ sw_object_list = [t \in Pair |-> NULL]
  /\ sw_list = <<>>
  /\ dangling = FALSE

getSWList ==
  \/ CreateThread \/ CreateThreadFails \/ AllCreated \/ JoinThread \/ AllJoined
  \/ Collect \/ AllCollected

Main == ParseOption \/ ParseEnd \/ getSWList \/ Exit

SwNext == Main \/ \E t \in Pair : getSWListThread(t) \/ getS19Thread(t)

SwSpec == SwInit /\ [][SwNext]_swVars

-----------------------------------------------------------------------------
(* Properties *)

Expected(t) ==
  LET s == s19_file_name_list[t] IN
    IF a2l_file_name_list[t] \notin Readable THEN NULL
    ELSE [a2l |-> a2l_file_name_list[t], s19 |-> IF s \in Readable THEN s ELSE NULL]

\* what the pair t makes: a pair whose S19 thread could not be started is missing
Made ==
  [t \in Pair |-> IF s19_file_name_list[t] # NULL /\ s19[t] = "none" THEN NULL
                  ELSE Expected(t)]

\* the first n of objects that are not NULL
Present(objects, n) == {t \in 0 .. n - 1 : objects[t] # NULL}

\* seq is the first n of objects, in order and without NULL
IsFiltered(seq, objects, n) ==
  /\ Len(seq) = Cardinality(Present(objects, n))
  /\ \A t \in Present(objects, n) : seq[Cardinality(Present(objects, t + 1))] = objects[t]

\* Whatever the threads do in which order, sw_list has the objects of the pairs that
\* could be read, each from its own files and in the order of the command line.
ListInOrder == main = "done" => IsFiltered(sw_list, Made, sw_pair_cnt)

\* The threads read index while it exists, and write sw_object_list before it is
\* collected, unless getSWList gave up.
ThreadsDone ==
  /\ dangling => main \in {"failed", "exit"}
  /\ main \in {"collect", "done"} => \A t \in 0 .. sw_pair_cnt - 1 : list[t] = "ended"

\* Of an S19 file that is read, the object gets into a software object: only the thread
\* of a pair without an A2L file is not waited for.
S19Joined ==
  main = "done" =>
    \A t \in 0 .. sw_pair_cnt - 1 :
      s19[t] \in {"started", "ended"} => a2l_file_name_list[t] \notin Readable

\* getSWList has returned a list, or main has ended without one
MainEnded == main \in {"done", "exit"}
=============================================================================
