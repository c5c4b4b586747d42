--------------------------- MODULE ContainerTests ---------------------------
(***************************************************************************)
(* The test and measuring programs in the files of the containers: of the  *)
(* stack under a mutex (08 stack.cc), the list and the table (09 list.cc,  *)
(* table.cc), the two lock-free stacks (11) and two queues (10).  A call   *)
(* of a container is one step here; its own module has its steps.  The     *)
(* volumes of the source are constants; times and prints are left out.     *)
(***************************************************************************)
EXTENDS Integers

CONSTANTS
  Volume,        \* DEFAULT_OPERATIONS, operations_per_thread, OPS_PER_THREAD
  MaxThreads,    \* hardware_concurrency, NUM_THREADS
  Share,         \* the divisor of the volume in a mixed test: 5, 10 or 100
  Prefill,       \* what a container holds before such a test
  Limit,         \* how many values the poppers of stack.cc want together
  NodePool,      \* the capacity of a lock-free stack
  Offers,        \* what the main of a queue emplaces, and pops (20)
  Room           \* the capacity of that queue (10)

VARIABLES
  test,          \* the test that runs
  thread_count,  \* with how many threads
  size,          \* how many values the container holds
  keys,          \* which have been put into it, if no test takes them out
  did,           \* how many calls each thread has made
  popper,        \* where a popper of stack.cc is in its loop
  gone,          \* the threads that have ended
  total,         \* total_operations, or pop_count of stack.cc
  found,         \* found_count
  refused,       \* pushes into a full and pops from an empty container
  drained        \* what main has popped when all have ended

ctVars == <<test, thread_count, size, keys, did, popper, gone, total, found, refused, drained>>

Tests == {"stack push", "stack mixed", "list push", "list find", "list mixed",
          "table read", "table mixed", "table hotspot", "treiber", "elimination",
          "lock_queue", "unlock_queue"}
Queues == {"lock_queue", "unlock_queue"}
Pooled == {"treiber", "elimination"}

\* for (thread_count = 1; thread_count <= MAX_THREADS; thread_count *= 2)
ThreadCounts == {n \in 1 .. MaxThreads : \E k \in 0 .. n : n = 2 ^ k}

Testers == 0 .. thread_count - 1

-----------------------------------------------------------------------------
(* What thread i calls in its round j, of how many rounds.                 *)

Call(c, k) == [op |-> c, key |-> k]

StackPush(i, j) == Call("push", i * Volume + j)

\* test_concurrent_push, test_concurrent_find and test_mixed_operations of list.cc
ListPush(i, j, rounds) == Call("push", i * rounds + j)
ListFind(i, j, rounds) == Call("find", (i * rounds + j) % Volume)
ListMixed(i, j, rounds) == Call(IF j % 3 = 0 THEN "push" ELSE "find", i * rounds + j)

\* test_concurrent_reads, test_mixed_operations and test_hotspot_contention of
\* table.cc
TableRead(i, j, rounds) == Call("find", (i * rounds + j) % Volume)
TableMixed(i, j, rounds) ==
  Call(IF j % 5 = 0 THEN "put" ELSE "find", (i * rounds + j) % Prefill)
TableHotspot(i, j, rounds) == Call(IF j % 10 = 0 THEN "put" ELSE "find", j % Prefill)

\* The mains of treiber_stack.cc and elimination_stack.cc.
TreiberCall(i, j) == Call(IF j % 2 = 0 THEN "push" ELSE "pop", j)
EliminationCall(i, j) == Call(IF j % 2 = 0 THEN "push" ELSE "pop", j)

\* The producers of lock_queue.cc and unlock_queue.cc.
LockQueueCall(i, j) == Call("push", j)
UnlockQueueCall(i, j) == Call("push", j)

Rounds ==
  CASE test \in {"list push", "list find", "table read"} -> Volume \div thread_count
    [] test \in {"list mixed", "table mixed", "table hotspot"} ->
         (Volume \div thread_count) \div Share
    [] test \in Queues -> Offers
    [] OTHER -> Volume

NextCall(i, j) ==
  CASE test \in {"stack push", "stack mixed"} -> StackPush(i, j)
    [] test = "list push" -> ListPush(i, j, Rounds)
    [] test = "list find" -> ListFind(i, j, Rounds)
    [] test = "list mixed" -> ListMixed(i, j, Rounds)
    [] test = "table read" -> TableRead(i, j, Rounds)
    [] test = "table mixed" -> TableMixed(i, j, Rounds)
    [] test = "table hotspot" -> TableHotspot(i, j, Rounds)
    [] test = "treiber" -> TreiberCall(i, j)
    [] test = "elimination" -> EliminationCall(i, j)
    [] test = "lock_queue" -> LockQueueCall(i, j)
    [] OTHER -> UnlockQueueCall(i, j)

\* The threads that pop until they have enough: half of those of stack.cc, and
\* the second of a queue.
Poppers ==
  CASE test = "stack mixed" -> {i \in Testers : i >= thread_count \div 2}
    [] test \in Queues -> {1}
    [] OTHER -> {}

-----------------------------------------------------------------------------

CtTypeOK ==
  /\ test \in Tests /\ thread_count \in ThreadCounts
  /\ size \in Nat /\ keys \subseteq Nat
  /\ did \in [Testers -> Nat]
  /\ popper \in [Testers -> {"look", "pop", "count"}]
  /\ gone \subseteq Testers
  /\ {total, found, refused, drained} \subseteq Nat

\* What main puts into the container before it starts the threads.
Filled ==
  CASE test \in {"list find", "table read"} -> Volume
    [] test \in {"list mixed", "table mixed", "table hotspot"} \cup Pooled -> Prefill
    [] OTHER -> 0

CtInit ==
  /\ test \in Tests
  /\ thread_count \in
       CASE test \in {"stack push", "stack mixed"} \cup Pooled -> {MaxThreads}
         [] test \in Queues -> {2}
         [] OTHER -> ThreadCounts
  /\ size = Filled /\ keys = 0 .. Filled - 1
  /\ did = [i \in Testers |-> 0]
  /\ popper = [i \in Testers |-> "look"]
  /\ gone = {}
  /\ total = 0 /\ found = 0 /\ refused = 0 /\ drained = 0

IsFull ==
  \/ test \in Pooled /\ size >= NodePool
  \/ test \in Queues /\ size >= Room

\* One call of a thread that makes a number of them.
CallNext(i) ==
  /\ i \notin Poppers /\ did[i] < Rounds
  /\ LET call == NextCall(i, did[i])
         fails == IF call.op = "push" THEN IsFull ELSE call.op = "pop" /\ size = 0
     IN /\ size' = CASE fails \/ call.op \in {"find", "put"} -> size
                     [] call.op = "push" -> size + 1
                     [] call.op = "pop" -> size - 1
        /\ keys' = IF call.op = "push" /\ test \in {"list push", "list mixed"}
                   THEN keys \cup {call.key} ELSE keys
        /\ refused' = IF fails THEN refused + 1 ELSE refused
        /\ found' = IF call.op = "find" /\ call.key \in keys THEN found + 1 ELSE found
  /\ did' = [did EXCEPT ![i] = @ + 1]
  /\ UNCHANGED <<test, thread_count, popper, gone, total, drained>>

\* A thread that has made its calls adds their number to the total and ends.
EndThread(i) ==
  /\ i \notin Poppers /\ did[i] = Rounds /\ i \notin gone
  /\ gone' = gone \cup {i}
  /\ total' = IF test = "stack mixed" THEN total ELSE total + did[i]
  /\ UNCHANGED <<test, thread_count, size, keys, did, popper, found, refused, drained>>

\* while (pop_count < 1000) if (stack.pop().has_value()) pop_count++;
PopLoop(i) ==
  /\ test = "stack mixed" /\ i \in Poppers \ gone
  /\ \/ popper[i] = "look" /\ total < Limit
        /\ popper' = [popper EXCEPT ![i] = "pop"] /\ UNCHANGED <<size, total, gone>>
     \/ popper[i] = "look" /\ total >= Limit
        /\ gone' = gone \cup {i} /\ UNCHANGED <<size, total, popper>>
     \/ popper[i] = "pop" /\ size > 0 /\ size' = size - 1
        /\ popper' = [popper EXCEPT ![i] = "count"] /\ UNCHANGED <<total, gone>>
     \/ popper[i] = "pop" /\ size = 0
        /\ popper' = [popper EXCEPT ![i] = "look"] /\ UNCHANGED <<size, total, gone>>
     \/ popper[i] = "count" /\ total' = total + 1
        /\ popper' = [popper EXCEPT ![i] = "look"] /\ UNCHANGED <<size, gone>>
  /\ UNCHANGED <<test, thread_count, keys, did, found, refused, drained>>

\* while (counter != 20) if (queue.pop(msg)) counter++;
ConsumeLoop(i) ==
  /\ test \in Queues /\ i \in Poppers \ gone
  /\ \/ did[i] < Offers /\ size > 0 /\ size' = size - 1
        /\ did' = [did EXCEPT ![i] = @ + 1] /\ UNCHANGED gone
     \/ did[i] = Offers /\ gone' = gone \cup {i} /\ UNCHANGED <<size, did>>
  /\ UNCHANGED <<test, thread_count, keys, popper, total, found, refused, drained>>

\* test_concurrent_operations of stack.cc pops what has been pushed.
Drain ==
  /\ test = "stack push" /\ gone = Testers /\ size > 0
  /\ size' = size - 1
  /\ drained' = drained + 1
  /\ UNCHANGED <<test, thread_count, keys, did, popper, gone, total, found, refused>>

Tester(i) == i \in Testers /\ (CallNext(i) \/ EndThread(i) \/ PopLoop(i) \/ ConsumeLoop(i))

CtNext == Drain \/ \E i \in 0 .. MaxThreads : Tester(i)

CtSpec ==
  /\ CtInit /\ [][CtNext]_ctVars
  /\ WF_ctVars(Drain) /\ \A i \in 0 .. MaxThreads : WF_ctVars(Tester(i))

-----------------------------------------------------------------------------
(* Properties.                                                             *)

AllGone == gone = Testers

\* What the tests count is what they mean to: main pops all that was pushed
\* (the assertion of stack.cc:227), the parts of the threads cover the volume
\* but for a remainder, every key that is looked for in the filled containers is
\* found, the poppers of stack.cc stop within one value each of their limit, and
\* a measured stack is never found full or empty.  The program of a queue ends
\* only if no element was refused: else its consumer waits for the twentieth for
\* ever, and main, who joins it, with it.
CountsAddUp ==
  /\ AllGone /\ test = "stack push" /\ size = 0 => drained = thread_count * Volume
  /\ AllGone /\ test \in {"list push", "list find", "table read"} =>
       /\ Volume - total \in 0 .. thread_count - 1
       /\ test # "list push" => found = total
       /\ test = "list push" => keys = 0 .. total - 1
  /\ test = "stack mixed" => total <= Limit + thread_count \div 2 - 1
  /\ test \in Pooled => refused = 0
  /\ AllGone /\ test \in Queues => refused = 0

\* Every test ends, but for those of the two queues that have refused an element.
TestIsOver == AllGone \/ refused > 0
TestsEnd == <>TestIsOver
=============================================================================
