----------------------------- MODULE FineLocking -----------------------------
(***************************************************************************)
(* Locks finer than a container: those of the nodes of LockList and of the *)
(* buckets of LockLookupTable (concurrent/09-table-list, list.cc and       *)
(* table.cc), and last the spin lock of concurrent/03-mutex.               *)
(*                                                                         *)
(* LockList is a singly linked list with a shared mutex in every node.     *)
(* Walkers go hand over hand: they lock the next node before they let go of *)
(* the one they are at.  A step ends where a lock is taken or released.    *)
(***************************************************************************)
EXTENDS Integers, SequencesExt

CONSTANTS
  Walkers,    \* the threads
  Matching,   \* the nodes whose data the predicates are true of
  MaxNodes    \* how many nodes are ever inserted: a bound

ASSUME LockListAssumption == MaxNodes \in Nat /\ Matching \subseteq 1 .. MaxNodes

VARIABLES
  link,       \* _next: 0 stands for _head and, as a value, for nullptr
  made,       \* how many nodes have been inserted: node n is the n-th
  dead,       \* the nodes that have been freed
  walk,       \* what each thread is doing
  at,         \* current, whose lock it holds
  ahead,      \* next, when it has locked that too, otherwise 0
  atStart     \* history: the nodes that were in the list when it began

llVars == <<link, made, dead, walk, at, ahead, atStart>>

LlTypeOK ==
  /\ link \in [0 .. MaxNodes -> 0 .. MaxNodes]
  /\ made \in 0 .. MaxNodes
  /\ dead \subseteq 1 .. made
  /\ walk \in [Walkers -> {"idle", "find", "each", "remove", "look"}]
  /\ at \in [Walkers -> 0 .. MaxNodes] /\ ahead \in [Walkers -> 0 .. MaxNodes]
  /\ atStart \in [Walkers -> SUBSET (1 .. MaxNodes)]

LlInit ==
  /\ link = [n \in 0 .. MaxNodes |-> 0]
  /\ made = 0
  /\ dead = {}
  /\ walk = [t \in Walkers |-> "idle"]
  /\ at = [t \in Walkers |-> 0]
  /\ ahead = [t \in Walkers |-> 0]
  /\ atStart = [t \in Walkers |-> {}]

\* Who holds the mutex of node n: find and for_each share it.
Holders(n) ==
  {t \in Walkers : walk[t] # "idle" /\ (at[t] = n \/ (ahead[t] = n /\ n # 0))}
Excluding(t) == walk[t] = "remove"
MayLock(n, exclusive) ==
  IF exclusive THEN Holders(n) = {} ELSE \A t \in Holders(n) : ~Excluding(t)

\* The nodes of the list after n: the least set that has the next node of n and
\* of every node of its own.
HasNext(S, n) == link[n] # 0 => link[n] \in S
Behind(n) ==
  {m \in 1 .. MaxNodes :
     \A S \in SUBSET (1 .. MaxNodes) :
       HasNext(S, n) /\ (\A x \in S : HasNext(S, x)) => m \in S}

-----------------------------------------------------------------------------
(* push_front, one critical section on _head.                              *)

PushFront ==
  /\ MayLock(0, TRUE) /\ made < MaxNodes
  /\ made' = made + 1
  /\ link' = [link EXCEPT ![made + 1] = link[0], ![0] = made + 1]
  /\ UNCHANGED <<dead, walk, at, ahead, atStart>>

-----------------------------------------------------------------------------
(* The walks: find_first_of, for_each and remove_if.                       *)

StartWalk(t) ==
  /\ walk[t] = "idle"
  /\ \E w \in {"find", "each", "remove"} :
       /\ MayLock(0, w = "remove")
       /\ walk' = [walk EXCEPT ![t] = w]
  /\ at' = [at EXCEPT ![t] = 0]
  /\ atStart' = [atStart EXCEPT ![t] = Behind(0)]
  /\ UNCHANGED <<link, made, dead, ahead>>

\* Mutant: remove_if takes a shared lock on the next node, as the readers do.
LockNext_Shared(t) ==
  /\ walk[t] \in {"find", "each", "remove"} /\ ahead[t] = 0
  /\ link[at[t]] # 0 /\ MayLock(link[at[t]], FALSE)
  /\ ahead' = [ahead EXCEPT ![t] = link[at[t]]]
  /\ UNCHANGED <<link, made, dead, walk, at, atStart>>

LockNext(t) ==
  /\ walk[t] \in {"find", "each", "remove"} /\ ahead[t] = 0
  /\ link[at[t]] # 0 /\ MayLock(link[at[t]], Excluding(t))
  /\ ahead' = [ahead EXCEPT ![t] = link[at[t]]]
  /\ UNCHANGED <<link, made, dead, walk, at, atStart>>

\* The data of the node is not what the predicate asks for: the lock of the
\* node before it goes.  (The readers let it go before they look.)
Advance(t) ==
  /\ ahead[t] # 0
  /\ walk[t] = "each" \/ ahead[t] \notin Matching
  /\ at' = [at EXCEPT ![t] = ahead[t]]
  /\ ahead' = [ahead EXCEPT ![t] = 0]
  /\ UNCHANGED <<link, made, dead, walk, atStart>>

Find(t) ==
  /\ walk[t] = "find" /\ ahead[t] \in Matching
  /\ walk' = [walk EXCEPT ![t] = "look"]
  /\ at' = [at EXCEPT ![t] = ahead[t]]
  /\ ahead' = [ahead EXCEPT ![t] = 0]
  /\ UNCHANGED <<link, made, dead, atStart>>

\* It copies the data out and unlocks.
CopyOut(t) ==
  /\ walk[t] = "look"
  /\ walk' = [walk EXCEPT ![t] = "idle"]
  /\ UNCHANGED <<link, made, dead, at, ahead, atStart>>

RemoveNext(t) ==
  /\ walk[t] = "remove" /\ ahead[t] \in Matching
  /\ link' = [link EXCEPT ![at[t]] = link[ahead[t]]]
  /\ dead' = dead \cup {ahead[t]}
  /\ ahead' = [ahead EXCEPT ![t] = 0]
  /\ UNCHANGED <<made, walk, at, atStart>>

EndOfList(t) ==
  /\ walk[t] \in {"find", "each", "remove"} /\ ahead[t] = 0 /\ link[at[t]] = 0
  /\ walk' = [walk EXCEPT ![t] = "idle"]
  /\ UNCHANGED <<link, made, dead, at, ahead, atStart>>

Walk(t) ==
  \/ LockNext(t) \/ Advance(t) \/ Find(t) \/ CopyOut(t) \/ RemoveNext(t) \/ EndOfList(t)

LlNext == PushFront \/ \E t \in Walkers : StartWalk(t) \/ Walk(t)

LlSpec == LlInit /\ [][LlNext]_llVars

-----------------------------------------------------------------------------
(* Properties.                                                             *)

\* Nobody is at a node that has been freed; and no walk is overtaken: what was
\* in the list when it began and still is, and is wanted, lies ahead of it, so
\* that a find that ends with nothing and a remove_if that ends have missed
\* nothing, whatever the others removed in front of them (lines 47-90).
NothingOvertaken ==
  \A t \in Walkers : walk[t] \in {"find", "each", "remove"} =>
    /\ at[t] \notin dead /\ ahead[t] \notin dead
    /\ walk[t] # "each" => (atStart[t] \cap Matching) \ dead \subseteq Behind(at[t])

-----------------------------------------------------------------------------
(***************************************************************************)
(* LockLookupTable: a hash table of buckets, each a vector of pairs under a *)
(* mutex of its own.  Every operation is one critical section of one bucket, *)
(* so the order of the calls is any; the hash function is any function of  *)
(* the keys.                                                               *)
(***************************************************************************)
CONSTANTS
  Keys, Contents,   \* what the table maps to what
  Absent,           \* default_value
  Buckets           \* the indices of _buckets

ASSUME LookupTableAssumption == Absent \notin Contents /\ Buckets # {}

VARIABLES
  hash,       \* _hasher, modulo the size: the bucket of every key
  pairs,      \* _data: of every bucket, its pairs in a sequence
  mapped      \* history: what every key was last mapped to

ltVars == <<hash, pairs, mapped>>

LtTypeOK ==
  /\ hash \in [Keys -> Buckets]
  /\ pairs \in [Buckets -> Seq(Keys \X Contents)]
  /\ mapped \in [Keys -> Contents \cup {Absent}]

LtInit ==
  /\ hash \in [Keys -> Buckets]
  /\ pairs = [b \in Buckets |-> <<>>]
  /\ mapped = [k \in Keys |-> Absent]

Bucket(k) == hash[k]              \* get_bucket

\* find_entry_for: the first place of the key, 0 for end().
FindEntry(k) == SelectInSeq(pairs[Bucket(k)], LAMBDA pair : pair[1] = k)

AddOrUpdate(k, v) ==
  /\ pairs' = [pairs EXCEPT ![Bucket(k)] =
       IF FindEntry(k) = 0 THEN Append(@, <<k, v>>) ELSE [@ EXCEPT ![FindEntry(k)] = <<k, v>>]]
  /\ mapped' = [mapped EXCEPT ![k] = v]
  /\ UNCHANGED hash

\* Mutant: the last pair is dropped whichever was asked for.
Delete_PopsLast(k) ==
  /\ pairs' = [pairs EXCEPT ![Bucket(k)] = IF FindEntry(k) = 0 THEN @ ELSE Front(@)]
  /\ mapped' = [mapped EXCEPT ![k] = Absent]
  /\ UNCHANGED hash

\* The last pair takes the place of the deleted one.
Delete(k) ==
  /\ pairs' = [pairs EXCEPT ![Bucket(k)] =
       IF FindEntry(k) = 0 THEN @
         ELSE Front([@ EXCEPT ![FindEntry(k)] = Last(pairs[Bucket(k)])])]
  /\ mapped' = [mapped EXCEPT ![k] = Absent]
  /\ UNCHANGED hash

ValueFor(k) == IF FindEntry(k) = 0 THEN Absent ELSE pairs[Bucket(k)][FindEntry(k)][2]

LtNext == \E k \in Keys : Delete(k) \/ \E v \in Contents : AddOrUpdate(k, v)

LtSpec == LtInit /\ [][LtNext]_ltVars

-----------------------------------------------------------------------------
(* Properties.                                                             *)

\* value_for returns what its key was last mapped to, whatever keys share its
\* bucket and however deletions have moved their pairs (lines 33-54).
IsTheMap == \A k \in Keys : ValueFor(k) = mapped[k]

-----------------------------------------------------------------------------
(***************************************************************************)
(* AdaptiveBackoffSpinLock of concurrent/03-mutex/spin_lock.cc.  A step is *)
(* one access to _flag or _lock_acquire_time; a relaxed load that returns  *)
(* an old value of the flag is one that was made earlier.  The average of  *)
(* the hold times only chooses the loop a thread waits in, and the three   *)
(* loops differ in how they pause: time and average are left out.          *)
(* (SpinLock in the same file has a test-and-set for both loads.)          *)
(***************************************************************************)
CONSTANT Spinners     \* the threads

VARIABLES
  flag,       \* _flag
  spinner,    \* where each thread is
  acquired    \* the thread whose time is in _lock_acquire_time

slVars == <<flag, spinner, acquired>>

SlTypeOK ==
  /\ flag \in BOOLEAN
  /\ spinner \in [Spinners -> {"idle", "load", "exchange", "won", "inside", "measured"}]
  /\ acquired \in Spinners

SlInit ==
  /\ flag = FALSE
  /\ spinner = [t \in Spinners |-> "idle"]
  /\ acquired = CHOOSE t \in Spinners : TRUE

Goes(t, from, to) == spinner[t] = from /\ spinner' = [spinner EXCEPT ![t] = to]

CallLock(t) == Goes(t, "idle", "load") /\ UNCHANGED <<flag, acquired>>

\* The relaxed load of try_lock and of the loops around it.
LoadFlag(t) ==
  /\ Goes(t, "load", IF flag THEN "load" ELSE "exchange")
  /\ UNCHANGED <<flag, acquired>>

\* Mutant: what the load has seen is trusted.
Exchange_Blind(t) ==
  /\ Goes(t, "exchange", "won")
  /\ flag' = TRUE
  /\ UNCHANGED acquired

\* compare_exchange_strong of try_lock.
Exchange(t) ==
  /\ Goes(t, "exchange", IF flag THEN "load" ELSE "won")
  /\ flag' = TRUE
  /\ UNCHANGED acquired

StoreTime(t) ==
  /\ Goes(t, "won", "inside")
  /\ acquired' = t
  /\ UNCHANGED flag

\* The first half of unlock takes the hold time.
Measure(t) == Goes(t, "inside", "measured") /\ UNCHANGED <<flag, acquired>>

ClearFlag(t) ==
  /\ Goes(t, "measured", "idle")
  /\ flag' = FALSE
  /\ UNCHANGED acquired

SlNext == \E t \in Spinners :
  CallLock(t) \/ LoadFlag(t) \/ Exchange(t) \/ StoreTime(t) \/ Measure(t) \/ ClearFlag(t)

SlSpec == SlInit /\ [][SlNext]_slVars

-----------------------------------------------------------------------------
(* Properties.                                                             *)

\* One thread holds the lock at a time, however many have seen the flag clear,
\* and the time it takes its hold time from in unlock is its own, though
\* _lock_acquire_time is a plain member of the lock (lines 34-53).
OneHolder ==
  /\ \A s, t \in Spinners : {spinner[s], spinner[t]} \subseteq {"won", "inside", "measured"} => s = t
  /\ \A t \in Spinners : spinner[t] \in {"inside", "measured"} => flag /\ acquired = t
=============================================================================
