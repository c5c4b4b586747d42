-------------------------- MODULE EliminationStack --------------------------
(***************************************************************************)
(* The stack of concurrent/11-unlock-stack/elimination_stack.cc: a         *)
(* TreiberStack whose calls, after ELIMINATION_ATTEMPTS failures at the    *)
(* head, try once to meet at a random slot of the elimination array.  A    *)
(* popper puts its marker into an empty slot and waits a while; a pusher   *)
(* that finds a marker replaces it with its node.  After that a call stays *)
(* with the stack.                                                         *)
(*                                                                         *)
(* The attempts are not counted: any failure may be the last, and a popper *)
(* may stop waiting at any time.  Two accesses to a slot are one action    *)
(* where the tag, which only grows, gives the second the same outcome.     *)
(***************************************************************************)
EXTENDS TreiberStack, FiniteSets

CONSTANT
  Slots       \* the indexes of the elimination array

VARIABLES
  slot,       \* _elimination_array: a node, Null or the marker, and the tag
  tried,      \* whether a thread's call has tried the elimination array
  idx,        \* the index it has drawn there
  marked      \* its new_marker

evars == <<slot, tried, idx, marked>>
allVars == <<vars, evars>>

\* POPPER_MARKER, the address of the stack itself: no node.
Marker == Capacity + 1

EInit ==
  /\ Init
  /\ slot = [s \in Slots |-> [ptr |-> Null, tag |-> 0]]
  /\ tried = [t \in Threads |-> FALSE]
  /\ idx \in [Threads -> Slots] /\ \A t, u \in Threads : idx[t] = idx[u]
  /\ marked = [t \in Threads |-> [ptr |-> Null, tag |-> 0]]

Slot(t) == slot[idx[t]]

\* The compare-exchange of a slot that holds what was loaded from it.
Swap(t, n) ==
  /\ Slot(t) = old[t]
  /\ slot' = [slot EXCEPT ![idx[t]] = NewHead(t, n)]

\* Back to the stack, for the rest of the call.
GiveUp(t, from) ==
  /\ Go(t, from, "reload")
  /\ tried' = [tried EXCEPT ![t] = TRUE]
  /\ UNCHANGED <<top, next, storage, call, old, after, mine, item, calls, list>>

Reload(t) ==
  /\ Go(t, "reload", IF call[t] = "emplace" THEN "link" ELSE "read")
  /\ old' = [old EXCEPT ![t] = top["stack"]]
  /\ UNCHANGED <<top, next, storage, call, after, mine, item, calls, list, evars>>

See(t, from, to, seen) ==
  /\ Go(t, from, to)
  /\ old' = [old EXCEPT ![t] = seen]
  /\ UNCHANGED <<top, next, storage, call, after, mine, item, calls, list>>

-----------------------------------------------------------------------------
(* try_eliminate_push.                                                     *)

MeetPopper(t) ==
  /\ call[t] = "emplace" /\ ~tried[t]
  /\ \E s \in Slots :
       /\ idx' = [idx EXCEPT ![t] = s]
       /\ \/ slot[s].ptr = Marker /\ See(t, "put", "answer", slot[s]) /\ UNCHANGED tried
          \/ slot[s].ptr # Marker /\ GiveUp(t, "put")
  /\ UNCHANGED <<slot, marked>>

Answer(t) ==
  /\ Swap(t, mine[t])
  /\ Return(t, "answer")
  /\ tried' = [tried EXCEPT ![t] = FALSE]
  /\ UNCHANGED <<top, next, storage, old, after, calls, list, idx, marked>>

AnswerFails(t) ==
  /\ Slot(t) # old[t]
  /\ GiveUp(t, "answer")
  /\ UNCHANGED <<slot, idx, marked>>

TryEliminatePush(t) == MeetPopper(t) \/ Answer(t) \/ AnswerFails(t)

-----------------------------------------------------------------------------
(* try_eliminate_pop.                                                      *)

\* What an offer expects: an empty slot with the tag it has just read.
Vacant(s) == [ptr |-> Null, tag |-> slot[s].tag]

MeetPusher(t) ==
  /\ call[t] = "pop" /\ ~tried[t]
  /\ pc[t] = "read" => old[t].ptr = Null
  /\ \E from \in {"read", "take"}, s \in Slots :
       /\ idx' = [idx EXCEPT ![t] = s]
       /\ \/ slot[s].ptr \in Nodes /\ See(t, from, "claim", slot[s])
          \/ slot[s].ptr \notin Nodes /\ See(t, from, "offer", Vacant(s))
  /\ UNCHANGED <<slot, tried, marked>>

\* The popper leaves with the node it found in the slot.
Leave(t, from) ==
  /\ Go(t, from, "own")
  /\ mine' = [mine EXCEPT ![t] = old[t].ptr]
  /\ UNCHANGED <<top, next, storage, call, old, after, item, calls, list,
                 tried, idx, marked>>

\* Mutant: the slot is not emptied.
Claim_Keeps(t) ==
  /\ Slot(t) = old[t]
  /\ Leave(t, "claim")
  /\ UNCHANGED slot

Claim(t) ==
  /\ Swap(t, Null)
  /\ Leave(t, "claim")

ClaimFails(t) ==
  /\ Slot(t) # old[t]
  /\ See(t, "claim", "offer", Vacant(idx[t]))
  /\ UNCHANGED evars

Offer(t) ==
  /\ Swap(t, Marker)
  /\ Go(t, "offer", "wait")
  /\ marked' = [marked EXCEPT ![t] = NewHead(t, Marker)]
  /\ UNCHANGED <<top, next, storage, call, old, after, mine, item, calls, list,
                 tried, idx>>

OfferFails(t) ==
  /\ Slot(t) # old[t]
  /\ GiveUp(t, "offer")
  /\ UNCHANGED <<slot, idx, marked>>

\* A load of the waiting loop that finds something else than a marker.
Look(t) ==
  /\ Slot(t).ptr # Marker
  /\ See(t, "wait", "collect", Slot(t))
  /\ UNCHANGED evars

Collect(t) ==
  /\ Swap(t, Null)
  /\ \/ old[t].ptr # Null /\ Leave(t, "collect")
     \/ old[t].ptr = Null /\ GiveUp(t, "collect") /\ UNCHANGED <<idx, marked>>

CollectFails(t) ==
  /\ Slot(t) # old[t]
  /\ See(t, "collect", "wait", old[t])
  /\ UNCHANGED evars

\* Mutants: the slot is emptied whatever it holds; the marker stays there.
Withdraw_Store(t) ==
  /\ GiveUp(t, "wait")
  /\ slot' = [slot EXCEPT ![idx[t]] = [ptr |-> Null, tag |-> @.tag + 1]]
  /\ UNCHANGED <<idx, marked>>

Withdraw_Forgets(t) ==
  /\ GiveUp(t, "wait")
  /\ UNCHANGED <<slot, idx, marked>>

\* The popper takes its marker back if it is still there, and goes without
\* looking again if it is not.
Withdraw(t) ==
  /\ GiveUp(t, "wait")
  /\ slot' = IF Slot(t) = marked[t]
               THEN [slot EXCEPT ![idx[t]] = [ptr |-> Null, tag |-> @.tag + 1]]
               ELSE slot
  /\ UNCHANGED <<idx, marked>>

TryEliminatePop(t) ==
  \/ MeetPusher(t) \/ Claim(t) \/ ClaimFails(t) \/ Offer(t) \/ OfferFails(t)
  \/ Look(t) \/ Collect(t) \/ CollectFails(t) \/ Withdraw(t)

-----------------------------------------------------------------------------
\* acquire and release of the pool are those of treiber_stack.cc.
PoolAcquire(t) == Acquire(t)
PoolRelease(t) == Release(t)

\* The steps at the stack are TreiberStack's, except that a pop that finds it
\* empty returns only after it has tried the elimination array.
AtStack(t) ==
  /\ Emplace(t) \/ PoolAcquire(t) \/ Pop(t) \/ PoolRelease(t)
  /\ call[t] = "pop" /\ pc'[t] = "idle" => tried[t] \/ mine[t] # Null
  /\ tried' = [tried EXCEPT ![t] = @ /\ pc'[t] # "idle"]
  /\ UNCHANGED <<slot, idx, marked>>

ENext ==
  \E t \in Threads :
    AtStack(t) \/ TryEliminatePush(t) \/ TryEliminatePop(t) \/ Reload(t)

ESpec == EInit /\ [][ENext]_allVars

-----------------------------------------------------------------------------
(* Properties.                                                             *)

TaggedSlot == [ptr : Nodes \cup {Null, Marker}, tag : Nat]

ETypeOK ==
  /\ top \in [Lists -> Tagged]
  /\ next \in [Nodes -> Nodes \cup {Null}]
  /\ storage \in [Nodes -> Values \cup {Raw}]
  /\ call \in [Threads -> {"none", "emplace", "pop"}]
  /\ pc \in [Threads -> {"idle", "read", "take", "own", "link", "put", "answer",
                         "claim", "offer", "wait", "collect", "reload"}]
  /\ old \in [Threads -> TaggedSlot]
  /\ after \in [Threads -> Nodes \cup {Null}]
  /\ mine \in [Threads -> Nodes \cup {Null}]
  /\ item \in [Threads -> Values \cup {Raw}]
  /\ calls \in 0 .. MaxCalls
  /\ list \in [Lists -> Seq(Nodes)]
  /\ slot \in [Slots -> TaggedSlot]
  /\ tried \in [Threads -> BOOLEAN]
  /\ idx \in [Threads -> Slots]
  /\ marked \in [Threads -> TaggedSlot]
  /\ \A t \in Threads : pc[t] = "idle" => mine[t] = Null /\ ~tried[t]

\* Every node is at exactly one place: in a list, in a slot or with a thread,
\* also when a popper gives up while a pusher answers it (lines 270-327).
EachNodeOnce ==
  \A n \in Nodes :
    Cardinality({i \in DOMAIN list["stack"] : list["stack"][i] = n})
      + Cardinality({i \in DOMAIN list["pool"] : list["pool"][i] = n})
      + Cardinality({s \in Slots : slot[s].ptr = n})
      + Cardinality({t \in Threads : mine[t] = n}) = 1

\* A marker in a slot is the marker of one popper that is waiting there: no
\* pusher hands its element to a popper that has gone (lines 275-282, 304-325).
MarkerHasPopper ==
  \A s \in Slots : slot[s].ptr = Marker =>
    \E t \in Threads : pc[t] \in {"wait", "collect"} /\ idx[t] = s /\ marked[t] = slot[s]

\* Both: nothing is lost or given twice between a popper and a pusher that
\* meet in the array (lines 201-330).
EliminationIsExact == EachNodeOnce /\ MarkerHasPopper

\* Elements leave the stack from the top, or the slot where they are parked,
\* each to one pop, which returns it unchanged.
Hand(t) ==
  CASE call[t] = "pop" /\ mine[t] # Null /\ pc[t] = "own" -> storage[mine[t]]
    [] call[t] = "pop" /\ mine[t] # Null /\ pc[t] # "own" -> item[t]
    [] OTHER -> Raw

Elements == INSTANCE ElementStack WITH
  Places <- Slots,
  Nothing <- Raw,
  stack <- [i \in 1 .. Len(list["stack"]) |-> storage[list["stack"][i]]],
  parked <- [s \in Slots |-> IF slot[s].ptr \in Nodes THEN storage[slot[s].ptr] ELSE Raw],
  hand <- [t \in Threads |-> Hand(t)]

ImplementsElements == Elements!Spec
=============================================================================
