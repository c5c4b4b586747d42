------------------------------ MODULE Channels ------------------------------
(***************************************************************************)
(* The channels of concurrent/05-actor-csp: csp.cc, which holds one value, *)
(* and buffercsp.cc, which holds several.  Both have one mutex and two     *)
(* condition variables, one for senders and one for receivers, and notify  *)
(* after they have released the mutex.  A step is a critical section or a  *)
(* notification: the flag is only written with the mutex held, so a test   *)
(* of a predicate and the wait that follows it are one step.               *)
(***************************************************************************)
EXTENDS Integers, Sequences, FiniteSets

CONSTANTS
  Senders, Receivers,   \* the threads
  ChCapacity,           \* _capacity of the buffered channel
  MaxSends              \* how many values a sender sends: a bound

ASSUME ChannelsAssumption ==
  /\ IsFiniteSet(Senders) /\ IsFiniteSet(Receivers)
  /\ ChCapacity \in Nat \ {0}

VARIABLES
  kind,       \* which of the two channels this is
  buffer,     \* _data, _buffer
  closer,     \* the thread that calls stop or close: before, within, after
  sender,     \* where each sender is
  receiver,   \* where each receiver is
  stored,     \* history: the values in the order they were stored
  received    \* history: the values in the order they were taken out

chVars == <<kind, buffer, closer, sender, receiver, stored, received>>

Payloads == Senders \X (1 .. MaxSends)

ChTypeOK ==
  /\ kind \in {"csp", "buffered"}
  /\ buffer \in Seq(Payloads)
  /\ closer \in {"open", "closed", "sendersTold", "done"}
  /\ sender \in [Senders -> {"idle", "waiting", "woken", "notify", "refused"}]
  /\ receiver \in [Receivers -> {"idle", "waiting", "woken", "notify", "ended"}]
  /\ stored \in Seq(Payloads)
  /\ received \in Seq(Payloads)

ChInit ==
  /\ kind \in {"csp", "buffered"}
  /\ buffer = <<>>
  /\ closer = "open"
  /\ sender = [t \in Senders |-> "idle"]
  /\ receiver = [t \in Receivers |-> "idle"]
  /\ stored = <<>>
  /\ received = <<>>

Closed == closer # "open"               \* _stop, _closed
Full == Len(buffer) >= (IF kind = "csp" THEN 1 ELSE ChCapacity)

In(state, threads) == {t \in threads : state[t] = "waiting"}

\* notify_one on a condition variable, and notify_all.
OneWoken(state, threads) ==
  IF In(state, threads) = {} THEN {state}
  ELSE {[state EXCEPT ![t] = "woken"] : t \in In(state, threads)}
AllWoken(state, threads) ==
  [t \in threads |-> IF state[t] = "waiting" THEN "woken" ELSE state[t]]

-----------------------------------------------------------------------------
(* send.                                                                   *)

Sent(t) == Cardinality({i \in 1 .. Len(stored) : stored[i][1] = t})

WaitToSend(t) ==
  /\ Full
  /\ sender' = [sender EXCEPT ![t] = "waiting"]
  /\ UNCHANGED <<buffer, stored>>

StoreValue(t) ==
  /\ ~Full
  /\ buffer' = Append(buffer, <<t, Sent(t) + 1>>)
  /\ stored' = Append(stored, <<t, Sent(t) + 1>>)
  /\ sender' = [sender EXCEPT ![t] = "notify"]

RefuseValue(t) ==
  /\ Closed
  /\ sender' = [sender EXCEPT ![t] = "refused"]
  /\ UNCHANGED <<buffer, stored>>

\* csp.cc tests _stop before the wait, and not after it.
CspSend(t) ==
  /\ kind = "csp" /\ Sent(t) < MaxSends
  /\ \/ sender[t] = "idle" /\ RefuseValue(t)
     \/ sender[t] = "idle" /\ ~Closed /\ (WaitToSend(t) \/ StoreValue(t))
     \/ sender[t] = "woken" /\ (WaitToSend(t) \/ StoreValue(t))
  /\ UNCHANGED <<kind, closer, receiver, received>>

\* buffercsp.cc ends the wait when the channel is closed, and tests _closed
\* after it.  Mutant: it tests it before, as csp.cc does.
BufferedSend_TestsBefore(t) ==
  /\ kind = "buffered" /\ Sent(t) < MaxSends
  /\ \/ sender[t] = "idle" /\ RefuseValue(t)
     \/ sender[t] = "idle" /\ ~Closed /\ (WaitToSend(t) \/ StoreValue(t))
     \/ sender[t] = "woken" /\ (WaitToSend(t) \/ StoreValue(t))
  /\ UNCHANGED <<kind, closer, receiver, received>>

BufferedSend(t) ==
  /\ kind = "buffered" /\ Sent(t) < MaxSends
  /\ sender[t] \in {"idle", "woken"}
  /\ \/ RefuseValue(t)
     \/ ~Closed /\ (WaitToSend(t) \/ StoreValue(t))
  /\ UNCHANGED <<kind, closer, receiver, received>>

\* Mutant: only when the channel was empty.
NotifyReceiver_WhenFirst(t) ==
  /\ sender[t] = "notify"
  /\ sender' = [sender EXCEPT ![t] = "idle"]
  /\ receiver' \in IF Len(buffer) = 1 THEN OneWoken(receiver, Receivers) ELSE {receiver}
  /\ UNCHANGED <<kind, buffer, closer, stored, received>>

NotifyReceiver(t) ==
  /\ sender[t] = "notify"
  /\ sender' = [sender EXCEPT ![t] = "idle"]
  /\ receiver' \in OneWoken(receiver, Receivers)
  /\ UNCHANGED <<kind, buffer, closer, stored, received>>

-----------------------------------------------------------------------------
(* recv, receive.                                                          *)

Receive(t) ==
  /\ receiver[t] \in {"idle", "woken"}
  /\ IF buffer = <<>>
       THEN /\ receiver' = [receiver EXCEPT ![t] = IF Closed THEN "ended" ELSE "waiting"]
            /\ UNCHANGED <<buffer, received>>
       ELSE /\ received' = Append(received, Head(buffer))
            /\ buffer' = Tail(buffer)
            /\ receiver' = [receiver EXCEPT ![t] = "notify"]
  /\ UNCHANGED <<kind, closer, sender, stored>>

NotifySender(t) ==
  /\ receiver[t] = "notify"
  /\ receiver' = [receiver EXCEPT ![t] = "idle"]
  /\ sender' \in OneWoken(sender, Senders)
  /\ UNCHANGED <<kind, buffer, closer, stored, received>>

SpuriousWake ==
  /\ \/ \E t \in In(sender, Senders) :
          sender' = [sender EXCEPT ![t] = "woken"] /\ UNCHANGED receiver
     \/ \E t \in In(receiver, Receivers) :
          receiver' = [receiver EXCEPT ![t] = "woken"] /\ UNCHANGED sender
  /\ UNCHANGED <<kind, buffer, closer, stored, received>>

-----------------------------------------------------------------------------
(* stop, close: by any thread, once.                                       *)

SetClosed ==
  /\ closer = "open"
  /\ closer' = "closed"
  /\ UNCHANGED <<kind, buffer, sender, receiver, stored, received>>

TellSenders ==
  /\ closer = "closed"
  /\ closer' = "sendersTold"
  /\ sender' = AllWoken(sender, Senders)
  /\ UNCHANGED <<kind, buffer, receiver, stored, received>>

TellReceivers ==
  /\ closer = "sendersTold"
  /\ closer' = "done"
  /\ receiver' = AllWoken(receiver, Receivers)
  /\ UNCHANGED <<kind, buffer, sender, stored, received>>

ChNext ==
  \/ \E t \in Senders : CspSend(t) \/ BufferedSend(t) \/ NotifyReceiver(t)
  \/ \E t \in Receivers : Receive(t) \/ NotifySender(t)
  \/ SpuriousWake
  \/ SetClosed \/ TellSenders \/ TellReceivers

ChSpec == ChInit /\ [][ChNext]_chVars

-----------------------------------------------------------------------------
(* Properties.                                                             *)

\* Payloads come out in the order they went in, each once; and a receiver that
\* has been told the end of the buffered channel has missed none: no sender
\* that was waiting stores a value behind it (buffercsp.cc lines 21-29, 42).
EndMeansEmpty ==
  /\ stored = received \o buffer
  /\ kind = "buffered" /\ (\E t \in Receivers : receiver[t] = "ended") => buffer = <<>>

\* One notification per value and one per place is enough, though it is sent
\* without the mutex: while threads of one side sleep, every value (every free
\* place) has a woken thread on its way to it or a notification still to come.
\* Once stop or close has returned nobody sleeps on: no receiver, and in the
\* buffered channel no sender.
NoneForgotten ==
  LET Count(state, threads, at) == Cardinality({t \in threads : state[t] = at})
      Free == (IF kind = "csp" THEN 1 ELSE ChCapacity) - Len(buffer)
  IN /\ \/ In(receiver, Receivers) = {} \/ closer \in {"closed", "sendersTold"}
        \/ Len(buffer) <= Count(receiver, Receivers, "woken") + Count(sender, Senders, "notify")
     /\ \/ In(sender, Senders) = {} \/ closer = "closed"
        \/ Free <= Count(sender, Senders, "woken") + Count(receiver, Receivers, "notify")
     /\ closer = "done" =>
          /\ In(receiver, Receivers) = {}
          /\ kind = "buffered" => In(sender, Senders) = {}

\* "Channel has been stopped, cannot send data." (csp.cc line 13.)
NothingSentAfterStop == [][Closed => stored' = stored]_chVars
=============================================================================
