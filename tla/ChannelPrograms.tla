--------------------------- MODULE ChannelPrograms ---------------------------
(***************************************************************************)
(* The programs of concurrent/05-actor-csp that use the channels:          *)
(* test_many and test_ping_pong of csp.cc, main of buffercsp.cc.  Each has *)
(* two threads, and Channels says what their calls do; here is in which    *)
(* order they make them.                                                   *)
(***************************************************************************)
EXTENDS Integers, Sequences

CONSTANTS
  Volleys,      \* how many values test_many (50) and main (10) send: a bound
  ChannelRoom   \* the capacity of the channel in main (5)

VARIABLES
  example,                                                    \* the program
  toBuffer, toCloser, toSender, toReceiver, toStored, toTaken,       \* chan, ch, ping_chan
  backBuffer, backCloser, backSender, backReceiver, backStored, backTaken    \* pong_chan

toVars == <<toBuffer, toCloser, toSender, toReceiver, toStored, toTaken>>
backVars == <<backBuffer, backCloser, backSender, backReceiver, backStored, backTaken>>
cpVars == <<example, toVars, backVars>>

Kind == IF example = "buffered" THEN "buffered" ELSE "csp"
HowMany == IF example = "ping_pong" THEN 1 ELSE Volleys

To == INSTANCE Channels WITH
        Senders <- {"sender"}, Receivers <- {"receiver"},
        ChCapacity <- ChannelRoom, MaxSends <- Volleys, kind <- Kind,
        buffer <- toBuffer, closer <- toCloser, sender <- toSender,
        receiver <- toReceiver, stored <- toStored, received <- toTaken
Back == INSTANCE Channels WITH
        Senders <- {"receiver"}, Receivers <- {"sender"},
        ChCapacity <- ChannelRoom, MaxSends <- Volleys, kind <- Kind,
        buffer <- backBuffer, closer <- backCloser, sender <- backSender,
        receiver <- backReceiver, stored <- backStored, received <- backTaken

Examples == {"many", "buffered", "ping_pong"}

CpInit == example \in Examples /\ To!ChInit /\ Back!ChInit

-----------------------------------------------------------------------------
(* The first thread: sender, producer, thr1.                               *)

Sends ==
  \/ Len(toStored) < HowMany /\ (To!CspSend("sender") \/ To!BufferedSend("sender"))
  \/ To!NotifyReceiver("sender")
SentAll == Len(toStored) = HowMany /\ toSender["sender"] = "idle"

\* After the last value the channel is stopped, or closed.  Mutant: with it.
Stops_AtLast ==
  /\ Len(toStored) >= HowMany - 1
  /\ To!SetClosed \/ To!TellSenders \/ To!TellReceivers
Stops ==
  /\ SentAll
  /\ To!SetClosed \/ To!TellSenders \/ To!TellReceivers

Producer ==
  /\ example # "ping_pong"
  /\ UNCHANGED <<example, backVars>>
  /\ Sends \/ Stops

\* It sends "ping", and then takes the answer.
Answered == toTaken # <<>> /\ backTaken # <<>> /\ backReceiver["sender"] = "idle"
Thr1 ==
  /\ example = "ping_pong"
  /\ UNCHANGED example
  /\ \/ Sends /\ UNCHANGED backVars
     \/ /\ SentAll /\ ~Answered /\ UNCHANGED toVars
        /\ Back!Receive("sender") \/ Back!NotifySender("sender")

-----------------------------------------------------------------------------
(* The second thread: receiver, consumer, thr2.                            *)

Takes == To!Receive("receiver") \/ To!NotifySender("receiver")

\* It receives until there is no value.
Consumer ==
  /\ example # "ping_pong"
  /\ UNCHANGED <<example, backVars>>
  /\ Takes

\* It takes one value, and then sends "pong".
HasPing == toTaken # <<>> /\ toReceiver["receiver"] = "idle"
Thr2 ==
  /\ example = "ping_pong"
  /\ UNCHANGED example
  /\ \/ ~HasPing /\ Takes /\ UNCHANGED backVars
     \/ /\ HasPing /\ UNCHANGED toVars
        /\ \/ backStored = <<>> /\ Back!CspSend("receiver")
           \/ Back!NotifyReceiver("receiver")

WakesSpuriously ==
  /\ UNCHANGED example
  /\ \/ To!SpuriousWake /\ UNCHANGED backVars
     \/ Back!SpuriousWake /\ UNCHANGED toVars

CpNext == Producer \/ Thr1 \/ Consumer \/ Thr2 \/ WakesSpuriously

CpSpec ==
  /\ CpInit /\ [][CpNext]_cpVars
  /\ WF_cpVars(Producer \/ Thr1) /\ WF_cpVars(Consumer \/ Thr2)

-----------------------------------------------------------------------------
(* Properties.                                                             *)

\* A receiver that is told the end has got every value the program sends: a
\* stop that comes with the last value still in the channel takes none away
\* (csp.cc lines 29, 92-106; buffercsp.cc lines 76-97).
EndHasAll ==
  /\ toReceiver["receiver"] = "ended" => Len(toTaken) = HowMany
  /\ toSender["sender"] # "refused"

\* The programs end, and nobody sleeps on.
BothEnd ==
  IF example = "ping_pong"
    THEN Answered /\ backStored = backTaken /\ backSender["receiver"] = "idle"
    ELSE toCloser = "done" /\ toReceiver["receiver"] = "ended"
ProgramsEnd == <>BothEnd
=============================================================================
