----------------------------- MODULE Goroutines -----------------------------
(***************************************************************************)
(* The concurrent programs of goland/15-con/main.go: func2 waits for the   *)
(* goroutines it starts; in func5 one goroutine sends numbers through a    *)
(* channel to another; in func6 several send the primes of their share to  *)
(* one that prints them, and the main function closes the channel once     *)
(* they are through; func8 selects from two channels until both are empty. *)
(*                                                                         *)
(* A step is one operation on a channel or a WaitGroup.  The order in      *)
(* which a blocked goroutine is served is not promised.  The remainder of  *)
(* the division that makes the shares is nobody's, as in the code.         *)
(***************************************************************************)
EXTENDS Integers, Sequences, FiniteSets

CONSTANTS
  CPUs,       \* runtime.NumCPU(), and the number of goroutines of func2
  Numbers,    \* how many numbers a program goes through, at least CPUs: the bound
  GoCapacity  \* of the channels of func5 and func6

VARIABLES
  func,       \* the function that main calls
  main,       \* where it is
  wg,         \* wg, wGroup, processWg
  consumeWg,
  routine,    \* where each goroutine is that counts on wg
  at,         \* the number it is at
  printer,    \* where output, or printResult, is
  channel,    \* inChan, resultChan, intChan
  strings,    \* stringChan
  chanClosed,
  printed,    \* history: what was printed from the channel, or by func2
  texts,      \* history: what was printed from stringChan
  panicked    \* history: a goroutine has sent on the closed channel

goVars == <<func, main, wg, consumeWg, routine, at, printer, channel, strings,
            chanClosed, printed, texts, panicked>>

Routines == 1 .. CPUs
eachCount == Numbers \div CPUs
isPrime(n) == n > 1 /\ \A i \in 2 .. n - 1 : n % i # 0

\* The first number of a goroutine's share, and the first after it.
First(r) == IF func = 6 THEN (r - 1) * eachCount ELSE 0
Beyond(r) == CASE func = 6 -> r * eachCount [] func = 5 -> Numbers [] OTHER -> 0

GoInit ==
  /\ func \in {2, 5, 6, 8}
  /\ main = IF func = 8 THEN "select" ELSE "launch"
  /\ wg = 0 /\ consumeWg = 0
  /\ routine = [r \in Routines |-> "none"]
  /\ at = [r \in Routines |-> First(r)]
  /\ printer = "none"
  /\ channel = IF func = 8 THEN [i \in 1 .. Numbers |-> i - 1] ELSE <<>>
  /\ strings = IF func = 8 THEN [i \in 1 .. Numbers \div 2 |-> i - 1] ELSE <<>>
  /\ chanClosed = FALSE
  /\ printed = <<>> /\ texts = <<>>
  /\ panicked = FALSE

-----------------------------------------------------------------------------
(* The main function.                                                      *)

\* wg.Add before the go statement, so that Wait cannot see zero too soon.
Launch_AddInside(r) ==
  /\ main = "launch" /\ func # 5
  /\ routine[r] = "none" /\ \A q \in 1 .. r - 1 : routine[q] # "none"
  /\ routine' = [routine EXCEPT ![r] = "run"]
  /\ UNCHANGED <<func, main, wg, consumeWg, at, printer, channel, strings, chanClosed,
                 printed, texts, panicked>>

Launch(r) ==
  /\ main = "launch" /\ func # 5
  /\ routine[r] = "none" /\ \A q \in 1 .. r - 1 : routine[q] # "none"
  /\ wg' = wg + 1
  /\ routine' = [routine EXCEPT ![r] = "run"]
  /\ UNCHANGED <<func, main, consumeWg, at, printer, channel, strings, chanClosed,
                 printed, texts, panicked>>

\* func6 starts the printer when all the others have been started.
Launched ==
  /\ main = "launch" /\ func # 5
  /\ \A r \in Routines : routine[r] # "none"
  /\ main' = "wait"
  /\ IF func = 6 THEN consumeWg' = 1 /\ printer' = "run"
                 ELSE UNCHANGED <<consumeWg, printer>>
  /\ UNCHANGED <<func, wg, routine, at, channel, strings, chanClosed, printed, texts,
                 panicked>>

\* func5: both goroutines count on one WaitGroup.
LaunchBoth ==
  /\ main = "launch" /\ func = 5
  /\ wg' = 2
  /\ routine' = [routine EXCEPT ![1] = "run"]
  /\ printer' = "run"
  /\ main' = "wait"
  /\ UNCHANGED <<func, consumeWg, at, channel, strings, chanClosed, printed, texts,
                 panicked>>

\* wg.Wait returns.  func6 closes the channel and waits for the printer.
Wait_NoClose ==
  /\ main = "wait" /\ wg = 0
  /\ main' = IF func = 6 THEN "drain" ELSE "done"
  /\ UNCHANGED <<func, wg, consumeWg, routine, at, printer, channel, strings, chanClosed,
                 printed, texts, panicked>>

Wait ==
  /\ main = "wait" /\ wg = 0
  /\ main' = IF func = 6 THEN "drain" ELSE "done"
  /\ chanClosed' = (chanClosed \/ func = 6)
  /\ UNCHANGED <<func, wg, consumeWg, routine, at, printer, channel, strings, printed,
                 texts, panicked>>

Drained ==
  /\ main = "drain" /\ consumeWg = 0
  /\ main' = "done"
  /\ UNCHANGED <<func, wg, consumeWg, routine, at, printer, channel, strings,
                 chanClosed, printed, texts, panicked>>

\* func8: any case that is ready; the default, which returns, only if none is.
SelectInt ==
  /\ main = "select" /\ channel # <<>>
  /\ printed' = Append(printed, Head(channel))
  /\ channel' = Tail(channel)
  /\ UNCHANGED <<func, main, wg, consumeWg, routine, at, printer, strings, chanClosed,
                 texts, panicked>>

SelectString ==
  /\ main = "select" /\ strings # <<>>
  /\ texts' = Append(texts, Head(strings))
  /\ strings' = Tail(strings)
  /\ UNCHANGED <<func, main, wg, consumeWg, routine, at, printer, channel, chanClosed,
                 printed, panicked>>

SelectDefault ==
  /\ main = "select" /\ channel = <<>> /\ strings = <<>>
  /\ main' = "done"
  /\ UNCHANGED <<func, wg, consumeWg, routine, at, printer, channel, strings,
                 chanClosed, printed, texts, panicked>>

Main ==
  \/ \E r \in Routines : Launch(r)
  \/ Launched \/ LaunchBoth \/ Wait \/ Drained
  \/ SelectInt \/ SelectString \/ SelectDefault

-----------------------------------------------------------------------------
(* The goroutines.                                                         *)

\* func2.
PrintValue(r) ==
  /\ func = 2 /\ routine[r] = "run"
  /\ printed' = Append(printed, r)
  /\ routine' = [routine EXCEPT ![r] = "return"]
  /\ UNCHANGED <<func, main, wg, consumeWg, at, printer, channel, strings, chanClosed,
                 texts, panicked>>

\* input and in: the next number, which func6 sends if it is a prime.
Send(r) ==
  /\ func \in {5, 6} /\ routine[r] = "run" /\ at[r] < Beyond(r)
  /\ func = 6 => isPrime(at[r])
  /\ Len(channel) < GoCapacity \/ chanClosed
  /\ panicked' = chanClosed
  /\ channel' = Append(channel, at[r])
  /\ at' = [at EXCEPT ![r] = @ + 1]
  /\ UNCHANGED <<func, main, wg, consumeWg, routine, printer, strings, chanClosed,
                 printed, texts>>

Skip(r) ==
  /\ func = 6 /\ routine[r] = "run" /\ at[r] < Beyond(r)
  /\ ~isPrime(at[r])
  /\ at' = [at EXCEPT ![r] = @ + 1]
  /\ UNCHANGED <<func, main, wg, consumeWg, routine, printer, channel, strings,
                 chanClosed, printed, texts, panicked>>

\* The share is done; input closes the channel.
Finish(r) ==
  /\ func \in {5, 6} /\ routine[r] = "run" /\ at[r] = Beyond(r)
  /\ routine' = [routine EXCEPT ![r] = "return"]
  /\ chanClosed' = (chanClosed \/ func = 5)
  /\ UNCHANGED <<func, main, wg, consumeWg, at, printer, channel, strings, printed,
                 texts, panicked>>

\* The deferred call.
Done(r) ==
  /\ routine[r] = "return"
  /\ wg' = wg - 1
  /\ routine' = [routine EXCEPT ![r] = "done"]
  /\ UNCHANGED <<func, main, consumeWg, at, printer, channel, strings, chanClosed,
                 printed, texts, panicked>>

Routine(r) == PrintValue(r) \/ Send(r) \/ Skip(r) \/ Finish(r) \/ Done(r)

\* output and printResult.
Receive ==
  /\ printer = "run" /\ channel # <<>>
  /\ func = 5 => Len(printed) < Numbers
  /\ printed' = Append(printed, Head(channel))
  /\ channel' = Tail(channel)
  /\ UNCHANGED <<func, main, wg, consumeWg, routine, at, printer, strings, chanClosed,
                 texts, panicked>>

\* output counts what it has received; the range of printResult ends when the
\* channel is closed and empty.
EndOfRange ==
  /\ printer = "run"
  /\ IF func = 5 THEN Len(printed) = Numbers ELSE chanClosed /\ channel = <<>>
  /\ printer' = "done"
  /\ IF func = 5 THEN wg' = wg - 1 /\ UNCHANGED consumeWg
                 ELSE consumeWg' = consumeWg - 1 /\ UNCHANGED wg
  /\ UNCHANGED <<func, main, routine, at, channel, strings, chanClosed, printed, texts,
                 panicked>>

Printer == Receive \/ EndOfRange

GoNext == Main \/ Printer \/ \E r \in Routines : Routine(r)

\* The Go scheduler runs every goroutine that is not blocked.
GoFairness ==
  /\ WF_goVars(Main)
  /\ WF_goVars(Printer)
  /\ \A r \in Routines : WF_goVars(Routine(r))

GoSpec == GoInit /\ [][GoNext]_goVars /\ GoFairness

-----------------------------------------------------------------------------
(* Properties.                                                             *)

GoTypeOK ==
  /\ func \in {2, 5, 6, 8}
  /\ main \in {"launch", "wait", "drain", "select", "done"}
  /\ wg \in 0 .. CPUs + 1 /\ consumeWg \in 0 .. 1
  /\ routine \in [Routines -> {"none", "run", "return", "done"}]
  /\ at \in [Routines -> 0 .. Numbers]
  /\ printer \in {"none", "run", "done"}
  /\ channel \in Seq(0 .. Numbers) /\ strings \in Seq(0 .. Numbers)
  /\ {chanClosed, panicked} \subseteq BOOLEAN
  /\ printed \in Seq(0 .. Numbers) /\ texts \in Seq(0 .. Numbers)

\* The values a program prints from the channel, in whatever order.
Values ==
  CASE func = 2 -> Routines
    [] func = 6 -> {n \in 0 .. CPUs * eachCount - 1 : isPrime(n)}
    [] OTHER -> 0 .. Numbers - 1

\* Those of the numbers of a share that s has are in rising order.
InRising(s, share) ==
  \A i, j \in 1 .. Len(s) : i < j /\ {s[i], s[j]} \subseteq share => s[i] < s[j]

\* Nobody sends on the closed channel; when main returns, which ends the other
\* goroutines wherever they are, everything has been printed, each value once; and
\* what one sender sends is printed in its order (main.go, func2 to func8).
EndPrintsAll ==
  /\ ~panicked
  /\ main = "done" =>
       /\ {printed[i] : i \in 1 .. Len(printed)} = Values
       /\ Len(printed) = Cardinality(Values)
       /\ func = 8 => Len(texts) = Numbers \div 2
  /\ InRising(texts, Nat) /\ (func \in {5, 8} => InRising(printed, Nat))
  /\ func = 6 => \A r \in Routines : InRising(printed, First(r) .. Beyond(r) - 1)

\* Every program ends: nobody waits for a value, for room or for a count for ever.
ProgramEnds == <>(main = "done")
=============================================================================
