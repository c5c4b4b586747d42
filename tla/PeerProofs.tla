------------------------------ MODULE PeerProofs -----------------------------
(***************************************************************************)
(* Proofs about what the peers of the servers and clients get, for any     *)
(* messages, cut of the messages and bound of the queues: the echo servers *)
(* before framing (EchoSession), the asynchronous operations of the first  *)
(* client session (AsyncSession) and the client programs (Clients); and    *)
(* with the answers, lines and entries of ServerProofs, that every peer    *)
(* gets the bytes it should.  With the replies and values of SendingProofs *)
(* and the functions of ServerProofs: that what is answered is so.         *)
(***************************************************************************)
EXTENDS ServerProofs

-----------------------------------------------------------------------------
(* Streams of messages that are written in parts.                          *)

\* A part of a message, the first n parts of message m, and the parts of the
\* first n messages.
Part == Nat \X Nat
PartsOf(m, n) == [p \in 1 .. n |-> <<m, p>>]
Flat(n) == FlattenSeq([i \in 1 .. n |-> PartsOf(i, Parts)])

\* What has been sent: all of the first w messages, and t parts of the next.
Upto(w, t) == Flat(w) \o PartsOf(w + 1, t)

LEMMA PartsOfIs ==
  ASSUME NEW m \in Nat, NEW n \in Nat
  PROVE  /\ PartsOf(m, n) \in Seq(Part) /\ Len(PartsOf(m, n)) = n
         /\ \A p \in 1 .. n : PartsOf(m, n)[p] = <<m, p>>
<1>1. \A p \in 1 .. n : <<m, p>> \in Part
  BY DEF Part
<1> QED
  BY <1>1 DEF PartsOf

\* Some more parts of a message.
LEMMA PartsOfJoins ==
  ASSUME NEW m \in Nat, NEW k \in Nat, NEW n \in Nat
  PROVE  /\ [i \in 1 .. n |-> <<m, k + i>>] \in Seq(Part)
         /\ PartsOf(m, k) \o [i \in 1 .. n |-> <<m, k + i>>] = PartsOf(m, k + n)
<1> DEFINE more == [i \in 1 .. n |-> <<m, k + i>>]
<1>1. \A i \in 1 .. n : <<m, k + i>> \in Part
  BY DEF Part
<1>2. more \in Seq(Part) /\ Len(more) = n /\ \A i \in 1 .. n : more[i] = <<m, k + i>>
  BY <1>1
<1>3. /\ PartsOf(m, k) \in Seq(Part) /\ Len(PartsOf(m, k)) = k
      /\ \A p \in 1 .. k : PartsOf(m, k)[p] = <<m, p>>
  BY PartsOfIs
<1> HIDE DEF more
<1> DEFINE first == PartsOf(m, k)
           s == first \o more
<1> HIDE DEF first
<1>4. /\ s \in Seq(Part) /\ Len(s) = k + n
      /\ \A i \in 1 .. k + n : s[i] = IF i <= k THEN first[i] ELSE more[i - k]
  <2>1. first \in Seq(Part) /\ Len(first) = k
    BY <1>3 DEF first
  <2>2. /\ first \o more \in Seq(Part) /\ Len(first \o more) = Len(first) + Len(more)
        /\ \A i \in 1 .. Len(first) + Len(more) :
             (first \o more)[i] = IF i <= Len(first) THEN first[i] ELSE more[i - Len(first)]
    BY <1>2, <2>1, ConcatProperties
  <2> QED
    BY <1>2, <2>1, <2>2
<1>5. /\ PartsOf(m, k + n) \in Seq(Part) /\ Len(PartsOf(m, k + n)) = k + n
      /\ \A p \in 1 .. k + n : PartsOf(m, k + n)[p] = <<m, p>>
  <2>1. k + n \in Nat
    OBVIOUS
  <2> QED
    BY <2>1, PartsOfIs
<1> HIDE DEF s
<1>6. ASSUME NEW i \in 1 .. k + n PROVE s[i] = <<m, i>>
  <2>1. CASE i <= k
    BY <1>3, <1>4, <2>1 DEF first
  <2>2. CASE ~(i <= k)
    <3>1. i - k \in 1 .. n /\ k + (i - k) = i
      BY <2>2
    <3> QED
      BY <1>2, <1>4, <2>2, <3>1
  <2> QED
    BY <2>1, <2>2
<1>7. s = PartsOf(m, k + n)
  BY <1>4, <1>5, <1>6, SeqEqual
<1> QED
  BY <1>2, <1>7 DEF s, more, first

LEMMA PartsOfAppend ==
  ASSUME NEW m \in Nat, NEW k \in Nat
  PROVE  Append(PartsOf(m, k), <<m, k + 1>>) = PartsOf(m, k + 1)
<1>1. <<m, k + 1>> \in Part /\ PartsOf(m, k) \in Seq(Part) /\ Len(PartsOf(m, k)) = k
  BY PartsOfIs DEF Part
<1> DEFINE s == Append(PartsOf(m, k), <<m, k + 1>>)
<1>2. /\ s \in Seq(Part) /\ Len(s) = k + 1 /\ s[k + 1] = <<m, k + 1>>
      /\ \A i \in 1 .. k : s[i] = PartsOf(m, k)[i]
  BY <1>1, AppendProperties
<1>3. \A p \in 1 .. k : PartsOf(m, k)[p] = <<m, p>>
  BY PartsOfIs
<1>4. /\ PartsOf(m, k + 1) \in Seq(Part) /\ Len(PartsOf(m, k + 1)) = k + 1
      /\ \A p \in 1 .. k + 1 : PartsOf(m, k + 1)[p] = <<m, p>>
  <2>1. k + 1 \in Nat
    OBVIOUS
  <2> QED
    BY <2>1, PartsOfIs
<1> HIDE DEF s
<1>5. \A i \in 1 .. k + 1 : s[i] = <<m, i>>
  BY <1>2, <1>3
<1>6. s = PartsOf(m, k + 1)
  BY <1>2, <1>4, <1>5, SeqEqual
<1> QED
  BY <1>6 DEF s

LEMMA PartsOfNone == \A m : PartsOf(m, 0) = <<>>
BY DEF PartsOf

LEMMA FlatIs ==
  ASSUME NEW n \in Nat
  PROVE  /\ [i \in 1 .. n |-> PartsOf(i, Parts)] \in Seq(Seq(Part))
         /\ Len([i \in 1 .. n |-> PartsOf(i, Parts)]) = n
         /\ Flat(n) \in Seq(Part)
<1>1. \A i \in 1 .. n : PartsOf(i, Parts) \in Seq(Part)
  BY PartsOfIs, ServersAssumption
<1>2. /\ [i \in 1 .. n |-> PartsOf(i, Parts)] \in Seq(Seq(Part))
      /\ Len([i \in 1 .. n |-> PartsOf(i, Parts)]) = n
  BY <1>1
<1> QED
  BY <1>2, FlattenType DEF Flat

\* The first messages and the others.
LEMMA FlatJoins ==
  ASSUME NEW w \in Nat, NEW c \in Nat, w <= c
  PROVE  \E rest \in Seq(Part) : Flat(c) = Flat(w) \o rest
<1> DEFINE s == [i \in 1 .. w |-> PartsOf(i, Parts)]
           t == [i \in 1 .. c - w |-> PartsOf(w + i, Parts)]
           u == [i \in 1 .. c |-> PartsOf(i, Parts)]
<1>1. s \in Seq(Seq(Part)) /\ Len(s) = w /\ u \in Seq(Seq(Part)) /\ Len(u) = c
  BY FlatIs
<1>2. t \in Seq(Seq(Part)) /\ Len(t) = c - w
  <2>1. \A i \in 1 .. c - w : PartsOf(w + i, Parts) \in Seq(Part)
    BY PartsOfIs, ServersAssumption
  <2>2. c - w \in Nat
    OBVIOUS
  <2> HIDE DEF t
  <2>3. t = [i \in 1 .. c - w |-> PartsOf(w + i, Parts)]
    BY DEF t
  <2> QED
    BY <2>1, <2>2, <2>3
<1>3. /\ \A i \in 1 .. w : s[i] = PartsOf(i, Parts)
      /\ \A i \in 1 .. c - w : t[i] = PartsOf(w + i, Parts)
      /\ \A i \in 1 .. c : u[i] = PartsOf(i, Parts)
  OBVIOUS
<1> HIDE DEF s, t, u
<1>4. /\ s \o t \in Seq(Seq(Part)) /\ Len(s \o t) = w + (c - w)
      /\ \A i \in 1 .. w + (c - w) : (s \o t)[i] = IF i <= w THEN s[i] ELSE t[i - w]
  BY <1>1, <1>2, ConcatProperties, SMTT(30)
<1>5. Len(s \o t) = c
  BY <1>4
<1>6. ASSUME NEW i \in 1 .. c PROVE (s \o t)[i] = u[i]
  <2>1. i \in 1 .. w + (c - w)
    OBVIOUS
  <2>2. CASE i <= w
    BY <1>3, <1>4, <2>1, <2>2
  <2>3. CASE ~(i <= w)
    <3>1. i - w \in 1 .. c - w /\ w + (i - w) = i
      BY <2>3
    <3> QED
      BY <1>3, <1>4, <2>1, <2>3, <3>1
  <2> QED
    BY <2>2, <2>3
<1>7. u = s \o t
  BY <1>1, <1>4, <1>5, <1>6, SeqEqual
<1>8. FlattenSeq(u) = FlattenSeq(s) \o FlattenSeq(t) /\ FlattenSeq(t) \in Seq(Part)
  BY <1>1, <1>2, <1>7, FlattenConcat, FlattenType
<1>9. Flat(c) = FlattenSeq(u) /\ Flat(w) = FlattenSeq(s)
  BY DEF Flat, u, s
<1> QED
  BY <1>8, <1>9

LEMMA FlatNext ==
  ASSUME NEW n \in Nat
  PROVE  Flat(n + 1) = Flat(n) \o PartsOf(n + 1, Parts)
<1> DEFINE s == [i \in 1 .. n |-> PartsOf(i, Parts)]
           u == [i \in 1 .. n + 1 |-> PartsOf(i, Parts)]
           x == PartsOf(n + 1, Parts)
<1>1. s \in Seq(Seq(Part)) /\ Len(s) = n /\ u \in Seq(Seq(Part)) /\ Len(u) = n + 1
  <2>1. n + 1 \in Nat
    OBVIOUS
  <2> QED
    BY <2>1, FlatIs
<1>2. x \in Seq(Part)
  BY PartsOfIs, ServersAssumption
<1>3. (\A i \in 1 .. n : s[i] = PartsOf(i, Parts)) /\ (\A i \in 1 .. n + 1 : u[i] = PartsOf(i, Parts))
  OBVIOUS
<1>4. Flat(n + 1) = FlattenSeq(u) /\ Flat(n) = FlattenSeq(s)
  BY DEF Flat
<1>5. x = PartsOf(n + 1, Parts)
  OBVIOUS
<1> HIDE DEF s, u, x
<1>6. /\ Append(s, x) \in Seq(Seq(Part)) /\ Len(Append(s, x)) = n + 1
      /\ \A i \in 1 .. n : Append(s, x)[i] = s[i]
      /\ Append(s, x)[n + 1] = x
  BY <1>1, <1>2, AppendProperties
<1>7. \A i \in 1 .. n + 1 : Append(s, x)[i] = u[i]
  BY <1>3, <1>5, <1>6
<1>8. u = Append(s, x)
  BY <1>1, <1>6, <1>7, SeqEqual
<1> QED
  BY <1>1, <1>2, <1>4, <1>5, <1>8, FlattenAppend

LEMMA FlatNone == Flat(0) = <<>>
<1>1. [i \in 1 .. 0 |-> PartsOf(i, Parts)] = <<>>
  OBVIOUS
<1> QED
  BY <1>1, FlattenEmpty DEF Flat

LEMMA UptoIs ==
  ASSUME NEW w \in Nat, NEW t \in Nat
  PROVE  Upto(w, t) \in Seq(Part)
<1>1. w + 1 \in Nat
  OBVIOUS
<1>2. Flat(w) \in Seq(Part) /\ PartsOf(w + 1, t) \in Seq(Part)
  BY <1>1, FlatIs, PartsOfIs
<1> QED
  BY <1>2, ConcatProperties DEF Upto

\* A message is complete, and none of the next is there.
LEMMA UptoNone ==
  ASSUME NEW w \in Nat
  PROVE  Upto(w, 0) = Flat(w)
<1>1. Flat(w) \in Seq(Part) /\ PartsOf(w + 1, 0) = <<>>
  BY FlatIs, PartsOfNone
<1> QED
  BY <1>1, ConcatEmptySeq DEF Upto

LEMMA UptoAll ==
  ASSUME NEW w \in Nat
  PROVE  Upto(w, Parts) = Upto(w + 1, 0)
<1>1. w + 1 \in Nat
  OBVIOUS
<1> QED
  BY <1>1, FlatNext, UptoNone DEF Upto

LEMMA UptoGoesOn ==
  ASSUME NEW w \in Nat, NEW t \in Nat, NEW n \in Nat
  PROVE  Upto(w, t) \o [i \in 1 .. n |-> <<w + 1, t + i>>] = Upto(w, t + n)
<1>1. Flat(w) \in Seq(Part)
  BY FlatIs
<1>2. w + 1 \in Nat
  OBVIOUS
<1> DEFINE more == [i \in 1 .. n |-> <<w + 1, t + i>>]
           first == PartsOf(w + 1, t)
<1>3. first \in Seq(Part)
  BY <1>2, PartsOfIs
<1>4. first \o more = PartsOf(w + 1, t + n)
  BY <1>2, PartsOfJoins
<1>5. more \in Seq(Part)
  BY <1>2, PartsOfJoins
<1>6. Upto(w, t) = Flat(w) \o first /\ Upto(w, t + n) = Flat(w) \o PartsOf(w + 1, t + n)
  BY DEF Upto
<1> HIDE DEF more, first
<1>7. (Flat(w) \o first) \o more = Flat(w) \o (first \o more)
  <2> DEFINE f == Flat(w)
  <2>1. f \in Seq(Part)
    BY <1>1
  <2> HIDE DEF f
  <2>2. (f \o first) \o more = f \o (first \o more)
    BY <1>3, <1>5, <2>1, ConcatAssociative
  <2> QED
    BY <2>2 DEF f
<1>8. Upto(w, t) \o more = Upto(w, t + n)
  BY <1>4, <1>6, <1>7
<1> QED
  BY <1>8 DEF more

LEMMA UptoAppend ==
  ASSUME NEW w \in Nat, NEW t \in Nat
  PROVE  Append(Upto(w, t), <<w + 1, t + 1>>) = Upto(w, t + 1)
<1>1. w + 1 \in Nat
  OBVIOUS
<1> DEFINE first == PartsOf(w + 1, t)
           x == <<w + 1, t + 1>>
<1>2. Flat(w) \in Seq(Part) /\ first \in Seq(Part)
  BY <1>1, FlatIs, PartsOfIs
<1>3. x \in Part
  BY <1>1 DEF Part
<1>4. Append(first, x) = PartsOf(w + 1, t + 1)
  BY <1>1, PartsOfAppend
<1>5. Upto(w, t) = Flat(w) \o first /\ Upto(w, t + 1) = Flat(w) \o PartsOf(w + 1, t + 1)
  BY DEF Upto
<1> HIDE DEF first, x
<1>6. Flat(w) \o Append(first, x) = Append(Flat(w) \o first, x)
  BY <1>2, <1>3, AppendBehind
<1>7. Append(Upto(w, t), x) = Upto(w, t + 1)
  BY <1>4, <1>5, <1>6
<1> QED
  BY <1>7 DEF x

LEMMA PrefixOfConcat ==
  ASSUME NEW X, NEW u \in Seq(X), NEW v \in Seq(X)
  PROVE  IsPrefix(u, u \o v)
<1> DEFINE s == u \o v
<1>1. /\ s \in Seq(X) /\ Len(s) = Len(u) + Len(v) /\ Len(u) \in Nat /\ Len(v) \in Nat
      /\ \A i \in 1 .. Len(u) + Len(v) : s[i] = IF i <= Len(u) THEN u[i] ELSE v[i - Len(u)]
  BY ConcatProperties, LenProperties
<1> HIDE DEF s
<1>2. \A i \in 1 .. Len(u) : i \in 1 .. Len(u) + Len(v) /\ i <= Len(u)
  BY <1>1
<1>3. \A i \in 1 .. Len(u) : s[i] = u[i]
  BY <1>1, <1>2
<1>4. \A i \in 1 .. Len(u) : u[i] \in X
  BY ElementOfSeq
<1>5. /\ SubSeq(s, 1, Len(u)) \in Seq(X) /\ Len(SubSeq(s, 1, Len(u))) = Len(u)
      /\ \A i \in 1 .. Len(u) : SubSeq(s, 1, Len(u))[i] = s[i]
  BY <1>1, <1>3, <1>4, SubSeqProperties
<1>6. SubSeq(s, 1, Len(u)) = u
  BY <1>3, <1>5, SeqEqual
<1>7. SubSeq(u, 1, Len(u)) = u
  BY SubSeqFull
<1>8. Len(u) <= Len(s)
  BY <1>1
<1> QED
  BY <1>6, <1>7, <1>8 DEF IsPrefix, s

\* So much of it is a prefix of all.
LEMMA AllIsPrefix ==
  ASSUME NEW c \in Nat
  PROVE  IsPrefix(Upto(c, 0), Flat(c))
<1>1. Flat(c) \in Seq(Part) /\ Upto(c, 0) = Flat(c)
  BY FlatIs, UptoNone
<1>2. Flat(c) = Flat(c) \o <<>> /\ <<>> \in Seq(Part)
  BY <1>1, ConcatEmptySeq, EmptySeq
<1> QED
  BY <1>1, <1>2, PrefixOfConcat

LEMMA UptoIsPrefix ==
  ASSUME NEW w \in Nat, NEW c \in Nat, w < c, NEW t \in 0 .. Parts
  PROVE  IsPrefix(Upto(w, t), Flat(c))
<1>0. Parts \in Nat /\ t \in Nat
  BY ServersAssumption
<1>1. w + 1 \in Nat /\ w + 1 <= c /\ Parts - t \in Nat /\ t + (Parts - t) = Parts
  BY <1>0
<1>2. PICK rest \in Seq(Part) : Flat(c) = Flat(w + 1) \o rest
  BY <1>1, FlatJoins
<1> DEFINE z == [i \in 1 .. Parts - t |-> <<w + 1, t + i>>]
<1>3. z \in Seq(Part)
  BY <1>0, <1>1, PartsOfJoins
<1>4. Upto(w, t) \o z = Upto(w, Parts)
  <2>1. Upto(w, t) \o z = Upto(w, t + (Parts - t))
    BY <1>0, <1>1, UptoGoesOn
  <2> QED
    BY <1>1, <2>1
<1>5. Upto(w, Parts) = Flat(w + 1)
  BY <1>1, UptoAll, UptoNone
<1> HIDE DEF z
<1>6. Upto(w, t) \in Seq(Part)
  BY <1>0, UptoIs
<1>7. Flat(c) = (Upto(w, t) \o z) \o rest
  BY <1>2, <1>4, <1>5
<1>8. (Upto(w, t) \o z) \o rest = Upto(w, t) \o (z \o rest)
  BY <1>3, <1>6, ConcatAssociative
<1>9. z \o rest \in Seq(Part)
  BY <1>3, ConcatProperties
<1> QED
  BY <1>6, <1>7, <1>8, <1>9, PrefixOfConcat

-----------------------------------------------------------------------------
(* The echo servers before framing (5, 6, 7) and the echo coroutine (16).  *)

EchoTypes ==
  /\ came \in Nat /\ data \in Nat
  /\ backlog \in Seq(Nat)
  /\ write \in [from : {"none", "buffer", "queue"}, taken : 0 .. Parts, failed : BOOLEAN]

\* Message m is being written: from the buffer that holds it or, in 7, from the
\* queue, where those that came after it wait.
EchoWrites(m) ==
  /\ E!Pending
  /\ echoed = Upto(m - 1, write.taken)
  /\ IF write.from = "buffer" THEN data = m /\ (style = 7 => hears = "handler") ELSE style = 7
  /\ IF style = 7
       THEN Len(backlog) = came - m + 1 /\ \A i \in 1 .. Len(backlog) : backlog[i] = m - 1 + i
       ELSE came = m

\* Everything that came is written.
EchoRests ==
  ~E!Pending /\ echoed = Upto(came, 0) /\ (style = 7 => backlog = <<>>)

\* A write has failed, and there will be no other.
EchoFailed ==
  /\ ~E!Pending
  /\ \E w \in Nat, t \in 0 .. Parts : w < came /\ echoed = Upto(w, t)
  /\ IF style = 7 THEN backlog # <<>> ELSE hears = "none"

EchoInv ==
  /\ EchoTypes
  /\ hears = "accepting" => came = 0 /\ ~E!Pending
  /\ style # 7 => hears # "handler" /\ (E!Pending => hears = "none")
  /\ style = 7 /\ E!Pending => backlog # <<>>
  /\ ~alive => style = 5 /\ hears = "none" /\ ~E!Pending
  /\ ~overwritten => EchoRests \/ EchoFailed \/ \E m \in 1 .. came : EchoWrites(m)

LEMMA EchoInitInv == E!EchoInit => EchoInv
<1> SUFFICES ASSUME E!EchoInit PROVE EchoInv
  OBVIOUS
<1>1. /\ came = 0 /\ data = 0 /\ hears = "accepting" /\ backlog = <<>> /\ alive
      /\ write = [from |-> "none", taken |-> 0, failed |-> FALSE] /\ echoed = <<>>
  BY DEF E!EchoInit, E!NoWrite
<1>2. ~E!Pending /\ write.taken = 0 /\ write.from = "none"
  BY <1>1 DEF E!Pending
<1>3. 0 \in 0 .. Parts /\ backlog \in Seq(Nat)
  BY <1>1, ServersAssumption
<1>4. echoed = Upto(0, 0)
  BY <1>1, UptoNone, FlatNone
<1> QED
  BY <1>1, <1>2, <1>3, <1>4 DEF EchoInv, EchoTypes, EchoRests

\* Nothing is read or written.
LEMMA EchoIdles ==
  ASSUME EchoInv, UNCHANGED <<style, came, backlog, write, echoed>>,
         data' \in Nat, hears' # "accepting",
         style # 7 => hears' # "handler" /\ (E!Pending => hears' = "none"),
         ~alive' => style = 5 /\ hears' = "none" /\ ~E!Pending,
         ~overwritten' => ~overwritten,
         style # 7 /\ hears = "none" => hears' = "none",
         ~overwritten' /\ write.from = "buffer" => data' = data /\ (style = 7 => hears' = hears)
  PROVE  EchoInv'
<1>1. E!Pending' = E!Pending
  BY DEF E!Pending
<1>2. EchoTypes'
  BY DEF EchoInv, EchoTypes
<1>3. ASSUME ~overwritten'
      PROVE  EchoRests' \/ EchoFailed' \/ \E m \in 1 .. came' : EchoWrites(m)'
  <2>1. CASE EchoRests
    BY <1>1, <2>1 DEF EchoRests
  <2>2. CASE EchoFailed
    BY <1>1, <2>2 DEF EchoFailed
  <2>3. CASE \E m \in 1 .. came : EchoWrites(m)
    <3>1. PICK m \in 1 .. came : EchoWrites(m)
      BY <2>3
    <3>2. EchoWrites(m)'
      BY <1>1, <1>3, <3>1 DEF EchoWrites
    <3> QED
      BY <3>2
  <2> QED
    BY <1>3, <2>1, <2>2, <2>3 DEF EchoInv
<1> QED
  BY <1>1, <1>2, <1>3 DEF EchoInv

LEMMA EchoAccepts ==
  ASSUME EchoInv, E!HandleAccept \/ E!AcceptAndSpawn
  PROVE  EchoInv'
<1>1. /\ hears = "accepting" /\ hears' \in {"open", "none"}
      /\ UNCHANGED <<style, came, backlog, write, overwritten, echoed>>
      /\ data' = data \/ data' = 0
      /\ alive' = alive \/ (alive' = (style # 5) /\ hears' = "none")
  BY DEF E!HandleAccept, E!AcceptAndSpawn, E!Start
<1>2. ~E!Pending /\ alive /\ data' \in Nat /\ write.from # "buffer"
  BY <1>1 DEF EchoInv, EchoTypes, E!Pending
<1> QED
  BY <1>1, <1>2, EchoIdles

LEMMA EchoReadsOn ==
  ASSUME EchoInv, E!ReadOn \/ E!ReadError
  PROVE  EchoInv'
<1>1. CASE E!ReadOn
  <2>1. /\ hears = "handler" /\ hears' = "open" /\ data' = 0
        /\ overwritten' = (overwritten \/ write.from = "buffer")
        /\ UNCHANGED <<style, came, backlog, write, alive, echoed>>
    BY <1>1 DEF E!ReadOn
  <2>2. style = 7
    BY <2>1 DEF EchoInv
  <2>3. alive'
    BY <2>1 DEF EchoInv
  <2>4. /\ ~overwritten' => ~overwritten
        /\ ~overwritten' => write.from # "buffer"
    BY <2>1, Zenon
  <2>5. /\ UNCHANGED <<style, came, backlog, write, echoed>>
        /\ data' \in Nat /\ hears' # "accepting" /\ hears # "none"
    BY <2>1
  <2> QED
    BY <2>2, <2>3, <2>4, <2>5, EchoIdles
<1>2. CASE E!ReadError
  <2>1. /\ hears = "open" /\ hears' = "none" /\ alive' = (style # 5)
        /\ UNCHANGED <<style, came, data, backlog, write, overwritten, echoed>>
    BY <1>2 DEF E!ReadError
  <2>2. style # 7 => ~E!Pending
    BY <2>1 DEF EchoInv
  <2>3. data \in Nat
    BY DEF EchoInv, EchoTypes
  <2>4. CASE ~overwritten /\ write.from = "buffer"
    <3>1. E!Pending
      BY <2>4 DEF E!Pending
    <3>2. PICK m \in 1 .. came : EchoWrites(m)
      BY <2>4, <3>1 DEF EchoInv, EchoRests, EchoFailed
    <3>3. style = 7 => hears = "handler"
      BY <2>4, <3>2 DEF EchoWrites
    <3> QED
      BY <2>1, <2>2, <3>1, <3>3
  <2>5. CASE ~(~overwritten /\ write.from = "buffer")
    <3>1. /\ UNCHANGED <<style, came, data, backlog, write, overwritten, echoed>>
          /\ hears' = "none"
      BY <2>1
    <3>2. ~alive' => style = 5 /\ ~E!Pending
      <4>1. style = 5 => ~E!Pending
        BY <2>2
      <4>2. alive' = (style # 5)
        BY <2>1
      <4> QED
        BY <4>1, <4>2, Zenon
    <3>3. data' \in Nat /\ hears' # "accepting" /\ hears' # "handler"
      BY <2>3, <3>1
    <3> QED
      BY <2>5, <3>1, <3>2, <3>3, EchoIdles
  <2> QED
    BY <2>4, <2>5
<1> QED
  BY <1>1, <1>2

\* The write ends with so much of the messages echoed, all of them or not.
LEMMA EchoWriteEnds ==
  ASSUME EchoInv, write' = E!NoWrite, UNCHANGED <<style, came, echoed, overwritten>>,
         data' \in Nat, backlog' \in Seq(Nat), hears' # "accepting",
         style # 7 => hears' # "handler",
         ~alive' => style = 5 /\ hears' = "none",
         ~overwritten => EchoRests' \/ EchoFailed'
  PROVE  EchoInv'
<1>1. /\ write' = [from |-> "none", taken |-> 0, failed |-> FALSE] /\ write'.from = "none"
      /\ 0 \in 0 .. Parts
  BY ServersAssumption DEF E!NoWrite
<1>2. ~E!Pending'
  BY <1>1 DEF E!Pending
<1>3. EchoTypes'
  BY <1>1 DEF EchoInv, EchoTypes
<1> QED
  BY <1>2, <1>3 DEF EchoInv

\* Nothing of what was pending is written any more.
LEMMA EchoGivesUp ==
  ASSUME EchoInv, ~overwritten, write' = E!NoWrite,
         UNCHANGED <<style, came, backlog, echoed>>,
         style # 7 => hears' = "none" \/ EchoRests
  PROVE  EchoRests' \/ EchoFailed'
<1>1. ~E!Pending'
  BY DEF E!Pending, E!NoWrite
<1>2. CASE EchoRests
  BY <1>1, <1>2 DEF EchoRests
<1>3. CASE EchoFailed /\ ~EchoRests
  BY <1>1, <1>3 DEF EchoFailed
<1>4. CASE ~EchoRests /\ \E m \in 1 .. came : EchoWrites(m)
  <2>1. PICK m \in 1 .. came : EchoWrites(m)
    BY <1>4
  <2>2. /\ echoed = Upto(m - 1, write.taken)
        /\ style = 7 => Len(backlog) = came - m + 1
    BY <2>1 DEF EchoWrites
  <2>3. m - 1 \in Nat /\ m - 1 < came /\ came - m + 1 # 0 /\ write.taken \in 0 .. Parts
    BY DEF EchoInv, EchoTypes
  <2>4. style = 7 => backlog # <<>>
    BY <2>2, <2>3
  <2> QED
    BY <1>1, <1>4, <2>2, <2>3, <2>4 DEF EchoFailed
<1> QED
  BY <1>2, <1>3, <1>4 DEF EchoInv

LEMMA EchoStops ==
  ASSUME EchoInv, E!Stop \/ E!WriteError
  PROVE  EchoInv'
<1>1. CASE E!Stop
  <2>1. /\ style = 16 /\ hears' = "none" /\ write' = E!NoWrite
        /\ UNCHANGED <<style, came, data, backlog, alive, overwritten, echoed>>
    BY <1>1 DEF E!Stop
  <2>2. ~overwritten => EchoRests' \/ EchoFailed'
    BY <2>1, EchoGivesUp
  <2>3. data \in Nat /\ backlog \in Seq(Nat) /\ alive
    BY <2>1 DEF EchoInv, EchoTypes
  <2> QED
    BY <2>1, <2>2, <2>3, EchoWriteEnds
<1>2. CASE E!WriteError
  <2>1. /\ E!Pending /\ hears # "handler" /\ write' = E!NoWrite /\ alive' = (style # 5)
        /\ UNCHANGED <<style, came, data, hears, backlog, overwritten, echoed>>
    BY <1>2 DEF E!WriteError
  <2>2. hears # "accepting" /\ (style # 7 => hears = "none")
    BY <2>1 DEF EchoInv
  <2>3. ~overwritten => EchoRests' \/ EchoFailed'
    BY <2>1, <2>2, EchoGivesUp
  <2>4. data' \in Nat /\ backlog' \in Seq(Nat)
    BY <2>1 DEF EchoInv, EchoTypes
  <2>5. ~alive' => style = 5 /\ hears' = "none"
    <3>1. style = 5 => hears' = "none"
      BY <2>1, <2>2
    <3>2. alive' = (style # 5)
      BY <2>1
    <3> QED
      BY <3>1, <3>2, Zenon
  <2>6. hears' # "accepting" /\ (style # 7 => hears' # "handler")
    BY <2>1, <2>2
  <2> QED
    BY <2>1, <2>3, <2>4, <2>5, <2>6, EchoWriteEnds
<1> QED
  BY <1>1, <1>2

\* The next message is read while nothing is written, and written at once.
LEMMA EchoBegins ==
  ASSUME EchoInv, EchoRests, hears' = IF style = 7 THEN "handler" ELSE "none",
         came' = came + 1, data' = came + 1, E!StartsFrom("buffer"), hears = "open",
         backlog' = IF style = 7 THEN <<came + 1>> ELSE backlog,
         UNCHANGED <<style, alive, overwritten, echoed>>
  PROVE  EchoInv'
<1>0. came \in Nat /\ backlog \in Seq(Nat)
  BY DEF EchoInv, EchoTypes
<1>1. /\ write' \in [from : {"none", "buffer", "queue"}, taken : 0 .. Parts, failed : BOOLEAN]
      /\ write'.taken = 0 /\ write'.from = "buffer"
  <2>1. 0 \in 0 .. Parts
    BY ServersAssumption
  <2> QED
    BY <2>1 DEF E!StartsFrom
<1>2. E!Pending' /\ backlog' \in Seq(Nat)
  BY <1>0, <1>1 DEF E!Pending
<1>3. EchoTypes'
  BY <1>0, <1>1, <1>2 DEF EchoTypes
<1>4. PICK m : m = came + 1
  OBVIOUS
<1>5. m \in 1 .. came' /\ m - 1 = came /\ came' - m + 1 = 1 /\ came' = m /\ data' = m
  BY <1>0, <1>4
<1>6. echoed' = Upto(m - 1, write'.taken)
  BY <1>1, <1>5 DEF EchoRests
<1>7. style = 7 => Len(backlog') = 1 /\ \A i \in 1 .. Len(backlog') : backlog'[i] = m - 1 + i
  BY <1>0, <1>4
<1>8. EchoWrites(m)'
  BY <1>1, <1>2, <1>5, <1>6, <1>7 DEF EchoWrites
<1>9. alive'
  BY DEF EchoInv
<1>10. /\ hears' # "accepting"
       /\ style' # 7 => hears' # "handler" /\ (E!Pending' => hears' = "none")
  OBVIOUS
<1> QED
  BY <1>3, <1>5, <1>8, <1>9, <1>10 DEF EchoInv

LEMMA EchoReads ==
  ASSUME EchoInv, E!HandleRead
  PROVE  EchoInv'
<1>1. /\ hears = "open" /\ style # 7 /\ came' = came + 1 /\ data' = came + 1
      /\ hears' = "none" /\ E!StartsFrom("buffer") /\ backlog' = backlog
      /\ UNCHANGED <<style, alive, overwritten, echoed>>
  BY DEF E!HandleRead, E!Arrives
<1>2. ~E!Pending /\ alive
  BY <1>1 DEF EchoInv
<1>3. CASE ~overwritten
  <2>1. EchoRests
    BY <1>1, <1>2, <1>3 DEF EchoInv, EchoFailed, EchoWrites
  <2> QED
    BY <1>1, <2>1, EchoBegins
<1>4. CASE overwritten
  <2>1. came \in Nat /\ backlog \in Seq(Nat)
    BY DEF EchoInv, EchoTypes
  <2>2. write' \in [from : {"none", "buffer", "queue"}, taken : 0 .. Parts, failed : BOOLEAN]
    BY <1>1, ServersAssumption DEF E!StartsFrom
  <2>3. EchoTypes'
    BY <1>1, <2>1, <2>2 DEF EchoTypes
  <2> QED
    BY <1>1, <1>2, <1>4, <2>3 DEF EchoInv
<1> QED
  BY <1>3, <1>4

\* 7 reads while it writes, or after a write that failed.
LEMMA EchoReads7 ==
  ASSUME EchoInv, E!HandleRead7
  PROVE  EchoInv'
<1>1. /\ hears = "open" /\ style = 7 /\ came' = came + 1 /\ data' = came + 1
      /\ hears' = "handler" /\ backlog' = Append(backlog, came + 1)
      /\ IF backlog = <<>> THEN E!StartsFrom("buffer") ELSE UNCHANGED write
      /\ UNCHANGED <<style, alive, overwritten, echoed>>
  BY DEF E!HandleRead7, E!Arrives
<1>2. /\ came \in Nat /\ backlog \in Seq(Nat) /\ alive
      /\ write \in [from : {"none", "buffer", "queue"}, taken : 0 .. Parts, failed : BOOLEAN]
  BY <1>1 DEF EchoInv, EchoTypes
<1>3. Len(backlog) \in Nat
  BY <1>2, LenProperties
<1>4. /\ backlog' \in Seq(Nat) /\ Len(backlog') = Len(backlog) + 1
      /\ \A i \in 1 .. Len(backlog) : backlog'[i] = backlog[i]
      /\ backlog'[Len(backlog) + 1] = came + 1
  <2>1. came + 1 \in Nat
    BY <1>2
  <2> QED
    BY <1>1, <1>2, <2>1, AppendProperties
<1>5. EchoTypes'
  <2>1. E!StartsFrom("buffer") =>
          write' \in [from : {"none", "buffer", "queue"}, taken : 0 .. Parts, failed : BOOLEAN]
    BY ServersAssumption DEF E!StartsFrom
  <2>2. write' \in [from : {"none", "buffer", "queue"}, taken : 0 .. Parts, failed : BOOLEAN]
    BY <1>1, <1>2, <2>1
  <2>3. came' \in Nat /\ data' \in Nat
    BY <1>1, <1>2
  <2> QED
    BY <1>4, <2>2, <2>3 DEF EchoTypes
<1>6. CASE overwritten
  BY <1>1, <1>2, <1>5, <1>6 DEF EchoInv
<1>7. CASE ~overwritten /\ backlog = <<>>
  <2>1. ~EchoFailed
    BY <1>1, <1>7 DEF EchoFailed
  <2>2. \A m \in 1 .. came : ~EchoWrites(m)
    <3>1. ASSUME NEW m \in 1 .. came, EchoWrites(m) PROVE FALSE
      <4>1. Len(backlog) = came - m + 1 /\ Len(backlog) = 0
        BY <1>1, <1>7, <3>1 DEF EchoWrites
      <4> QED
        BY <1>2, <4>1
    <3> QED
      BY <3>1
  <2>3. EchoRests
    BY <1>7, <2>1, <2>2 DEF EchoInv
  <2>4. backlog' = <<came + 1>>
    BY <1>1, <1>7
  <2> QED
    BY <1>1, <1>7, <2>3, <2>4, EchoBegins
<1>8. CASE ~overwritten /\ backlog # <<>>
  <2>1. write' = write /\ E!Pending' = E!Pending
    BY <1>1, <1>8 DEF E!Pending
  <2>2. backlog' # <<>>
    BY <1>3, <1>4
  <2>3. ~EchoRests
    BY <1>1, <1>8 DEF EchoRests
  <2>4. CASE EchoFailed
    <3>1. PICK w \in Nat, t \in 0 .. Parts : w < came /\ echoed = Upto(w, t)
      BY <2>4 DEF EchoFailed
    <3>2. w < came' /\ echoed' = Upto(w, t)
      BY <1>1, <1>2, <3>1
    <3>3. EchoFailed'
      BY <1>1, <2>1, <2>2, <2>4, <3>2 DEF EchoFailed
    <3> QED
      BY <1>1, <1>2, <1>5, <3>3 DEF EchoInv
  <2>5. CASE \E m \in 1 .. came : EchoWrites(m)
    <3>1. PICK m \in 1 .. came : EchoWrites(m)
      BY <2>5
    <3>2. /\ E!Pending /\ echoed = Upto(m - 1, write.taken) /\ write.from # "buffer"
          /\ Len(backlog) = came - m + 1
          /\ \A i \in 1 .. Len(backlog) : backlog[i] = m - 1 + i
      BY <1>1, <3>1 DEF EchoWrites
    <3>3. /\ Len(backlog') = came' - m + 1 /\ m \in 1 .. came'
          /\ m - 1 + (Len(backlog) + 1) = came + 1
      <4>1. Len(backlog') = Len(backlog) + 1 /\ came' = came + 1
        BY <1>1, <1>4
      <4> QED
        BY <1>2, <1>3, <3>2, <4>1
    <3>4. \A i \in 1 .. Len(backlog') : backlog'[i] = m - 1 + i
      <4>1. \A i \in 1 .. Len(backlog') : i \in 1 .. Len(backlog) \/ i = Len(backlog) + 1
        BY <1>3, <1>4
      <4> QED
        BY <1>4, <3>2, <3>3, <4>1
    <3>5. EchoWrites(m)'
      BY <1>1, <2>1, <3>2, <3>3, <3>4 DEF EchoWrites
    <3> QED
      BY <1>1, <1>2, <1>5, <3>3, <3>5 DEF EchoInv
  <2> QED
    BY <1>8, <2>3, <2>4, <2>5 DEF EchoInv
<1> QED
  BY <1>6, <1>7, <1>8

\* The write under way goes on.
LEMMA EchoWritesOn ==
  ASSUME EchoInv, E!TakePart \/ E!WriteFail
  PROVE  EchoInv'
<1>1. /\ E!Pending /\ UNCHANGED <<style, came, data, hears, backlog, alive, overwritten>>
  BY DEF E!TakePart, E!WriteFail
<1>2. /\ Parts \in Nat
      /\ write \in [from : {"none", "buffer", "queue"}, taken : 0 .. Parts, failed : BOOLEAN]
  BY ServersAssumption DEF EchoInv, EchoTypes
<1>3. alive
  BY <1>1 DEF EchoInv
<1>4. ~EchoRests /\ ~EchoFailed
  BY <1>1 DEF EchoRests, EchoFailed
<1>5. CASE E!WriteFail
  <2>1. write' = [write EXCEPT !.failed = TRUE] /\ echoed' = echoed
    BY <1>5 DEF E!WriteFail
  <2>2. /\ write' \in [from : {"none", "buffer", "queue"}, taken : 0 .. Parts, failed : BOOLEAN]
        /\ write'.taken = write.taken /\ write'.from = write.from
    BY <1>2, <2>1
  <2>3. E!Pending' /\ EchoTypes'
    BY <1>1, <2>2 DEF E!Pending, EchoInv, EchoTypes
  <2>4. ASSUME NEW m, EchoWrites(m) PROVE EchoWrites(m)'
    BY <1>1, <2>1, <2>2, <2>3, <2>4 DEF EchoWrites
  <2> QED
    BY <1>1, <1>3, <1>4, <2>3, <2>4 DEF EchoInv
<1>6. CASE E!TakePart
  <2>1. /\ write.taken < Parts /\ write' = [write EXCEPT !.taken = @ + 1]
        /\ echoed' = Append(echoed, <<IF write.from = "buffer" THEN data ELSE Head(backlog),
                                      write.taken + 1>>)
    BY <1>6 DEF E!TakePart
  <2>2. /\ write'.taken = write.taken + 1 /\ write'.from = write.from
        /\ write' \in [from : {"none", "buffer", "queue"}, taken : 0 .. Parts, failed : BOOLEAN]
    <3>1. write.taken \in Nat /\ write.taken + 1 \in 0 .. Parts
      BY <1>2, <2>1
    <3> QED
      BY <1>2, <2>1, <3>1
  <2>3. E!Pending' /\ EchoTypes'
    BY <1>1, <2>2 DEF E!Pending, EchoInv, EchoTypes
  <2>4. ASSUME NEW m \in 1 .. came, EchoWrites(m) PROVE EchoWrites(m)'
    <3>1. /\ echoed = Upto(m - 1, write.taken)
          /\ write.from = "buffer" => data = m
          /\ write.from # "buffer" => style = 7
          /\ style = 7 => /\ Len(backlog) = came - m + 1
                          /\ \A i \in 1 .. Len(backlog) : backlog[i] = m - 1 + i
      BY <2>4 DEF EchoWrites
    <3>2. came \in Nat /\ backlog \in Seq(Nat) /\ m - 1 \in Nat /\ m - 1 + 1 = m
      BY DEF EchoInv, EchoTypes
    <3>3. write.from # "buffer" => Head(backlog) = m
      <4>1. write.from # "buffer" => 1 \in 1 .. Len(backlog) /\ backlog[1] = m
        BY <3>1, <3>2
      <4> QED
        BY <3>2, <4>1, HeadTailProperties
    <3>4. echoed' = Append(Upto(m - 1, write.taken), <<m - 1 + 1, write.taken + 1>>)
      BY <2>1, <3>1, <3>2, <3>3
    <3>5. write.taken \in Nat
      BY <1>2
    <3>6. echoed' = Upto(m - 1, write'.taken)
      <4>1. Append(Upto(m - 1, write.taken), <<m - 1 + 1, write.taken + 1>>)
              = Upto(m - 1, write.taken + 1)
        BY <3>2, <3>5, UptoAppend
      <4> QED
        BY <2>2, <3>4, <4>1
    <3> QED
      BY <1>1, <2>2, <2>3, <2>4, <3>6 DEF EchoWrites
  <2> QED
    BY <1>1, <1>3, <1>4, <2>3, <2>4 DEF EchoInv
<1> QED
  BY <1>5, <1>6

\* 5, 6 and 16 read on when all is written.
LEMMA EchoWritten ==
  ASSUME EchoInv, E!HandleWrite
  PROVE  EchoInv'
<1>1. /\ E!Pending /\ style # 7 /\ write.taken = Parts /\ write' = E!NoWrite
      /\ data' = data \/ data' = 0
      /\ hears' = "open" /\ UNCHANGED <<style, came, backlog, alive, overwritten, echoed>>
  BY DEF E!HandleWrite
<1>2. alive /\ data \in Nat /\ backlog \in Seq(Nat) /\ came \in Nat
  BY <1>1 DEF EchoInv, EchoTypes
<1>3. ~overwritten => EchoRests'
  <2> SUFFICES ASSUME ~overwritten PROVE EchoRests'
    OBVIOUS
  <2>1. PICK m \in 1 .. came : EchoWrites(m)
    BY <1>1 DEF EchoInv, EchoRests, EchoFailed
  <2>2. came = m /\ echoed = Upto(m - 1, Parts)
    BY <1>1, <2>1 DEF EchoWrites
  <2>3. m - 1 \in Nat /\ m - 1 + 1 = m
    BY <1>2
  <2>4. echoed = Upto(came, 0)
    BY <2>2, <2>3, UptoAll
  <2>5. ~E!Pending'
    BY <1>1 DEF E!Pending, E!NoWrite
  <2> QED
    BY <1>1, <2>4, <2>5 DEF EchoRests
<1>4. data' \in Nat
  BY <1>1, <1>2
<1> QED
  BY <1>1, <1>2, <1>3, <1>4, EchoWriteEnds

\* 7 writes the next message, from the queue.
LEMMA EchoWritten7 ==
  ASSUME EchoInv, E!HandleWrite7
  PROVE  EchoInv'
<1>1. /\ E!Pending /\ style = 7 /\ hears # "handler" /\ write.taken = Parts
      /\ backlog' = Tail(backlog)
      /\ IF backlog' = <<>> THEN write' = E!NoWrite ELSE E!StartsFrom("queue")
      /\ UNCHANGED <<style, came, data, hears, alive, overwritten, echoed>>
  BY DEF E!HandleWrite7
<1>2. /\ came \in Nat /\ data \in Nat /\ backlog \in Seq(Nat) /\ alive
      /\ hears # "accepting"
  BY <1>1 DEF EchoInv, EchoTypes
<1>3. CASE overwritten
  <2>1. backlog' \in Seq(Nat)
    <3>1. backlog # <<>>
      BY <1>1 DEF EchoInv
    <3> QED
      BY <1>1, <1>2, <3>1, HeadTailProperties
  <2>2. /\ write' \in [from : {"none", "buffer", "queue"}, taken : 0 .. Parts, failed : BOOLEAN]
        /\ E!Pending' => backlog' # <<>>
    <3>1. 0 \in 0 .. Parts
      BY ServersAssumption
    <3>2. CASE backlog' = <<>>
      <4>1. write' = [from |-> "none", taken |-> 0, failed |-> FALSE]
        BY <1>1, <3>2 DEF E!NoWrite
      <4> QED
        BY <3>1, <4>1 DEF E!Pending
    <3>3. CASE backlog' # <<>>
      <4>1. write' = [from |-> "queue", taken |-> 0, failed |-> FALSE]
        BY <1>1, <3>3 DEF E!StartsFrom
      <4> QED
        BY <3>1, <3>3, <4>1
    <3> QED
      BY <3>2, <3>3
  <2>3. EchoTypes'
    BY <1>1, <1>2, <2>1, <2>2 DEF EchoTypes
  <2> QED
    BY <1>1, <1>2, <1>3, <2>2, <2>3 DEF EchoInv
<1>4. CASE ~overwritten
  <2>1. PICK m \in 1 .. came : EchoWrites(m)
    BY <1>1, <1>4 DEF EchoInv, EchoRests, EchoFailed
  <2>2. /\ echoed = Upto(m - 1, Parts) /\ Len(backlog) = came - m + 1
        /\ \A i \in 1 .. Len(backlog) : backlog[i] = m - 1 + i
    BY <1>1, <2>1 DEF EchoWrites
  <2>3. m - 1 \in Nat /\ m - 1 + 1 = m /\ m \in Nat /\ Len(backlog) # 0
    BY <1>2, <2>2
  <2>4. echoed = Upto(m, 0)
    BY <2>2, <2>3, UptoAll
  <2>5. backlog # <<>>
    BY <2>3
  <2>6. /\ backlog' \in Seq(Nat) /\ Len(backlog') = Len(backlog) - 1
        /\ \A i \in 1 .. Len(backlog') : backlog'[i] = backlog[i + 1]
    BY <1>1, <1>2, <2>5, HeadTailProperties
  <2>7. Len(backlog') = came - m /\ \A i \in 1 .. Len(backlog') : backlog'[i] = m + i
    <3>1. Len(backlog') = came - m
      BY <1>2, <2>2, <2>6
    <3>2. ASSUME NEW i \in 1 .. Len(backlog') PROVE backlog'[i] = m + i
      <4>1. i + 1 \in 1 .. Len(backlog) /\ m - 1 + (i + 1) = m + i
        BY <1>2, <2>2, <2>6
      <4> QED
        BY <2>2, <2>6, <4>1
    <3> QED
      BY <3>1, <3>2
  <2>8. CASE backlog' = <<>>
    <3>1. m = came /\ write' = E!NoWrite
      <4>1. came - m = 0
        BY <2>7, <2>8
      <4> QED
        BY <1>1, <1>2, <2>8, <4>1
    <3>2. ~E!Pending'
      BY <3>1 DEF E!Pending, E!NoWrite
    <3>3. EchoRests'
      BY <1>1, <2>4, <2>8, <3>1, <3>2 DEF EchoRests
    <3> QED
      BY <1>1, <1>2, <2>6, <3>1, <3>3, EchoWriteEnds
  <2>9. CASE backlog' # <<>>
    <3>1. /\ write' = [from |-> "queue", taken |-> 0, failed |-> FALSE]
          /\ write'.from = "queue" /\ write'.taken = 0 /\ 0 \in 0 .. Parts
      BY <1>1, <2>9, ServersAssumption DEF E!StartsFrom
    <3>2. E!Pending' /\ EchoTypes'
      BY <1>1, <1>2, <2>6, <3>1 DEF E!Pending, EchoTypes
    <3>3. PICK n : n = m + 1
      OBVIOUS
    <3>4. n \in 1 .. came /\ n - 1 = m /\ came - n + 1 = came - m
      <4>1. Len(backlog') # 0 /\ Len(backlog') \in Nat
        BY <2>6, <2>9, EmptySeq
      <4> QED
        BY <1>2, <2>7, <3>3, <4>1
    <3>5. EchoWrites(n)'
      BY <1>1, <2>4, <2>7, <3>1, <3>2, <3>4 DEF EchoWrites
    <3> QED
      BY <1>1, <1>2, <2>9, <3>2, <3>4, <3>5 DEF EchoInv
  <2> QED
    BY <2>8, <2>9
<1> QED
  BY <1>3, <1>4

LEMMA EchoStepInv == EchoInv /\ [E!EchoNext]_eVars => EchoInv'
<1> SUFFICES ASSUME EchoInv, [E!EchoNext]_eVars PROVE EchoInv'
  OBVIOUS
<1>1. CASE UNCHANGED eVars
  <2>1. UNCHANGED <<style, came, data, hears, backlog, write, alive, overwritten, echoed>>
    BY <1>1 DEF eVars
  <2> QED
    BY <2>1 DEF EchoInv, EchoTypes, EchoRests, EchoFailed, EchoWrites, E!Pending
<1>2. CASE E!EchoNext
  BY <1>2, EchoAccepts, EchoStops, EchoReads, EchoReads7, EchoReadsOn, EchoWritesOn,
     EchoWritten, EchoWritten7
  DEF E!EchoNext
<1> QED
  BY <1>1, <1>2

LEMMA EchoShows == EchoInv => E!EchoesWhatCame
<1> SUFFICES ASSUME EchoInv PROVE E!EchoesWhatCame
  OBVIOUS
<1>1. came \in Nat /\ Parts \in Nat /\ write.taken \in 0 .. Parts
  BY ServersAssumption DEF EchoInv, EchoTypes
<1>2. ASSUME ~overwritten PROVE IsPrefix(echoed, Flat(came))
  <2>1. CASE EchoRests
    BY <1>1, <2>1, AllIsPrefix DEF EchoRests
  <2>2. CASE EchoFailed
    <3>1. PICK w \in Nat, t \in 0 .. Parts : w < came /\ echoed = Upto(w, t)
      BY <2>2 DEF EchoFailed
    <3>2. IsPrefix(Upto(w, t), Flat(came))
      BY <1>1, <3>1, UptoIsPrefix
    <3> QED
      BY <3>1, <3>2
  <2>3. CASE \E m \in 1 .. came : EchoWrites(m)
    <3>1. PICK m \in 1 .. came : EchoWrites(m)
      BY <2>3
    <3>2. m - 1 \in Nat /\ m - 1 < came /\ echoed = Upto(m - 1, write.taken)
      BY <1>1, <3>1 DEF EchoWrites
    <3>3. IsPrefix(Upto(m - 1, write.taken), Flat(came))
      BY <1>1, <3>2, UptoIsPrefix
    <3> QED
      BY <3>2, <3>3
  <2> QED
    BY <1>2, <2>1, <2>2, <2>3 DEF EchoInv
<1>3. Flat(came) = E!FlattenSeq([i \in 1 .. came |-> [p \in 1 .. Parts |-> <<i, p>>]])
  BY DEF Flat, PartsOf, FlattenSeq, E!FlattenSeq
<1>4. \A u, v : E!IsPrefix(u, v) <=> IsPrefix(u, v)
  BY DEF E!IsPrefix, IsPrefix
<1> QED
  BY <1>2, <1>3, <1>4 DEF EchoInv, E!EchoesWhatCame

-----------------------------------------------------------------------------
(* The asynchronous operations of the client session (4).                  *)

MsgNode == [msg : Nat, cur : Nat]

AsTypes ==
  /\ way \in {"err", "some", "all"}
  /\ called \in Nat
  /\ nodes \in Seq(MsgNode)

\* What the peer has got are the first messages, perhaps in part.
PeerHas ==
  \/ delivered = Upto(called, 0)
  \/ \E w \in Nat, t \in 0 .. Parts : w < called /\ delivered = Upto(w, t)

\* The one node is of the last message, and written to cur.
ErrWay ==
  \/ pending = {} /\ (connected => delivered = Upto(called, 0))
  \/ /\ called > 0 /\ pending = {called} /\ Len(nodes) = 1
     /\ nodes[1].msg = called /\ nodes[1].cur <= Parts
     /\ connected => delivered = Upto(called - 1, nodes[1].cur)

\* The last messages are queued, and the first of them is written to cur.
QueueOf(n) ==
  /\ n + Len(nodes) = called
  /\ \A i \in 1 .. Len(nodes) : nodes[i].msg = n + i
  /\ \A i \in 1 .. Len(nodes) : i > 1 \/ way = "all" => nodes[i].cur = 0
QueueWay ==
  \/ /\ nodes = <<>> /\ pending = {} /\ ~sending
     /\ connected => delivered = Upto(called, 0)
  \/ \E n \in Nat :
       /\ QueueOf(n) /\ nodes # <<>> /\ nodes[1].cur <= Parts
       /\ pending = {n + 1} /\ sending
       /\ connected => delivered = Upto(n, nodes[1].cur)

AsOrder ==
  /\ PeerHas
  /\ way = "err" => ErrWay
  /\ way # "err" => QueueWay
  /\ receiving <=> reading # "none"

AsInv == AsTypes /\ (~undefined => AsOrder)

LEMMA AsInitInv == A!AsInit => AsInv
<1> SUFFICES ASSUME A!AsInit PROVE AsInv
  OBVIOUS
<1>1. /\ way \in {"err", "some", "all"} /\ called = 0 /\ nodes = <<>> /\ ~sending /\ pending = {}
      /\ delivered = <<>> /\ ~receiving /\ reading = "none"
  BY DEF A!AsInit
<1>2. delivered = Upto(called, 0)
  BY <1>1, UptoNone, FlatNone
<1> QED
  BY <1>1, <1>2 DEF AsInv, AsTypes, AsOrder, PeerHas, ErrWay, QueueWay

\* A step of the reading half, or the loss of the connection.
LEMMA AsReadsKeep ==
  ASSUME AsInv, UNCHANGED <<way, called, nodes, sending, pending, delivered>>,
         connected' => connected,
         ~undefined' => ~undefined /\ (receiving' <=> reading' # "none")
  PROVE  AsInv'
<1>1. AsTypes'
  BY DEF AsInv, AsTypes
<1>2. ASSUME ~undefined' PROVE AsOrder'
  <2>1. AsOrder /\ (receiving' <=> reading' # "none")
    BY <1>2 DEF AsInv
  <2>2. PeerHas' /\ (way' = "err" => ErrWay')
    BY <2>1 DEF AsOrder, PeerHas, ErrWay
  <2>3. way' # "err" => QueueWay'
    BY <2>1 DEF AsOrder, QueueWay, QueueOf
  <2> QED
    BY <2>1, <2>2, <2>3 DEF AsOrder
<1> QED
  BY <1>1, <1>2 DEF AsInv

LEMMA AsReads ==
  ASSUME AsInv,
         \/ A!ReadFromSocket \/ A!ReadFromSocketCb \/ A!ReadAllFromSocket
         \/ A!ReadAllFromSocketCb \/ A!Disconnect
  PROVE  AsInv'
<1>1. /\ UNCHANGED <<way, called, nodes, sending, pending, delivered>>
      /\ connected' => connected
  BY DEF A!ReadFromSocket, A!ReadFromSocketCb, A!ReadAllFromSocket, A!ReadAllFromSocketCb,
         A!Disconnect, A!Read, A!writeVars
<1>2. CASE A!ReadFromSocket \/ A!ReadAllFromSocket
  <2>1. PICK kind \in {"some", "all"} : A!Read(kind)
    BY <1>2 DEF A!ReadFromSocket, A!ReadAllFromSocket
  <2>2. /\ ~undefined /\ undefined' = (reading # "none") /\ receiving' = TRUE
        /\ reading' = IF receiving THEN reading ELSE kind
    BY <2>1 DEF A!Read
  <2>3. ~receiving => reading' # "none"
    BY <2>2
  <2>4. receiving => reading # "none" /\ reading' = reading
    BY <2>2 DEF AsInv, AsOrder
  <2>5. reading' # "none" /\ receiving'
    BY <2>2, <2>3, <2>4
  <2> QED
    BY <1>1, <2>2, <2>5, AsReadsKeep
<1>3. CASE A!ReadFromSocketCb
  <2>1. /\ ~undefined /\ undefined' = undefined /\ receiving' = (curLen' < Room)
        /\ reading' = IF curLen' < Room THEN "some" ELSE "none"
    BY <1>3 DEF A!ReadFromSocketCb
  <2>2. receiving' <=> reading' # "none"
    BY <2>1
  <2> QED
    BY <1>1, <2>1, <2>2, AsReadsKeep
<1>4. CASE A!ReadAllFromSocketCb
  <2>1. ~undefined /\ ~receiving' /\ reading' = "none"
    BY <1>4 DEF A!ReadAllFromSocketCb
  <2> QED
    BY <1>1, <2>1, AsReadsKeep
<1>5. CASE A!Disconnect
  <2>1. undefined' = undefined /\ receiving' = receiving /\ reading' = reading
    BY <1>5 DEF A!Disconnect, A!readVars
  <2>2. ~undefined' => ~undefined /\ (receiving' <=> reading' # "none")
    BY <2>1 DEF AsInv, AsOrder
  <2> QED
    BY <1>1, <2>2, AsReadsKeep
<1> QED
  BY <1>2, <1>3, <1>4, <1>5

\* One message more to write.
LEMMA PeerHasLess ==
  ASSUME called \in Nat, PeerHas, called' = called + 1, delivered' = delivered
  PROVE  PeerHas'
<1>1. CASE delivered = Upto(called, 0)
  <2>1. called < called' /\ 0 \in 0 .. Parts
    BY ServersAssumption
  <2> QED
    BY <1>1, <2>1 DEF PeerHas
<1>2. CASE \E w \in Nat, t \in 0 .. Parts : w < called /\ delivered = Upto(w, t)
  <2>1. \A w \in Nat : w < called => w < called'
    OBVIOUS
  <2> QED
    BY <1>2, <2>1 DEF PeerHas
<1> QED
  BY <1>1, <1>2 DEF PeerHas

LEMMA AsCallsErr ==
  ASSUME AsInv, A!WriteToSocketErr
  PROVE  AsInv'
<1>1. /\ way = "err" /\ ~undefined /\ called' = called + 1 /\ nodes' = <<A!Node(called + 1)>>
      /\ undefined' = (pending # {}) /\ pending' = {called + 1}
      /\ UNCHANGED <<way, sending, connected, delivered, receiving, reading>>
  BY DEF A!WriteToSocketErr, A!readVars
<1>2. called \in Nat /\ called' \in Nat /\ called' > 0 /\ called' - 1 = called
  BY <1>1 DEF AsInv, AsTypes
<1>3. /\ nodes' \in Seq(MsgNode) /\ Len(nodes') = 1
      /\ nodes'[1].msg = called' /\ nodes'[1].cur = 0
  BY <1>1, <1>2 DEF A!Node, MsgNode
<1>4. AsTypes'
  BY <1>1, <1>2, <1>3 DEF AsTypes
<1>5. ASSUME ~undefined' PROVE AsOrder'
  <2>1. AsOrder /\ pending = {}
    BY <1>1, <1>5 DEF AsInv
  <2>2. connected => delivered = Upto(called, 0)
    BY <1>1, <1>2, <2>1 DEF AsOrder, ErrWay
  <2>3. connected' => delivered' = Upto(called' - 1, nodes'[1].cur)
    BY <1>1, <1>2, <1>3, <2>2
  <2>4. 0 <= Parts
    BY ServersAssumption
  <2>5. ErrWay'
    BY <1>1, <1>2, <1>3, <2>3, <2>4 DEF ErrWay
  <2>6. PeerHas'
    BY <1>1, <1>2, <2>1, PeerHasLess DEF AsOrder
  <2> QED
    BY <1>1, <2>1, <2>5, <2>6 DEF AsOrder
<1> QED
  BY <1>4, <1>5 DEF AsInv

LEMMA AsCalls ==
  ASSUME AsInv, A!WriteToSocket \/ A!WriteAllToSocket
  PROVE  AsInv'
<1> DEFINE new == A!Node(called + 1)
<1>1. /\ way # "err" /\ ~undefined /\ called' = called + 1 /\ nodes' = Append(nodes, new)
      /\ sending' = TRUE /\ pending' = IF sending THEN pending ELSE {called + 1}
      /\ UNCHANGED <<way, undefined, connected, delivered, receiving, reading>>
  BY DEF A!WriteToSocket, A!WriteAllToSocket, A!Enqueue, A!readVars
<1>2. called \in Nat /\ called' \in Nat /\ nodes \in Seq(MsgNode) /\ Len(nodes) \in Nat
  BY <1>1, LenProperties DEF AsInv, AsTypes
<1>3. new \in MsgNode /\ new.msg = called + 1 /\ new.cur = 0
  BY <1>2 DEF A!Node, MsgNode
<1> HIDE DEF new
<1>4. /\ nodes' \in Seq(MsgNode) /\ Len(nodes') = Len(nodes) + 1
      /\ \A i \in 1 .. Len(nodes) : nodes'[i] = nodes[i]
      /\ nodes'[Len(nodes) + 1] = new
  BY <1>1, <1>2, <1>3, AppendProperties
<1>5. AsTypes' /\ nodes' # <<>>
  BY <1>1, <1>2, <1>4 DEF AsInv, AsTypes
<1>6. AsOrder
  BY <1>1 DEF AsInv
<1>7. QueueWay'
  <2>1. CASE /\ nodes = <<>> /\ pending = {} /\ ~sending
             /\ connected => delivered = Upto(called, 0)
    <3>1. Len(nodes') = 1 /\ nodes'[1] = new
      BY <1>4, <2>1
    <3>2. PICK n \in Nat : n = called
      BY <1>2
    <3>3. QueueOf(n)'
      <4>1. n + Len(nodes') = called'
        BY <1>1, <3>1, <3>2
      <4>2. \A i \in 1 .. Len(nodes') : i = 1 /\ nodes'[i] = new
        BY <3>1
      <4> QED
        BY <1>3, <3>2, <4>1, <4>2 DEF QueueOf
    <3>4. nodes'[1].cur = 0 /\ 0 <= Parts
      BY <1>3, <3>1, ServersAssumption
    <3>5. pending' = {n + 1}
      BY <1>1, <2>1, <3>2
    <3>6. connected' => delivered' = Upto(n, nodes'[1].cur)
      BY <1>1, <2>1, <3>2, <3>4
    <3> QED
      BY <1>1, <1>5, <3>3, <3>4, <3>5, <3>6 DEF QueueWay
  <2>2. CASE \E n \in Nat :
               /\ QueueOf(n) /\ nodes # <<>> /\ nodes[1].cur <= Parts
               /\ pending = {n + 1} /\ sending
               /\ connected => delivered = Upto(n, nodes[1].cur)
    <3>1. PICK n \in Nat :
            /\ QueueOf(n) /\ nodes # <<>> /\ nodes[1].cur <= Parts
            /\ pending = {n + 1} /\ sending
            /\ connected => delivered = Upto(n, nodes[1].cur)
      BY <2>2
    <3>2. /\ n + Len(nodes) = called
          /\ \A i \in 1 .. Len(nodes) : nodes[i].msg = n + i
          /\ \A i \in 1 .. Len(nodes) : i > 1 \/ way = "all" => nodes[i].cur = 0
      BY <3>1 DEF QueueOf
    <3>3. Len(nodes) # 0 /\ 1 \in 1 .. Len(nodes)
      BY <1>2, <3>1, EmptySeq
    <3>4. QueueOf(n)'
      <4>1. n + Len(nodes') = called' /\ n + (Len(nodes) + 1) = called + 1
        BY <1>1, <1>2, <1>4, <3>2
      <4>2. \A i \in 1 .. Len(nodes') : i \in 1 .. Len(nodes) \/ i = Len(nodes) + 1
        BY <1>2, <1>4
      <4>3. \A i \in 1 .. Len(nodes') : nodes'[i].msg = n + i
        BY <1>3, <1>4, <3>2, <4>1, <4>2
      <4>4. \A i \in 1 .. Len(nodes') : i > 1 \/ way' = "all" => nodes'[i].cur = 0
        BY <1>1, <1>3, <1>4, <3>2, <4>2
      <4> QED
        BY <4>1, <4>3, <4>4 DEF QueueOf
    <3>5. nodes'[1] = nodes[1] /\ pending' = {n + 1}
      BY <1>1, <1>4, <3>1, <3>3
    <3> QED
      BY <1>1, <1>5, <3>1, <3>4, <3>5 DEF QueueWay
  <2> QED
    BY <1>1, <1>6, <2>1, <2>2 DEF AsOrder, QueueWay
<1>8. PeerHas'
  BY <1>1, <1>2, <1>6, PeerHasLess DEF AsOrder
<1> QED
  BY <1>1, <1>5, <1>6, <1>7, <1>8 DEF AsInv, AsOrder

\* What a write of a part of the front adds to what the peer has.
LEMMA PartTaken ==
  ASSUME NEW w \in Nat, NEW k \in Nat, NEW n \in Nat,
         delivered = Upto(w, k), delivered' = delivered \o A!Write(w + 1, k, n)
  PROVE  delivered' = Upto(w, k + n)
<1>1. A!Write(w + 1, k, n) = [i \in 1 .. n |-> <<w + 1, k + i>>]
  BY DEF A!Write
<1>2. Upto(w, k) \o [i \in 1 .. n |-> <<w + 1, k + i>>] = Upto(w, k + n)
  BY UptoGoesOn
<1> QED
  BY <1>1, <1>2

\* An operation that fails adds nothing.
LEMMA NothingTaken ==
  ASSUME AsTypes, PeerHas, delivered' = delivered \o A!Write(A!Current.msg, A!Current.cur, 0)
  PROVE  delivered' = delivered
<1>1. A!Write(A!Current.msg, A!Current.cur, 0) = <<>>
  BY DEF A!Write
<1>2. \A w \in Nat, t \in 0 .. Parts : Upto(w, t) \in Seq(Part) /\ Upto(w, 0) \in Seq(Part)
  <2>1. 0 \in Nat /\ \A t \in 0 .. Parts : t \in Nat
    BY ServersAssumption
  <2> QED
    BY <2>1, UptoIs
<1>3. delivered \in Seq(Part)
  <2>1. called \in Nat /\ 0 \in 0 .. Parts
    BY ServersAssumption DEF AsTypes
  <2> QED
    BY <1>2, <2>1 DEF PeerHas
<1> QED
  BY <1>1, <1>3, ConcatEmptySeq

\* The front of the queue, and what a step of its write leaves the peer with.
LEMMA FrontTaken ==
  ASSUME AsTypes, PeerHas, nodes # <<>>, NEW n \in Nat, n < called,
         nodes[1].msg = n + 1, nodes[1].cur <= Parts,
         connected => delivered = Upto(n, nodes[1].cur),
         NEW k \in Nat, A!Takes(k), called' = called,
         connected => nodes[1].cur + k <= Parts, ~connected => k = 0
  PROVE  /\ A!Current = nodes[1] /\ nodes[1] \in MsgNode /\ nodes[1].cur \in Nat
         /\ connected => delivered' = Upto(n, nodes[1].cur + k)
         /\ PeerHas'
<1>1. A!Current = nodes[1] /\ nodes[1] \in MsgNode
  BY EmptySeq, ElementOfSeq, HeadTailProperties DEF A!Current, AsTypes
<1>2. nodes[1].cur \in Nat /\ called \in Nat
  BY <1>1 DEF MsgNode, AsTypes
<1>3. delivered' = delivered \o A!Write(n + 1, nodes[1].cur, k)
  BY <1>1 DEF A!Takes
<1>4. CASE connected
  <2>1. delivered' = Upto(n, nodes[1].cur + k)
    BY <1>2, <1>3, <1>4, PartTaken
  <2>2. nodes[1].cur + k \in 0 .. Parts
    BY <1>2, <1>4, ServersAssumption
  <2>3. PeerHas'
    BY <2>1, <2>2 DEF PeerHas
  <2> QED
    BY <1>1, <1>2, <2>1, <2>3
<1>5. CASE ~connected
  <2>1. delivered' = delivered
    BY <1>1, <1>5, NothingTaken DEF A!Takes
  <2>2. PeerHas'
    BY <2>1 DEF PeerHas
  <2> QED
    BY <1>1, <1>2, <1>5, <2>2
<1> QED
  BY <1>4, <1>5

LEMMA AsErrGoesOn ==
  ASSUME AsInv, A!WriteToSocketCbErr
  PROVE  AsInv'
<1>1. /\ way = "err" /\ ~undefined /\ pending # {}
      /\ UNCHANGED <<way, called, sending, connected, undefined, receiving, reading>>
  BY DEF A!WriteToSocketCbErr, A!readVars
<1>2. PICK k \in A!Taken :
        /\ A!Takes(k)
        /\ IF connected /\ k + A!Current.cur < Parts
             THEN nodes' = <<[A!Current EXCEPT !.cur = @ + k]>> /\ UNCHANGED pending
             ELSE pending' = {} /\ UNCHANGED nodes
  BY DEF A!WriteToSocketCbErr
<1>3. AsTypes /\ AsOrder /\ called \in Nat /\ Parts \in Nat
  BY <1>1, ServersAssumption DEF AsInv, AsTypes
<1>4. /\ called > 0 /\ pending = {called} /\ Len(nodes) = 1
      /\ nodes[1].msg = called /\ nodes[1].cur <= Parts
      /\ connected => delivered = Upto(called - 1, nodes[1].cur)
  BY <1>1, <1>3 DEF AsOrder, ErrWay
<1>5. PICK n \in Nat : n = called - 1
  BY <1>3, <1>4
<1>6. n < called /\ nodes[1].msg = n + 1 /\ nodes # <<>> /\ n + 1 = called
  BY <1>3, <1>4, <1>5
<1>7. A!Current = nodes[1] /\ nodes[1] \in MsgNode /\ nodes[1].cur \in Nat
  <2>1. nodes \in Seq(MsgNode) /\ 1 \in 1 .. Len(nodes)
    BY <1>3, <1>4 DEF AsTypes
  <2>2. A!Current = nodes[1] /\ nodes[1] \in MsgNode
    BY <1>6, <2>1, ElementOfSeq, HeadTailProperties DEF A!Current
  <2> QED
    BY <2>2 DEF MsgNode
<1>8. /\ k \in Nat
      /\ connected => k >= 1 /\ nodes[1].cur + k <= Parts
      /\ ~connected => k = 0
  BY <1>3, <1>4, <1>7 DEF A!Taken
<1>9. (connected => delivered' = Upto(n, nodes[1].cur + k)) /\ PeerHas'
  <2>1. (connected => delivered = Upto(n, nodes[1].cur)) /\ PeerHas
    BY <1>3, <1>4, <1>5 DEF AsOrder
  <2> QED
    BY <1>1, <1>2, <1>3, <1>4, <1>6, <1>8, <2>1, FrontTaken
<1>10. CASE connected /\ k + A!Current.cur < Parts
  <2> DEFINE new == [A!Current EXCEPT !.cur = @ + k]
  <2>1. nodes' = <<new>> /\ pending' = pending
    BY <1>2, <1>10
  <2>2. new \in MsgNode /\ new.msg = called /\ new.cur = nodes[1].cur + k
    BY <1>4, <1>7, <1>8 DEF MsgNode
  <2>3. nodes[1].cur + k <= Parts
    BY <1>8, <1>10
  <2> HIDE DEF new
  <2>4. nodes' \in Seq(MsgNode) /\ Len(nodes') = 1 /\ nodes'[1] = new
    BY <2>1, <2>2
  <2>5. ErrWay'
    BY <1>1, <1>4, <1>5, <1>9, <1>10, <2>1, <2>2, <2>3, <2>4 DEF ErrWay
  <2>6. AsTypes'
    BY <1>1, <1>3, <2>4 DEF AsTypes
  <2> QED
    BY <1>1, <1>3, <1>9, <2>5, <2>6 DEF AsInv, AsOrder
<1>11. CASE ~(connected /\ k + A!Current.cur < Parts)
  <2>1. nodes' = nodes /\ pending' = {}
    BY <1>2, <1>11
  <2>2. connected => delivered' = Upto(called, 0)
    <3>1. connected => nodes[1].cur + k = Parts
      BY <1>3, <1>7, <1>8, <1>11
    <3>2. Upto(n, Parts) = Upto(n + 1, 0)
      BY UptoAll
    <3> QED
      BY <1>6, <1>9, <3>1, <3>2
  <2>3. ErrWay'
    BY <1>1, <2>1, <2>2 DEF ErrWay
  <2>4. AsTypes'
    BY <1>1, <1>3, <2>1 DEF AsTypes
  <2> QED
    BY <1>1, <1>3, <1>9, <2>3, <2>4 DEF AsInv, AsOrder
<1> QED
  BY <1>10, <1>11

LEMMA FrontReplaced ==
  ASSUME NEW X, NEW s \in Seq(X), s # <<>>, NEW x \in X, NEW t, t = <<x>> \o Tail(s)
  PROVE  /\ t \in Seq(X) /\ Len(t) = Len(s) /\ t[1] = x
         /\ \A i \in 2 .. Len(s) : t[i] = s[i]
<1>1. /\ Tail(s) \in Seq(X) /\ Len(Tail(s)) = Len(s) - 1 /\ Len(s) \in Nat \ {0}
      /\ \A i \in 1 .. Len(Tail(s)) : Tail(s)[i] = s[i + 1]
  BY HeadTailProperties, EmptySeq
<1>2. <<x>> \in Seq(X) /\ Len(<<x>>) = 1 /\ <<x>>[1] = x
  OBVIOUS
<1>3. /\ t \in Seq(X) /\ Len(t) = 1 + Len(Tail(s))
      /\ \A i \in 1 .. 1 + Len(Tail(s)) : t[i] = IF i <= 1 THEN <<x>>[i] ELSE Tail(s)[i - 1]
  BY <1>1, <1>2, ConcatProperties
<1>4. Len(t) = Len(s) /\ t[1] = x
  BY <1>1, <1>2, <1>3
<1>5. ASSUME NEW i \in 2 .. Len(s) PROVE t[i] = s[i]
  <2>1. i \in 1 .. 1 + Len(Tail(s)) /\ ~(i <= 1) /\ i - 1 \in 1 .. Len(Tail(s)) /\ i - 1 + 1 = i
    BY <1>1
  <2> QED
    BY <1>1, <1>3, <2>1
<1> QED
  BY <1>3, <1>4, <1>5

\* The front is written: the next one follows, or the end is undefined.
LEMMA AsPops ==
  ASSUME AsInv, way # "err", ~undefined, A!PopAndGoOn, PeerHas',
         UNCHANGED <<way, called, connected, receiving, reading>>,
         NEW n \in Nat, QueueOf(n), nodes # <<>>,
         connected => delivered' = Upto(n, Parts)
  PROVE  AsInv'
<1>1. /\ nodes' = Tail(nodes) /\ sending' = (nodes' # <<>>) /\ undefined' = (nodes' = <<>>)
      /\ pending' = IF nodes' = <<>> THEN {} ELSE {Head(nodes').msg}
  BY DEF A!PopAndGoOn
<1>2. AsTypes /\ AsOrder /\ nodes \in Seq(MsgNode) /\ Len(nodes) \in Nat /\ called \in Nat
  BY LenProperties DEF AsInv, AsTypes
<1>3. /\ nodes' \in Seq(MsgNode) /\ Len(nodes') = Len(nodes) - 1
      /\ \A i \in 1 .. Len(nodes') : nodes'[i] = nodes[i + 1]
  BY <1>1, <1>2, HeadTailProperties
<1>4. AsTypes'
  BY <1>2, <1>3 DEF AsTypes
<1>5. ASSUME ~undefined' PROVE AsOrder'
  <2>1. nodes' # <<>> /\ sending'
    BY <1>1, <1>5
  <2>2. Len(nodes') # 0 /\ 1 \in 1 .. Len(nodes') /\ Head(nodes') = nodes'[1]
    BY <1>3, <2>1, EmptySeq, LenProperties, HeadTailProperties
  <2>3. PICK m \in Nat : m = n + 1
    OBVIOUS
  <2>4. /\ n + Len(nodes) = called
        /\ \A i \in 1 .. Len(nodes) : nodes[i].msg = n + i
        /\ \A i \in 1 .. Len(nodes) : i > 1 \/ way = "all" => nodes[i].cur = 0
    BY DEF QueueOf
  <2>5. ASSUME NEW i \in 1 .. Len(nodes')
        PROVE  nodes'[i].msg = m + i /\ nodes'[i].cur = 0
    <3>1. i + 1 \in 1 .. Len(nodes) /\ i + 1 > 1 /\ n + (i + 1) = m + i
      BY <1>2, <1>3, <2>3
    <3>2. nodes[i + 1].msg = n + (i + 1) /\ nodes[i + 1].cur = 0
      BY <2>4, <3>1
    <3> QED
      BY <1>3, <3>1, <3>2
  <2>6. QueueOf(m)'
    <3>1. m + Len(nodes') = called
      BY <1>2, <1>3, <2>3, <2>4
    <3> QED
      BY <2>5, <3>1 DEF QueueOf
  <2>7. pending' = {m + 1} /\ nodes'[1].cur = 0 /\ 0 <= Parts
    <3>1. nodes'[1].msg = m + 1 /\ nodes'[1].cur = 0
      BY <2>2, <2>5
    <3>2. nodes' # <<>> /\ pending' = {Head(nodes').msg}
      BY <1>1, <2>1, Zenon
    <3>3. Parts \in Nat
      BY ServersAssumption
    <3> QED
      BY <2>2, <3>1, <3>2, <3>3
  <2>8. connected' => delivered' = Upto(m, nodes'[1].cur)
    BY <2>3, <2>7, UptoAll
  <2>9. QueueWay'
    BY <2>1, <2>6, <2>7, <2>8 DEF QueueWay
  <2> QED
    BY <1>2, <2>9 DEF AsOrder
<1> QED
  BY <1>4, <1>5 DEF AsInv

\* What the callbacks of the queue find.
LEMMA AsFront ==
  ASSUME AsInv, way # "err", ~undefined, pending # {}
  PROVE  /\ AsTypes /\ AsOrder /\ PeerHas /\ called \in Nat /\ Parts \in Nat
         /\ nodes # <<>> /\ A!Current = nodes[1] /\ nodes[1] \in MsgNode /\ nodes[1].cur \in Nat
         /\ \E n \in Nat :
              /\ QueueOf(n) /\ n < called /\ nodes[1].msg = n + 1 /\ nodes[1].cur <= Parts
              /\ way = "all" => nodes[1].cur = 0
              /\ pending = {n + 1} /\ sending
              /\ connected => delivered = Upto(n, nodes[1].cur)
<1>1. AsTypes /\ AsOrder /\ PeerHas /\ called \in Nat /\ Parts \in Nat /\ nodes \in Seq(MsgNode)
  BY ServersAssumption DEF AsInv, AsTypes, AsOrder
<1>2. PICK n \in Nat :
        /\ QueueOf(n) /\ nodes # <<>> /\ nodes[1].cur <= Parts
        /\ pending = {n + 1} /\ sending
        /\ connected => delivered = Upto(n, nodes[1].cur)
  BY <1>1 DEF AsOrder, QueueWay
<1>3. Len(nodes) \in Nat /\ Len(nodes) # 0 /\ 1 \in 1 .. Len(nodes)
  BY <1>1, <1>2, EmptySeq
<1>4. A!Current = nodes[1] /\ nodes[1] \in MsgNode /\ nodes[1].cur \in Nat
  <2>1. A!Current = nodes[1] /\ nodes[1] \in MsgNode
    BY <1>1, <1>2, <1>3, ElementOfSeq, HeadTailProperties DEF A!Current
  <2> QED
    BY <2>1 DEF MsgNode
<1>5. n < called /\ nodes[1].msg = n + 1 /\ (way = "all" => nodes[1].cur = 0)
  <2>1. /\ n + Len(nodes) = called
        /\ nodes[1].msg = n + 1 /\ (way = "all" => nodes[1].cur = 0)
    BY <1>2, <1>3 DEF QueueOf
  <2> QED
    BY <1>1, <1>3, <2>1
<1> QED
  BY <1>1, <1>2, <1>4, <1>5

LEMMA AsGoesOn ==
  ASSUME AsInv, A!WriteToSocketCb
  PROVE  AsInv'
<1>1. /\ way = "some" /\ ~undefined /\ pending # {}
      /\ UNCHANGED <<way, called, connected, receiving, reading>>
  BY DEF A!WriteToSocketCb, A!readVars
<1>2. PICK k \in A!Taken :
        /\ A!Takes(k)
        /\ IF A!Current.cur + k < Parts
             THEN A!GoOn(k) /\ UNCHANGED <<sending, undefined, pending>>
             ELSE A!PopAndGoOn
  BY DEF A!WriteToSocketCb
<1>3. /\ AsTypes /\ AsOrder /\ PeerHas /\ called \in Nat /\ Parts \in Nat
      /\ nodes # <<>> /\ A!Current = nodes[1] /\ nodes[1] \in MsgNode /\ nodes[1].cur \in Nat
  BY <1>1, AsFront
<1>4. PICK n \in Nat :
        /\ QueueOf(n) /\ n < called /\ nodes[1].msg = n + 1 /\ nodes[1].cur <= Parts
        /\ pending = {n + 1} /\ sending
        /\ connected => delivered = Upto(n, nodes[1].cur)
  BY <1>1, AsFront
<1>5. /\ k \in Nat
      /\ connected => nodes[1].cur + k <= Parts
      /\ ~connected => k = 0
  BY <1>3, <1>4 DEF A!Taken
<1>6. (connected => delivered' = Upto(n, nodes[1].cur + k)) /\ PeerHas'
  BY <1>1, <1>2, <1>3, <1>4, <1>5, FrontTaken
<1>7. CASE nodes[1].cur + k < Parts
  <2> DEFINE new == [A!Current EXCEPT !.cur = @ + k]
  <2>1. nodes' = <<new>> \o Tail(nodes) /\ UNCHANGED <<sending, undefined, pending>>
    BY <1>2, <1>3, <1>7 DEF A!GoOn
  <2>2. new \in MsgNode /\ new.msg = nodes[1].msg /\ new.cur = nodes[1].cur + k
    BY <1>3, <1>5 DEF MsgNode
  <2> HIDE DEF new
  <2>3. /\ nodes' \in Seq(MsgNode) /\ Len(nodes') = Len(nodes) /\ nodes'[1] = new
        /\ \A i \in 2 .. Len(nodes) : nodes'[i] = nodes[i]
    BY <1>3, <2>1, <2>2, FrontReplaced DEF AsTypes
  <2>4. AsTypes' /\ nodes' # <<>>
    <3>1. Len(nodes) \in Nat /\ Len(nodes) # 0
      BY <1>3, EmptySeq DEF AsTypes
    <3>2. nodes' # <<>>
      BY <2>3, <3>1
    <3> QED
      BY <1>1, <1>3, <2>3, <3>2 DEF AsTypes
  <2>5. QueueOf(n)'
    <3>1. /\ n + Len(nodes) = called
          /\ \A i \in 1 .. Len(nodes) : nodes[i].msg = n + i
          /\ \A i \in 1 .. Len(nodes) : i > 1 \/ way = "all" => nodes[i].cur = 0
      BY <1>4 DEF QueueOf
    <3>2. \A i \in 1 .. Len(nodes') : i = 1 \/ (i \in 2 .. Len(nodes) /\ i \in 1 .. Len(nodes) /\ i > 1)
      BY <2>3
    <3>3. \A i \in 1 .. Len(nodes') : nodes'[i].msg = n + i
      BY <1>4, <2>2, <2>3, <3>1, <3>2
    <3>4. \A i \in 1 .. Len(nodes') : i > 1 \/ way' = "all" => nodes'[i].cur = 0
      <4>1. \A i \in 1 .. Len(nodes') : i > 1 \/ way' = "all" => i \in 2 .. Len(nodes) /\ i \in 1 .. Len(nodes) /\ i > 1
        BY <1>1, <3>2
      <4> QED
        BY <2>3, <3>1, <4>1
    <3> QED
      BY <1>1, <2>3, <3>1, <3>3, <3>4 DEF QueueOf
  <2>6. nodes'[1].cur = nodes[1].cur + k /\ nodes'[1].cur <= Parts
    <3>1. nodes'[1].cur = nodes[1].cur + k
      BY <2>2, <2>3
    <3>2. nodes[1].cur + k <= Parts
      BY <1>3, <1>5, <1>7
    <3> QED
      BY <3>1, <3>2
  <2>7. QueueWay'
    BY <1>1, <1>4, <1>6, <2>1, <2>4, <2>5, <2>6 DEF QueueWay
  <2> QED
    BY <1>1, <1>3, <1>6, <2>4, <2>7 DEF AsInv, AsOrder
<1>8. CASE ~(nodes[1].cur + k < Parts)
  <2>1. A!PopAndGoOn
    BY <1>2, <1>3, <1>8
  <2>2. connected => nodes[1].cur + k = Parts
    BY <1>3, <1>5, <1>8
  <2>3. connected => delivered' = Upto(n, Parts)
    BY <1>6, <2>2
  <2> QED
    BY <1>1, <1>3, <1>4, <1>6, <2>1, <2>3, AsPops
<1> QED
  BY <1>7, <1>8

LEMMA AsAllGoesOn ==
  ASSUME AsInv, A!WriteAllToSocketCb
  PROVE  AsInv'
<1>1. /\ way = "all" /\ ~undefined /\ pending # {} /\ A!PopAndGoOn
      /\ A!Takes(IF connected THEN Parts ELSE 0)
      /\ UNCHANGED <<way, called, connected, receiving, reading>>
  BY DEF A!WriteAllToSocketCb, A!readVars
<1>2. /\ AsTypes /\ PeerHas /\ called \in Nat /\ Parts \in Nat
      /\ nodes # <<>> /\ nodes[1].cur \in Nat
  BY <1>1, AsFront
<1>3. PICK n \in Nat :
        /\ QueueOf(n) /\ n < called /\ nodes[1].msg = n + 1 /\ nodes[1].cur = 0
        /\ connected => delivered = Upto(n, nodes[1].cur)
  BY <1>1, AsFront
<1>4. PICK k \in Nat : k = IF connected THEN Parts ELSE 0
  BY <1>2
<1>5. /\ A!Takes(k) /\ nodes[1].cur <= Parts
      /\ connected => nodes[1].cur + k <= Parts /\ nodes[1].cur + k = Parts
      /\ ~connected => k = 0
  BY <1>1, <1>2, <1>3, <1>4
<1>6. (connected => delivered' = Upto(n, nodes[1].cur + k)) /\ PeerHas'
  BY <1>1, <1>2, <1>3, <1>5, FrontTaken
<1> QED
  BY <1>1, <1>2, <1>3, <1>5, <1>6, AsPops

LEMMA AsStepInv == AsInv /\ [A!AsNext]_aVars => AsInv'
<1> SUFFICES ASSUME AsInv, [A!AsNext]_aVars PROVE AsInv'
  OBVIOUS
<1>1. CASE UNCHANGED aVars
  <2>1. UNCHANGED <<way, called, nodes, sending, pending, connected, delivered, receiving,
                    reading, undefined>>
    BY <1>1 DEF aVars
  <2>2. connected' => connected
    BY <2>1
  <2>3. ~undefined' => ~undefined /\ (receiving' <=> reading' # "none")
    BY <2>1 DEF AsInv, AsOrder
  <2> QED
    BY <2>1, <2>2, <2>3, AsReadsKeep
<1>2. CASE A!AsNext
  BY <1>2, AsReads, AsCalls, AsCallsErr, AsErrGoesOn, AsGoesOn, AsAllGoesOn DEF A!AsNext
<1> QED
  BY <1>1, <1>2

LEMMA AsShows == AsInv => A!SessionKeepsTrack
<1> SUFFICES ASSUME AsInv, ~undefined PROVE A!SessionKeepsTrack
  BY DEF A!SessionKeepsTrack
<1>1. AsTypes /\ AsOrder /\ called \in Nat /\ nodes \in Seq(MsgNode)
  BY DEF AsInv, AsTypes
<1> DEFINE all == A!FlattenSeq([m \in 1 .. called |-> A!Write(m, 0, Parts)])
<1>2. all = Flat(called)
  <2>1. \A m \in 1 .. called : A!Write(m, 0, Parts) = PartsOf(m, Parts)
    BY DEF A!Write, PartsOf
  <2>2. [m \in 1 .. called |-> A!Write(m, 0, Parts)] = [m \in 1 .. called |-> PartsOf(m, Parts)]
    BY <2>1
  <2>3. \A s : A!FlattenSeq(s) = FlattenSeq(s)
    BY DEF A!FlattenSeq, FlattenSeq
  <2> QED
    BY <2>2, <2>3 DEF Flat
<1> HIDE DEF all
<1>3. A!IsPrefix(delivered, all)
  <2>1. IsPrefix(delivered, Flat(called))
    BY <1>1, AllIsPrefix, UptoIsPrefix DEF AsOrder, PeerHas
  <2>2. \A u, v : A!IsPrefix(u, v) <=> IsPrefix(u, v)
    BY DEF A!IsPrefix, IsPrefix
  <2> QED
    BY <1>2, <2>1, <2>2
<1>4. connected /\ pending = {} => delivered = all
  <2>1. connected /\ pending = {} => delivered = Upto(called, 0)
    BY <1>1 DEF AsOrder, ErrWay, QueueWay
  <2> QED
    BY <1>1, <1>2, <2>1, UptoNone
<1>5. way # "err" => (sending <=> pending # {}) /\ (nodes # <<>> => pending = {A!Current.msg})
  <2>1. CASE way = "err"
    BY <2>1
  <2>2. CASE way # "err" /\ pending = {}
    BY <1>1, <2>2 DEF AsOrder, QueueWay
  <2>3. CASE way # "err" /\ pending # {}
    <3>1. /\ sending /\ A!Current = nodes[1]
          /\ \E n \in Nat : nodes[1].msg = n + 1 /\ pending = {n + 1}
      BY <2>3, AsFront
    <3> QED
      BY <2>3, <3>1
  <2> QED
    BY <2>1, <2>2, <2>3
<1> QED
  BY <1>1, <1>3, <1>4, <1>5 DEF A!SessionKeepsTrack, AsOrder, all

-----------------------------------------------------------------------------
(* The client programs (8 to 17).                                          *)

\* A part of a reply, and a reply: its header and its body.
ReplyPart == Nat \X {1, 2}
ReplyTo(i) == <<<<i, 1>>, <<i, 2>>>>

ClientTypes ==
  /\ asked \in Nat
  /\ kAccepted \in Seq(Nat)
  /\ kWire \in Seq(ReplyPart)
  /\ header \in Seq(ReplyPart)
  /\ received \in Seq(Seq(ReplyPart))

\* What is on the wire: the replies to the first requests, the last one perhaps
\* in part.
WireHolds ==
  /\ Len(kAccepted) <= asked
  /\ \A i \in 1 .. Len(kAccepted) : kAccepted[i] = i
  /\ Len(kWire) <= 2 * Len(kAccepted)
  /\ \A i \in 1 .. Len(kAccepted) :
       /\ 2 * i - 1 <= Len(kWire) => kWire[2 * i - 1] = <<i, 1>>
       /\ 2 * i <= Len(kWire) => kWire[2 * i] = <<i, 2>>

\* What has been read of it.
ReadSoFar ==
  /\ header = <<>> \/ header = <<<<Len(received) + 1, 1>>>>
  /\ program \in {16, 20} => header = <<>>
  /\ 2 * Len(received) + Len(header) <= Len(kWire)
  /\ \A i \in 1 .. Len(received) : received[i] = ReplyTo(i)

\* In 17 the last message is queued, being written or written: of the others
\* nothing is left to do.
Unfinished == {w \in kWriting : w.sent < 2}
WriteOf(m, n) ==
  \E w \in kWriting : w.msg = m /\ w.sent = n /\ Unfinished = {w}
LastAnswer ==
  LET last == Len(kAccepted)
  IN \/ kQueue = <<>> /\ Unfinished = {} /\ (Len(kWire) = 2 * last \/ kClosed)
     \/ kQueue = <<last>> /\ Unfinished = {} /\ Len(kWire) = 2 * last - 2
     \/ kQueue = <<>> /\ \E n \in {0, 1} : WriteOf(last, n) /\ Len(kWire) = 2 * last - 2 + n

Waits17 ==
  /\ asked <= Len(received) + 1
  /\ kDropped = {}
  /\ kSender \subseteq 1 .. Requests /\ kLoops \subseteq 1 .. Requests
  /\ kWriting \subseteq [by : 1 .. Requests, msg : Nat, sent : 0 .. 2, failed : BOOLEAN]
  /\ \A w \in kWriting : w.failed => w.sent < 2
  /\ LastAnswer

ClientInv ==
  /\ ClientTypes
  /\ WireHolds
  /\ ReadSoFar
  /\ program = 20 => Len(kWire) = 2 * Len(kAccepted)
  /\ program = 17 => Waits17

LEMMA ClientInitInv == K!ClInit => ClientInv
<1> SUFFICES ASSUME K!ClInit PROVE ClientInv
  OBVIOUS
<1>1. /\ asked = 0 /\ header = <<>> /\ received = <<>> /\ kAccepted = <<>> /\ kWire = <<>>
      /\ kQueue = <<>> /\ kWriting = {} /\ kDropped = {}
      /\ kSender = {} /\ kLoops = {}
  BY DEF K!ClInit, K!Coroutines!Init
<1>2. Len(kWire) = 0 /\ Len(kAccepted) = 0 /\ Len(received) = 0 /\ Len(header) = 0
  BY <1>1
<1>3. ClientTypes
  BY <1>1 DEF ClientTypes
<1>4. WireHolds /\ ReadSoFar
  BY <1>1, <1>2 DEF WireHolds, ReadSoFar
<1>5. Waits17
  BY <1>1, <1>2 DEF Waits17, LastAnswer, Unfinished
<1> QED
  BY <1>2, <1>3, <1>4, <1>5 DEF ClientInv

LEMMA ClientLengths ==
  ASSUME ClientInv
  PROVE  /\ asked \in Nat /\ Len(kAccepted) \in Nat /\ Len(kWire) \in Nat
         /\ Len(header) \in Nat /\ Len(received) \in Nat
BY LenProperties DEF ClientInv, ClientTypes

\* The part of the stream a client reads next.
LEMMA NextPart ==
  ASSUME ClientInv, NEW n \in {1, 2}, 2 * Len(received) + n <= Len(kWire)
  PROVE  kWire[2 * Len(received) + n] = <<Len(received) + 1, n>>
<1> DEFINE i == Len(received) + 1
<1>1. i \in 1 .. Len(kAccepted)
  <2>1. Len(kWire) <= 2 * Len(kAccepted)
    BY DEF ClientInv, WireHolds
  <2> QED
    BY <2>1, ClientLengths
<1>2. 2 * i - 1 = 2 * Len(received) + 1 /\ 2 * i = 2 * Len(received) + 2
  BY ClientLengths
<1>3. /\ 2 * i - 1 <= Len(kWire) => kWire[2 * i - 1] = <<i, 1>>
      /\ 2 * i <= Len(kWire) => kWire[2 * i] = <<i, 2>>
  BY <1>1 DEF ClientInv, WireHolds
<1> HIDE DEF i
<1>4. CASE n = 1
  BY <1>2, <1>3, <1>4 DEF i
<1>5. CASE n = 2
  BY <1>2, <1>3, <1>5 DEF i
<1> QED
  BY <1>4, <1>5

\* The rest of the stream, as far as a client that has read h parts of a reply
\* looks at it.
LEMMA RestOf ==
  ASSUME ClientInv, NEW h \in {0, 1}, Len(header) = h
  PROVE  /\ K!Unread \in Seq(ReplyPart)
         /\ K!Unread # <<>> => 2 * Len(received) + h + 1 <= Len(kWire)
                               /\ Head(K!Unread) = <<Len(received) + 1, h + 1>>
         /\ h = 0 /\ Len(K!Unread) >= 2 => SubSeq(K!Unread, 1, 2) = ReplyTo(Len(received) + 1)
                                           /\ 2 * Len(received) + 2 <= Len(kWire)
<1> DEFINE m == 2 * Len(received) + h
           u == SubSeq(kWire, m + 1, Len(kWire))
<1>1. K!Unread = u
  BY DEF K!Unread
<1>2. kWire \in Seq(ReplyPart) /\ m \in Nat /\ Len(kWire) \in Nat /\ m <= Len(kWire)
  BY ClientLengths DEF ClientInv, ClientTypes, ReadSoFar
<1>3. /\ u \in Seq(ReplyPart) /\ Len(u) = Len(kWire) - m
      /\ \A i \in 1 .. Len(kWire) - m : u[i] = kWire[m + i]
  <2> HIDE DEF m
  <2> QED
    BY <1>2, SubSeqProperties
<1> HIDE DEF u
<1>4. ASSUME u # <<>> PROVE m + 1 <= Len(kWire) /\ Head(u) = <<Len(received) + 1, h + 1>>
  <2>1. Head(u) = u[1] /\ Len(u) # 0
    BY <1>3, <1>4, EmptySeq, HeadTailProperties
  <2>2. m + 1 <= Len(kWire) /\ u[1] = kWire[m + 1]
    BY <1>2, <1>3, <2>1
  <2>3. m + 1 = 2 * Len(received) + (h + 1) /\ h + 1 \in {1, 2}
    BY ClientLengths
  <2> QED
    BY <2>1, <2>2, <2>3, NextPart
<1>5. ASSUME h = 0, Len(u) >= 2
      PROVE  SubSeq(u, 1, 2) = ReplyTo(Len(received) + 1) /\ 2 * Len(received) + 2 <= Len(kWire)
  <2>1. m = 2 * Len(received) /\ 2 * Len(received) + 2 <= Len(kWire)
           /\ 2 * Len(received) + 1 <= Len(kWire)
    BY <1>2, <1>3, <1>5, ClientLengths
  <2>2. u[1] = <<Len(received) + 1, 1>> /\ u[2] = <<Len(received) + 1, 2>>
    <3>1. 1 \in 1 .. Len(kWire) - m /\ 2 \in 1 .. Len(kWire) - m
      BY <1>2, <1>3, <1>5
    <3>2. u[1] = kWire[2 * Len(received) + 1] /\ u[2] = kWire[2 * Len(received) + 2]
      BY <1>3, <2>1, <3>1
    <3> QED
      BY <2>1, <3>2, NextPart
  <2>3. /\ SubSeq(u, 1, 2) \in Seq(ReplyPart) /\ Len(SubSeq(u, 1, 2)) = 2
        /\ SubSeq(u, 1, 2)[1] = u[1] /\ SubSeq(u, 1, 2)[2] = u[2]
    BY <1>3, <1>5, SubSeqProperties
  <2>4. /\ ReplyTo(Len(received) + 1) \in Seq(ReplyPart)
        /\ Len(ReplyTo(Len(received) + 1)) = 2
        /\ ReplyTo(Len(received) + 1)[1] = <<Len(received) + 1, 1>>
        /\ ReplyTo(Len(received) + 1)[2] = <<Len(received) + 1, 2>>
    BY ClientLengths DEF ReplyTo, ReplyPart
  <2>5. \A i \in 1 .. 2 : SubSeq(u, 1, 2)[i] = ReplyTo(Len(received) + 1)[i]
    BY <2>2, <2>3, <2>4, SMTT(30)
  <2> QED
    BY <2>1, <2>3, <2>4, <2>5, SeqEqual
<1> QED
  BY <1>1, <1>3, <1>4, <1>5

\* A step of a client changes neither what is answered nor what is on the wire.
LEMMA ClientReads ==
  ASSUME ClientInv, UNCHANGED K!serverVars, program' = program,
         ClientTypes', WireHolds', ReadSoFar', program = 17 => asked' <= Len(received') + 1
  PROVE  ClientInv'
<1>1. UNCHANGED <<kQueue, kSender, kLoops, kWriting, kClosed, kAccepted, kDropped, kWire>>
  BY DEF K!serverVars
<1>2. program = 17 => Waits17'
  BY <1>1 DEF ClientInv, Waits17, LastAnswer, WriteOf, Unfinished
<1> QED
  BY <1>1, <1>2 DEF ClientInv

LEMMA WriteKeeps ==
  ASSUME ClientInv, K!Write, program = 17 => asked <= Len(received)
  PROVE  ClientInv'
<1>1. asked' = asked + 1 /\ UNCHANGED <<program, header, received, gone>> /\ UNCHANGED K!serverVars
  BY DEF K!Write, K!serverVars
<1>2. UNCHANGED <<kQueue, kSender, kLoops, kWriting, kClosed, kAccepted, kDropped, kWire>>
  BY <1>1 DEF K!serverVars
<1>3. asked' \in Nat /\ asked <= asked' /\ (program = 17 => asked' <= Len(received) + 1)
  BY <1>1, ClientLengths
<1>4. ClientTypes' /\ ReadSoFar'
  BY <1>1, <1>2, <1>3 DEF ClientInv, ClientTypes, ReadSoFar
<1>5. Len(kAccepted') <= asked'
  BY <1>2, <1>3, ClientLengths DEF ClientInv, WireHolds
<1>6. WireHolds'
  BY <1>2, <1>5 DEF ClientInv, WireHolds
<1> QED
  BY <1>1, <1>3, <1>4, <1>6, ClientReads

LEMMA HeadKeeps ==
  ASSUME ClientInv, K!ReadHead, program \notin {16, 20}
  PROVE  ClientInv'
<1>1. /\ header = <<>> /\ K!Unread # <<>> /\ header' = <<Head(K!Unread)>>
      /\ UNCHANGED <<program, asked, received, gone>> /\ UNCHANGED K!serverVars
  BY DEF K!ReadHead, K!serverVars
<1>2. UNCHANGED <<kQueue, kSender, kLoops, kWriting, kClosed, kAccepted, kDropped, kWire>>
  BY <1>1 DEF K!serverVars
<1>3. Len(header) = 0
  BY <1>1
<1>4. 2 * Len(received) + 0 + 1 <= Len(kWire) /\ Head(K!Unread) = <<Len(received) + 1, 0 + 1>>
  BY <1>1, <1>3, RestOf
<1>5. header' = <<<<Len(received) + 1, 1>>>> /\ Len(header') = 1
  BY <1>1, <1>4
<1>6. header' \in Seq(ReplyPart)
  BY <1>5, ClientLengths DEF ReplyPart
<1>7. 2 * Len(received) + 1 <= Len(kWire)
  BY <1>4, ClientLengths
<1>8. ClientTypes' /\ WireHolds'
  BY <1>1, <1>2, <1>6 DEF ClientInv, ClientTypes, WireHolds
<1>9. ReadSoFar'
  BY <1>1, <1>2, <1>5, <1>7 DEF ClientInv, ReadSoFar
<1>10. program = 17 => asked' <= Len(received') + 1
  BY <1>1 DEF ClientInv, Waits17
<1> QED
  BY <1>1, <1>8, <1>9, <1>10, ClientReads

\* A whole reply more has been read.
LEMMA ReplyKeeps ==
  ASSUME ClientInv, UNCHANGED <<program, asked, gone>>, UNCHANGED K!serverVars,
         received' = Append(received, ReplyTo(Len(received) + 1)), header' = <<>>,
         2 * Len(received) + 2 <= Len(kWire)
  PROVE  ClientInv'
<1>1. UNCHANGED <<kQueue, kSender, kLoops, kWriting, kClosed, kAccepted, kDropped, kWire>>
  BY DEF K!serverVars
<1>2. ReplyTo(Len(received) + 1) \in Seq(ReplyPart)
  BY ClientLengths DEF ReplyTo, ReplyPart
<1>3. /\ received' \in Seq(Seq(ReplyPart)) /\ Len(received') = Len(received) + 1
      /\ \A i \in 1 .. Len(received) : received'[i] = received[i]
      /\ received'[Len(received) + 1] = ReplyTo(Len(received) + 1)
  BY <1>2, AppendProperties DEF ClientInv, ClientTypes
<1>4a. header' \in Seq(ReplyPart)
  BY EmptySeq
<1>4b. ClientTypes'
  BY <1>1, <1>3, <1>4a DEF ClientInv, ClientTypes
<1>4c. WireHolds'
  BY <1>1 DEF ClientInv, WireHolds
<1>5. Len(header') = 0 /\ 2 * Len(received') + 0 <= Len(kWire')
  BY <1>1, <1>3, ClientLengths
<1>6. \A i \in 1 .. Len(received') : received'[i] = ReplyTo(i)
  <2>1. ASSUME NEW i \in 1 .. Len(received'), i # Len(received) + 1
        PROVE  i \in 1 .. Len(received)
    BY <1>3, <2>1, ClientLengths
  <2>2. \A i \in 1 .. Len(received) : received[i] = ReplyTo(i)
    BY DEF ClientInv, ReadSoFar
  <2> QED
    BY <1>3, <2>1, <2>2
<1>7. ReadSoFar'
  BY <1>5, <1>6 DEF ReadSoFar
<1>8. program = 17 => asked' <= Len(received') + 1
  <2>1. program = 17 => asked <= Len(received) + 1
    BY DEF ClientInv, Waits17
  <2> QED
    BY <1>3, <2>1, ClientLengths
<1> QED
  BY <1>4b, <1>4c, <1>7, <1>8, ClientReads

LEMMA TwoParts ==
  \A a, b : Append(<<a>>, b) = <<a, b>>
<1> SUFFICES ASSUME NEW a, NEW b PROVE Append(<<a>>, b) = <<a, b>>
  OBVIOUS
<1> DEFINE S == {a, b}
           s == Append(<<a>>, b)
<1>1. /\ <<a>> \in Seq(S) /\ b \in S /\ <<a, b>> \in Seq(S)
      /\ Len(<<a>>) = 1 /\ Len(<<a, b>>) = 2
  OBVIOUS
<1>2. s \in Seq(S) /\ Len(s) = 2 /\ s[1] = <<a>>[1] /\ s[2] = b
  BY <1>1, AppendProperties
<1>3. \A i \in 1 .. 2 : s[i] = <<a, b>>[i]
  BY <1>2
<1> QED
  BY <1>1, <1>2, <1>3, SeqEqual

LEMMA BodyKeeps ==
  ASSUME ClientInv, K!ReadBody
  PROVE  ClientInv'
<1>1. /\ header # <<>> /\ K!Unread # <<>> /\ header' = <<>>
      /\ received' = Append(received, Append(header, Head(K!Unread)))
      /\ UNCHANGED <<program, asked, gone>> /\ UNCHANGED K!serverVars
  BY DEF K!ReadBody, K!serverVars
<1>2. header = <<<<Len(received) + 1, 1>>>> /\ Len(header) = 1
  BY <1>1 DEF ClientInv, ReadSoFar
<1>3. /\ 2 * Len(received) + 1 + 1 <= Len(kWire)
      /\ Head(K!Unread) = <<Len(received) + 1, 1 + 1>>
  BY <1>1, <1>2, RestOf
<1>4. \A a, b : Append(<<a>>, b) = <<a, b>>
  BY TwoParts
<1>5. Append(header, Head(K!Unread)) = ReplyTo(Len(received) + 1)
  BY <1>2, <1>3, <1>4 DEF ReplyTo
<1>6. 2 * Len(received) + 2 <= Len(kWire)
  BY <1>3, ClientLengths
<1> QED
  BY <1>1, <1>5, <1>6, ReplyKeeps

LEMMA LineKeeps ==
  ASSUME ClientInv, K!ReadLine, program \in {16, 20}
  PROVE  ClientInv'
<1>1. /\ Len(K!Unread) >= 2
      /\ received' = Append(received, SubSeq(K!Unread, 1, 2))
      /\ UNCHANGED <<program, asked, header, gone>> /\ UNCHANGED K!serverVars
  BY DEF K!ReadLine, K!serverVars
<1>2. header = <<>> /\ Len(header) = 0
  BY DEF ClientInv, ReadSoFar
<1>3. /\ SubSeq(K!Unread, 1, 2) = ReplyTo(Len(received) + 1)
      /\ 2 * Len(received) + 2 <= Len(kWire)
  BY <1>1, <1>2, RestOf
<1> QED
  BY <1>1, <1>2, <1>3, ReplyKeeps

LEMMA ThrowsKeeps ==
  ASSUME ClientInv, K!Throws
  PROVE  ClientInv'
<1>1. UNCHANGED <<program, asked, header, received>> /\ UNCHANGED K!serverVars
  BY DEF K!Throws, K!serverVars
<1>2. ClientTypes' /\ WireHolds' /\ ReadSoFar'
  BY <1>1 DEF ClientInv, ClientTypes, WireHolds, ReadSoFar, K!serverVars
<1> QED
  BY <1>1, <1>2, ClientReads DEF ClientInv, Waits17

LEMMA AskKeeps ==
  ASSUME ClientInv, K!AskAndRead, program \notin {16, 20}
  PROVE  ClientInv'
<1>1. asked \in Nat /\ (Len(received) = asked => asked <= Len(received))
  BY ClientLengths
<1> QED
  BY <1>1, WriteKeeps, HeadKeeps, BodyKeeps, ThrowsKeeps DEF K!AskAndRead

LEMMA ClientKeepsAll ==
  ASSUME ClientInv,
         \/ K!Client8 \/ K!Client9 \/ K!Client10 \/ K!Client11 \/ K!Client12 \/ K!Client13
         \/ K!Client14 \/ K!Client15 \/ K!Client16 \/ K!Client17 \/ K!Client20
  PROVE  ClientInv'
<1>1. CASE K!AskAndRead /\ program \notin {16, 20}
  BY <1>1, AskKeeps
<1>2. CASE program = 9 /\ (K!SendThread \/ K!RecvThread \/ K!Throws)
  BY <1>2, WriteKeeps, HeadKeeps, BodyKeeps, ThrowsKeeps DEF K!SendThread, K!RecvThread
<1>3. CASE program \in {16, 20} /\ (K!Write \/ K!ReadLine \/ K!Throws)
  BY <1>3, WriteKeeps, LineKeeps, ThrowsKeeps
<1> QED
  BY <1>1, <1>2, <1>3
  DEF K!Client8, K!Client9, K!Client10, K!Client11, K!Client12, K!Client13, K!Client14,
      K!Client15, K!Client16, K!Client17, K!Client20

-----------------------------------------------------------------------------
\* One more request is answered.
LEMMA AcceptGrows ==
  ASSUME ClientInv, Len(kAccepted) < asked, kAccepted' = Append(kAccepted, Len(kAccepted) + 1),
         UNCHANGED <<asked, kWire>>
  PROVE  /\ WireHolds' /\ kAccepted' \in Seq(Nat) /\ Len(kAccepted') = Len(kAccepted) + 1
<1> DEFINE a == Len(kAccepted)
           w == Len(kWire)
<1>1. a \in Nat /\ w \in Nat /\ asked \in Nat
  BY ClientLengths
<1>2. /\ kAccepted' \in Seq(Nat) /\ Len(kAccepted') = a + 1
      /\ \A i \in 1 .. a : kAccepted'[i] = kAccepted[i]
      /\ kAccepted'[a + 1] = a + 1
  BY <1>1, AppendProperties DEF ClientInv, ClientTypes
<1>3. /\ w <= 2 * a
      /\ \A i \in 1 .. a : kAccepted[i] = i
      /\ \A i \in 1 .. a : /\ 2 * i - 1 <= w => kWire[2 * i - 1] = <<i, 1>>
                           /\ 2 * i <= w => kWire[2 * i] = <<i, 2>>
  BY DEF ClientInv, WireHolds
<1> HIDE DEF a, w
<1>4. ASSUME NEW i \in 1 .. a + 1
      PROVE  /\ kAccepted'[i] = i
             /\ 2 * i - 1 <= w => kWire[2 * i - 1] = <<i, 1>>
             /\ 2 * i <= w => kWire[2 * i] = <<i, 2>>
  <2>1. CASE i = a + 1
    <3>1. ~(2 * i - 1 <= w) /\ ~(2 * i <= w)
      BY <1>1, <1>3, <2>1
    <3> QED
      BY <1>2, <2>1, <3>1
  <2>2. CASE i # a + 1
    <3>1. i \in 1 .. a
      BY <1>1, <2>2
    <3> QED
      BY <1>2, <1>3, <3>1
  <2> QED
    BY <2>1, <2>2
<1>5. a + 1 <= asked /\ w <= 2 * (a + 1)
  BY <1>1, <1>3 DEF a
<1>6. Len(kAccepted') = a + 1 /\ Len(kWire') = w /\ kWire' = kWire /\ asked' = asked
  BY <1>2 DEF w
<1>7. WireHolds'
  BY <1>4, <1>5, <1>6 DEF WireHolds
<1> QED
  BY <1>2, <1>7 DEF a

\* One more part of a reply is written.
LEMMA WireGrows ==
  ASSUME ClientInv, NEW m \in 1 .. Len(kAccepted), NEW n \in {1, 2},
         Len(kWire) + 1 = 2 * (m - 1) + n, kWire' = Append(kWire, <<m, n>>),
         UNCHANGED <<asked, kAccepted>>
  PROVE  WireHolds' /\ kWire' \in Seq(ReplyPart) /\ Len(kWire') = Len(kWire) + 1
<1> DEFINE a == Len(kAccepted)
           w == Len(kWire)
<1>1. a \in Nat /\ w \in Nat /\ asked \in Nat /\ m \in 1 .. a /\ w + 1 = 2 * (m - 1) + n
  BY ClientLengths
<1>2. /\ kWire' \in Seq(ReplyPart) /\ Len(kWire') = w + 1
      /\ \A i \in 1 .. w : kWire'[i] = kWire[i]
      /\ kWire'[w + 1] = <<m, n>>
  <2>1. <<m, n>> \in ReplyPart /\ kWire \in Seq(ReplyPart)
    BY <1>1 DEF ReplyPart, ClientInv, ClientTypes
  <2> QED
    BY <2>1, AppendProperties
<1>3. /\ a <= asked /\ w <= 2 * a
      /\ \A i \in 1 .. a : kAccepted[i] = i
      /\ \A i \in 1 .. a : /\ 2 * i - 1 <= w => kWire[2 * i - 1] = <<i, 1>>
                           /\ 2 * i <= w => kWire[2 * i] = <<i, 2>>
  BY DEF ClientInv, WireHolds
<1> HIDE DEF a, w
<1>4. ASSUME NEW i \in 1 .. a, NEW k \in {1, 2}, 2 * (i - 1) + k <= w + 1
      PROVE  kWire'[2 * (i - 1) + k] = <<i, k>>
  <2>1. CASE 2 * (i - 1) + k = w + 1
    <3>1. i = m /\ k = n
      BY <1>1, <2>1
    <3> QED
      BY <1>2, <2>1, <3>1
  <2>2. CASE 2 * (i - 1) + k # w + 1
    <3>1. 2 * (i - 1) + k \in 1 .. w
      BY <1>1, <1>4, <2>2
    <3>3. kWire[2 * (i - 1) + k] = <<i, k>>
      <4>1. CASE k = 1
        <5>1. 2 * (i - 1) + k = 2 * i - 1 /\ 2 * i - 1 <= w
          BY <1>1, <3>1, <4>1
        <5>2. kWire[2 * i - 1] = <<i, 1>>
          BY <1>3, <5>1
        <5> QED
          BY <4>1, <5>1, <5>2
      <4>2. CASE k = 2
        <5>1. 2 * (i - 1) + k = 2 * i /\ 2 * i <= w
          BY <1>1, <3>1, <4>2
        <5>2. kWire[2 * i] = <<i, 2>>
          BY <1>3, <5>1
        <5> QED
          BY <4>2, <5>1, <5>2
      <4> QED
        BY <4>1, <4>2
    <3> QED
      BY <1>2, <3>1, <3>3
  <2> QED
    BY <2>1, <2>2
<1>5. ASSUME NEW i \in 1 .. a
      PROVE  /\ 2 * i - 1 <= w + 1 => kWire'[2 * i - 1] = <<i, 1>>
             /\ 2 * i <= w + 1 => kWire'[2 * i] = <<i, 2>>
  <2>1. 2 * (i - 1) + 1 = 2 * i - 1 /\ 2 * (i - 1) + 2 = 2 * i
    BY <1>1
  <2> QED
    BY <1>4, <2>1
<1>6. w + 1 <= 2 * a
  BY <1>1
<1>7. Len(kWire') = w + 1 /\ Len(kAccepted') = a /\ kAccepted' = kAccepted /\ asked' = asked
  BY <1>2 DEF a
<1>8. WireHolds'
  BY <1>3, <1>5, <1>6, <1>7 DEF WireHolds
<1> QED
  BY <1>2, <1>8 DEF w

\* What has been read stays so when there is more to read.
LEMMA ReadStays ==
  ASSUME ClientInv, UNCHANGED <<program, asked, header, received, gone>>,
         Len(kWire') \in Nat, Len(kWire) <= Len(kWire'),
         WireHolds', kAccepted' \in Seq(Nat), kWire' \in Seq(ReplyPart),
         program = 20 => Len(kWire') = 2 * Len(kAccepted'),
         program = 17 => Waits17'
  PROVE  ClientInv'
<1>1. ClientTypes'
  BY DEF ClientInv, ClientTypes
<1>2. 2 * Len(received) + Len(header) <= Len(kWire')
  BY ClientLengths DEF ClientInv, ReadSoFar
<1>3. ReadSoFar'
  BY <1>2 DEF ClientInv, ReadSoFar
<1> QED
  BY <1>1, <1>3 DEF ClientInv

LEMMA AnswersKeeps ==
  ASSUME ClientInv, K!Answers
  PROVE  ClientInv'
<1>1. /\ program \notin {17, 20}
      /\ UNCHANGED <<program, asked, header, received, gone>>
  BY DEF K!Answers, K!clientVars
<1>2. kAccepted \in Seq(Nat) /\ kWire \in Seq(ReplyPart)
  BY DEF ClientInv, ClientTypes
<1>3. CASE K!Stream!Accept /\ kAccepted' = Append(kAccepted, Len(kAccepted) + 1)
             /\ Len(kAccepted) < asked
  <2>1. kWire' = kWire
    BY <1>3 DEF K!Stream!Accept
  <2>2. WireHolds' /\ kAccepted' \in Seq(Nat)
    BY <1>1, <1>3, <2>1, AcceptGrows
  <2>3. Len(kWire') \in Nat /\ Len(kWire) <= Len(kWire')
    BY <2>1, ClientLengths
  <2> QED
    BY <1>1, <1>2, <2>1, <2>2, <2>3, ReadStays
<1>4. CASE K!Stream!Transmit
  <2> DEFINE w == Len(kWire)
             m == w \div 2 + 1
             n == (w % 2) + 1
  <2>1. /\ w < 2 * Len(kAccepted) /\ kAccepted' = kAccepted
        /\ kWire' = Append(kWire, <<kAccepted[(w + 1 - 1) \div 2 + 1], ((w + 1 - 1) % 2) + 1>>)
    BY <1>4 DEF K!Stream!Transmit, K!Stream!Piece
  <2>2. w \in Nat /\ Len(kAccepted) \in Nat
    BY ClientLengths
  <2> HIDE DEF w
  <2>3. /\ m \in 1 .. Len(kAccepted) /\ n \in {1, 2} /\ w + 1 = 2 * (m - 1) + n
        /\ w + 1 - 1 = w
    BY <2>1, <2>2
  <2>4. kAccepted[m] = m
    BY <2>3 DEF ClientInv, WireHolds
  <2>5. kWire' = Append(kWire, <<m, n>>)
    BY <2>1, <2>3, <2>4
  <2> HIDE DEF m, n
  <2>6. WireHolds' /\ kWire' \in Seq(ReplyPart) /\ Len(kWire') = Len(kWire) + 1
    BY <1>1, <2>1, <2>3, <2>5, WireGrows DEF w
  <2>7. Len(kWire') \in Nat /\ Len(kWire) <= Len(kWire')
    BY <2>6, ClientLengths
  <2> QED
    BY <1>1, <1>2, <2>1, <2>6, <2>7, ReadStays
<1> QED
  BY <1>3, <1>4 DEF K!Answers

LEMMA SayHelloKeeps ==
  ASSUME ClientInv, K!SayHello
  PROVE  ClientInv'
<1> DEFINE m == Len(kAccepted) + 1
           w == Len(kWire)
           two == <<<<m, 1>>, <<m, 2>>>>
<1>1. /\ program = 20 /\ Len(kAccepted) < asked
      /\ kAccepted' = Append(kAccepted, m) /\ kWire' = kWire \o two
      /\ UNCHANGED <<program, asked, header, received, gone>>
  BY DEF K!SayHello, K!clientVars
<1>2. /\ w \in Nat /\ m \in Nat /\ m \in 1 .. m /\ Len(kAccepted) \in Nat /\ asked \in Nat
      /\ w = 2 * Len(kAccepted)
  BY <1>1, ClientLengths DEF ClientInv
<1>3. kAccepted \in Seq(Nat) /\ kWire \in Seq(ReplyPart)
  BY DEF ClientInv, ClientTypes
<1>4. /\ two \in Seq(ReplyPart) /\ Len(two) = 2 /\ two[1] = <<m, 1>> /\ two[2] = <<m, 2>>
  BY <1>2 DEF ReplyPart
<1>5. /\ kWire' \in Seq(ReplyPart) /\ Len(kWire') = w + 2
      /\ \A i \in 1 .. w + 2 : kWire'[i] = IF i <= w THEN kWire[i] ELSE two[i - w]
  BY <1>1, <1>3, <1>4, ConcatProperties
<1>6. /\ kAccepted' \in Seq(Nat) /\ Len(kAccepted') = m
      /\ \A i \in 1 .. Len(kAccepted) : kAccepted'[i] = kAccepted[i]
      /\ kAccepted'[m] = m
  BY <1>1, <1>2, <1>3, AppendProperties
<1>7. /\ \A i \in 1 .. Len(kAccepted) :
           /\ kAccepted[i] = i
           /\ 2 * i - 1 <= w => kWire[2 * i - 1] = <<i, 1>>
           /\ 2 * i <= w => kWire[2 * i] = <<i, 2>>
  BY DEF ClientInv, WireHolds
<1> HIDE DEF two, w
<1>8. ASSUME NEW i \in 1 .. m
      PROVE  kAccepted'[i] = i /\ kWire'[2 * i - 1] = <<i, 1>> /\ kWire'[2 * i] = <<i, 2>>
  <2>1. CASE i = m
    <3>1. /\ 2 * i - 1 \in 1 .. w + 2 /\ ~(2 * i - 1 <= w) /\ 2 * i - 1 - w = 1
          /\ 2 * i \in 1 .. w + 2 /\ ~(2 * i <= w) /\ 2 * i - w = 2
      BY <1>2, <2>1
    <3> QED
      BY <1>4, <1>5, <1>6, <2>1, <3>1
  <2>2. CASE i # m
    <3>1. /\ i \in 1 .. Len(kAccepted)
          /\ 2 * i - 1 \in 1 .. w + 2 /\ 2 * i - 1 <= w
          /\ 2 * i \in 1 .. w + 2 /\ 2 * i <= w
      BY <1>2, <2>2
    <3> QED
      BY <1>5, <1>6, <1>7, <3>1
  <2> QED
    BY <2>1, <2>2
<1>9. m <= asked /\ w + 2 = 2 * m /\ w + 2 \in Nat /\ w <= w + 2 /\ w + 2 <= 2 * m
  BY <1>1, <1>2
<1>10. WireHolds'
  BY <1>1, <1>5, <1>6, <1>8, <1>9 DEF WireHolds
<1>11. Len(kWire') \in Nat /\ Len(kWire) <= Len(kWire') /\ Len(kWire') = 2 * Len(kAccepted')
  BY <1>5, <1>6, <1>9 DEF w
<1> QED
  BY <1>1, <1>5, <1>6, <1>10, <1>11, ReadStays

-----------------------------------------------------------------------------
(* 17: the client waits for its reply, so that no more than one message is *)
(* on its way.                                                             *)

LEMMA Lengths17 ==
  ASSUME ClientInv, program = 17
  PROVE  /\ asked \in Nat /\ Len(kAccepted) \in Nat /\ Len(kWire) \in Nat
         /\ Len(received) \in Nat /\ Len(header) \in Nat
         /\ 2 * Len(received) + Len(header) <= Len(kWire)
         /\ Len(kWire) <= 2 * Len(kAccepted)
         /\ asked <= Len(received) + 1
         /\ kAccepted \in Seq(Nat) /\ kWire \in Seq(ReplyPart)
BY ClientLengths DEF ClientInv, ClientTypes, WireHolds, ReadSoFar, Waits17

\* A step that writes nothing and accepts nothing.
LEMMA QuietKeeps ==
  ASSUME ClientInv, program = 17, UNCHANGED <<program, asked, header, received, gone>>,
         UNCHANGED <<kAccepted, kDropped, kWire>>,
         kSender' \subseteq 1 .. Requests, kLoops' \subseteq 1 .. Requests,
         kWriting' \subseteq [by : 1 .. Requests, msg : Nat, sent : 0 .. 2, failed : BOOLEAN],
         \A w \in kWriting' : w.failed => w.sent < 2,
         LastAnswer'
  PROVE  ClientInv'
<1>1. WireHolds'
  BY DEF ClientInv, WireHolds
<1>2. Len(kWire') \in Nat /\ Len(kWire) <= Len(kWire')
  BY Lengths17
<1>3. kAccepted' \in Seq(Nat) /\ kWire' \in Seq(ReplyPart)
  BY Lengths17
<1>4. Waits17'
  BY DEF ClientInv, Waits17
<1> QED
  BY <1>1, <1>2, <1>3, <1>4, ReadStays

LEMMA K_PushKeeps ==
  ASSUME ClientInv, program = 17, UNCHANGED <<program, asked, header, received, gone>>,
         NEW m \in 1 .. Requests, K!Coroutines!Push(m),
         Len(kAccepted') + K!Coroutines!Cardinality(kDropped') <= asked
  PROVE  ClientInv'
<1>1. /\ kAccepted' = Append(kAccepted, m) /\ kQueue' = Append(kQueue, m)
      /\ UNCHANGED <<kLoops, kWriting, kClosed, kDropped, kWire>>
      /\ kSender' \subseteq {m}
      /\ m = Len(kAccepted) + K!Coroutines!Cardinality(kDropped) + 1
  BY DEF K!Coroutines!Push, K!Coroutines!New
<1>2. kDropped = {} /\ K!Coroutines!Cardinality({}) = 0
  BY FS_EmptySet DEF ClientInv, Waits17, K!Coroutines!Cardinality, Cardinality
<1>3. /\ m = Len(kAccepted) + 1 /\ Len(kAccepted) + 1 <= asked
      /\ Len(kAccepted') = Len(kAccepted) + 1
  <2>1. m \in Nat /\ Len(kAccepted') = Len(kAccepted) + 1
    BY <1>1, Lengths17, AppendProperties
  <2> QED
    BY <1>1, <1>2, <2>1, Lengths17
<1>4. Len(kWire) = 2 * Len(kAccepted) /\ Len(kAccepted) < asked
  BY <1>3, Lengths17
<1>5. kQueue = <<>> /\ Unfinished = {}
  <2>1. LastAnswer
    BY DEF ClientInv, Waits17
  <2>2. Len(kWire) # 2 * Len(kAccepted) - 2
    BY <1>4, Lengths17
  <2>3. \A n \in {0, 1} : Len(kWire) # 2 * Len(kAccepted) - 2 + n
    BY <1>4, Lengths17
  <2> QED
    BY <2>1, <2>2, <2>3 DEF LastAnswer
<1>6. WireHolds' /\ kAccepted' \in Seq(Nat)
  BY <1>1, <1>3, <1>4, AcceptGrows
<1>7. LastAnswer'
  <2>1. kQueue' = <<Len(kAccepted')>>
    BY <1>1, <1>3, <1>5
  <2>2. Unfinished' = {}
    BY <1>1, <1>5 DEF Unfinished
  <2>3. Len(kWire') = 2 * Len(kAccepted') - 2
    BY <1>1, <1>3, <1>4, Lengths17
  <2> QED
    BY <2>1, <2>2, <2>3 DEF LastAnswer
<1>8. Waits17'
  BY <1>1, <1>7 DEF ClientInv, Waits17
<1>9. Len(kWire') \in Nat /\ Len(kWire) <= Len(kWire') /\ kWire' \in Seq(ReplyPart)
  BY <1>1, Lengths17
<1> QED
  BY <1>6, <1>8, <1>9, ReadStays

\* The queue has a place for the message of a client that waits.
LEMMA K_NeverRefused ==
  ASSUME ClientInv, program = 17, asked' = asked,
         NEW m \in 1 .. Requests, K!Coroutines!Refuse(m),
         Len(kAccepted') + K!Coroutines!Cardinality(kDropped') <= asked
  PROVE  FALSE
<1>1. kAccepted' = kAccepted /\ kDropped' = kDropped \cup {m} /\ Len(kQueue) >= MaxLen
  BY DEF K!Coroutines!Refuse
<1>2. kDropped' = {m} /\ K!Coroutines!Cardinality(kDropped') = 1
  <2>1. kDropped' = {m}
    BY <1>1 DEF ClientInv, Waits17
  <2>2. Cardinality({m}) = 1
    BY FS_Singleton
  <2>3. K!Coroutines!Cardinality({m}) = Cardinality({m})
    BY DEF K!Coroutines!Cardinality, Cardinality
  <2> QED
    BY <2>1, <2>2, <2>3
<1>3. Len(kAccepted) + 1 <= asked
  BY <1>1, <1>2
<1>4. kQueue # <<>>
  <2>1. MaxLen \in Nat \ {0} /\ Len(<<>>) = 0
    BY ServersAssumption
  <2> QED
    BY <1>1, <2>1
<1>5. Len(kWire) = 2 * Len(kAccepted) - 2
  BY <1>4 DEF ClientInv, Waits17, LastAnswer
<1> QED
  BY <1>3, <1>5, Lengths17

LEMMA K_SpawnKeeps ==
  ASSUME ClientInv, program = 17, UNCHANGED <<program, asked, header, received, gone>>,
         \/ K!Coroutines!Spawn \/ K!Coroutines!CloseElsewhere
         \/ \E c \in kLoops : K!Coroutines!Finish(c)
  PROVE  ClientInv'
<1>1. /\ UNCHANGED <<kQueue, kWriting, kAccepted, kDropped, kWire>>
      /\ kClosed => kClosed'
      /\ kSender' \subseteq kSender /\ kLoops' \subseteq kLoops \cup kSender
  BY DEF K!Coroutines!Spawn, K!Coroutines!CloseElsewhere, K!Coroutines!Finish
<1>2. LastAnswer'
  BY <1>1 DEF ClientInv, Waits17, LastAnswer, WriteOf, Unfinished
<1>3. /\ kSender' \subseteq 1 .. Requests /\ kLoops' \subseteq 1 .. Requests
      /\ kWriting' \subseteq [by : 1 .. Requests, msg : Nat, sent : 0 .. 2, failed : BOOLEAN]
      /\ \A w \in kWriting' : w.failed => w.sent < 2
  BY <1>1 DEF ClientInv, Waits17
<1> QED
  BY <1>1, <1>2, <1>3, QuietKeeps

LEMMA K_TakeNextKeeps ==
  ASSUME ClientInv, program = 17, UNCHANGED <<program, asked, header, received, gone>>,
         NEW c \in kLoops, K!Coroutines!TakeNext(c)
  PROVE  ClientInv'
<1> DEFINE new == [by |-> c, msg |-> Head(kQueue), sent |-> 0, failed |-> FALSE]
<1>1. /\ kQueue # <<>> /\ kWriting' = kWriting \cup {new} /\ kQueue' = Tail(kQueue)
      /\ kLoops' \subseteq kLoops
      /\ UNCHANGED <<kSender, kClosed, kAccepted, kDropped, kWire>>
  BY DEF K!Coroutines!TakeNext
<1>2. kQueue = <<Len(kAccepted)>> /\ Unfinished = {} /\ Len(kWire) = 2 * Len(kAccepted) - 2
  BY <1>1 DEF ClientInv, Waits17, LastAnswer
<1>3. Head(kQueue) = Len(kAccepted) /\ kQueue' = <<>>
  BY <1>1, <1>2
<1>4. /\ new \in [by : 1 .. Requests, msg : Nat, sent : 0 .. 2, failed : BOOLEAN]
      /\ new.msg = Len(kAccepted) /\ new.sent = 0 /\ ~new.failed
  BY <1>3, Lengths17 DEF ClientInv, Waits17
<1> HIDE DEF new
<1>5. Unfinished' = {new}
  BY <1>1, <1>2, <1>4 DEF Unfinished
<1>6. LastAnswer'
  <2>1. new \in kWriting' /\ new.msg = Len(kAccepted') /\ new.sent = 0
    BY <1>1, <1>4
  <2>2. WriteOf(Len(kAccepted), 0)'
    BY <1>5, <2>1 DEF WriteOf
  <2>3. Len(kWire') = 2 * Len(kAccepted') - 2 + 0
    BY <1>1, <1>2, Lengths17
  <2> QED
    BY <1>1, <1>3, <2>2, <2>3 DEF LastAnswer
<1>7. /\ kSender' \subseteq 1 .. Requests /\ kLoops' \subseteq 1 .. Requests
      /\ kWriting' \subseteq [by : 1 .. Requests, msg : Nat, sent : 0 .. 2, failed : BOOLEAN]
      /\ \A w \in kWriting' : w.failed => w.sent < 2
  BY <1>1, <1>4 DEF ClientInv, Waits17
<1> QED
  BY <1>1, <1>6, <1>7, QuietKeeps

\* Only one write has something left to write.
LEMMA OnlyWrite ==
  ASSUME ClientInv, program = 17, NEW w \in kWriting, w.sent < 2
  PROVE  /\ kQueue = <<>> /\ Unfinished = {w} /\ w.msg = Len(kAccepted) /\ w.sent \in {0, 1}
         /\ Len(kWire) = 2 * Len(kAccepted) - 2 + w.sent
         /\ w \in [by : 1 .. Requests, msg : Nat, sent : 0 .. 2, failed : BOOLEAN]
<1>1. w \in Unfinished
  BY DEF Unfinished
<1>2. PICK n \in {0, 1} : /\ kQueue = <<>> /\ WriteOf(Len(kAccepted), n)
                          /\ Len(kWire) = 2 * Len(kAccepted) - 2 + n
  BY <1>1 DEF ClientInv, Waits17, LastAnswer
<1>3. w.msg = Len(kAccepted) /\ w.sent = n /\ Unfinished = {w}
  BY <1>1, <1>2 DEF WriteOf
<1> QED
  BY <1>2, <1>3 DEF ClientInv, Waits17

LEMMA K_WriteSomeKeeps ==
  ASSUME ClientInv, program = 17, UNCHANGED <<program, asked, header, received, gone>>,
         NEW w \in kWriting, K!Coroutines!WriteSome(w)
  PROVE  ClientInv'
<1> DEFINE new == [w EXCEPT !.sent = @ + 1]
           a == Len(kAccepted)
           n == w.sent + 1
<1>1. /\ ~kClosed /\ ~w.failed /\ w.sent < 2 /\ kWire' = Append(kWire, <<w.msg, w.sent + 1>>)
      /\ kWriting' = (kWriting \ {w}) \cup {new}
      /\ UNCHANGED <<kQueue, kSender, kLoops, kClosed, kAccepted, kDropped>>
  BY DEF K!Coroutines!WriteSome
<1>2. /\ kQueue = <<>> /\ Unfinished = {w} /\ w.msg = a /\ w.sent \in {0, 1}
      /\ Len(kWire) = 2 * a - 2 + w.sent
      /\ w \in [by : 1 .. Requests, msg : Nat, sent : 0 .. 2, failed : BOOLEAN]
  BY <1>1, OnlyWrite
<1>3. /\ new \in [by : 1 .. Requests, msg : Nat, sent : 0 .. 2, failed : BOOLEAN]
      /\ new.msg = w.msg /\ new.sent = n /\ ~new.failed
  BY <1>1, <1>2, SMTT(30)
<1>4. n \in {1, 2} /\ a \in 1 .. a /\ Len(kWire) + 1 = 2 * (a - 1) + n
  BY <1>2, Lengths17, SMTT(30)
<1>5. kWire' = Append(kWire, <<a, n>>)
  BY <1>1, <1>2
<1> HIDE DEF new, a, n
<1>6. WireHolds' /\ kWire' \in Seq(ReplyPart) /\ Len(kWire') = Len(kWire) + 1
  BY <1>1, <1>4, <1>5, WireGrows DEF a
<1>7. Unfinished' = IF n < 2 THEN {new} ELSE {}
  <2>1. Unfinished' = {u \in kWriting' : u.sent < 2}
    BY DEF Unfinished
  <2>2. \A u \in kWriting : u.sent < 2 => u = w
    BY <1>2 DEF Unfinished
  <2> QED
    BY <1>1, <1>3, <2>1, <2>2
<1>8. LastAnswer'
  <2>1. CASE n = 1
    <3>1. new \in kWriting' /\ new.msg = Len(kAccepted') /\ new.sent = 1
      BY <1>1, <1>2, <1>3, <2>1 DEF a
    <3>2. WriteOf(Len(kAccepted), 1)'
      BY <1>7, <2>1, <3>1 DEF WriteOf
    <3>3. Len(kWire') = 2 * Len(kAccepted') - 2 + 1
      <4>1. kAccepted' = kAccepted /\ Len(kAccepted) \in Nat /\ Len(kWire) \in Nat
        BY <1>1, Lengths17
      <4>2. Len(kWire) + 1 = 2 * (Len(kAccepted) - 1) + 1
        BY <1>4, <2>1 DEF a
      <4>3. Len(kWire') = 2 * (Len(kAccepted) - 1) + 1
        BY <1>6, <4>2
      <4>4. 2 * (Len(kAccepted) - 1) + 1 = 2 * Len(kAccepted) - 2 + 1
        BY <4>1
      <4> QED
        BY <4>1, <4>3, <4>4
    <3> QED
      BY <1>1, <1>2, <3>2, <3>3 DEF LastAnswer
  <2>2. CASE n = 2
    <3>1. Len(kWire') = 2 * Len(kAccepted')
      BY <1>1, <1>4, <1>6, <2>2, Lengths17 DEF a
    <3> QED
      BY <1>1, <1>2, <1>7, <2>2, <3>1 DEF LastAnswer
  <2> QED
    BY <1>4, <2>1, <2>2
<1>9. Waits17'
  BY <1>1, <1>3, <1>8 DEF ClientInv, Waits17
<1>10. /\ Len(kWire') \in Nat /\ Len(kWire) <= Len(kWire')
  BY <1>6, Lengths17
<1>11. kAccepted' \in Seq(Nat)
  BY <1>1, Lengths17
<1> QED
  BY <1>6, <1>9, <1>10, <1>11, ReadStays

LEMMA K_WriteEndsKeeps ==
  ASSUME ClientInv, program = 17, UNCHANGED <<program, asked, header, received, gone>>,
         NEW w \in kWriting,
         K!Coroutines!WriteFails(w) \/ K!Coroutines!Resume(w) \/ K!Coroutines!Throw(w)
  PROVE  ClientInv'
<1> DEFINE Kind == [by : 1 .. Requests, msg : Nat, sent : 0 .. 2, failed : BOOLEAN]
<1>0. /\ kSender \subseteq 1 .. Requests /\ kLoops \subseteq 1 .. Requests
      /\ kWriting \subseteq Kind /\ \A u \in kWriting : u.failed => u.sent < 2
      /\ LastAnswer
  BY DEF ClientInv, Waits17
<1>1. CASE K!Coroutines!WriteFails(w)
  <2> DEFINE new == [w EXCEPT !.failed = TRUE]
  <2>1. /\ w.sent < 2 /\ kWriting' = (kWriting \ {w}) \cup {new}
        /\ UNCHANGED <<kQueue, kSender, kLoops, kClosed, kAccepted, kDropped, kWire>>
    BY <1>1 DEF K!Coroutines!WriteFails
  <2>2. /\ kQueue = <<>> /\ Unfinished = {w} /\ w.msg = Len(kAccepted) /\ w.sent \in {0, 1}
        /\ Len(kWire) = 2 * Len(kAccepted) - 2 + w.sent
    BY <2>1, OnlyWrite
  <2>3. new \in Kind /\ new.msg = w.msg /\ new.sent = w.sent
    BY <1>0
  <2> HIDE DEF new
  <2>4. Unfinished' = {new}
    <3>1. \A u \in kWriting : u.sent < 2 => u = w
      BY <2>2 DEF Unfinished
    <3> QED
      BY <2>1, <2>3, <3>1 DEF Unfinished
  <2>5. LastAnswer'
    <3>1. new \in kWriting' /\ new.msg = Len(kAccepted') /\ new.sent = w.sent
      BY <2>1, <2>2, <2>3
    <3>2. WriteOf(Len(kAccepted), w.sent)'
      BY <2>4, <3>1 DEF WriteOf
    <3> QED
      BY <2>1, <2>2, <3>2 DEF LastAnswer
  <2> QED
    BY <1>0, <2>1, <2>3, <2>5, QuietKeeps
<1>2. CASE K!Coroutines!Resume(w)
  <2>1. /\ ~w.failed /\ w.sent = 2 /\ kWriting' = kWriting \ {w}
        /\ kLoops' = kLoops \cup {w.by}
        /\ UNCHANGED <<kQueue, kSender, kClosed, kAccepted, kDropped, kWire>>
    BY <1>2 DEF K!Coroutines!Resume
  <2>2. Unfinished' = Unfinished /\ \A u \in Unfinished : u \in kWriting'
    BY <2>1 DEF Unfinished
  <2>3. LastAnswer'
    BY <1>0, <2>1, <2>2 DEF LastAnswer, WriteOf
  <2> QED
    BY <1>0, <2>1, <2>3, QuietKeeps
<1>3. CASE K!Coroutines!Throw(w)
  <2>1. /\ w.failed /\ kClosed' /\ kWriting' = kWriting \ {w}
        /\ UNCHANGED <<kQueue, kSender, kLoops, kAccepted, kDropped, kWire>>
    BY <1>3 DEF K!Coroutines!Throw
  <2>2. kQueue = <<>> /\ Unfinished = {w}
    BY <1>0, <2>1, OnlyWrite
  <2>3. Unfinished' = {}
    BY <2>1, <2>2 DEF Unfinished
  <2>4. LastAnswer'
    BY <2>1, <2>2, <2>3 DEF LastAnswer
  <2> QED
    BY <1>0, <2>1, <2>4, QuietKeeps
<1> QED
  BY <1>1, <1>2, <1>3

LEMMA Answers17Keeps ==
  ASSUME ClientInv, K!Answers17
  PROVE  ClientInv'
<1>1. /\ program = 17 /\ K!Coroutines!Next
      /\ Len(kAccepted') + K!Coroutines!Cardinality(kDropped') <= asked
      /\ UNCHANGED <<program, asked, header, received, gone>>
  BY DEF K!Answers17, K!clientVars, K!Cardinality, K!Coroutines!Cardinality
<1>2. CASE \E m \in 1 .. Requests : K!Coroutines!Push(m) \/ K!Coroutines!Refuse(m)
  BY <1>1, <1>2, K_PushKeeps, K_NeverRefused
<1>3. CASE \/ K!Coroutines!Spawn \/ K!Coroutines!CloseElsewhere
           \/ \E c \in kLoops : K!Coroutines!Finish(c)
  BY <1>1, <1>3, K_SpawnKeeps
<1>4. CASE \E c \in kLoops : K!Coroutines!TakeNext(c)
  BY <1>1, <1>4, K_TakeNextKeeps
<1>5. CASE \E w \in kWriting : K!Coroutines!Io(w)
  BY <1>1, <1>5, K_WriteSomeKeeps, K_WriteEndsKeeps DEF K!Coroutines!Io
<1> QED
  BY <1>1, <1>2, <1>3, <1>4, <1>5 DEF K!Coroutines!Next, K!Coroutines!Coroutine

LEMMA ClientStepInv == ClientInv /\ [K!ClNext]_kVars => ClientInv'
<1> SUFFICES ASSUME ClientInv, [K!ClNext]_kVars PROVE ClientInv'
  OBVIOUS
<1>1. CASE UNCHANGED kVars
  <2>1. UNCHANGED <<program, asked, header, received>> /\ UNCHANGED K!serverVars
    BY <1>1 DEF kVars, K!serverVars
  <2>2. ClientTypes' /\ WireHolds' /\ ReadSoFar'
    BY <2>1 DEF ClientInv, ClientTypes, WireHolds, ReadSoFar, K!serverVars
  <2> QED
    BY <2>1, <2>2, ClientReads DEF ClientInv, Waits17
<1>2. CASE K!ClNext
  BY <1>2, ClientKeepsAll, AnswersKeeps, Answers17Keeps, SayHelloKeeps DEF K!ClNext
<1> QED
  BY <1>1, <1>2

LEMMA ClientShows == ClientInv => K!RepliesMatch
BY DEF ClientInv, ReadSoFar, ReplyTo, K!RepliesMatch

-----------------------------------------------------------------------------
(* All of them.                                                            *)

\* A step of all the parts is one of each part that a peer reads from, or leaves
\* it be.
LEMMA PeersStep ==
  [MCNext]_allVars =>
    /\ [E!EchoNext]_eVars /\ [A!AsNext]_aVars /\ [K!ClNext]_kVars
    /\ [E!SyncNext]_yVars /\ [B!WsNext]_wVars /\ [L!LgNext]_lVars
BY DEF MCNext, allVars, OfServer, OfSend, OfLogic, OfRegistry, OfEcho, OfHttp, OfWebSocket,
       OfAsync, OfClient, OfGin, OfSse, OfSync, OfEndpoints, OfLogger

\* Who reads from these programs gets what it should, whole and in order, however
\* the operations split the bytes and in whichever order their handlers, the
\* coroutines and the threads run: an echo is a prefix of what came (5, 6, 7 and 16
\* Session.cc, 19 server.cc), a message leaves the node that holds it (4 Session.cc),
\* a client reads the replies to its requests (8 to 17 client), the synchronous echo
\* is the line or has zeros for its late part (3), and a line of the log is one
\* entry while no two threads log at once (Logger.cc).
THEOREM EveryPeerGetsItsBytes == MCSpec => []BytesInOrder
<1> DEFINE I == EchoInv /\ AsInv /\ ClientInv /\ SyncInv /\ WsOrder /\ LineInv
<1>1. MCInit => I
  BY EchoInitInv, AsInitInv, ClientInitInv, SyncInitInv, WsOrderInit, LineInitInv DEF MCInit
<1>2. I /\ [MCNext]_allVars => I'
  BY PeersStep, EchoStepInv, AsStepInv, ClientStepInv, SyncStepInv, WsOrderStep, LineStepInv
<1>3. I => BytesInOrder
  BY EchoShows, AsShows, ClientShows, SyncShows, WsOrderShows, LineShows DEF BytesInOrder
<1> QED
  BY <1>1, <1>2, <1>3, PTL DEF MCSpec

-----------------------------------------------------------------------------
(* What is answered.  SendingProofs has it for the web server, the page of *)
(* events and the nodes by themselves; its instance W is about the same    *)
(* variables as G, and its sending half is not used here.                  *)

W == INSTANCE SendingProofs WITH
       Visitors <- Sessions, asked <- request, Pieces <- 1, MaxLen <- 1

\* The forms of the run are forms.
LEMMA SameForms == W!Forms
BY ServersAssumption DEF W!Forms, W!Nobody, W!IsFiniteSet, IsFiniteSet

\* Both instances have the same web servers.
LEMMA SameGinInit == G!GinInit = W!GinInit
BY DEF G!GinInit, W!GinInit, G!Fresh, W!Fresh, G!Nobody, W!Nobody

\* Every handler of the one is the same handler of the other.
LEMMA SameHandlers ==
  \A v \in Sessions :
    /\ G!Visit(v) => W!Visit(v)
    /\ G!Cookies(v) => W!Cookies(v)
    /\ G!BadUpload(v) => W!BadUpload(v)
    /\ G!UploadFile(v) => W!UploadFile(v)
    /\ G!UploadManyFile(v) => W!UploadManyFile(v)
<1> TAKE v \in Sessions
<1>1. G!Visit(v) => W!Visit(v)
  BY DEF G!Visit, W!Visit, G!Answers, W!Answers, G!Asks, W!Asks, G!SavesNothing, W!SavesNothing,
         G!Fresh, W!Fresh, G!Reply, W!Reply, G!Plain, W!Plain, G!PostShould, W!PostShould,
         G!GetUserByName, W!GetUserByName, G!InitMiddleware, W!InitMiddleware,
         G!NextUse, W!NextUse
<1>2. G!Cookies(v) => W!Cookies(v)
  BY DEF G!Cookies, W!Cookies, G!Answers, W!Answers, G!Asks, W!Asks, G!SavesNothing,
         W!SavesNothing, G!Fresh, W!Fresh, G!Reply, W!Reply, G!Plain, W!Plain,
         G!GetCookie, W!GetCookie
<1>3. G!BadUpload(v) => W!BadUpload(v)
  BY DEF G!BadUpload, W!BadUpload, G!Answers, W!Answers, G!Asks, W!Asks, G!SavesNothing,
         W!SavesNothing, G!Fresh, W!Fresh, G!Reply, W!Reply
<1>4. \A what, files : G!Starts(v, what, files) = W!Starts(v, what, files)
  BY DEF G!Starts, W!Starts, G!Asks, W!Asks, G!Fresh, W!Fresh
<1>5. G!SetToSeqs(Names) = W!SetToSeqs(Names)
  BY DEF G!SetToSeqs, W!SetToSeqs, G!Cardinality, W!Cardinality, G!IsFiniteSet, W!IsFiniteSet
<1> QED
  BY <1>1, <1>2, <1>3, <1>4, <1>5
  DEF G!UploadFile, W!UploadFile, G!UploadManyFile, W!UploadManyFile

\* And so is every step of saving.
LEMMA SameSaving ==
  \A v \in Sessions :
    /\ G!CreateFile(v) => W!CreateFile(v)
    /\ G!CopyBlock(v) => W!CopyBlock(v)
    /\ G!FileSaved(v) => W!FileSaved(v)
    /\ G!SaveFails(v) => W!SaveFails(v)
BY DEF G!CreateFile, W!CreateFile, G!CopyBlock, W!CopyBlock, G!FileSaved, W!FileSaved,
       G!SaveFails, W!SaveFails, G!File, W!File, G!Open, W!Open, G!Padded, W!Padded,
       G!Hole, W!Hole, G!LastReply, W!LastReply, G!Fresh, W!Fresh, G!Reply, W!Reply

\* A step of the web server is a step of it in the other instance.
LEMMA SameGin == [G!GinNext]_gVars => [W!GinNext]_W!ginVars
BY SameHandlers, SameSaving DEF G!GinNext, W!GinNext, gVars, W!ginVars

\* The replies of both are true together.
LEMMA SameTruth == W!RepliesAreTrue => G!RepliesAreTrue
BY DEF G!RepliesAreTrue, W!RepliesAreTrue, G!Open, W!Open, G!File, W!File, G!Nobody, W!Nobody,
       G!Whole, W!Whole, G!Uploaded, W!Uploaded

\* The page of events is the same in both.
LEMMA SameSse ==
  /\ G!SseInit = W!SseInit
  /\ [G!SseNext]_sVars => [W!SseNext]_W!sseVars
  /\ W!ShowsWholeValues => G!ShowsWholeValues
<1>1. G!SseInit = W!SseInit
  BY DEF G!SseInit, W!SseInit
<1>2. G!Tick = W!Tick
  BY DEF G!Tick, W!Tick, G!Line, W!Line, G!Newline, W!Newline
<1>3. G!ReadChunk = W!ReadChunk
  <2>1. \A chunk : G!Shown(chunk) = W!Shown(chunk)
    BY DEF G!Shown, W!Shown, G!FlattenSeq, W!FlattenSeq, G!Begins, W!Begins, G!Stays, W!Stays,
           G!IsData, W!IsData, G!Fragment, W!Fragment, G!Newlines, W!Newlines,
           G!Min, W!Min, G!Newline, W!Newline
  <2> QED
    BY <2>1 DEF G!ReadChunk, W!ReadChunk
<1>4. W!ShowsWholeValues => G!ShowsWholeValues
  BY DEF W!ShowsWholeValues, G!ShowsWholeValues, G!Value, W!Value
<1> QED
  BY <1>1, <1>2, <1>3, <1>4 DEF G!SseNext, W!SseNext, sVars, W!sseVars

\* Both instances have the same nodes.
LEMMA SameNodes ==
  ASSUME NEW ident, NEW bytes
  PROVE  /\ N!Sent(N!Node(4, ident, bytes)) = W!Sent(W!Node(4, ident, bytes))
         /\ N!Sent(N!Node(7, ident, bytes)) = W!Sent(W!Node(7, ident, bytes))
         /\ N!Sent(N!Node(17, ident, bytes)) = W!Sent(W!SendNode(ident, bytes))
<1>1. \A node : N!Sent(node) = W!Sent(node)
  BY DEF N!Sent, W!Sent
<1>2. N!Node(4, ident, bytes) = W!Node(4, ident, bytes)
  <2>1. N!Node(4, ident, bytes) = N!MsgNode4(bytes)
    BY DEF N!Node
  <2>2. W!Node(4, ident, bytes) = W!MsgNode4(bytes)
    BY DEF W!Node
  <2> QED
    BY <2>1, <2>2 DEF N!MsgNode4, W!MsgNode4, N!Copied, W!Copied, N!Zeroed, W!Zeroed
<1>3. N!Node(7, ident, bytes) = W!Node(7, ident, bytes)
  <2>1. N!Node(7, ident, bytes) = N!MsgNode7(bytes)
    BY DEF N!Node
  <2>2. W!Node(7, ident, bytes) = W!MsgNode7(bytes)
    BY DEF W!Node
  <2> QED
    BY <2>1, <2>2 DEF N!MsgNode7, W!MsgNode7, N!Copied, W!Copied, N!Zeroed, W!Zeroed
<1>4. N!Node(17, ident, bytes) = W!SendNode(ident, bytes)
  <2>1. N!Node(17, ident, bytes) = N!SendNode(ident, bytes)
    BY DEF N!Node, N!MsgNode17
  <2> QED
    BY <2>1
    DEF N!SendNode, W!SendNode, N!RecvNode, W!RecvNode, N!Empty, W!Empty,
        N!Holding, W!Holding, N!Copied, W!Copied, N!Zeroed, W!Zeroed,
        N!NetShort, W!NetShort, N!MSG_TYPE_LENGTH, W!MSG_TYPE_LENGTH,
        N!MSG_HEAD_TOTAL_LEN, W!MSG_HEAD_TOTAL_LEN
<1> QED
  BY <1>1, <1>2, <1>3, <1>4

\* The header of a short message whose id is 1001.
LEMMA SmallHeads ==
  \A k \in 0 .. 2 : W!HeadOf(1001, k) = <<3, 233, 0, k>>
<1> SUFFICES ASSUME NEW k \in 0 .. 2
             PROVE  W!HeadOf(1001, k) = <<3, 233, 0, k>>
  OBVIOUS
<1>1. k \div 256 = 0 /\ k % 256 = k
  BY SMT
<1>2. 1001 \div 256 = 3 /\ 1001 % 256 = 233
  BY SMT
<1> QED
  BY <1>1, <1>2, SMT DEF W!HeadOf

\* The messages of the run.
NoByte == <<>>
OneByte == <<7>>
TwoBytes == <<8, 9>>
Bodies == {NoByte, OneByte, TwoBytes}

\* The nodes of the run hold their messages.
LEMMA NodesShow == NodesHold
<1> SUFFICES ASSUME NEW bytes \in Bodies
             PROVE  /\ N!Sent(N!Node(4, 0, bytes)) = bytes
                    /\ N!Sent(N!Node(7, 0, bytes)) = bytes
                    /\ N!Sent(N!Node(17, 1001, bytes)) = <<3, 233, 0, Len(bytes)>> \o bytes
  BY DEF NodesHold, Bodies, NoByte, OneByte, TwoBytes
<1>1. bytes \in Seq(Int) /\ Len(bytes) \in 0 .. 2
  <2>1. CASE bytes = NoByte
    BY <2>1 DEF NoByte
  <2>2. CASE bytes = OneByte
    BY <2>2 DEF OneByte
  <2>3. CASE bytes = TwoBytes
    BY <2>3 DEF TwoBytes
  <2> QED
    BY <2>1, <2>2, <2>3 DEF Bodies
<1>2. /\ W!Sent(W!Node(4, 0, bytes)) = bytes
      /\ W!Sent(W!Node(7, 0, bytes)) = bytes
  BY <1>1, W!PlainNodeHolds
<1>3. \A ident \in Nat :
        W!Sent(W!SendNode(ident, bytes)) = W!HeadOf(ident, Len(bytes)) \o bytes
  BY <1>1, W!HeadedNodeHolds
<1>4. W!HeadOf(1001, Len(bytes)) = <<3, 233, 0, Len(bytes)>>
  <2> DEFINE size == Len(bytes)
  <2>1. size \in 0 .. 2
    BY <1>1
  <2> HIDE DEF size
  <2>2. W!HeadOf(1001, size) = <<3, 233, 0, size>>
    BY <2>1, SmallHeads, SMTT(30)
  <2> QED
    BY <2>2 DEF size
<1>5. PICK ident \in Nat : ident = 1001
  BY SMT
<1>6. N!Sent(N!Node(17, ident, bytes)) = W!HeadOf(ident, Len(bytes)) \o bytes
  <2>1. N!Sent(N!Node(17, ident, bytes)) = W!Sent(W!SendNode(ident, bytes))
    BY SameNodes
  <2> QED
    BY <2>1, <1>3
<1>7. N!Sent(N!Node(17, 1001, bytes)) = <<3, 233, 0, Len(bytes)>> \o bytes
  <2> DEFINE sent == N!Sent(N!Node(17, 1001, bytes))
             made == W!HeadOf(1001, Len(bytes))
             head == <<3, 233, 0, Len(bytes)>>
  <2>1. sent = made \o bytes
    BY <1>5, <1>6, SMT
  <2>2. made = head
    BY <1>4
  <2> HIDE DEF sent, made, head
  <2>3. sent = head \o bytes
    BY <2>1, <2>2, Zenon
  <2> QED
    BY <2>3, Zenon DEF sent, head
<1>8. /\ N!Sent(N!Node(4, 0, bytes)) = bytes
      /\ N!Sent(N!Node(7, 0, bytes)) = bytes
  BY <1>2, SameNodes
<1> QED
  BY <1>7, <1>8

\* What a step of the parts together is for those that answer.
LEMMA AnswerParts ==
  [MCNext]_allVars => [K!EpNext]_pVars /\ [G!GinNext]_gVars /\ [G!SseNext]_sVars
BY DEF MCNext, allVars, OfServer, OfSend, OfLogic, OfRegistry, OfEcho, OfHttp, OfWebSocket,
       OfAsync, OfClient, OfGin, OfSse, OfSync, OfEndpoints, OfLogger

\* What is answered is so: a function of the first socket program that returns has
\* made what it is to make (1 endpoint.cc); the replies of the web server and the
\* values on the page of events are true (03-gin main.go, 01-sse index.ts); and what
\* is written of a node is its message (4, 7 and 17 msg-node).
THEOREM AnswersHold == MCSpec => []AnswersAreTrue
<1> DEFINE I == EpInv /\ W!GinInv /\ W!SseInv
<1>1. MCInit => I
  BY EpInitInv, SameForms, SameGinInit, SameSse, W!GinInitInv, W!SseInitInv DEF MCInit
<1>2. I /\ [MCNext]_allVars => I'
  BY AnswerParts, SameForms, SameGin, SameSse, EpStepInv, W!GinStepInv, W!SseStepInv
<1>3. I => AnswersAreTrue
  BY NodesShow, SameTruth, SameSse, W!GinShows, W!SseShows DEF EpInv, AnswersAreTrue
<1> QED
  BY <1>1, <1>2, <1>3, PTL DEF MCSpec
=============================================================================
