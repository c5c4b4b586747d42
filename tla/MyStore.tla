------------------------------- MODULE MyStore --------------------------------
(***************************************************************************)
(* The two web servers of pages-other/mystore: 03-gin, and below it 01-sse. *)
(*                                                                         *)
(* 03-gin has the handlers of main.go and of its user controller.  Requests *)
(* of several visitors are handled at the same time; what they share is the *)
(* upload directory.  A handler that saves nothing is one step.  Saving a  *)
(* file is one step that creates or truncates it, then one for each block, *)
(* which goes to the offset of its own copy whatever else is written there. *)
(***************************************************************************)
EXTENDS Integers, SequencesExt

CONSTANTS
  Visitors,    \* the peers, with one request at a time each
  Names,       \* names of uploaded files
  Blocks,      \* how many blocks a file has: a bound
  Visits       \* how many requests are made: a bound

VARIABLES
  visits,      \* how many requests there have been
  asked,       \* the request of each visitor, or its last one
  saving,      \* the files of its upload that are not saved yet
  copied,      \* the blocks copied of the first of them; -1 before it is open
  answer,      \* the reply to it
  ended,       \* whether that is complete
  jar,         \* the visitors that hold the cookie
  disk,        \* the upload directory: the blocks of each file, by visitor
  latest,      \* history: who has completed a copy of a file last
  spoiled      \* history: files written by two at once, or by a copy that failed

ginVars == <<visits, asked, saving, copied, answer, ended, jar, disk, latest, spoiled>>

Fresh == [status |-> 200, body |-> <<>>]
Hole == "hole"          \* a block nobody has written
Nobody == "nobody"

GinInit ==
  /\ visits = 0
  /\ asked = [v \in Visitors |-> "nothing"]
  /\ saving = [v \in Visitors |-> <<>>]
  /\ copied = [v \in Visitors |-> -1]
  /\ answer = [v \in Visitors |-> Fresh]
  /\ ended = [v \in Visitors |-> TRUE]
  /\ jar = {}
  /\ disk = [f \in Names |-> <<>>]
  /\ latest = [f \in Names |-> Nobody]
  /\ spoiled = {}

-----------------------------------------------------------------------------
(* Replies.                                                                *)

\* gin sends the status with the first piece of the body; a later one is not
\* taken any more.
Reply(reply, code, text) ==
  [status |-> IF reply.body = <<>> THEN code ELSE reply.status,
   body |-> Append(reply.body, text)]

\* The handlers that reply once, with what they were asked or a page.
Plain(reply) == Reply(reply, 200, "page")

\* PostShould, for a body that can be bound and one that cannot.
PostShould(bound) ==
  IF bound THEN Reply(Fresh, 200, "user") ELSE Reply(Fresh, 400, "error")

\* UserController.GetUserByName; the service knows one user.
GetUserByName(name) ==
  CASE name = "" -> Reply(Fresh, 400, "error")
    [] name = "unknown" -> Reply(Fresh, 400, "error")
    [] OTHER -> Reply(Fresh, 200, "user")

\* A middleware without c.Next() is followed by the rest of its chain, here the
\* handler that replies page; NextUse runs the rest and goes on.
InitMiddleware(page) == Reply(Reply(Fresh, 200, "middleware"), 200, page)
NextUse(page) == Reply(Reply(Reply(Fresh, 200, "before"), 200, page), 200, "after")

\* GetCookie does not return after its error: it writes two pieces.  Mutant: the
\* value first.
GetCookie_ValueFirst(v) ==
  LET value == Reply(Fresh, 200, IF v \in jar THEN "cookie" ELSE "")
  IN IF v \in jar THEN value ELSE Reply(value, 400, "error")
GetCookie(v) ==
  Reply(IF v \in jar THEN Fresh ELSE Reply(Fresh, 400, "error"), 200,
        IF v \in jar THEN "cookie" ELSE "")

-----------------------------------------------------------------------------
(* Requests.                                                               *)

Asks(v, what) ==
  /\ ended[v]
  /\ visits < Visits
  /\ visits' = visits + 1
  /\ asked' = [asked EXCEPT ![v] = what]

Answers(v, reply) == answer' = [answer EXCEPT ![v] = reply] /\ UNCHANGED ended
SavesNothing == UNCHANGED <<saving, copied, disk, latest, spoiled>>

Visit(v) ==
  /\ Asks(v, "page")
  /\ \/ Answers(v, Plain(Fresh))
     \/ \E bound \in BOOLEAN : Answers(v, PostShould(bound))
     \/ \E name \in {"", "unknown", "chulan"} : Answers(v, GetUserByName(name))
     \/ Answers(v, InitMiddleware("page"))
     \/ Answers(v, NextUse("page"))
  /\ SavesNothing /\ UNCHANGED jar

Cookies(v) ==
  /\ \/ Asks(v, "set-cookie") /\ Answers(v, Plain(Fresh)) /\ jar' = jar \cup {v}
     \/ Asks(v, "get-cookie") /\ Answers(v, GetCookie(v)) /\ UNCHANGED jar
     \/ Asks(v, "delete-cookie") /\ Answers(v, Plain(Fresh)) /\ jar' = jar \ {v}
  /\ SavesNothing

\* UploadFile and UploadManyFile until they save: no file, or no form; or the
\* files in the order of the form, with or without the field username.
BadUpload(v) ==
  /\ Asks(v, "upload")
  /\ Answers(v, Reply(Fresh, 400, "error"))
  /\ SavesNothing /\ UNCHANGED jar

Starts(v, what, files) ==
  /\ Asks(v, what)
  /\ saving' = [saving EXCEPT ![v] = files]
  /\ answer' = [answer EXCEPT ![v] = Fresh]
  /\ ended' = [ended EXCEPT ![v] = FALSE]
  /\ UNCHANGED <<copied, jar, disk, latest, spoiled>>

UploadFile(v) == \E f \in Names : Starts(v, "upload", <<f>>)
UploadManyFile(v) ==
  \E files \in SetToSeqs(Names), what \in {"upload-more", "upload-nameless"} :
    Starts(v, what, files)

-----------------------------------------------------------------------------
(* SaveUploadedFile, and what the handler does when it returns.            *)

File(v) == Head(saving[v])
Open(v) == copied[v] >= 0
Padded(blocks, n) == [i \in 1 .. n |-> IF i <= Len(blocks) THEN blocks[i] ELSE Hole]

\* os.Create truncates the file, also one that is being copied to; when nobody
\* does, it is as good as new.
CreateFile(v) ==
  /\ saving[v] # <<>> /\ ~Open(v)
  /\ copied' = [copied EXCEPT ![v] = 0]
  /\ disk' = [disk EXCEPT ![File(v)] = <<>>]
  /\ spoiled' =
       IF \E w \in Visitors \ {v} : Open(w) /\ File(w) = File(v)
         THEN spoiled \cup {File(v)} ELSE spoiled \ {File(v)}
  /\ UNCHANGED <<visits, asked, saving, answer, ended, jar, latest>>

CopyBlock(v) ==
  /\ Open(v) /\ copied[v] < Blocks
  /\ LET at == copied[v] + 1
         blocks == disk[File(v)]
     IN disk' = [disk EXCEPT ![File(v)] =
          [Padded(blocks, IF Len(blocks) < at THEN at ELSE Len(blocks)) EXCEPT ![at] = v]]
  /\ copied' = [copied EXCEPT ![v] = @ + 1]
  /\ UNCHANGED <<visits, asked, saving, answer, ended, jar, latest, spoiled>>

\* userNames[0] of an empty list panics, which gin turns into the status 500.
LastReply(v) ==
  IF asked[v] = "upload-nameless"
    THEN [Fresh EXCEPT !.status = 500] ELSE Reply(Fresh, 200, "success")

\* Mutant: the handler replies after the first of the files.
FileSaved_RepliesAtOnce(v) ==
  /\ Open(v) /\ copied[v] = Blocks
  /\ saving' = [saving EXCEPT ![v] = <<>>]
  /\ copied' = [copied EXCEPT ![v] = -1]
  /\ latest' = [latest EXCEPT ![File(v)] = v]
  /\ ended' = [ended EXCEPT ![v] = TRUE]
  /\ answer' = [answer EXCEPT ![v] = LastReply(v)]
  /\ UNCHANGED <<visits, asked, jar, disk, spoiled>>

FileSaved(v) ==
  /\ Open(v) /\ copied[v] = Blocks
  /\ saving' = [saving EXCEPT ![v] = Tail(@)]
  /\ copied' = [copied EXCEPT ![v] = -1]
  /\ latest' = [latest EXCEPT ![File(v)] = v]
  /\ ended' = [ended EXCEPT ![v] = (saving'[v] = <<>>)]
  /\ answer' = IF ended'[v] THEN [answer EXCEPT ![v] = LastReply(v)] ELSE answer
  /\ UNCHANGED <<visits, asked, jar, disk, spoiled>>

\* What has been saved stays, and so does the part of a file.
SaveFails(v) ==
  /\ saving[v] # <<>>
  /\ spoiled' = IF Open(v) THEN spoiled \cup {File(v)} ELSE spoiled
  /\ saving' = [saving EXCEPT ![v] = <<>>]
  /\ copied' = [copied EXCEPT ![v] = -1]
  /\ ended' = [ended EXCEPT ![v] = TRUE]
  /\ answer' = [answer EXCEPT ![v] = Reply(Fresh, IF asked[v] = "upload" THEN 400 ELSE 500, "error")]
  /\ UNCHANGED <<visits, asked, jar, disk, latest>>

GinNext ==
  \E v \in Visitors :
    \/ Visit(v) \/ Cookies(v)
    \/ BadUpload(v) \/ UploadFile(v) \/ UploadManyFile(v)
    \/ CreateFile(v) \/ CopyBlock(v) \/ FileSaved(v) \/ SaveFails(v)

GinSpec == GinInit /\ [][GinNext]_ginVars

-----------------------------------------------------------------------------
(* Properties.                                                             *)

Whole(v) == [i \in 1 .. Blocks |-> v]
Uploaded(v) == ended[v] /\ asked[v] = "upload-more" /\ answer[v].status = 200

\* What a reply says is so: after a success every file of the upload is on the
\* disk, as the last upload of that name that was completed, and all of it
\* from that one, unless two wrote it at once or a copy failed; what begins
\* with an error has the status of one; and the cookie is read by those who
\* hold it (main.go lines 152-209).
RepliesAreTrue ==
  /\ \A f \in Names \ spoiled :
       (\A v \in Visitors : ~(Open(v) /\ File(v) = f)) /\ latest[f] # Nobody
         => disk[f] = Whole(latest[f])
  /\ \A v \in Visitors :
       /\ Uploaded(v) => \A f \in Names : latest[f] # Nobody
       /\ ended[v] /\ answer[v].body # <<>> =>
            (answer[v].status = 200 <=> Head(answer[v].body) # "error")
       /\ asked[v] = "get-cookie" => (answer[v].status = 200 <=> v \in jar)

-----------------------------------------------------------------------------
(***************************************************************************)
(* Server-sent events (pages-other/mystore/01-sse): every second main.js   *)
(* writes the three lines of an event and the empty line that ends it;     *)
(* index.ts reads the stream in chunks, cut anywhere, and splits each by   *)
(* itself.  A line is cut in at most two parts here.                       *)
(***************************************************************************)
CONSTANT Events     \* how many events are sent: a bound

VARIABLES
  events,      \* how many have been
  stream,      \* what has been written and not read yet
  split,       \* history: a chunk has ended within an event
  content      \* the values shown

sseVars == <<events, stream, split, content>>

Newline == <<"newline">>
Line(kind, n) == <<<<kind, "first", n>>, <<kind, "second", n>>, Newline>>

SseInit == events = 0 /\ stream = <<>> /\ split = FALSE /\ content = <<>>

\* The callback of setInterval.
Tick ==
  /\ events < Events
  /\ events' = events + 1
  /\ LET n == events + 1
     IN stream' = stream \o Line("event", n) \o Line("id", n) \o Line("data", n) \o <<Newline>>
  /\ UNCHANGED <<split, content>>

\* data.split('\n'): a fragment begins with the chunk or behind a newline, and
\* goes up to the next one.
Newlines(chunk, from) == {p \in from .. Len(chunk) : chunk[p] = Newline}
Begins(chunk, p) == p = 1 \/ chunk[p - 1] = Newline
Fragment(chunk, p) == SubSeq(chunk, p, Min(Newlines(chunk, p)) - 1)

\* arr.pop() twice: of the fragments that begin at p or behind it, all but two.
Stays(chunk, p) == \E q, r \in Newlines(chunk, p) : q < r

\* The fragment that starts with "data: ", in whatever way it ends.  Mutant: any
\* fragment of a data line is shown.
IsData_Anywhere(fragment) == fragment # <<>> /\ fragment[1][1] = "data"
IsData(fragment) == fragment # <<>> /\ fragment[1][1] = "data" /\ fragment[1][2] = "first"

\* The values of what is left.
Shown(chunk) ==
  FlattenSeq([p \in 1 .. Len(chunk) |->
    IF Begins(chunk, p) /\ Stays(chunk, p) /\ IsData(Fragment(chunk, p))
      THEN <<Fragment(chunk, p)>> ELSE <<>>])

\* reader.read(): the next chunk.
ReadChunk ==
  \E n \in 1 .. Len(stream) :
    /\ content' = content \o Shown(SubSeq(stream, 1, n))
    /\ stream' = SubSeq(stream, n + 1, Len(stream))
    /\ split' = (split \/ Len(stream') % 10 # 0)
    /\ UNCHANGED events

SseNext == Tick \/ ReadChunk

SseSpec == SseInit /\ [][SseNext]_sseVars

-----------------------------------------------------------------------------
(* Properties.                                                             *)

Value(fragment) == fragment[1][3]

\* Only whole values are shown, each at most once and in order; and none is
\* missing as long as chunks end where events do: the two fragments that are
\* dropped are then those behind the last newline of an event.
ShowsWholeValues ==
  /\ \A i \in 1 .. Len(content) : Len(content[i]) = 2
  /\ \A i, j \in 1 .. Len(content) : i < j => Value(content[i]) < Value(content[j])
  /\ ~split => Len(content) = events - Len(stream) \div 10
=============================================================================
