----------------------------- MODULE ConsoleCapture -----------------------------
(***************************************************************************)
(* What is printed, and how clients read it (api/console.py, the console   *)
(* routes of api/routers/misc.py, the socket of api/routers/ws.py).        *)
(*                                                                         *)
(* Every thread of the service writes to the captured stdout and stderr.   *)
(* feed joins a text to what is pending and splits off the whole lines in  *)
(* one critical section, then appends them to a bounded ring one by one in *)
(* others, and emits an event after each, which crosses to the event loop. *)
(* Clients either poll the ring, with a uid that says whether it changed,  *)
(* or get the events through a socket with a bounded queue of its own.     *)
(*                                                                         *)
(* A text is a number of pieces; each but the last ends with a newline.    *)
(***************************************************************************)
EXTENDS Integers, Sequences, SequencesExt

CONSTANTS
    Writers,      \* the threads that print, other than the event loop's
    MaxFeeds,     \* bound: texts written
    MaxMessages,  \* the size of the ring (2000)
    MaxQueue      \* the size of a socket's queue (1000)

ASSUME ConsoleAssumption ==
    /\ MaxFeeds \in Nat /\ MaxMessages \in Nat \ {0} /\ MaxQueue \in Nat \ {0}
    /\ Writers \cap {"ring", "pending"} = {}

VARIABLES
    feedsLeft,  \* bound: texts that may still be written
    fed,        \* texts written so far
    pending,    \* ConsoleCapture._pending: the pieces since the last newline
    split,      \* per writer: the local variable lines, what is left of it
    unsaid,     \* per writer: the line it has appended and not yet emitted, or <<>>
    messages,   \* ConsoleCapture._messages
    uid,        \* ConsoleCapture._uid, as the number of messages so far
    scheduled,  \* events on their way to the event loop
    box,        \* the socket's asyncio.Queue
    sent,       \* what the socket has sent
    poll,       \* what console_output_update does next
    got,        \* its local variable messages
    answer,     \* and the messages of its answer
    seen,       \* lines that the polling client has received
    seenUid     \* the uid it has, or NoUid

\* Auxiliary variables.
VARIABLES
    printed,    \* every piece of the texts written
    appended,   \* every line appended to the ring, in order
    newest      \* the line emitted last, or <<>>

writeVars == <<feedsLeft, fed, pending, split, unsaid, messages, uid, printed, appended>>
socketVars == <<scheduled, box, sent, newest>>
pollVars == <<poll, got, answer, seen, seenUid>>
consoleVars == <<writeVars, socketVars, pollVars>>

NoUid == -1

\* The pieces of the text f, and lines made of pieces.
Pieces == [feed : 1..MaxFeeds, part : 1..2]
Lines == Seq(Pieces)

\* A type for every variable.
ConsoleTypeOK ==
    /\ feedsLeft \in 0..MaxFeeds /\ fed \in 0..MaxFeeds
    /\ pending \in Lines
    /\ split \in [Writers -> Seq(Lines)] /\ unsaid \in [Writers -> Lines]
    /\ messages \in Seq(Lines) /\ Len(messages) <= MaxMessages
    /\ uid \in Nat
    /\ scheduled \in Seq(Lines) /\ box \in Seq(Lines) /\ sent \in Seq(Lines)
    /\ Len(box) <= MaxQueue
    /\ poll \in {"idle", "compare", "uid"}
    /\ got \in Seq(Lines) /\ answer \in Seq(Lines)
    /\ seen \subseteq Lines /\ seenUid \in Nat \cup {NoUid}
    /\ printed \subseteq Pieces /\ appended \in Seq(Lines) /\ newest \in Lines

ConsoleInit ==
    /\ feedsLeft \in 0..MaxFeeds /\ fed = 0
    /\ pending = <<>> /\ messages = <<>> /\ uid = 0
    /\ split = [w \in Writers |-> <<>>] /\ unsaid = [w \in Writers |-> <<>>]
    /\ scheduled = <<>> /\ box = <<>> /\ sent = <<>>
    /\ poll = "idle" /\ got = <<>> /\ answer = <<>>
    /\ seen = {} /\ seenUid = NoUid
    /\ printed = {} /\ appended = <<>> /\ newest = <<>>

-----------------------------------------------------------------------------
(* Writing. *)

\* The last n elements of s: a deque with maxlen n.
LastOf(s, n) == IF Len(s) <= n THEN s ELSE SubSeq(s, Len(s) - n + 1, Len(s))

\* The pieces of a text.
TextOf(f, pieces) == [k \in 1..pieces |-> [feed |-> f, part |-> k]]

\* Mutant: the text that was pending stays behind.
FirstLineOnly(p, piece) == <<piece>>

\* The first line is what was pending with the first piece.
FirstLine(p, piece) == Append(p, piece)

\* feed, its critical section: the lines it splits off a text with n newlines, and what is
\* pending then: the piece behind the last of them, if there is one (rest is 1).
Feed(w, n, rest) ==
    /\ feedsLeft > 0 /\ split[w] = <<>> /\ unsaid[w] = <<>>
    /\ feedsLeft' = feedsLeft - 1 /\ fed' = fed + 1
    /\ LET text == TextOf(fed + 1, n + rest) IN
       /\ IF n = 0
          THEN pending' = FirstLine(pending, text[1]) /\ UNCHANGED split
          ELSE /\ split' = [split EXCEPT ![w] =
                     [k \in 1..n |-> IF k = 1 THEN FirstLine(pending, text[1]) ELSE <<text[k]>>]]
               /\ pending' = IF rest = 1 THEN <<text[n + 1]>> ELSE <<>>
       /\ printed' = printed \cup ToSet(text)
    /\ UNCHANGED <<unsaid, messages, uid, appended, socketVars, pollVars>>

\* Mutant: the newest line is taken first.
LineFromBehind(s) == Len(s)

\* `for line in lines`: which of them is next.
NextLine(s) == 1

\* _append, its critical section.
AppendLine(w) ==
    /\ split[w] # <<>> /\ unsaid[w] = <<>>
    /\ LET line == split[w][NextLine(split[w])] IN
       /\ split' = [split EXCEPT ![w] = RemoveAt(@, NextLine(@))]
       /\ unsaid' = [unsaid EXCEPT ![w] = line]
       /\ messages' = LastOf(Append(messages, line), MaxMessages)
       /\ appended' = Append(appended, line)
    /\ uid' = uid + 1
    /\ UNCHANGED <<feedsLeft, fed, pending, printed, socketVars, pollVars>>

\* _append, then emit: the bus calls on_event, which schedules the delivery.
EmitLine(w) ==
    /\ unsaid[w] # <<>>
    /\ scheduled' = Append(scheduled, unsaid[w])
    /\ newest' = unsaid[w]
    /\ unsaid' = [unsaid EXCEPT ![w] = <<>>]
    /\ UNCHANGED <<feedsLeft, fed, pending, split, messages, uid, printed, appended,
                   box, sent, pollVars>>

-----------------------------------------------------------------------------
(* The socket, on the event loop, which is not in the middle of a poll. *)

\* Mutant: what does not fit is refused.
DeliveredIfRoom(q, e) == IF Len(q) < MaxQueue THEN Append(q, e) ELSE q

\* deliver: a full queue loses its oldest element.
Delivered(q, e) == Append(IF Len(q) = MaxQueue THEN Tail(q) ELSE q, e)

DeliverLine ==
    /\ poll = "idle" /\ scheduled # <<>>
    /\ box' = Delivered(box, Head(scheduled))
    /\ scheduled' = Tail(scheduled)
    /\ UNCHANGED <<writeVars, sent, newest, pollVars>>

\* _console_body: one message per event.
SendLine ==
    /\ poll = "idle" /\ box # <<>>
    /\ sent' = Append(sent, Head(box))
    /\ box' = Tail(box)
    /\ UNCHANGED <<writeVars, scheduled, newest, pollVars>>

-----------------------------------------------------------------------------
(* GET /console_output_update: messages(), then two looks at the uid. *)

PollMessages ==
    /\ poll = "idle"
    /\ got' = messages
    /\ poll' = "compare"
    /\ UNCHANGED <<writeVars, socketVars, answer, seen, seenUid>>

\* `messages if last != uid else []`
AnswerTo(last) == IF last # uid THEN got ELSE <<>>

PollCompare ==
    /\ poll = "compare"
    /\ answer' = AnswerTo(seenUid) /\ got' = <<>>
    /\ poll' = "uid"
    /\ UNCHANGED <<writeVars, socketVars, seen, seenUid>>

PollUid ==
    /\ poll = "uid"
    /\ seen' = seen \cup ToSet(answer) /\ seenUid' = uid
    /\ answer' = <<>>
    /\ poll' = "idle"
    /\ UNCHANGED <<writeVars, socketVars, got>>

-----------------------------------------------------------------------------
WriterStep ==
    \E w \in Writers :
        \/ Feed(w, 0, 1) \/ Feed(w, 1, 0) \/ Feed(w, 1, 1) \/ Feed(w, 2, 0)
        \/ AppendLine(w) \/ EmitLine(w)

ConsoleNext ==
    \/ WriterStep
    \/ DeliverLine \/ SendLine
    \/ PollMessages \/ PollCompare \/ PollUid

-----------------------------------------------------------------------------
(* Properties. *)

\* Where a piece can be: in a line of the ring, also when the ring has lost that since, in a
\* line that a thread still has to append, or pending.
Holders == {"ring", "pending"} \cup Writers

LinesOf(x) == IF x = "ring" THEN appended ELSE IF x = "pending" THEN <<pending>> ELSE split[x]

\* Whatever the threads that print do, every piece of a text is in one line, or
\* pending, and in one only: none is lost between the critical sections of feed and
\* _append, and none is doubled.
NothingLostOrDoubled ==
    /\ \A piece \in printed : \E x \in Holders :
          \E i \in DOMAIN LinesOf(x) : \E k \in DOMAIN LinesOf(x)[i] : LinesOf(x)[i][k] = piece
    /\ \A x, y \in Holders : \A i \in DOMAIN LinesOf(x), j \in DOMAIN LinesOf(y) :
         \A k \in DOMAIN LinesOf(x)[i], m \in DOMAIN LinesOf(y)[j] :
            LinesOf(x)[i][k] = LinesOf(y)[j][m] => <<x, i, k>> = <<y, j, m>>

FeedOf(line) == line[Len(line)].feed
PartOf(line) == line[Len(line)].part

InOrder(s) ==
    \A i, j \in DOMAIN s : i < j /\ FeedOf(s[i]) = FeedOf(s[j]) => PartOf(s[i]) < PartOf(s[j])

\* The lines of one text come in their order, in the ring and at the socket,
\* whatever other threads print between them and whatever the queue drops.
LinesOfATextInOrder == InOrder(appended) /\ InOrder(sent)

\* streams.py:4-5: "a slow consumer drops the oldest messages", so however far it
\* fell behind, once it has caught up it has sent the line that was emitted last.
NewestIsSent ==
    scheduled = <<>> /\ box = <<>> /\ newest # <<>>
        => sent # <<>> /\ Last(sent) = newest

\* A client whose uid is the current one has the lines of the ring: that is what
\* the comparison of console_output_update relies on (misc.py:112).
UidMeansSeen ==
    poll = "idle" /\ seenUid = uid => ToSet(messages) \subseteq seen
=================================================================================
