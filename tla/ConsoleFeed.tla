----------------------------- MODULE ConsoleFeed -----------------------------
(***************************************************************************)
(* The console feed: the lines that main and the goroutines write to       *)
(* UIConsoleChan, the goroutine of ShowDashboard that appends each line to *)
(* the text of a widget, and the UI thread that runs what fyne.Do is       *)
(* given.  The goroutine reads consoleFeed.Text while the UI thread may be *)
(* storing it: a Go string is a pointer and a length, stored and loaded as *)
(* two words in either order, so that the goroutine may join the one of an *)
(* older text and the other of a newer one.                                *)
(*                                                                         *)
(* The unit of a text's length is a line, where the code counts bytes.     *)
(***************************************************************************)
EXTENDS Naturals, Sequences

CONSTANTS
    Writers,    \* goroutines that call logToUI
    MaxLines,   \* bound on the lines each of them writes
    BootLines,  \* the lines main writes before there is a dashboard
    Capacity,   \* of UIConsoleChan: 1024
    FeedLimit,  \* the length a text may have: 30000
    FeedCut     \* what is cut off one that is longer: 15000

ASSUME FeedAssumption ==
    /\ MaxLines \in Nat /\ BootLines \in Nat /\ Capacity \in Nat
    /\ BootLines <= Capacity
    /\ FeedLimit \in Nat /\ FeedCut \in 1..FeedLimit

\* No goroutine has a name that stands for something else here.
ASSUME WritersAssumption == Writers \cap {"main", "greeting", "garbage", "none"} = {}

VARIABLES
    written,        \* the lines each writer has written
    UIConsoleChan,
    feedPc,         \* where the dashboard's goroutine is
    msg,            \* the line it works on
    loaded,         \* the words of consoleFeed.Text it has loaded
    posted,         \* the texts of the closures given to fyne.Do
    storing,        \* the words the UI thread has still to store
    pointer,        \* the text that the pointer of consoleFeed.Text is to
    length,         \* the length of consoleFeed.Text
    owed            \* the lines that got into the channel and were never shown

feedVars == <<written, UIConsoleChan, feedPc, msg, loaded, posted, storing,
              pointer, length, owed>>

Lines == {<<"main", n>> : n \in 1..BootLines} \cup (Writers \X (1..MaxLines))
Greeting == <<"greeting", 0>>
Garbage == <<"garbage", 0>>     \* the memory behind a text
NoLine == <<"none", 0>>
Words == {"pointer", "length"}

\* The string made of a pointer and a length.
StringOf(text, n) ==
    [i \in 1..n |-> IF i <= Len(text) THEN text[i] ELSE Garbage]

consoleFeedText == StringOf(pointer, length)

FeedTypeOK ==
    /\ written \in [Writers \cup {"main"} -> Nat]
    /\ UIConsoleChan \in Seq(Lines) /\ Len(UIConsoleChan) <= Capacity
    /\ feedPc \in {"boot", "receive", "load", "post"}
    /\ msg \in Lines \cup {NoLine}
    /\ DOMAIN loaded \subseteq Words
    /\ posted \in Seq(Seq(Lines \cup {Greeting, Garbage}))
    /\ storing \subseteq Words
    /\ pointer \in Seq(Lines \cup {Greeting, Garbage})
    /\ length \in 0..FeedLimit
    /\ owed \subseteq Lines

FeedInit ==
    /\ written = [w \in Writers \cup {"main"} |-> 0]
    /\ UIConsoleChan = <<>>
    /\ feedPc = "boot"
    /\ msg = NoLine
    /\ loaded = <<>>
    /\ posted = <<>>
    /\ storing = {}
    /\ pointer = <<Greeting>>
    /\ length = 1
    /\ owed = {}

-----------------------------------------------------------------------------
(* The writers *)

\* main writes its lines before it calls ShowDashboard, and waits when the
\* channel is full.
Boot ==
    /\ feedPc = "boot"
    /\ written["main"] < BootLines
    /\ Len(UIConsoleChan) < Capacity
    /\ written' = [written EXCEPT !["main"] = @ + 1]
    /\ UIConsoleChan' = Append(UIConsoleChan, <<"main", written'["main"]>>)
    /\ owed' = owed \cup {<<"main", written'["main"]>>}
    /\ UNCHANGED <<feedPc, msg, loaded, posted, storing, pointer, length>>

\* The dashboard starts the goroutine that reads the channel.
Open ==
    /\ feedPc = "boot"
    /\ written["main"] = BootLines
    /\ feedPc' = "receive"
    /\ UNCHANGED <<written, UIConsoleChan, msg, loaded, posted, storing,
                   pointer, length, owed>>

\* A line that does not fit into the channel is dropped.
Enqueue(line) ==
    IF Len(UIConsoleChan) < Capacity THEN Append(UIConsoleChan, line)
                                     ELSE UIConsoleChan

\* logToUI never waits.
logToUI(w) ==
    /\ feedPc # "boot"
    /\ written[w] < MaxLines
    /\ written' = [written EXCEPT ![w] = @ + 1]
    /\ UIConsoleChan' = Enqueue(<<w, written'[w]>>)
    /\ owed' = IF UIConsoleChan' = UIConsoleChan THEN owed ELSE owed \cup {<<w, written'[w]>>}
    /\ UNCHANGED <<feedPc, msg, loaded, posted, storing, pointer, length>>

-----------------------------------------------------------------------------
(* The dashboard's goroutine *)

Receive ==
    /\ feedPc = "receive"
    /\ UIConsoleChan # <<>>
    /\ msg' = Head(UIConsoleChan)
    /\ UIConsoleChan' = Tail(UIConsoleChan)
    /\ loaded' = <<>>
    /\ feedPc' = "load"
    /\ UNCHANGED <<written, posted, storing, pointer, length, owed>>

\* currentText := consoleFeed.Text, one word at a time.
Load(word) ==
    /\ feedPc = "load"
    /\ word \notin DOMAIN loaded
    /\ loaded' = [w \in DOMAIN loaded \cup {word} |->
                     IF w # word THEN loaded[w]
                     ELSE IF w = "pointer" THEN pointer ELSE length]
    /\ feedPc' = IF DOMAIN loaded' = Words THEN "post" ELSE "load"
    /\ UNCHANGED <<written, UIConsoleChan, msg, posted, storing, pointer, length, owed>>

\* Mutants: the text is never cut; the newer half is cut off.
Uncut(text) == text
CutEnd(text) ==
    IF Len(text) > FeedLimit THEN SubSeq(text, 1, Len(text) - FeedCut) ELSE text

\* The older part of a text that has grown too long is cut off.
Cut(text) ==
    IF Len(text) > FeedLimit THEN SubSeq(text, FeedCut + 1, Len(text)) ELSE text

\* Mutant: the newest line comes first.
Prepended(text, line) == <<line>> \o text

WithLine(text, line) == Append(text, line)

\* The line is appended and the new text given to the UI thread.
Post ==
    /\ feedPc = "post"
    /\ posted' = Append(posted,
                        Cut(WithLine(StringOf(loaded["pointer"], loaded["length"]), msg)))
    /\ msg' = NoLine
    /\ loaded' = <<>>
    /\ feedPc' = "receive"
    /\ UNCHANGED <<written, UIConsoleChan, storing, pointer, length, owed>>

-----------------------------------------------------------------------------
(* The UI thread *)

\* It takes the next closure ...
TakeClosure ==
    /\ storing = {}
    /\ posted # <<>>
    /\ storing' = Words
    /\ UNCHANGED <<written, UIConsoleChan, feedPc, msg, loaded, posted, pointer, length, owed>>

\* ... and SetText stores the two words of the text.
Store(word) ==
    /\ word \in storing
    /\ storing' = storing \ {word}
    /\ pointer' = IF word = "pointer" THEN Head(posted) ELSE pointer
    /\ length' = IF word = "length" THEN Len(Head(posted)) ELSE length
    /\ posted' = IF storing' = {} THEN Tail(posted) ELSE posted
    /\ owed' = IF storing' = {} THEN owed \ {pointer'[i] : i \in DOMAIN pointer'} ELSE owed
    /\ UNCHANGED <<written, UIConsoleChan, feedPc, msg, loaded>>

FeedReads == Receive \/ (\E word \in Words : Load(word)) \/ Post
FeedShows == TakeClosure \/ \E word \in Words : Store(word)

FeedNext ==
    \/ Boot
    \/ Open
    \/ \E w \in Writers : logToUI(w)
    \/ FeedReads
    \/ FeedShows

\* main, the goroutine and the UI thread run; nobody has to write a line.
FeedSpec ==
    /\ FeedInit /\ [][FeedNext]_feedVars
    /\ WF_feedVars(Boot) /\ WF_feedVars(Open)
    /\ WF_feedVars(FeedReads) /\ WF_feedVars(FeedShows)

-----------------------------------------------------------------------------
(* Properties *)

\* Every line that got into the channel is shown at some time, however slowly
\* the UI thread runs and whatever the channel drops after it.
EveryLineShown == <>[](owed = {})

\* The console never shows the lines of one goroutine out of their order, nor
\* one of them twice, although the goroutine appends to texts that are stale
\* or made of two.
FeedInOrder ==
    \A i, j \in 1..length :
        LET a == consoleFeedText[i]
            b == consoleFeedText[j]
        IN  i < j /\ a[1] = b[1] /\ a # Garbage => a[2] < b[2]

\* The texts that wait for the UI thread and the one it shows have a bounded
\* length, even those that run on into the memory behind a text.
FeedBounded ==
    length <= FeedLimit /\ \A i \in DOMAIN posted : Len(posted[i]) <= FeedLimit
=============================================================================
