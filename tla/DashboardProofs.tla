---------------------------- MODULE DashboardProofs ----------------------------
(***************************************************************************)
(* Theorems about what the dashboard shows: the text of the console feed,  *)
(* for any number of writers and lines and any capacity, the theme, and    *)
(* the status labels, for any number of buttons pressed.                   *)
(***************************************************************************)
EXTENDS ConsoleFeed, StatusPanel, SequenceTheorems, TLAPS

Pieces == Lines \cup {Greeting, Garbage}

\* The lines of one goroutine are in their order, and none is there twice.
Ordered(t) ==
    \A i, j \in 1..Len(t) :
        i < j /\ t[i][1] = t[j][1] /\ t[i] # Garbage => t[i][2] < t[j][2]

\* A line that was received before all that are still to come, where W are the
\* numbers of lines written and C the lines to come.
Past(a, W, C) ==
    a \in Lines => a[2] <= W[a[1]] /\ \A b \in C : b[1] = a[1] => a[2] < b[2]

Sound(t, W, C) ==
    t \in Seq(Pieces) /\ Ordered(t) /\ \A i \in 1..Len(t) : Past(t[i], W, C)

InChannel == {UIConsoleChan[i] : i \in 1..Len(UIConsoleChan)}
Coming == ({msg} \ {NoLine}) \cup InChannel

\* The lines to come are in their order, the one at work before the others.
ChannelInv ==
    /\ Ordered(UIConsoleChan)
    /\ \A a \in InChannel : a[1] = msg[1] /\ msg # NoLine => msg[2] < a[2]
    /\ \A a \in Coming : a[2] <= written[a[1]]

\* The goroutine has a line exactly while it loads and posts.
ReaderInv ==
    /\ msg \in Lines <=> feedPc \in {"load", "post"}
    /\ feedPc = "post" => DOMAIN loaded = Words
    /\ "length" \in DOMAIN loaded => loaded["length"] \in 0..FeedLimit
    /\ storing # {} => posted # <<>>

\* All texts are made of earlier lines in their order: the one that is shown,
\* of whose older and newer words the goroutine may load one each, the one
\* loaded and those that wait for the UI thread.
TextInv ==
    /\ Sound(pointer, written, Coming)
    /\ "pointer" \in DOMAIN loaded => Sound(loaded["pointer"], written, Coming)
    /\ \A i \in 1..Len(posted) :
          Sound(posted[i], written, Coming) /\ Len(posted[i]) <= FeedLimit

FeedInv == FeedTypeOK /\ ChannelInv /\ ReaderInv /\ TextInv

-----------------------------------------------------------------------------
(* Lines and texts *)

\* Lines are told from the greeting and from garbage by the first component.
LEMMA LineFacts ==
    ASSUME NEW a \in Lines
    PROVE  /\ a = <<a[1], a[2]>> /\ a[1] \in Writers \cup {"main"} /\ a[2] \in Nat /\ a[2] >= 1
           /\ a[1] \notin {"greeting", "garbage", "none"}
           /\ a \notin {Greeting, Garbage, NoLine}
  <1>1. /\ a = <<a[1], a[2]>> /\ a[1] \in Writers \cup {"main"} /\ a[2] \in Nat /\ a[2] >= 1
    BY FeedAssumption DEF Lines, FeedAssumption
  <1>2. a[1] \notin {"greeting", "garbage", "none"}
    BY <1>1, WritersAssumption DEF WritersAssumption
  <1>3. QED
    BY <1>1, <1>2 DEF Greeting, Garbage, NoLine

LEMMA PieceFacts ==
    ASSUME NEW a \in Pieces
    PROVE  /\ a[2] \in Nat
           /\ a[1] = "garbage" => a = Garbage
           /\ a[1] = "greeting" => a = Greeting
           /\ a \in Lines <=> a[1] \notin {"garbage", "greeting"}
  BY LineFacts DEF Pieces, Greeting, Garbage

\* Lines are received, or later ones are written: a text stays sound.
Later(W, C, V, D) ==
    /\ \A w \in Writers \cup {"main"} : W[w] \in Nat /\ V[w] \in Nat /\ W[w] <= V[w]
    /\ D \subseteq Lines
    /\ \A b \in D : b \in C \/ b[2] > W[b[1]]

LEMMA SoundLater ==
    ASSUME NEW t, NEW W, NEW C, NEW V, NEW D, Sound(t, W, C), Later(W, C, V, D)
    PROVE  Sound(t, V, D)
  <1> USE DEF Later
  <1>1. SUFFICES ASSUME NEW a \in Lines, Past(a, W, C)
                 PROVE  Past(a, V, D)
    BY DEF Sound, Past
  <1>2. a[1] \in Writers \cup {"main"} /\ a[2] \in Nat /\ a[2] <= W[a[1]]
    BY <1>1, LineFacts DEF Past
  <1>3. a[2] <= V[a[1]]
    BY <1>2
  <1>4. ASSUME NEW b \in D, b[1] = a[1]
        PROVE  a[2] < b[2]
    <2>1. CASE b \in C
      BY <1>1, <1>4, <2>1 DEF Past
    <2>2. CASE b[2] > W[b[1]]
      <3>1. b[2] \in Nat
        BY <1>4, LineFacts
      <3>2. QED
        BY <1>2, <1>4, <2>2, <3>1
    <2>3. QED
      BY <1>4, <2>1, <2>2
  <1>5. QED
    BY <1>3, <1>4 DEF Past

\* A pointer and a length that do not belong together make the beginning of a
\* text, with garbage behind.
LEMMA StringOfSound ==
    ASSUME NEW t, NEW W, NEW C, Sound(t, W, C), NEW n \in Nat
    PROVE  Sound(StringOf(t, n), W, C) /\ Len(StringOf(t, n)) = n
  <1> DEFINE s == StringOf(t, n)
  <1>1. t \in Seq(Pieces) /\ Len(t) \in Nat /\ \A i \in 1..Len(t) : t[i] \in Pieces
    BY ElementOfSeq, LenProperties DEF Sound
  <1>2. \A i \in 1..n : s[i] = IF i <= Len(t) THEN t[i] ELSE Garbage
    BY DEF StringOf
  <1>3. s \in [1..n -> Pieces]
    <2>1. \A i \in 1..n : (IF i <= Len(t) THEN t[i] ELSE Garbage) \in Pieces
      BY <1>1 DEF Pieces
    <2>2. QED
      BY <2>1 DEF StringOf
  <1>4. s \in Seq(Pieces) /\ Len(s) = n
    <2>1. s \in Seq(Pieces)
      BY <1>3, SeqDef
    <2>2. DOMAIN s = 1..n /\ DOMAIN s = 1..Len(s) /\ Len(s) \in Nat
      BY <1>3, <2>1, LenProperties
    <2>3. QED
      BY <2>1, <2>2
  <1> HIDE DEF s
  <1>5. Ordered(s)
    <2>1. SUFFICES ASSUME NEW i \in 1..n, NEW j \in 1..n, i < j, s[i][1] = s[j][1], s[i] # Garbage
                   PROVE  s[i][2] < s[j][2]
      BY <1>4 DEF Ordered
    <2>2. i <= Len(t) /\ s[i] = t[i] /\ i \in 1..Len(t)
      BY <1>1, <1>2, <2>1
    <2>3. CASE j <= Len(t)
      BY <1>1, <1>2, <2>1, <2>2, <2>3 DEF Sound, Ordered
    <2>4. CASE ~(j <= Len(t))
      <3>1. s[j][1] = "garbage"
        BY <1>2, <2>4 DEF Garbage
      <3>2. QED
        BY <1>1, <2>1, <2>2, <3>1, PieceFacts
    <2>5. QED
      BY <2>3, <2>4
  <1>6. \A i \in 1..Len(s) : Past(s[i], W, C)
    <2>1. Past(Garbage, W, C)
      BY LineFacts DEF Past
    <2>2. QED
      BY <1>1, <1>2, <1>4, <2>1 DEF Sound
  <1>7. QED
    BY <1>4, <1>5, <1>6 DEF Sound, s

\* The line at work comes after all of a text it is appended to.
LEMMA WithLineSound ==
    ASSUME NEW t, NEW W, NEW C, NEW a \in Lines, Sound(t, W, C \cup {a}), Past(a, W, C)
    PROVE  Sound(WithLine(t, a), W, C) /\ Len(WithLine(t, a)) = Len(t) + 1
  <1> DEFINE s == WithLine(t, a)
  <1>1. t \in Seq(Pieces) /\ Len(t) \in Nat /\ \A i \in 1..Len(t) : t[i] \in Pieces
    BY ElementOfSeq, LenProperties DEF Sound
  <1>2. /\ s \in Seq(Pieces) /\ Len(s) = Len(t) + 1
        /\ \A i \in 1..Len(t) : s[i] = t[i]
        /\ s[Len(t) + 1] = a
    <2>1. a \in Pieces
      BY DEF Pieces
    <2>2. QED
      BY <1>1, <2>1, AppendProperties DEF WithLine
  <1> HIDE DEF s
  <1>3. Ordered(s)
    <2>1. SUFFICES ASSUME NEW i \in 1..Len(s), NEW j \in 1..Len(s), i < j,
                          s[i][1] = s[j][1], s[i] # Garbage
                   PROVE  s[i][2] < s[j][2]
      BY DEF Ordered
    <2>2. i \in 1..Len(t) /\ s[i] = t[i]
      BY <1>1, <1>2, <2>1
    <2>3. CASE j \in 1..Len(t)
      BY <1>2, <2>1, <2>2, <2>3 DEF Sound, Ordered
    <2>4. CASE j \notin 1..Len(t)
      <3>1. s[j] = a
        BY <1>1, <1>2, <2>1, <2>4
      <3>2. t[i] \in Lines
        BY <1>1, <2>1, <2>2, <3>1, LineFacts, PieceFacts
      <3>3. QED
        BY <2>1, <2>2, <3>1, <3>2 DEF Sound, Past
    <2>5. QED
      BY <2>3, <2>4
  <1>4. ASSUME NEW i \in 1..Len(s)
        PROVE  Past(s[i], W, C)
    <2>1. CASE i \in 1..Len(t)
      BY <1>2, <2>1 DEF Sound, Past
    <2>2. CASE i \notin 1..Len(t)
      <3>1. s[i] = a
        BY <1>1, <1>2, <1>4, <2>2
      <3>2. QED
        BY <3>1
    <2>3. QED
      BY <2>1, <2>2
  <1>5. QED
    BY <1>2, <1>3, <1>4 DEF Sound, s

\* The end of a text is sound, and short enough.
LEMMA CutSound ==
    ASSUME NEW t, NEW W, NEW C, Sound(t, W, C), Len(t) <= FeedLimit + 1
    PROVE  Sound(Cut(t), W, C) /\ Len(Cut(t)) <= FeedLimit
  <1>1. t \in Seq(Pieces) /\ Len(t) \in Nat /\ \A i \in 1..Len(t) : t[i] \in Pieces
    BY ElementOfSeq, LenProperties DEF Sound
  <1>2. FeedCut \in Nat /\ FeedCut >= 1 /\ FeedLimit \in Int /\ FeedCut <= FeedLimit
    BY FeedAssumption DEF FeedAssumption
  <1>3. CASE ~(Len(t) > FeedLimit)
    BY <1>1, <1>2, <1>3 DEF Cut
  <1>4. CASE Len(t) > FeedLimit
    <2> DEFINE s == SubSeq(t, FeedCut + 1, Len(t))
    <2>1. /\ s \in Seq(Pieces) /\ Len(s) = Len(t) - FeedCut
          /\ \A i \in 1..Len(s) : s[i] = t[FeedCut + i]
      <3>1. \A i \in (FeedCut + 1)..Len(t) : t[i] \in Pieces
        BY <1>1, <1>2
      <3>2. /\ s \in Seq(Pieces)
            /\ Len(s) = IF FeedCut + 1 <= Len(t) THEN Len(t) - (FeedCut + 1) + 1 ELSE 0
            /\ \A i \in 1..(Len(t) - (FeedCut + 1) + 1) : s[i] = t[(FeedCut + 1) + i - 1]
        BY <1>1, <1>2, <3>1, SubSeqProperties
      <3> HIDE DEF s
      <3>3. QED
        BY <1>1, <1>2, <1>4, <3>2
    <2>2. Cut(t) = s
      BY <1>4 DEF Cut
    <2> HIDE DEF s
    <2>3. \A i \in 1..Len(s) : FeedCut + i \in 1..Len(t)
      BY <1>1, <1>2, <2>1
    <2>4. Ordered(s)
      <3>1. SUFFICES ASSUME NEW i \in 1..Len(s), NEW j \in 1..Len(s), i < j,
                            s[i][1] = s[j][1], s[i] # Garbage
                     PROVE  s[i][2] < s[j][2]
        BY DEF Ordered
      <3>2. s[i] = t[FeedCut + i] /\ s[j] = t[FeedCut + j] /\ FeedCut + i < FeedCut + j
        BY <1>1, <1>2, <2>1, <3>1
      <3>3. QED
        BY <2>3, <3>1, <3>2 DEF Sound, Ordered
    <2>5. \A i \in 1..Len(s) : Past(s[i], W, C)
      BY <2>1, <2>3 DEF Sound
    <2>6. Len(s) <= FeedLimit
      BY <1>1, <1>2, <2>1
    <2>7. QED
      BY <2>1, <2>2, <2>4, <2>5, <2>6 DEF Sound
  <1>5. QED
    BY <1>3, <1>4

-----------------------------------------------------------------------------
(* The steps of the console feed *)

LEMMA ComingLines == FeedTypeOK => Coming \subseteq Lines /\ InChannel \subseteq Lines
  <1> SUFFICES ASSUME FeedTypeOK
               PROVE  InChannel \subseteq Lines
    BY DEF FeedTypeOK, Coming
  <1>1. QED
    BY ElementOfSeq DEF FeedTypeOK, InChannel

LEMMA FeedStart == FeedInit => FeedInv
  <1> SUFFICES ASSUME FeedInit
               PROVE  FeedInv
    OBVIOUS
  <1>1. /\ pointer \in Seq(Pieces) /\ Len(pointer) = 1 /\ pointer[1] = Greeting
        /\ UIConsoleChan \in Seq(Lines) /\ Len(UIConsoleChan) = 0
        /\ posted \in Seq(Seq(Pieces)) /\ Len(posted) = 0 /\ DOMAIN loaded = {}
    BY DEF FeedInit, Pieces
  <1>2. FeedTypeOK
    <2>1. 1 \in 0..FeedLimit /\ 0 <= Capacity
      BY FeedAssumption DEF FeedAssumption
    <2>2. QED
      BY <1>1, <2>1 DEF FeedInit, FeedTypeOK, Pieces
  <1>3. InChannel = {} /\ Coming = {}
    BY <1>1 DEF FeedInit, InChannel, Coming
  <1>4. ChannelInv
    BY <1>1, <1>3 DEF ChannelInv, Ordered
  <1>5. NoLine \notin Lines
    BY LineFacts
  <1>6. ReaderInv
    BY <1>1, <1>5 DEF FeedInit, ReaderInv
  <1>7. Sound(pointer, written, Coming)
    <2>1. Greeting \notin Lines
      BY LineFacts
    <2>2. QED
      BY <1>1, <2>1 DEF Sound, Ordered, Past
  <1>8. QED
    BY <1>1, <1>2, <1>4, <1>6, <1>7 DEF FeedInv, TextInv

\* main and logToUI write a line that is later than all others of its goroutine;
\* it gets into the channel or is lost.
LEMMA WriteKeeps ==
    ASSUME FeedInv, NEW w \in Writers \cup {"main"}, <<w, written[w] + 1>> \in Lines,
           written' = [written EXCEPT ![w] = @ + 1],
           \/ /\ Len(UIConsoleChan) < Capacity
              /\ UIConsoleChan' = Append(UIConsoleChan, <<w, written[w] + 1>>)
           \/ UNCHANGED UIConsoleChan,
           owed' \subseteq owed \cup {<<w, written[w] + 1>>},
           feedPc' = feedPc \/ (feedPc' = "receive" /\ feedPc = "boot"),
           UNCHANGED <<msg, loaded, posted, storing, pointer, length>>
    PROVE  FeedInv'
  <1> DEFINE c == <<w, written[w] + 1>>
  <1>1. FeedTypeOK /\ ChannelInv /\ ReaderInv /\ TextInv
    BY DEF FeedInv
  <1>2. Coming \subseteq Lines /\ InChannel \subseteq Lines
    BY <1>1, ComingLines
  <1>3. /\ written' \in [Writers \cup {"main"} -> Nat]
        /\ \A v \in Writers \cup {"main"} :
              written[v] \in Nat /\ written'[v] \in Nat /\ written[v] <= written'[v]
        /\ written'[w] = written[w] + 1
    BY <1>1 DEF FeedTypeOK
  <1>4. c \in Lines /\ c[1] = w /\ c[2] = written[w] + 1
    OBVIOUS
  <1>5. \A a \in Coming : a[1] = w => a[2] < c[2]
    <2>1. SUFFICES ASSUME NEW a \in Coming, a[1] = w
                   PROVE  a[2] < c[2]
      OBVIOUS
    <2>2. a[2] <= written[w] /\ a[2] \in Nat
      BY <1>1, <1>2, <2>1, LineFacts DEF ChannelInv
    <2>3. QED
      BY <1>3, <1>4, <2>2
  <1> DEFINE old == UIConsoleChan
             new == UIConsoleChan'
  <1>6. old \in Seq(Lines) /\ Len(old) \in Nat /\ Len(old) <= Capacity
    BY <1>1, LenProperties DEF FeedTypeOK
  <1> DEFINE Appended == /\ new \in Seq(Lines) /\ Len(new) = Len(old) + 1
                         /\ \A i \in 1..Len(old) : new[i] = old[i]
                         /\ new[Len(old) + 1] = c
  <1>7. \/ new = old
        \/ Len(old) < Capacity /\ Appended
    <2>1. \/ Len(old) < Capacity /\ new = Append(old, c)
          \/ new = old
      OBVIOUS
    <2> HIDE DEF c, new
    <2>2. new = Append(old, c) => Appended
      BY <1>4, <1>6, AppendProperties
    <2>3. QED
      BY <2>1, <2>2
  <1> HIDE DEF c
  <1>8. new \in Seq(Lines) /\ Len(new) <= Capacity
    BY <1>6, <1>7, FeedAssumption DEF FeedAssumption
  <1>9. InChannel' \subseteq InChannel \cup {c}
    <2>1. SUFFICES ASSUME NEW i \in 1..Len(new), new[i] # c
                   PROVE  new[i] \in InChannel
      BY DEF InChannel
    <2>2. i \in 1..Len(old) /\ new[i] = old[i]
      BY <1>6, <1>7, <2>1
    <2>3. QED
      BY <2>2 DEF InChannel
  <1>10. Coming' \subseteq Coming \cup {c}
    BY <1>9 DEF Coming
  <1>11. FeedTypeOK'
    <2>1. feedPc' \in {"boot", "receive", "load", "post"}
      BY <1>1 DEF FeedTypeOK
    <2>2. owed' \subseteq Lines
      BY <1>1 DEF FeedTypeOK
    <2>3. QED
      BY <1>1, <1>3, <1>8, <2>1, <2>2 DEF FeedTypeOK
  <1>12. Ordered(new)
    <2>1. CASE new = old
      BY <1>1, <2>1 DEF ChannelInv
    <2>2. CASE new # old
      <3>1. SUFFICES ASSUME NEW i \in 1..Len(new), NEW j \in 1..Len(new), i < j,
                            new[i][1] = new[j][1], new[i] # Garbage
                     PROVE  new[i][2] < new[j][2]
        BY DEF Ordered
      <3>2. i \in 1..Len(old) /\ new[i] = old[i] /\ old[i] \in Coming
        <4>1. i \in 1..Len(old) /\ new[i] = old[i]
          BY <1>6, <1>7, <2>2, <3>1
        <4>2. QED
          BY <4>1 DEF InChannel, Coming
      <3>3. CASE j \in 1..Len(old)
        BY <1>1, <1>7, <2>2, <3>1, <3>2, <3>3 DEF ChannelInv, Ordered
      <3>4. CASE j \notin 1..Len(old)
        <4>1. new[j] = c
          BY <1>6, <1>7, <2>2, <3>1, <3>4
        <4>2. QED
          BY <1>4, <1>5, <3>1, <3>2, <4>1
      <3>5. QED
        BY <3>3, <3>4
    <2>3. QED
      BY <2>1, <2>2
  <1>13. ChannelInv'
    <2>1. ASSUME NEW a \in InChannel', a[1] = msg[1], msg # NoLine
          PROVE  msg[2] < a[2]
      <3>1. msg \in Coming
        BY <1>1, <2>1 DEF Coming
      <3>2. QED
        BY <1>1, <1>4, <1>5, <1>9, <2>1, <3>1 DEF ChannelInv
    <2>2. ASSUME NEW a \in Coming'
          PROVE  a[2] <= written'[a[1]]
      <3>1. CASE a = c
        BY <1>3, <1>4, <3>1
      <3>2. CASE a \in Coming
        <4>1. a[2] <= written[a[1]] /\ a[1] \in Writers \cup {"main"} /\ a[2] \in Nat
          BY <1>1, <1>2, <3>2, LineFacts DEF ChannelInv
        <4>2. QED
          BY <1>3, <4>1
      <3>3. QED
        BY <1>10, <2>2, <3>1, <3>2
    <2>3. QED
      BY <1>12, <2>1, <2>2 DEF ChannelInv
  <1>14. ReaderInv'
    <2>1. msg \in Lines <=> feedPc' \in {"load", "post"}
      BY <1>1 DEF ReaderInv
    <2>2. feedPc' = "post" => feedPc = "post"
      OBVIOUS
    <2>3. QED
      BY <1>1, <2>1, <2>2 DEF ReaderInv
  <1>15. ASSUME NEW t, Sound(t, written, Coming)
         PROVE  Sound(t, written', Coming')
    <2>1. \A b \in Coming' : b \in Coming \/ b[2] > written[b[1]]
      BY <1>3, <1>4, <1>10
    <2>2. Coming' \subseteq Lines
      BY <1>2, <1>4, <1>10
    <2>3. Later(written, Coming, written', Coming')
      BY <1>3, <2>1, <2>2 DEF Later
    <2>4. QED
      BY <1>15, <2>3, SoundLater
  <1>16. TextInv'
    BY <1>1, <1>15 DEF TextInv
  <1>17. QED
    BY <1>11, <1>13, <1>14, <1>16 DEF FeedInv

LEMMA WritersKeep ==
    ASSUME FeedInv, Boot \/ \E w \in Writers : logToUI(w)
    PROVE  FeedInv'
  <1>1. written \in [Writers \cup {"main"} -> Nat]
    BY DEF FeedInv, FeedTypeOK
  <1>2. CASE Boot
    <2> DEFINE c == <<"main", written["main"] + 1>>
    <2>1. written' = [written EXCEPT !["main"] = @ + 1] /\ written'["main"] = written["main"] + 1
      BY <1>1, <1>2 DEF Boot
    <2>2. c \in Lines
      <3>1. written["main"] + 1 \in 1..BootLines
        BY <1>1, <1>2, FeedAssumption DEF Boot, FeedAssumption
      <3>2. QED
        BY <3>1 DEF Lines
    <2>3. /\ Len(UIConsoleChan) < Capacity /\ UIConsoleChan' = Append(UIConsoleChan, c)
          /\ owed' \subseteq owed \cup {c}
          /\ UNCHANGED <<feedPc, msg, loaded, posted, storing, pointer, length>>
      BY <1>2, <2>1 DEF Boot
    <2> HIDE DEF c
    <2>4. QED
      BY <2>1, <2>2, <2>3, WriteKeeps DEF c
  <1>3. ASSUME NEW w \in Writers, logToUI(w)
        PROVE  FeedInv'
    <2> DEFINE c == <<w, written[w] + 1>>
    <2>1. written' = [written EXCEPT ![w] = @ + 1] /\ written'[w] = written[w] + 1
      BY <1>1, <1>3 DEF logToUI
    <2>2. c \in Lines
      <3>1. written[w] + 1 \in 1..MaxLines
        BY <1>1, <1>3, FeedAssumption DEF logToUI, FeedAssumption
      <3>2. QED
        BY <3>1 DEF Lines
    <2>3. /\ \/ /\ Len(UIConsoleChan) < Capacity
                /\ UIConsoleChan' = Append(UIConsoleChan, c)
             \/ UNCHANGED UIConsoleChan
          /\ owed' \subseteq owed \cup {c}
          /\ UNCHANGED <<feedPc, msg, loaded, posted, storing, pointer, length>>
      BY <1>3, <2>1 DEF logToUI, Enqueue
    <2> HIDE DEF c
    <2>4. QED
      BY <2>1, <2>2, <2>3, WriteKeeps DEF c
  <1>4. QED
    BY <1>2, <1>3

\* The goroutine takes the first line of the channel, which is before the others.
LEMMA ReceiveKeeps ==
    ASSUME FeedInv, Receive
    PROVE  FeedInv'
  <1> DEFINE old == UIConsoleChan
             new == UIConsoleChan'
  <1>1. FeedTypeOK /\ ChannelInv /\ ReaderInv /\ TextInv
    BY DEF FeedInv
  <1>2. /\ feedPc = "receive" /\ old # <<>>
        /\ msg' = Head(old) /\ new = Tail(old) /\ loaded' = <<>> /\ feedPc' = "load"
        /\ UNCHANGED <<written, posted, storing, pointer, length, owed>>
    BY DEF Receive
  <1>3. old \in Seq(Lines) /\ Len(old) \in Nat /\ Len(old) >= 1 /\ Len(old) <= Capacity
    BY <1>1, <1>2, LenProperties, EmptySeq DEF FeedTypeOK
  <1>4. /\ msg' \in Lines /\ msg' = old[1]
        /\ new \in Seq(Lines) /\ Len(new) = Len(old) - 1
        /\ \A i \in 1..Len(new) : new[i] = old[i + 1] /\ i + 1 \in 1..Len(old)
    <2>1. Head(old) = old[1]
      BY <1>3
    <2>2. QED
      BY <1>2, <1>3, <2>1, HeadTailProperties
  <1> HIDE DEF old, new
  <1>5. Coming' \subseteq Coming
    <2>1. msg' \in InChannel
      BY <1>3, <1>4 DEF InChannel, old
    <2>2. InChannel' \subseteq InChannel
      BY <1>4 DEF InChannel, old, new
    <2>3. QED
      BY <2>1, <2>2 DEF Coming
  <1>6. DOMAIN loaded' = {}
    BY <1>2
  <1>7. FeedTypeOK'
    <2>1. Len(new) <= Capacity
      BY <1>3, <1>4, FeedAssumption DEF FeedAssumption
    <2>2. QED
      BY <1>1, <1>2, <1>4, <1>6, <2>1 DEF FeedTypeOK, new
  <1>8. ChannelInv'
    <2>1. Ordered(old)
      BY <1>1 DEF ChannelInv, old
    <2>2. Ordered(new)
      <3>1. SUFFICES ASSUME NEW i \in 1..Len(new), NEW j \in 1..Len(new), i < j,
                            new[i][1] = new[j][1], new[i] # Garbage
                     PROVE  new[i][2] < new[j][2]
        BY DEF Ordered
      <3>2. i + 1 \in 1..Len(old) /\ j + 1 \in 1..Len(old) /\ i + 1 < j + 1
        BY <1>4, <3>1
      <3>3. QED
        BY <1>4, <2>1, <3>1, <3>2 DEF Ordered
    <2>3. ASSUME NEW a \in InChannel', a[1] = msg'[1]
          PROVE  msg'[2] < a[2]
      <3>1. PICK i \in 1..Len(new) : a = new[i]
        BY DEF InChannel, new
      <3>2. a = old[i + 1] /\ i + 1 \in 1..Len(old) /\ 1 \in 1..Len(old) /\ 1 < i + 1
        BY <1>3, <1>4, <3>1
      <3>3. msg' # Garbage
        BY <1>4, LineFacts
      <3>4. QED
        BY <1>4, <2>1, <2>3, <3>2, <3>3 DEF Ordered
    <2>4. \A a \in Coming' : a[2] <= written'[a[1]]
      BY <1>1, <1>2, <1>5 DEF ChannelInv
    <2>5. QED
      BY <2>2, <2>3, <2>4 DEF ChannelInv, new
  <1>9. ReaderInv'
    BY <1>1, <1>2, <1>4, <1>6 DEF ReaderInv
  <1>10. TextInv'
    <2>1. Later(written, Coming, written', Coming')
      BY <1>1, <1>2, <1>5, ComingLines DEF Later, FeedTypeOK
    <2>2. QED
      BY <1>1, <1>2, <1>6, <2>1, SoundLater DEF TextInv
  <1>11. QED
    BY <1>7, <1>8, <1>9, <1>10 DEF FeedInv

\* It loads one of the two words, of whatever text has it then.
LEMMA LoadKeeps ==
    ASSUME FeedInv, NEW word \in Words, Load(word)
    PROVE  FeedInv'
  <1>1. FeedTypeOK /\ ChannelInv /\ ReaderInv /\ TextInv
    BY DEF FeedInv
  <1>2. /\ feedPc = "load" /\ feedPc' \in {"load", "post"}
        /\ feedPc' = "post" => DOMAIN loaded' = Words
        /\ UNCHANGED <<written, UIConsoleChan, msg, posted, storing, pointer, length, owed>>
    BY DEF Load
  <1>3. /\ DOMAIN loaded' = DOMAIN loaded \cup {word}
        /\ \A w \in DOMAIN loaded' :
              loaded'[w] = IF w # word THEN loaded[w]
                           ELSE IF w = "pointer" THEN pointer ELSE length
    BY DEF Load
  <1>4. FeedTypeOK'
    BY <1>1, <1>2, <1>3 DEF FeedTypeOK
  <1>5. Coming' = Coming /\ InChannel' = InChannel
    BY <1>2 DEF Coming, InChannel
  <1>6. ChannelInv'
    BY <1>1, <1>2, <1>5 DEF ChannelInv
  <1>7. ReaderInv'
    <2>1. "length" \in DOMAIN loaded' => loaded'["length"] \in 0..FeedLimit
      BY <1>1, <1>3 DEF ReaderInv, FeedTypeOK
    <2>2. QED
      BY <1>1, <1>2, <2>1 DEF ReaderInv
  <1>8. TextInv'
    <2>1. "pointer" \in DOMAIN loaded' => Sound(loaded'["pointer"], written, Coming)
      BY <1>1, <1>3 DEF TextInv
    <2>2. QED
      BY <1>1, <1>2, <1>5, <2>1 DEF TextInv
  <1>9. QED
    BY <1>4, <1>6, <1>7, <1>8 DEF FeedInv

\* What it has joined, the line behind it, is sound and short enough.
LEMMA PostKeeps ==
    ASSUME FeedInv, Post
    PROVE  FeedInv'
  <1> DEFINE joined == StringOf(loaded["pointer"], loaded["length"])
             text == Cut(WithLine(joined, msg))
  <1>1. FeedTypeOK /\ ChannelInv /\ ReaderInv /\ TextInv
    BY DEF FeedInv
  <1>2. /\ feedPc = "post" /\ posted' = Append(posted, text)
        /\ msg' = NoLine /\ loaded' = <<>> /\ feedPc' = "receive"
        /\ UNCHANGED <<written, UIConsoleChan, storing, pointer, length, owed>>
    BY DEF Post
  <1>3. msg \in Lines /\ msg # NoLine /\ NoLine \notin Lines /\ DOMAIN loaded' = {}
    BY <1>1, <1>2, LineFacts DEF ReaderInv
  <1>4. Coming = InChannel \cup {msg} /\ Coming' = InChannel /\ InChannel' = InChannel
    BY <1>2, <1>3 DEF Coming, InChannel
  <1>5. /\ Sound(loaded["pointer"], written, Coming)
        /\ loaded["length"] \in 0..FeedLimit
    BY <1>1, <1>2 DEF ReaderInv, TextInv, Words
  <1>6. loaded["length"] \in Nat /\ loaded["length"] <= FeedLimit /\ FeedLimit \in Nat
    BY <1>5, FeedAssumption DEF FeedAssumption
  <1>7. Sound(joined, written, InChannel \cup {msg}) /\ Len(joined) = loaded["length"]
    BY <1>4, <1>5, <1>6, StringOfSound
  <1>8. Past(msg, written, InChannel)
    BY <1>1, <1>3, <1>4 DEF ChannelInv, Past
  <1> HIDE DEF joined
  <1>9. /\ Sound(WithLine(joined, msg), written, InChannel)
        /\ Len(WithLine(joined, msg)) = loaded["length"] + 1
    BY <1>3, <1>7, <1>8, WithLineSound
  <1>10. Sound(text, written, InChannel) /\ Len(text) <= FeedLimit
    BY <1>6, <1>9, CutSound
  <1> HIDE DEF text
  <1>11. /\ posted' \in Seq(Seq(Pieces)) /\ Len(posted') = Len(posted) + 1
         /\ \A i \in 1..Len(posted) : posted'[i] = posted[i]
         /\ posted'[Len(posted) + 1] = text
         /\ Len(posted) \in Nat /\ posted' # <<>>
    <2>1. posted \in Seq(Seq(Pieces)) /\ text \in Seq(Pieces)
      BY <1>1, <1>10 DEF FeedTypeOK, Pieces, Sound
    <2>2. QED
      BY <1>2, <2>1, AppendProperties, LenProperties
  <1>12. FeedTypeOK'
    BY <1>1, <1>2, <1>3, <1>11 DEF FeedTypeOK, Pieces
  <1>13. ChannelInv'
    BY <1>1, <1>2, <1>4 DEF ChannelInv
  <1>14. ReaderInv'
    BY <1>1, <1>2, <1>3, <1>11 DEF ReaderInv
  <1>15. TextInv'
    <2>1. Later(written, Coming, written', Coming')
      BY <1>1, <1>2, <1>4, ComingLines DEF Later, FeedTypeOK
    <2>2. ASSUME NEW i \in 1..Len(posted')
          PROVE  Sound(posted'[i], written', Coming') /\ Len(posted'[i]) <= FeedLimit
      <3>1. CASE i \in 1..Len(posted)
        BY <1>1, <1>11, <2>1, <3>1, SoundLater DEF TextInv
      <3>2. CASE i \notin 1..Len(posted)
        <4>1. posted'[i] = text
          BY <1>11, <2>2, <3>2
        <4>2. QED
          BY <1>2, <1>4, <1>10, <4>1
      <3>3. QED
        BY <3>1, <3>2
    <2>3. Sound(pointer', written', Coming')
      BY <1>1, <1>2, <2>1, SoundLater DEF TextInv
    <2>4. QED
      BY <1>3, <2>2, <2>3 DEF TextInv
  <1>16. QED
    BY <1>12, <1>13, <1>14, <1>15 DEF FeedInv

\* The UI thread stores the words of a text that waits.
LEMMA StoreKeeps ==
    ASSUME FeedInv, NEW word \in Words, Store(word)
    PROVE  FeedInv'
  <1>1. FeedTypeOK /\ ChannelInv /\ ReaderInv /\ TextInv
    BY DEF FeedInv
  <1>2. /\ word \in storing /\ storing' = storing \ {word}
        /\ pointer' \in {pointer, Head(posted)}
        /\ length' \in {length, Len(Head(posted))}
        /\ posted' = IF storing' = {} THEN Tail(posted) ELSE posted
        /\ owed' \subseteq owed
        /\ UNCHANGED <<written, UIConsoleChan, feedPc, msg, loaded>>
    BY DEF Store
  <1>3. posted \in Seq(Seq(Pieces)) /\ posted # <<>> /\ Len(posted) \in Nat /\ Len(posted) >= 1
    <2>1. posted \in Seq(Seq(Pieces)) /\ posted # <<>>
      BY <1>1, <1>2 DEF FeedTypeOK, ReaderInv, Pieces
    <2>2. QED
      BY <2>1, EmptySeq
  <1>4. /\ Head(posted) = posted[1] /\ 1 \in 1..Len(posted)
        /\ Head(posted) \in Seq(Pieces)
        /\ Tail(posted) \in Seq(Seq(Pieces))
        /\ \A i \in 1..Len(Tail(posted)) :
              i + 1 \in 1..Len(posted) /\ Tail(posted)[i] = posted[i + 1]
    BY <1>3, HeadTailProperties
  <1>5. Sound(Head(posted), written, Coming) /\ Len(Head(posted)) <= FeedLimit
    BY <1>1, <1>4 DEF TextInv
  <1>6. Coming' = Coming /\ InChannel' = InChannel
    BY <1>2 DEF Coming, InChannel
  <1>7. FeedTypeOK'
    <2>1. Len(Head(posted)) \in 0..FeedLimit
      <3>1. Len(Head(posted)) \in Nat
        BY <1>4, LenProperties
      <3>2. QED
        BY <1>5, <3>1, FeedAssumption DEF FeedAssumption
    <2>2. length' \in 0..FeedLimit /\ pointer' \in Seq(Pieces) /\ posted' \in Seq(Seq(Pieces))
      BY <1>1, <1>2, <1>3, <1>4, <2>1 DEF FeedTypeOK, Pieces
    <2>3. QED
      BY <1>1, <1>2, <2>2 DEF FeedTypeOK, Pieces
  <1>8. ChannelInv'
    BY <1>1, <1>2, <1>6 DEF ChannelInv
  <1>9. ReaderInv'
    BY <1>1, <1>2, <1>3 DEF ReaderInv
  <1>10. TextInv'
    <2>1. \A i \in 1..Len(posted') :
             Sound(posted'[i], written, Coming) /\ Len(posted'[i]) <= FeedLimit
      <3>1. CASE storing' = {}
        <4>1. posted' = Tail(posted)
          BY <1>2, <3>1
        <4>2. QED
          BY <1>1, <1>4, <4>1 DEF TextInv
      <3>2. CASE storing' # {}
        BY <1>1, <1>2, <3>2 DEF TextInv
      <3>3. QED
        BY <3>1, <3>2
    <2>2. Sound(pointer', written, Coming)
      BY <1>1, <1>2, <1>5 DEF TextInv
    <2>3. QED
      BY <1>1, <1>2, <1>6, <2>1, <2>2 DEF TextInv
  <1>11. QED
    BY <1>7, <1>8, <1>9, <1>10 DEF FeedInv

LEMMA RestKeeps ==
    ASSUME FeedInv, Open \/ TakeClosure \/ UNCHANGED feedVars
    PROVE  FeedInv'
  <1>1. FeedTypeOK /\ ChannelInv /\ ReaderInv /\ TextInv
    BY DEF FeedInv
  <1>2. /\ UNCHANGED <<written, UIConsoleChan, msg, loaded, posted, pointer, length, owed>>
        /\ feedPc' = feedPc \/ (feedPc = "boot" /\ feedPc' = "receive")
        /\ storing' = storing \/ (storing' = Words /\ posted # <<>>)
    BY DEF Open, TakeClosure, feedVars
  <1>3. Coming' = Coming /\ InChannel' = InChannel
    BY <1>2 DEF Coming, InChannel
  <1>4. FeedTypeOK' /\ ChannelInv'
    BY <1>1, <1>2, <1>3 DEF FeedTypeOK, ChannelInv
  <1>5. ReaderInv'
    BY <1>1, <1>2 DEF ReaderInv
  <1>6. TextInv'
    BY <1>1, <1>2, <1>3 DEF TextInv
  <1>7. QED
    BY <1>4, <1>5, <1>6 DEF FeedInv

LEMMA FeedInductive == FeedInv /\ [FeedNext]_feedVars => FeedInv'
  BY WritersKeep, ReceiveKeeps, LoadKeeps, PostKeeps, StoreKeeps, RestKeeps
  DEF FeedNext, FeedReads, FeedShows

LEMMA FeedAlways == FeedSpec => []FeedInv
  BY FeedStart, FeedInductive, PTL DEF FeedSpec

\* The variables of the console feed keep their types; the length of the text that
\* is shown never exceeds the limit.
THEOREM FeedTypeCorrect == FeedSpec => []FeedTypeOK
  <1>1. FeedInv => FeedTypeOK
    BY DEF FeedInv
  <1>2. QED
    BY <1>1, FeedAlways, PTL

LEMMA FeedOrdered == FeedInv => FeedInOrder
  <1>1. SUFFICES ASSUME FeedInv
                 PROVE  FeedInOrder
    OBVIOUS
  <1>2. Sound(pointer, written, Coming) /\ length \in Nat
    BY <1>1 DEF FeedInv, FeedTypeOK, TextInv
  <1>3. Ordered(consoleFeedText) /\ Len(consoleFeedText) = length
    BY <1>2, StringOfSound DEF Sound, consoleFeedText
  <1>4. QED
    BY <1>3 DEF Ordered, FeedInOrder

\* A text made of an older and a newer one still shows the lines of a goroutine in
\* their order, and none twice: every text the goroutine can load is made of lines
\* from before the one it appends (ShowDashboard's goroutine, currentText).
THEOREM LinesInOrder == FeedSpec => []FeedInOrder
  BY FeedOrdered, FeedAlways, PTL

LEMMA FeedShort == FeedInv => FeedBounded
  <1>1. SUFFICES ASSUME FeedInv
                 PROVE  FeedBounded
    OBVIOUS
  <1>2. DOMAIN posted = 1..Len(posted)
    BY <1>1, LenProperties DEF FeedInv, FeedTypeOK
  <1>3. length <= FeedLimit
    BY <1>1, FeedAssumption DEF FeedInv, FeedTypeOK, FeedAssumption
  <1>4. QED
    BY <1>1, <1>2, <1>3 DEF FeedInv, TextInv, FeedBounded

\* No text grows beyond the limit, those that wait for the UI thread included,
\* even when it runs on into the memory behind a text.
THEOREM TextsStayShort == FeedSpec => []FeedBounded
  BY FeedShort, FeedAlways, PTL

-----------------------------------------------------------------------------
(* The theme drop-down *)

Dark(lang) == Text(lang, "theme_dark")
Light(lang) == Text(lang, "theme_light")

\* The options are those of the language, one of them is selected, and the
\* application is drawn in the theme that stands for.
ThemeInv ==
    /\ PrefTypeOK
    /\ themeOptions = <<Dark(currentLang), Light(currentLang)>>
    /\ themeSelected \in {Dark(currentLang), Light(currentLang)}
    /\ appTheme = ThemeOf(themeSelected, currentLang)

\* Whatever a locale has entries for, the two names differ.
LEMMA ThemeNames ==
    ASSUME NEW lang \in Languages
    PROVE  /\ Dark(lang) \in Languages \X ThemeKeys /\ Light(lang) \in Languages \X ThemeKeys
           /\ Dark(lang) # Light(lang)
  <1>1. "en" \in Languages
    BY LanguagesAssumption DEF LanguagesAssumption
  <1>2. ASSUME NEW key \in ThemeKeys
        PROVE  Text(lang, key) \in Languages \X ThemeKeys /\ Text(lang, key)[2] = key
    <2>1. Text(lang, key) \in {<<lang, key>>, <<"en", key>>}
      BY DEF Text
    <2>2. <<lang, key>> \in Languages \X ThemeKeys /\ <<"en", key>> \in Languages \X ThemeKeys
      BY <1>1
    <2>3. QED
      BY <2>1, <2>2
  <1>3. "theme_dark" \in ThemeKeys /\ "theme_light" \in ThemeKeys
    BY DEF ThemeKeys
  <1>4. /\ Dark(lang) \in Languages \X ThemeKeys /\ Dark(lang)[2] = "theme_dark"
        /\ Light(lang) \in Languages \X ThemeKeys /\ Light(lang)[2] = "theme_light"
    BY <1>2, <1>3 DEF Dark, Light
  <1>5. QED
    BY <1>4

LEMMA Positions ==
    ASSUME NEW a, NEW b, a # b
    PROVE  IndexIn(<<a, b>>, a) = 1 /\ IndexIn(<<a, b>>, b) = 2
  <1> DEFINE o == <<a, b>>
             First(i, x) == o[i] = x /\ \A j \in 1..(i - 1) : o[j] # x
  <1>1. DOMAIN o = {1, 2} /\ o[1] = a /\ o[2] = b
    OBVIOUS
  <1>2. First(1, a) /\ (\A i \in DOMAIN o : First(i, a) => i = 1)
    BY <1>1
  <1>3. First(2, b) /\ (\A i \in DOMAIN o : First(i, b) => i = 2)
    BY <1>1
  <1>4. (CHOOSE i \in DOMAIN o : First(i, a)) = 1
    <2> HIDE DEF First
    <2>1. QED
      BY <1>1, <1>2
  <1>5. (CHOOSE i \in DOMAIN o : First(i, b)) = 2
    <2> HIDE DEF First
    <2>1. QED
      BY <1>1, <1>3
  <1>6. IndexIn(o, a) = (CHOOSE i \in DOMAIN o : First(i, a))
    BY <1>1 DEF IndexIn
  <1>7. IndexIn(o, b) = (CHOOSE i \in DOMAIN o : First(i, b))
    BY <1>1 DEF IndexIn
  <1>8. QED
    BY <1>4, <1>5, <1>6, <1>7

\* A refresh selects the name of the same theme in the language it is for.
LEMMA RefreshKeeps ==
    ASSUME ThemeInv, NEW lang \in Languages,
           NEW selected \in {Dark(currentLang), Light(currentLang)},
           Refresh(lang, selected), currentLang' = lang
    PROVE  ThemeInv' /\ appTheme' = ThemeOf(selected, currentLang)
  <1>1. currentLang \in Languages
    BY DEF ThemeInv, PrefTypeOK
  <1>2. /\ themeOptions' = <<Dark(lang), Light(lang)>>
        /\ themeSelected' = <<Dark(lang), Light(lang)>>[IndexIn(themeOptions, selected)]
        /\ appTheme' = ThemeOf(themeSelected', lang)
    BY DEF Refresh, Dark, Light
  <1>3. IndexIn(themeOptions, selected) = IF selected = Dark(currentLang) THEN 1 ELSE 2
    BY <1>1, ThemeNames, Positions DEF ThemeInv
  <1>4. themeSelected' = IF selected = Dark(currentLang) THEN Dark(lang) ELSE Light(lang)
    BY <1>2, <1>3
  <1>5. appTheme' = IF selected = Dark(currentLang) THEN "dark" ELSE "light"
    BY <1>1, <1>2, <1>4, ThemeNames DEF ThemeOf, Dark
  <1>6. PrefTypeOK'
    <2>1. themeSelected' \in Languages \X ThemeKeys
      BY <1>4, ThemeNames
    <2>2. themeOptions' \in Seq(Languages \X ThemeKeys)
      BY <1>2, ThemeNames
    <2>3. QED
      BY <1>5, <2>1, <2>2 DEF PrefTypeOK, Themes
  <1>7. themeOptions' = <<Dark(currentLang'), Light(currentLang')>>
    BY <1>2
  <1>8. themeSelected' \in {Dark(currentLang'), Light(currentLang')}
    BY <1>4
  <1>9. appTheme' = ThemeOf(themeSelected', currentLang')
    BY <1>2
  <1>10. QED
    BY <1>5, <1>6, <1>7, <1>8, <1>9 DEF ThemeInv, ThemeOf, Dark, Light

LEMMA ThemeStart == PrefInit => ThemeInv
  <1> SUFFICES ASSUME PrefInit
               PROVE  ThemeInv
    OBVIOUS
  <1>1. currentLang = "en" /\ currentLang \in Languages
    BY LanguagesAssumption DEF PrefInit, LanguagesAssumption
  <1>2. /\ themeOptions = <<Dark(currentLang), Light(currentLang)>>
        /\ themeSelected = Dark(currentLang) /\ appTheme = "dark"
    BY DEF PrefInit, T, Dark, Light
  <1>3. PrefTypeOK
    BY <1>1, <1>2, ThemeNames DEF PrefTypeOK, Themes
  <1>4. QED
    BY <1>2, <1>3 DEF ThemeInv, ThemeOf, Dark

LEMMA ThemeStep ==
    ASSUME ThemeInv, [PrefNext]_prefVars
    PROVE  ThemeInv' /\ (currentLang' # currentLang => appTheme' = appTheme)
  <1>1. ASSUME NEW i \in DOMAIN themeOptions, ChooseTheme(i)
        PROVE  ThemeInv' /\ currentLang' = currentLang
    <2>1. themeOptions[i] \in {Dark(currentLang), Light(currentLang)}
      BY <1>1 DEF ThemeInv
    <2>2. QED
      BY <1>1, <2>1, RefreshKeeps DEF ChooseTheme, ThemeInv, PrefTypeOK
  <1>2. ASSUME NEW lang \in Languages, ChooseLanguage(lang)
        PROVE  ThemeInv' /\ appTheme' = appTheme
    BY <1>2, RefreshKeeps DEF ChooseLanguage, ThemeInv
  <1>3. CASE UNCHANGED prefVars
    BY <1>3 DEF prefVars, ThemeInv, PrefTypeOK
  <1>4. QED
    BY <1>1, <1>2, <1>3 DEF PrefNext

\* Another language never changes the theme, whichever texts its locale lacks
\* (refreshUIStrings looks up the selection among the old options before it
\* replaces them).
THEOREM LanguageKeepsTheme == PrefSpec => ThemeKept
  <1>1. ThemeInv /\ [PrefNext]_prefVars => ThemeInv'
    BY ThemeStep
  <1>2. ThemeInv /\ [PrefNext]_prefVars =>
            [currentLang' # currentLang => appTheme' = appTheme]_prefVars
    BY ThemeStep
  <1>3. QED
    BY <1>1, <1>2, ThemeStart, PTL DEF PrefSpec, ThemeKept
-----------------------------------------------------------------------------
(* The status labels *)

PanelInv == PanelTypeOK /\ ThemeInv

LEMMA PanelStart == PanelInit => PanelInv
  <1> SUFFICES ASSUME PanelInit
               PROVE  PanelInv
    OBVIOUS
  <1>1. ThemeInv
    BY ThemeStart DEF PanelInit
  <1>2. <<"querying", "en">> \in Shown
    BY LanguagesAssumption DEF LanguagesAssumption, Shown, Values
  <1>3. \A r \in Readers : at[r] \in {"mode", "idle"} /\ seen[r] = Found
    BY DEF PanelInit
  <1>4. \A r \in Readers : seen[r] \in [settings : SettingsFound(at[r]), stopped : SUBSET Names]
    BY <1>3 DEF SettingsFound, Found
  <1>5. /\ at["telemetry"] = "mode" /\ \A c \in Toggles : at[c] = "idle"
    BY PanelAssumption DEF PanelInit, PanelAssumption, Readers
  <1>6. \A s \in Names : s \notin {"idle"}
    BY DEF Names, Services
  <1>7. updates \in Seq(Updates) /\ Len(updates) <= MaxUpdates /\ events \in 0..MaxEvents
    BY PanelAssumption DEF PanelInit, PanelAssumption
  <1>8. setting \in [Settings -> {"missing", "disabled", "enabled"}]
    BY DEF PanelInit, Settings
  <1>9. PanelTypeOK
    BY <1>1, <1>2, <1>4, <1>5, <1>6, <1>7, <1>8
    DEF PanelInit, PanelTypeOK, ReadersOK, Places, ThemeInv, PanelModes, Labels
  <1>10. QED
    BY <1>1, <1>9 DEF PanelInv

LEMMA PanelEventType ==
    ASSUME PanelTypeOK, Event \/ UNCHANGED events
    PROVE  events' \in 0..MaxEvents
  BY PanelAssumption DEF PanelAssumption, Event, PanelTypeOK

\* The names of the services are no places.
LEMMA ServiceNames ==
    /\ Names = {"wuauserv", "DiagTrack", "SysMain"}
    /\ DOMAIN Services = 1..3 /\ Len(Services) = 3
    /\ \A i \in 1..3 : Services[i] \in Names
  <1>1. DOMAIN Services = 1..3 /\ Len(Services) = 3
    BY DEF Services
  <1>2. Services[1] = "wuauserv" /\ Services[2] = "DiagTrack" /\ Services[3] = "SysMain"
    BY DEF Services
  <1>3. QED
    BY <1>1, <1>2 DEF Names

\* A reader moves on, and what it has found fits its new place.
LEMMA ReaderMoves ==
    ASSUME PanelTypeOK, NEW r \in Readers, NEW place, NEW finding,
           place \in Places,
           r = "telemetry" => place \notin {"idle", "get", "set"},
           r # "telemetry" => place \notin {"hud"} \cup Names,
           finding \in [settings : SettingsFound(place), stopped : SUBSET Names],
           at' = [at EXCEPT ![r] = place],
           seen' = [seen EXCEPT ![r] = finding]
    PROVE  ReadersOK'
  <1>1. DOMAIN seen = Readers /\ DOMAIN at = Readers
    BY DEF PanelTypeOK, ReadersOK
  <1>2. /\ at'[r] = place /\ seen'[r] = finding /\ DOMAIN seen' = Readers
        /\ \A q \in Readers \ {r} : at'[q] = at[q] /\ seen'[q] = seen[q]
    BY <1>1
  <1>3. "telemetry" \in Readers /\ \A c \in Toggles : c \in Readers /\ c # "telemetry"
    BY PanelAssumption DEF PanelAssumption, Readers
  <1>4. \A q \in Readers : seen'[q] \in [settings : SettingsFound(at'[q]), stopped : SUBSET Names]
    BY <1>2 DEF PanelTypeOK, ReadersOK
  <1>5. at'["telemetry"] \notin {"idle", "get", "set"}
    BY <1>2, <1>3 DEF PanelTypeOK, ReadersOK
  <1>6. \A c \in Toggles : at'[c] \notin {"hud"} \cup Names
    BY <1>2, <1>3 DEF PanelTypeOK, ReadersOK
  <1>7. QED
    BY <1>2, <1>4, <1>5, <1>6 DEF PanelTypeOK, ReadersOK

\* The buttons: pressed, the setting read, the setting written.
LEMMA ToggleKeeps ==
    ASSUME PanelInv, NEW c \in Toggles,
           (\E button \in Settings : Click(c, button)) \/ Get(c) \/ Set(c)
    PROVE  PanelInv'
  <1> USE DEF worldVars
  <1>1. PanelTypeOK
    BY DEF PanelInv
  <1>2. c \in Readers /\ c # "telemetry" /\ DOMAIN seen = Readers
    BY <1>1, PanelAssumption DEF PanelAssumption, Readers, PanelTypeOK, ReadersOK
  <1>3. events' \in 0..MaxEvents
    BY <1>1, PanelEventType DEF Click, Get, Set
  <1>4. seen[c] \in [settings : SettingsFound(at[c]), stopped : SUBSET Names]
    BY <1>1, <1>2 DEF PanelTypeOK, ReadersOK
  <1>5. "get" \notin Names /\ "set" \notin Names /\ "mode" \notin Names /\ "idle" \notin Names
    BY ServiceNames
  <1>6. setting' \in [Settings -> {"missing", "disabled", "enabled"}]
    <2>1. CASE setting' = setting
      BY <1>1, <2>1 DEF PanelTypeOK, ReadersOK
    <2>2. CASE \E b, v : v \in {"disabled", "enabled"} /\ setting' = [setting EXCEPT ![b] = v]
      BY <1>1, <2>2 DEF PanelTypeOK, ReadersOK
    <2>3. QED
      BY <2>1, <2>2 DEF Click, Get, Set
  <1>7. PICK place \in {"get", "set", "mode", "idle"} :
           /\ at' = [at EXCEPT ![c] = place]
           /\ \E finding \in [settings : SettingsFound(place), stopped : SUBSET Names] :
                 seen' = [seen EXCEPT ![c] = finding]
    <2>1. ASSUME NEW button \in Settings, Click(c, button)
          PROVE  /\ at' = [at EXCEPT ![c] = "get"]
                 /\ \E finding \in [settings : SettingsFound("get"), stopped : SUBSET Names] :
                       seen' = [seen EXCEPT ![c] = finding]
      <3>1. [button |-> button] \in SettingsFound("get")
        BY DEF SettingsFound
      <3>2. [seen[c] EXCEPT !.settings = [button |-> button]]
               \in [settings : SettingsFound("get"), stopped : SUBSET Names]
        BY <1>4, <3>1
      <3>3. seen' = [seen EXCEPT ![c] = [seen[c] EXCEPT !.settings = [button |-> button]]]
        BY <1>2, <2>1 DEF Click
      <3>4. QED
        BY <2>1, <3>2, <3>3 DEF Click
    <2>2. ASSUME Get(c)
          PROVE  /\ at' = [at EXCEPT ![c] = "set"]
                 /\ \E finding \in [settings : SettingsFound("set"), stopped : SUBSET Names] :
                       seen' = [seen EXCEPT ![c] = finding]
      <3>1. seen[c].settings \in [button : Settings]
        BY <1>4, <2>2 DEF Get, SettingsFound
      <3>2. PICK current \in {"missing", "disabled", "enabled"} :
               seen' = [seen EXCEPT ![c].settings =
                           [button |-> seen[c].settings.button, current |-> current]]
        <4>1. /\ seen[c].settings.button \in Settings
              /\ setting[seen[c].settings.button] \in {"missing", "disabled", "enabled"}
              /\ Unread[seen[c].settings.button] \in {"missing", "disabled", "enabled"}
          BY <1>1, <3>1 DEF PanelTypeOK, Unread, Settings
        <4>2. QED
          BY <2>2, <4>1 DEF Get
      <3> DEFINE found == [button |-> seen[c].settings.button, current |-> current]
      <3>3. found \in SettingsFound("set")
        BY <3>1 DEF SettingsFound
      <3>4. [seen[c] EXCEPT !.settings = found]
               \in [settings : SettingsFound("set"), stopped : SUBSET Names]
        BY <1>4, <3>3
      <3>5. seen' = [seen EXCEPT ![c] = [seen[c] EXCEPT !.settings = found]]
        BY <1>2, <3>2
      <3>6. QED
        BY <2>2, <3>4, <3>5 DEF Get
    <2>3. ASSUME Set(c)
          PROVE  \E place \in {"mode", "idle"} :
                   /\ at' = [at EXCEPT ![c] = place]
                   /\ \E finding \in [settings : SettingsFound(place), stopped : SUBSET Names] :
                         seen' = [seen EXCEPT ![c] = finding]
      <3>1. \A place \in {"mode", "idle"} :
               Found \in [settings : SettingsFound(place), stopped : SUBSET Names]
        BY DEF Found, SettingsFound
      <3>2. QED
        BY <2>3, <3>1 DEF Set
    <2>4. QED
      BY <2>1, <2>2, <2>3
  <1>8. ReadersOK'
    BY <1>1, <1>2, <1>5, <1>7, ReaderMoves DEF Places
  <1>9. UNCHANGED <<prefVars, mode, stopped, servicesFrozen, ticked, updates, labels>>
    BY DEF Click, Get, Set
  <1>10. ThemeInv'
    BY <1>9, ThemeStep DEF PanelInv
  <1>11. QED
    BY <1>1, <1>3, <1>6, <1>8, <1>9, <1>10
    DEF PanelInv, PanelTypeOK, ThemeInv

\* The mode, the services and the language change around the readers.
LEMMA WorldKeeps ==
    ASSUME PanelInv, WorldChanges
    PROVE  PanelInv'
  <1>1. PanelTypeOK
    BY DEF PanelInv
  <1>2. events' \in 0..MaxEvents
    BY <1>1, PanelEventType DEF WorldChanges
  <1>3. /\ mode' \in PanelModes /\ stopped' \subseteq Names /\ servicesFrozen' \in BOOLEAN
        /\ UNCHANGED prefVars \/ \E lang \in Languages : ChooseLanguage(lang)
    BY <1>1 DEF WorldChanges, PanelTypeOK
  <1>4. ThemeInv'
    BY <1>3, ThemeStep DEF PanelInv, PrefNext
  <1>5. UNCHANGED <<setting, at, seen, ticked, updates, labels>>
    BY DEF WorldChanges
  <1>6. QED
    BY <1>1, <1>2, <1>3, <1>4, <1>5 DEF PanelInv, PanelTypeOK, ReadersOK, ThemeInv

\* A text is added to what a reader has found.
LEMMA SeesMore ==
    ASSUME NEW r \in Readers, DOMAIN seen = Readers,
           NEW D \in SUBSET Labels, NEW label \in Labels, NEW value \in Shown,
           seen[r].settings \in [D -> Shown] \/ (D = {} /\ seen[r].settings = <<>>),
           seen[r] \in [settings : {seen[r].settings}, stopped : SUBSET Names],
           Sees(r, label, value)
    PROVE  \E f \in [D \cup {label} -> Shown] :
               seen' = [seen EXCEPT ![r] = [settings |-> f, stopped |-> seen[r].stopped]]
  <1> DEFINE old == seen[r].settings
             f == [l \in D \cup {label} |-> IF l = label THEN value ELSE old[l]]
  <1>1. DOMAIN old = D
    <2>1. DOMAIN <<>> = {}
      <3>1. <<>> \in Seq(Values) /\ Len(<<>>) = 0
        BY EmptySeq
      <3>2. QED
        BY <3>1, LenProperties
    <2>2. QED
      BY <2>1
  <1>2. f \in [D \cup {label} -> Shown]
    BY <1>1
  <1>3. seen' = [seen EXCEPT ![r].settings = f]
    BY <1>1 DEF Sees
  <1>4. seen' = [seen EXCEPT ![r] = [settings |-> f, stopped |-> seen[r].stopped]]
    <2> HIDE DEF f
    <2>1. [seen[r] EXCEPT !.settings = f] = [settings |-> f, stopped |-> seen[r].stopped]
      OBVIOUS
    <2>2. QED
      BY <1>3, <2>1
  <1>5. QED
    BY <1>2, <1>4

\* What is read of the mode and of the settings are texts.
LEMMA ReadingsShown ==
    ASSUME PanelInv
    PROVE  /\ <<Scheduler, currentLang>> \in Shown
           /\ \A failure \in {"error", Unread["hags"], Unread["gameMode"]} :
                 <<failure, currentLang>> \in Shown
           /\ \A s \in Settings : <<setting[s], currentLang>> \in Shown
  <1>1. currentLang \in Languages
    BY DEF PanelInv, ThemeInv, PrefTypeOK
  <1>2. Scheduler \in Values /\ {"error", Unread["hags"], Unread["gameMode"]} \subseteq Values
    BY DEF Scheduler, Values, Unread
  <1>3. \A s \in Settings : setting[s] \in Values
    BY DEF PanelInv, PanelTypeOK, Values
  <1>4. QED
    BY <1>1, <1>2, <1>3 DEF Shown

\* One of the three readings of updateSchedulerTelemetry.
LEMMA ReadSettingsKeeps ==
    ASSUME PanelInv, NEW r \in Readers, ReadSettings(r)
    PROVE  PanelInv'
  <1> USE DEF worldVars
  <1>1. PanelTypeOK /\ ReadersOK
    BY DEF PanelInv, PanelTypeOK
  <1>2. /\ seen[r] \in [settings : SettingsFound(at[r]), stopped : SUBSET Names]
        /\ seen[r] \in [settings : {seen[r].settings}, stopped : SUBSET Names]
        /\ DOMAIN seen = Readers
    BY <1>1 DEF ReadersOK
  <1>3. events' \in 0..MaxEvents
    BY <1>1, PanelEventType DEF ReadSettings
  <1>4. \A f, place : f \in SettingsFound(place) =>
            [settings |-> f, stopped |-> seen[r].stopped]
               \in [settings : SettingsFound(place), stopped : SUBSET Names]
    BY <1>2
  <1>5. ReadersOK'
    <2>1. CASE at[r] = "mode"
      <3>1. seen[r].settings = <<>>
        BY <1>2, <2>1 DEF SettingsFound
      <3>2. Sees(r, "cpu", <<Scheduler, currentLang>>) /\ at' = [at EXCEPT ![r] = "hags"]
        BY <2>1 DEF ReadSettings
      <3>3. PICK f \in [{} \cup {"cpu"} -> Shown] :
               seen' = [seen EXCEPT ![r] = [settings |-> f, stopped |-> seen[r].stopped]]
        BY <1>2, <3>1, <3>2, SeesMore, ReadingsShown DEF Labels
      <3>4. f \in SettingsFound("hags")
        BY <3>3 DEF SettingsFound
      <3>5. "hags" \in Places /\ "hags" \notin {"idle", "get", "set", "hud"} \cup Names
        BY ServiceNames DEF Places
      <3>6. QED
        BY <1>1, <1>4, <3>2, <3>3, <3>4, <3>5, ReaderMoves
    <2>2. CASE at[r] = "hags"
      <3>1. seen[r].settings \in [{"cpu"} -> Shown]
        BY <1>2, <2>2 DEF SettingsFound
      <3>2. PICK text \in Shown : Sees(r, "hags", text)
        <4>1. \/ Sees(r, "hags", <<setting["hags"], currentLang>>)
              \/ \E failure \in {"error", Unread["hags"]} :
                    Sees(r, "hags", <<failure, currentLang>>)
          BY <2>2 DEF ReadSettings
        <4>2. QED
          BY <4>1, ReadingsShown DEF Settings
      <3>3. at' = [at EXCEPT ![r] = "gameMode"]
        BY <2>2 DEF ReadSettings
      <3>4. PICK f \in [{"cpu"} \cup {"hags"} -> Shown] :
               seen' = [seen EXCEPT ![r] = [settings |-> f, stopped |-> seen[r].stopped]]
        BY <1>2, <3>1, <3>2, SeesMore DEF Labels
      <3>5. {"cpu"} \cup {"hags"} = {"cpu", "hags"}
        OBVIOUS
      <3>6. f \in SettingsFound("gameMode")
        BY <3>4, <3>5 DEF SettingsFound
      <3>7. "gameMode" \in Places /\ "gameMode" \notin {"idle", "get", "set", "hud"} \cup Names
        BY ServiceNames DEF Places
      <3>8. QED
        BY <1>1, <1>4, <3>3, <3>4, <3>6, <3>7, ReaderMoves
    <2>3. CASE at[r] = "gameMode"
      <3>1. seen[r].settings \in [{"cpu", "hags"} -> Shown]
        BY <1>2, <2>3 DEF SettingsFound
      <3>2. PICK text \in Shown : Sees(r, "gameMode", text)
        <4>1. \/ Sees(r, "gameMode", <<setting["gameMode"], currentLang>>)
              \/ Sees(r, "gameMode", <<Unread["gameMode"], currentLang>>)
          BY <2>3 DEF ReadSettings
        <4>2. QED
          BY <4>1, ReadingsShown DEF Settings
      <3>3. at' = [at EXCEPT ![r] = "post"]
        BY <2>3 DEF ReadSettings
      <3>4. PICK f \in [{"cpu", "hags"} \cup {"gameMode"} -> Shown] :
               seen' = [seen EXCEPT ![r] = [settings |-> f, stopped |-> seen[r].stopped]]
        BY <1>2, <3>1, <3>2, SeesMore DEF Labels
      <3>5. {"cpu", "hags"} \cup {"gameMode"} = {"cpu", "hags", "gameMode"}
        OBVIOUS
      <3>6. f \in SettingsFound("post")
        BY <3>4, <3>5 DEF SettingsFound
      <3>7. "post" \in Places /\ "post" \notin {"idle", "get", "set", "hud"} \cup Names
        BY ServiceNames DEF Places
      <3>8. QED
        BY <1>1, <1>4, <3>3, <3>4, <3>6, <3>7, ReaderMoves
    <2>4. QED
      BY <2>1, <2>2, <2>3 DEF ReadSettings
  <1>6. UNCHANGED <<prefVars, worldVars, ticked, updates, labels>>
    BY DEF ReadSettings
  <1>7. ThemeInv'
    BY <1>6, ThemeStep DEF PanelInv
  <1>8. QED
    BY <1>1, <1>3, <1>5, <1>6, <1>7 DEF PanelInv, PanelTypeOK, ThemeInv

\* A closure is given to the UI thread while there is room for it.
LEMMA DoType ==
    ASSUME PanelTypeOK, NEW update \in Updates, Do(update)
    PROVE  updates' \in Seq(Updates) /\ Len(updates') <= MaxUpdates
  <1>1. updates \in Seq(Updates) /\ Len(updates) < MaxUpdates
    BY DEF PanelTypeOK, Do
  <1>2. /\ Append(updates, update) \in Seq(Updates)
        /\ Len(Append(updates, update)) = Len(updates) + 1 /\ Len(updates) \in Nat
    BY <1>1, AppendProperties, LenProperties
  <1>3. QED
    BY <1>1, <1>2, PanelAssumption DEF PanelAssumption, Do

LEMMA PostSettingsKeeps ==
    ASSUME PanelInv, NEW r \in Readers, PostSettings(r)
    PROVE  PanelInv'
  <1> USE DEF worldVars
  <1>1. PanelTypeOK /\ ReadersOK
    BY DEF PanelInv, PanelTypeOK
  <1>2. seen[r].settings \in Updates
    BY <1>1 DEF PostSettings, ReadersOK, SettingsFound, Updates
  <1>3. updates' \in Seq(Updates) /\ Len(updates') <= MaxUpdates
    BY <1>1, <1>2, DoType DEF PostSettings
  <1>4. ReadersOK'
    <2> DEFINE place == IF r = "telemetry" THEN Services[1] ELSE "idle"
    <2>1. Services[1] \in Names
      BY ServiceNames
    <2>2. /\ place \in Places
          /\ r = "telemetry" => place \notin {"idle", "get", "set"}
          /\ r # "telemetry" => place \notin {"hud"} \cup Names
      BY <2>1, ServiceNames DEF Places
    <2>3. SettingsFound(place) = {<<>>}
      BY <2>1, ServiceNames DEF SettingsFound
    <2>4. Found \in [settings : SettingsFound(place), stopped : SUBSET Names]
      BY <2>3 DEF Found
    <2>5. at' = [at EXCEPT ![r] = place] /\ seen' = [seen EXCEPT ![r] = Found]
      BY DEF PostSettings
    <2> HIDE DEF place
    <2>6. QED
      BY <1>1, <2>2, <2>4, <2>5, ReaderMoves
  <1>5. UNCHANGED <<prefVars, worldVars, ticked, labels, events>>
    BY DEF PostSettings
  <1>6. ThemeInv'
    BY <1>5, ThemeStep DEF PanelInv
  <1>7. QED
    BY <1>1, <1>3, <1>4, <1>5, <1>6 DEF PanelInv, PanelTypeOK, ThemeInv
\* The telemetry goroutine asks for the next service, which counts or does not.
LEMMA ReadServiceKeeps ==
    ASSUME PanelInv, NEW i \in DOMAIN Services, ReadService(i)
    PROVE  PanelInv'
  <1> USE DEF worldVars
  <1>1. PanelTypeOK /\ ReadersOK
    BY DEF PanelInv, PanelTypeOK
  <1>2. events' \in 0..MaxEvents
    BY <1>1, PanelEventType DEF ReadService
  <1>3. "telemetry" \in Readers /\ DOMAIN seen = Readers
    BY <1>1 DEF Readers, ReadersOK
  <1>4. Services[i] \in Names /\ at["telemetry"] = Services[i] /\ i \in 1..3
    BY ServiceNames DEF ReadService
  <1> DEFINE old == seen["telemetry"]
             place == IF i < Len(Services) THEN Services[i + 1] ELSE "hud"
  <1>5. SettingsFound(Services[i]) = {<<>>}
    BY <1>4, ServiceNames DEF SettingsFound
  <1>6. old \in [settings : {<<>>}, stopped : SUBSET Names]
    BY <1>1, <1>3, <1>4, <1>5 DEF ReadersOK
  <1>7. place \in {"hud"} \cup Names
    BY <1>4, ServiceNames
  <1>8. /\ place \in Places /\ place \notin {"idle", "get", "set"}
        /\ SettingsFound(place) = {<<>>}
    BY <1>7, ServiceNames DEF Places, SettingsFound
  <1>9. PICK finding \in [settings : {<<>>}, stopped : SUBSET Names] :
           seen' = [seen EXCEPT !["telemetry"] = finding]
    <2>1. CASE UNCHANGED seen
      <3>1. seen = [r \in Readers |-> seen[r]]
        BY <1>1 DEF ReadersOK
      <3>2. seen' = [seen EXCEPT !["telemetry"] = old]
        BY <2>1, <3>1
      <3>3. QED
        BY <1>6, <3>2
    <2>2. CASE seen' = [seen EXCEPT !["telemetry"].stopped = @ \cup {Services[i]}]
      <3>1. seen' = [seen EXCEPT !["telemetry"] =
                        [old EXCEPT !.stopped = old.stopped \cup {Services[i]}]]
        BY <2>2
      <3>2. [old EXCEPT !.stopped = old.stopped \cup {Services[i]}]
               \in [settings : {<<>>}, stopped : SUBSET Names]
        BY <1>4, <1>6
      <3>3. QED
        BY <3>1, <3>2
    <2>3. CASE seen' = [seen EXCEPT !["telemetry"].stopped = @]
      <3>1. seen' = [seen EXCEPT !["telemetry"] = [old EXCEPT !.stopped = old.stopped]]
        BY <2>3
      <3>2. [old EXCEPT !.stopped = old.stopped] \in [settings : {<<>>}, stopped : SUBSET Names]
        BY <1>6
      <3>3. QED
        BY <3>1, <3>2
    <2>4. QED
      BY <2>1, <2>2, <2>3 DEF ReadService
  <1>10. at' = [at EXCEPT !["telemetry"] = place]
    BY DEF ReadService
  <1> HIDE DEF place
  <1>11. ReadersOK'
    BY <1>1, <1>3, <1>8, <1>9, <1>10, ReaderMoves
  <1>12. UNCHANGED <<prefVars, worldVars, ticked, updates, labels>>
    BY DEF ReadService
  <1>13. ThemeInv'
    BY <1>12, ThemeStep DEF PanelInv
  <1>14. QED
    BY <1>1, <1>2, <1>11, <1>12, <1>13 DEF PanelInv, PanelTypeOK, ThemeInv

\* It gives the UI thread what it found out about the services, and the mode.
LEMMA PostServicesKeeps ==
    ASSUME PanelInv, PostServices
    PROVE  PanelInv'
  <1> USE DEF worldVars
  <1>1. PanelTypeOK /\ ReadersOK
    BY DEF PanelInv, PanelTypeOK
  <1>2. PICK found \in {Summary(seen["telemetry"].stopped), "error"} :
           /\ Do([l \in {"services"} \cup (IF ticked THEN {"hud"} ELSE {}) |->
                     IF l = "hud" THEN mode ELSE found])
           /\ IF found = "error" THEN Event ELSE UNCHANGED events
    BY DEF PostServices
  <1>3. events' \in 0..MaxEvents
    BY <1>1, <1>2, PanelEventType
  <1>4. found \in Values /\ mode \in Values
    BY <1>1 DEF Summary, Values, PanelTypeOK
  <1> DEFINE D == {"services"} \cup (IF ticked THEN {"hud"} ELSE {})
             update == [l \in D |-> IF l = "hud" THEN mode ELSE found]
  <1>5. D = {"services"} \/ D = {"services", "hud"}
    OBVIOUS
  <1>6. update \in [D -> Values]
    BY <1>4
  <1>7. Do(update)
    BY <1>2
  <1> HIDE DEF D, update
  <1>8. updates' \in Seq(Updates) /\ Len(updates') <= MaxUpdates
    <2>1. update \in Updates
      BY <1>5, <1>6 DEF Updates
    <2>2. QED
      BY <1>1, <1>7, <2>1, DoType
  <1>9. ReadersOK'
    <2>1. "telemetry" \in Readers
      BY DEF Readers
    <2>2. "mode" \in Places
      BY DEF Places
    <2>3. Found \in [settings : SettingsFound("mode"), stopped : SUBSET Names]
      BY DEF SettingsFound, Found
    <2>4. /\ at' = [at EXCEPT !["telemetry"] = "mode"]
          /\ seen' = [seen EXCEPT !["telemetry"] = Found]
      BY DEF PostServices
    <2>5. QED
      BY <1>1, <2>1, <2>2, <2>3, <2>4, ReaderMoves
  <1>10. ticked' \in BOOLEAN /\ UNCHANGED <<prefVars, worldVars, labels>>
    BY DEF PostServices
  <1>11. ThemeInv'
    BY <1>10, ThemeStep DEF PanelInv
  <1>12. QED
    BY <1>1, <1>3, <1>8, <1>9, <1>10, <1>11 DEF PanelInv, PanelTypeOK, ThemeInv

\* The UI thread shows the texts of the next closure, and translates values.
LEMMA ShowUpdateKeeps ==
    ASSUME PanelInv, ShowUpdate
    PROVE  PanelInv'
  <1> USE DEF worldVars
  <1>1. PanelTypeOK /\ currentLang \in Languages
    BY DEF PanelInv, ThemeInv, PrefTypeOK
  <1>2. updates \in Seq(Updates) /\ updates # <<>> /\ Len(updates) <= MaxUpdates
    BY <1>1 DEF PanelTypeOK, ShowUpdate
  <1>3. /\ Head(updates) \in Updates /\ Tail(updates) \in Seq(Updates)
        /\ Len(Tail(updates)) = Len(updates) - 1 /\ Len(updates) \in Nat
    BY <1>2, HeadTailProperties, LenProperties
  <1>4. updates' \in Seq(Updates) /\ Len(updates') <= MaxUpdates
    BY <1>2, <1>3, PanelAssumption DEF PanelAssumption, ShowUpdate
  <1> DEFINE first == Head(updates)
             value(l) == IF l \notin DOMAIN first THEN labels[l]
                         ELSE IF l \in {"services", "hud"} THEN <<first[l], currentLang>>
                         ELSE first[l]
  <1>5. labels \in [Labels -> Shown]
    BY <1>1 DEF PanelTypeOK
  <1>6. ASSUME NEW l \in Labels
        PROVE  value(l) \in Shown
    <2>1. CASE first \in [{"cpu", "hags", "gameMode"} -> Shown]
      BY <1>5, <1>6, <2>1
    <2>2. ASSUME NEW D \in SUBSET {"services", "hud"}, first \in [D -> Values]
          PROVE  value(l) \in Shown
      BY <1>1, <1>5, <1>6, <2>2 DEF Shown
    <2>3. CASE first \in [{"services"} -> Values]
      BY <2>2, <2>3
    <2>4. CASE first \in [{"services", "hud"} -> Values]
      BY <2>2, <2>4
    <2>5. QED
      BY <1>3, <2>1, <2>3, <2>4 DEF Updates
  <1>7. labels' = [l \in Labels |-> value(l)]
    BY <1>5 DEF ShowUpdate
  <1> HIDE DEF value
  <1>8. labels' \in [Labels -> Shown]
    BY <1>6, <1>7
  <1>9. UNCHANGED <<prefVars, worldVars, at, seen, ticked, events>>
    BY DEF ShowUpdate
  <1>10. ThemeInv'
    BY <1>9, ThemeStep DEF PanelInv
  <1>11. QED
    BY <1>1, <1>4, <1>8, <1>9, <1>10 DEF PanelInv, PanelTypeOK, ReadersOK, ThemeInv

\* The theme is chosen, or the language: the labels stay as they are.
LEMMA PreferencesKeepPanel ==
    ASSUME PanelInv, [PrefNext]_prefVars,
           UNCHANGED <<worldVars, at, seen, ticked, updates, labels, events>>
    PROVE  PanelInv'
  <1>1. ThemeInv'
    BY ThemeStep DEF PanelInv
  <1>2. QED
    BY <1>1 DEF PanelInv, PanelTypeOK, ReadersOK, ThemeInv, worldVars

LEMMA PanelInductive == PanelInv /\ [PanelNext]_panelVars => PanelInv'
  <1> SUFFICES ASSUME PanelInv, [PanelNext]_panelVars
               PROVE  PanelInv'
    OBVIOUS
  <1>1. CASE UNCHANGED panelVars
    BY <1>1, PreferencesKeepPanel DEF panelVars
  <1>2. ASSUME NEW r \in Readers, Reads(r)
        PROVE  PanelInv'
    BY <1>2, ReadSettingsKeeps, PostSettingsKeeps, ReadServiceKeeps, PostServicesKeeps DEF Reads
  <1>3. CASE PanelNext
    BY <1>2, <1>3, WorldKeeps, ToggleKeeps, ShowUpdateKeeps DEF PanelNext
  <1>4. QED
    BY <1>1, <1>3

\* A step of the panel leaves the preferences alone or chooses a language.
LEMMA PanelChoosesLanguage ==
    ASSUME [PanelNext]_panelVars
    PROVE  [PrefNext]_prefVars
  <1>1. CASE WorldChanges
    BY <1>1 DEF WorldChanges, PrefNext
  <1>2. ASSUME NEW c \in Toggles, (\E button \in Settings : Click(c, button)) \/ Get(c) \/ Set(c)
        PROVE  UNCHANGED prefVars
    BY <1>2 DEF Click, Get, Set
  <1>3. ASSUME NEW r \in Readers, Reads(r)
        PROVE  UNCHANGED prefVars
    BY <1>3 DEF Reads, ReadSettings, PostSettings, ReadService, PostServices
  <1>4. CASE ShowUpdate \/ UNCHANGED panelVars
    BY <1>4 DEF ShowUpdate, panelVars
  <1>5. QED
    BY <1>1, <1>2, <1>3, <1>4 DEF PanelNext

\* The variables keep their types, whatever changes while the labels are read:
\* what a reader has found fits the place it has come to, a goroutine of a button
\* never asks for a service, and the UI thread is only ever given the texts of
\* three labels or values it can translate (gui/telemetry.go).
THEOREM PanelTypeCorrect == PanelSpec => []PanelTypeOK
  <1>1. PanelInv => PanelTypeOK
    BY DEF PanelInv
  <1>2. QED
    BY <1>1, PanelStart, PanelInductive, PTL DEF PanelSpec

\* Nor does another language change the theme while the labels are read.
THEOREM LanguageKeepsThemeLater == PanelSpec => ThemeKept
  <1>1. PanelInv /\ [PanelNext]_panelVars =>
            [currentLang' # currentLang => appTheme' = appTheme]_prefVars
    BY ThemeStep, PanelChoosesLanguage DEF PanelInv
  <1>2. QED
    BY <1>1, PanelStart, PanelInductive, PTL DEF PanelSpec, ThemeKept
================================================================================
