--------------------------- MODULE LogSink_proofs ---------------------------
(***************************************************************************)
(* Theorems about LogSink for any daemons, modules, sizes of the pipe and  *)
(* of reads, lengths of a line, numbers of files and stamps.               *)
(***************************************************************************)
EXTENDS LogSink, SequenceTheorems, WellFoundedInduction, TLAPS

-----------------------------------------------------------------------------
(* Places in a sequence.                                                   *)

\* A nonempty set of naturals has a least element.
LEMMA LeastOf ==
    ASSUME NEW I \in SUBSET Nat, I # {}
    PROVE  \E x \in I : \A y \in I : x <= y
<1> DEFINE less == OpToRel(<, Nat)
<1>1. IsWellFoundedOn(less, Nat)
  BY NatLessThanWellFounded, Zenon
<1>2. \A a, b \in Nat : a < b => <<a, b>> \in less
  BY Zenon DEF OpToRel
<1> HIDE DEF less
<1>3. PICK x \in I : \A y \in I : ~(<<y, x>> \in less)
  BY <1>1, WFMin
<1>4. x \in Nat /\ \A y \in I : y \in Nat /\ ~(y < x)
  BY <1>2, <1>3, Zenon
<1> QED BY <1>4

LEMMA MinIs ==
    ASSUME NEW I \in SUBSET Nat, I # {}
    PROVE  Min(I) \in I /\ \A y \in I : Min(I) <= y
BY LeastOf DEF Min

LEMMA MaxIs ==
    ASSUME NEW n \in Nat, NEW I \in SUBSET (1..n), I # {}
    PROVE  Max(I) \in I /\ \A y \in I : Max(I) >= y
<1> DEFINE J == {n - i : i \in I}
<1>1. J \in SUBSET Nat /\ J # {}
  <2>1. \A i \in I : n - i \in Nat
    OBVIOUS
  <2> QED BY <2>1
<1>2. PICK x \in J : \A y \in J : x <= y
  BY <1>1, LeastOf
<1>3. PICK m \in I : x = n - m
  BY <1>2
<1>4. \A i \in I : n - m <= n - i
  BY <1>2, <1>3
<1>5. \A i \in I : m >= i
  BY <1>4
<1> QED BY <1>5 DEF Max

\* What lies behind the last newline has none.
LEMMA LastNewlineIs ==
    ASSUME NEW s \in Seq(Token)
    PROVE  /\ LastNewline(s) \in 0..Len(s)
           /\ \A i \in 1..Len(s) : i > LastNewline(s) => s[i] # "nl"
<1> DEFINE I == {i \in 1..Len(s) : s[i] = "nl"}
<1>1. LastNewline(s) = IF I # {} THEN Max(I) ELSE 0
  BY DEF LastNewline, SelectLastInSeq
<1>2. Len(s) \in Nat /\ I \in SUBSET (1..Len(s))
  BY LenProperties
<1>3. CASE I # {}
  <2>1. Max(I) \in I /\ \A i \in I : Max(I) >= i
    BY <1>2, <1>3, MaxIs
  <2>2. LastNewline(s) \in I /\ \A i \in I : LastNewline(s) >= i
    BY <1>1, <1>3, <2>1
  <2> QED BY <1>2, <2>2
<1>4. CASE I = {}
  BY <1>1, <1>2, <1>4
<1> QED BY <1>3, <1>4

\* A text is its complete lines and the tail that is held back.
LEMMA LinesAndHeld ==
    ASSUME NEW s \in Seq(Token)
    PROVE  /\ Lines(s) \in Seq(Token) /\ Held(s) \in Seq(Token)
           /\ Lines(s) \o Held(s) = s
           /\ Len(Held(s)) = Len(s) - LastNewline(s)
<1> DEFINE k == LastNewline(s)
<1>1. k \in 0..Len(s) /\ Len(s) \in Nat
  BY LastNewlineIs, LenProperties
<1> HIDE DEF k
<1>2. \A i \in 1..Len(s) : s[i] \in Token
  BY ElementOfSeq
<1>3. SubSeq(s, 1, k) \in Seq(Token)
  BY <1>1, <1>2, SubSeqProperties
<1>4. SubSeq(s, k + 1, Len(s)) \in Seq(Token) /\ Len(SubSeq(s, k + 1, Len(s))) = Len(s) - k
  BY <1>1, <1>2, SubSeqProperties
<1>5. SubSeq(s, 1, k) \o SubSeq(s, k + 1, Len(s)) = SubSeq(s, 1, Len(s))
  <2>1. 1 \in 1..(Len(s) + 1) /\ k \in (1 - 1)..Len(s) /\ Len(s) \in k..Len(s)
    BY <1>1
  <2> QED BY <2>1, ConcatAdjacentSubSeq
<1>6. SubSeq(s, 1, Len(s)) = s
  BY SubSeqFull
<1> QED BY <1>3, <1>4, <1>5, <1>6 DEF Lines, Held, k

-----------------------------------------------------------------------------
(* The way of a character: pipe, chunk, pending tail, file.                *)

Text == Seq(Token)

LEMMA Assoc == \A a, b, c \in Text : (a \o b) \o c = a \o (b \o c)
<1> SUFFICES ASSUME NEW a \in Seq(Token), NEW b \in Seq(Token), NEW c \in Seq(Token)
             PROVE  (a \o b) \o c = a \o (b \o c)
  BY DEF Text
<1> QED BY ConcatAssociative

\* One more character goes in at the far end.
LEMMA Goes == \A x, q \in Text, t \in Token : x \o Append(q, t) = Append(x \o q, t)
<1> SUFFICES ASSUME NEW x \in Text, NEW q \in Text, NEW t \in Token
             PROVE  x \o Append(q, t) = Append(x \o q, t)
  OBVIOUS
<1>1. <<t>> \in Text /\ x \o q \in Text
  BY ConcatProperties DEF Text
<1>2. x \o Append(q, t) = x \o (q \o <<t>>)
  BY AppendIsConcat DEF Text
<1>3. Append(x \o q, t) = (x \o q) \o <<t>>
  BY <1>1, AppendIsConcat DEF Text
<1> QED BY <1>1, <1>2, <1>3, ConcatAssociative DEF Text

\* A read takes a piece off the front of the pipe.
LEMMA Taken ==
    ASSUME NEW x \in Text, NEW q \in Text, NEW n \in 1..Len(q)
    PROVE  /\ SubSeq(q, 1, n) \in Text /\ SubSeq(q, n + 1, Len(q)) \in Text
           /\ x \o <<>> \o q = x \o SubSeq(q, 1, n) \o SubSeq(q, n + 1, Len(q))
<1>1. Len(q) \in Nat /\ \A i \in 1..Len(q) : q[i] \in Token
  BY LenProperties, ElementOfSeq DEF Text
<1>2. SubSeq(q, 1, n) \in Text /\ SubSeq(q, n + 1, Len(q)) \in Text
  BY <1>1, SubSeqProperties DEF Text
<1>3. SubSeq(q, 1, n) \o SubSeq(q, n + 1, Len(q)) = q
  <2>1. 1 \in 1..(Len(q) + 1) /\ n \in (1 - 1)..Len(q) /\ Len(q) \in n..Len(q)
    BY <1>1
  <2>2. SubSeq(q, 1, n) \o SubSeq(q, n + 1, Len(q)) = SubSeq(q, 1, Len(q))
    BY <2>1, ConcatAdjacentSubSeq DEF Text
  <2> QED BY <2>2, SubSeqFull DEF Text
<1>4. x \o <<>> = x
  BY ConcatEmptySeq DEF Text
<1>5. (x \o SubSeq(q, 1, n)) \o SubSeq(q, n + 1, Len(q))
        = x \o (SubSeq(q, 1, n) \o SubSeq(q, n + 1, Len(q)))
  BY <1>2, Assoc, Zenon
<1> QED BY <1>2, <1>3, <1>4, <1>5, Zenon

\* Where the sink ended a line that went on, it had seen too much of it.
TooLong(text, c) == c > PendingMax /\ \A i \in (c - PendingMax)..c : text[i] # "nl"

StreamType ==
    /\ pc \in [Daemon -> Phase]
    /\ pipe \in [Daemon -> Text] /\ chunk \in [Daemon -> Text] /\ pending \in [Daemon -> Text]
    /\ file \in [Daemon -> Text] /\ written \in [Daemon -> Text]
    /\ cuts \in [Daemon -> SUBSET Nat]

Whole(d) == file[d] \o pending[d] \o chunk[d] \o pipe[d] = written[d]

CutsKnown(d) ==
    \A c \in cuts[d] : /\ c \in 1..Len(file[d])
                       /\ (pc[d] = "gone" /\ c = Len(file[d])) \/ TooLong(file[d], c)

\* A reader that does not run has nothing in its hands.
Idle(d) == pc[d] \notin Capturing => chunk[d] = <<>>

StreamInv == StreamType /\ \A d \in Daemon : Whole(d) /\ CutsKnown(d) /\ Idle(d)

LEMMA StreamInit == Init => StreamInv
<1> SUFFICES ASSUME Init PROVE StreamInv
  OBVIOUS
<1>1. <<>> \in Text /\ "idle" \in Phase /\ <<>> \o <<>> = <<>>
  BY ConcatEmptySeq DEF Text, Phase
<1>2. StreamType
  BY <1>1 DEF Init, StreamType
<1>3. \A d \in Daemon : Whole(d) /\ CutsKnown(d) /\ Idle(d)
  BY <1>1 DEF Init, Whole, CutsKnown, Idle
<1> QED BY <1>2, <1>3 DEF StreamInv

\* What is so of each daemon stays so of the others when one of them moves.
StreamOf(d) == <<pc[d], pipe[d], chunk[d], pending[d], file[d], cuts[d], written[d]>>

LEMMA StreamOthers ==
    ASSUME StreamInv, NEW d \in Daemon, StreamType',
           \A e \in Daemon \ {d} : UNCHANGED StreamOf(e),
           Whole(d)', CutsKnown(d)', Idle(d)'
    PROVE  StreamInv'
<1>1. \A e \in Daemon \ {d} : Whole(e)' /\ CutsKnown(e)' /\ Idle(e)'
  BY DEF StreamInv, StreamOf, Whole, CutsKnown, Idle
<1> QED BY <1>1 DEF StreamInv

\* A daemon goes on to another phase.
LEMMA StreamPhase ==
    ASSUME StreamInv, NEW d \in Daemon, NEW from, NEW to \in Phase, Goto(d, from, to),
           from # "gone", to \in Capturing \/ from \notin Capturing,
           UNCHANGED <<pipe, chunk, pending, file, cuts, written>>
    PROVE  StreamInv'
<1>1. pc[d] = from /\ pc' = [pc EXCEPT ![d] = to] /\ pc \in [Daemon -> Phase]
  BY DEF Goto, StreamInv, StreamType
<1>2. StreamType'
  BY <1>1 DEF StreamInv, StreamType
<1>3. \A e \in Daemon \ {d} : UNCHANGED StreamOf(e)
  BY <1>1 DEF StreamOf
<1>4. Whole(d)' /\ CutsKnown(d)' /\ Idle(d)'
  BY <1>1 DEF StreamInv, Whole, CutsKnown, Idle, TooLong
<1> QED BY <1>2, <1>3, <1>4, StreamOthers

LEMMA StreamSame ==
    ASSUME StreamInv, UNCHANGED <<pc, pipe, chunk, pending, file, cuts, written>>
    PROVE  StreamInv'
BY DEF StreamInv, StreamType, Whole, CutsKnown, Idle, TooLong

LEMMA StreamWrite ==
    ASSUME StreamInv, NEW d \in Daemon, NEW w, NEW t \in Token, Write(d, w, t)
    PROVE  StreamInv'
<1>1. /\ pipe' = [pipe EXCEPT ![d] = Append(@, t)]
      /\ written' = [written EXCEPT ![d] = Append(@, t)]
      /\ UNCHANGED <<pc, chunk, pending, file, cuts>>
  BY DEF Write
<1>2. Append(pipe[d], t) \in Text /\ Append(written[d], t) \in Text
  BY AppendProperties DEF StreamInv, StreamType, Text
<1>3. StreamType'
  BY <1>1, <1>2 DEF StreamInv, StreamType
<1>4. \A e \in Daemon \ {d} : UNCHANGED StreamOf(e)
  BY <1>1 DEF StreamOf
<1>5. pipe'[d] = Append(pipe[d], t) /\ written'[d] = Append(written[d], t)
  BY <1>1 DEF StreamInv, StreamType
<1>6. Whole(d)'
  <2>1. /\ file[d] \in Text /\ pending[d] \in Text /\ chunk[d] \in Text /\ pipe[d] \in Text
        /\ file[d] \o pending[d] \o chunk[d] \o pipe[d] = written[d]
    BY DEF StreamInv, StreamType, Whole
  <2>2. file[d] \o pending[d] \o chunk[d] \o Append(pipe[d], t)
          = Append(file[d] \o pending[d] \o chunk[d] \o pipe[d], t)
    <3>1. file[d] \o pending[d] \o chunk[d] \in Text
      BY <2>1, ConcatProperties DEF Text
    <3> QED BY <2>1, <3>1, Goes, Zenon
  <2>3. file'[d] = file[d] /\ pending'[d] = pending[d] /\ chunk'[d] = chunk[d]
    BY <1>1
  <2>4. file'[d] \o pending'[d] \o chunk'[d] \o pipe'[d] = written'[d]
    BY <1>5, <2>1, <2>2, <2>3, Zenon
  <2> QED BY <2>4, Zenon DEF Whole
<1>7. CutsKnown(d)' /\ Idle(d)'
  BY <1>1 DEF StreamInv, CutsKnown, Idle, TooLong
<1> QED BY <1>3, <1>4, <1>6, <1>7, StreamOthers

LEMMA StreamRead ==
    ASSUME StreamInv, NEW d \in Daemon, Read(d)
    PROVE  StreamInv'
<1>1. pipe[d] \in Text /\ Len(pipe[d]) \in Nat
  BY LenProperties DEF StreamInv, StreamType, Text
<1>2. PICK n \in 1..Len(pipe[d]) :
        /\ chunk' = [chunk EXCEPT ![d] = SubSeq(pipe[d], 1, n)]
        /\ pipe' = [pipe EXCEPT ![d] = SubSeq(@, n + 1, Len(@))]
  <2>1. PICK n \in 1..ReadMax :
          /\ n <= Len(pipe[d])
          /\ chunk' = [chunk EXCEPT ![d] = SubSeq(pipe[d], 1, n)]
          /\ pipe' = [pipe EXCEPT ![d] = SubSeq(@, n + 1, Len(@))]
    BY Zenon DEF Read
  <2>2. ReadMax \in Nat
    BY CapacityAssumption
  <2>3. n \in 1..Len(pipe[d])
    BY <1>1, <2>1, <2>2
  <2> QED BY <2>1, <2>3, Zenon
<1>3. pc[d] \in Capturing /\ chunk[d] = <<>> /\ UNCHANGED <<pc, pending, file, cuts, written>>
  BY DEF Read
<1>4. file[d] \o pending[d] \in Text
  BY ConcatProperties DEF StreamInv, StreamType, Text
<1>5. /\ SubSeq(pipe[d], 1, n) \in Text /\ SubSeq(pipe[d], n + 1, Len(pipe[d])) \in Text
      /\ file[d] \o pending[d] \o <<>> \o pipe[d]
           = file[d] \o pending[d] \o SubSeq(pipe[d], 1, n) \o SubSeq(pipe[d], n + 1, Len(pipe[d]))
  BY <1>1, <1>4, Taken
<1>6. StreamType'
  BY <1>2, <1>3, <1>5 DEF StreamInv, StreamType
<1>7. \A e \in Daemon \ {d} : UNCHANGED StreamOf(e)
  BY <1>2, <1>3 DEF StreamOf
<1>8. chunk'[d] = SubSeq(pipe[d], 1, n) /\ pipe'[d] = SubSeq(pipe[d], n + 1, Len(pipe[d]))
  BY <1>2 DEF StreamInv, StreamType
<1>9. Whole(d)'
  BY <1>3, <1>5, <1>8 DEF StreamInv, Whole
<1>10. CutsKnown(d)' /\ Idle(d)'
  BY <1>3 DEF StreamInv, CutsKnown, Idle, TooLong
<1> QED BY <1>6, <1>7, <1>9, <1>10, StreamOthers

\* What is cut off from a line stays where it is when more is logged.
LEMMA CutsStay ==
    ASSUME NEW a \in Text, NEW x \in Text, NEW c \in 1..Len(a), TooLong(a, c)
    PROVE  c \in 1..Len(a \o x) /\ TooLong(a \o x, c)
<1>1. Len(a) \in Nat /\ Len(x) \in Nat
  BY LenProperties DEF Text
<1>2. Len(a \o x) = Len(a) + Len(x) /\ \A i \in 1..Len(a) : (a \o x)[i] = a[i]
  BY <1>1, ConcatProperties DEF Text
<1>3. c \in Nat /\ c > PendingMax /\ \A i \in (c - PendingMax)..c : i \in 1..Len(a)
  BY <1>1, PendingAssumption DEF TooLong
<1> QED BY <1>1, <1>2, <1>3 DEF TooLong

\* A tail that is too long to be held back is.
LEMMA NewCut ==
    ASSUME NEW a \in Text, NEW text \in Text, Len(Held(text)) > PendingMax
    PROVE  Len(a \o text) \in 1..Len(a \o text) /\ TooLong(a \o text, Len(a \o text))
<1>1. Len(a) \in Nat /\ Len(text) \in Nat
  BY LenProperties DEF Text
<1>2. Len(a \o text) = Len(a) + Len(text)
      /\ \A i \in 1..(Len(a) + Len(text)) :
            (a \o text)[i] = IF i <= Len(a) THEN a[i] ELSE text[i - Len(a)]
  BY ConcatProperties DEF Text
<1> DEFINE k == LastNewline(text)
<1>3. k \in 0..Len(text) /\ \A i \in 1..Len(text) : i > k => text[i] # "nl"
  BY LastNewlineIs DEF Text
<1>4. Len(text) - k > PendingMax
  BY LinesAndHeld DEF Text
<1> HIDE DEF k
<1> DEFINE n == Len(a) + Len(text)
<1>5. n > PendingMax /\ n \in 1..n
  BY <1>1, <1>3, <1>4, PendingAssumption
<1>6. ASSUME NEW i \in (n - PendingMax)..n
      PROVE  (a \o text)[i] # "nl"
  <2>1. i \in 1..n /\ i > Len(a) + k /\ i - Len(a) \in 1..Len(text) /\ i - Len(a) > k /\ ~(i <= Len(a))
    BY <1>1, <1>3, <1>4, <1>5, <1>6, PendingAssumption
  <2> QED BY <1>2, <1>3, <2>1
<1> QED BY <1>2, <1>5, <1>6 DEF TooLong

LEMMA StreamLog ==
    ASSUME StreamInv, NEW d \in Daemon, LogChunk(d)
    PROVE  StreamInv'
<1> DEFINE text  == pending[d] \o chunk[d]
           long  == Len(Held(text)) > PendingMax
           lines == IF long THEN text ELSE Lines(text)
           rest  == IF long THEN <<>> ELSE Held(text)
<1>1. /\ file[d] \in Text /\ pending[d] \in Text /\ chunk[d] \in Text /\ pipe[d] \in Text
      /\ file[d] \o pending[d] \o chunk[d] \o pipe[d] = written[d]
  BY DEF StreamInv, StreamType, Whole
<1>2. /\ chunk[d] # <<>>
      /\ chunk' = [chunk EXCEPT ![d] = <<>>]
      /\ file' = [file EXCEPT ![d] = @ \o lines]
      /\ cuts' = IF long THEN [cuts EXCEPT ![d] = @ \cup {Len(file'[d])}] ELSE cuts
      /\ pending' = [pending EXCEPT ![d] = rest]
      /\ UNCHANGED <<pc, pipe, written>>
  BY DEF LogChunk
<1>3. text \in Text /\ <<>> \in Text
  BY <1>1, ConcatProperties DEF Text
<1> HIDE DEF text
<1>4. lines \in Text /\ rest \in Text /\ lines \o rest = text
  <2>1. Lines(text) \in Text /\ Held(text) \in Text /\ Lines(text) \o Held(text) = text
    BY <1>3, LinesAndHeld DEF Text
  <2>2. text \o <<>> = text
    BY <1>3, ConcatEmptySeq DEF Text
  <2> QED BY <1>3, <2>1, <2>2, Zenon
<1>5. long => lines = text
  OBVIOUS
<1> HIDE DEF lines, rest
<1>6. file[d] \o lines \in Text
  BY <1>1, <1>4, ConcatProperties DEF Text
<1>7. /\ chunk'[d] = <<>> /\ file'[d] = file[d] \o lines /\ pending'[d] = rest
      /\ pipe'[d] = pipe[d] /\ written'[d] = written[d] /\ pc'[d] = pc[d]
  BY <1>2 DEF StreamInv, StreamType
<1>8. Len(file'[d]) \in Nat
  BY <1>6, <1>7, LenProperties DEF Text
<1>9. /\ cuts' \in [Daemon -> SUBSET Nat]
      /\ cuts'[d] = IF long THEN cuts[d] \cup {Len(file'[d])} ELSE cuts[d]
  BY <1>2, <1>8 DEF StreamInv, StreamType
<1>10. StreamType'
  BY <1>2, <1>3, <1>4, <1>6, <1>9 DEF StreamInv, StreamType
<1>11. \A e \in Daemon \ {d} : UNCHANGED StreamOf(e)
  BY <1>2 DEF StreamOf, StreamInv, StreamType
<1>12. Whole(d)'
  <2>1. lines \o rest = pending[d] \o chunk[d]
    BY <1>4 DEF text
  <2>2. file[d] \o pending[d] \o chunk[d] \o pipe[d]
          = (file[d] \o lines) \o rest \o <<>> \o pipe[d]
    <3>1. /\ file[d] \in Text /\ pending[d] \in Text /\ chunk[d] \in Text
          /\ lines \in Text /\ rest \in Text
      BY <1>1, <1>4, Zenon
    <3>2. (file[d] \o lines) \o rest = file[d] \o (lines \o rest)
      BY <3>1, Assoc, Zenon
    <3>3. (file[d] \o pending[d]) \o chunk[d] = file[d] \o (pending[d] \o chunk[d])
      BY <3>1, Assoc, Zenon
    <3>4. (file[d] \o lines) \o rest \in Text
      BY <3>1, ConcatProperties DEF Text
    <3>5. ((file[d] \o lines) \o rest) \o <<>> = (file[d] \o lines) \o rest
      BY <3>4, ConcatEmptySeq DEF Text
    <3> QED BY <2>1, <3>2, <3>3, <3>5, Zenon
  <2>3. file'[d] \o pending'[d] \o chunk'[d] \o pipe'[d] = written'[d]
    BY <1>1, <1>7, <2>2, Zenon
  <2> QED BY <2>3, Zenon DEF Whole
<1>13. CutsKnown(d)'
  <2> DEFINE Known(c) == c \in 1..Len(file'[d]) /\ TooLong(file'[d], c)
  <2>1. pc[d] # "gone"
    BY <1>2 DEF StreamInv, Idle, Capturing
  <2>2. ASSUME NEW c \in cuts[d] PROVE Known(c)
    <3>1. c \in 1..Len(file[d]) /\ TooLong(file[d], c)
      BY <2>1, <2>2 DEF StreamInv, CutsKnown
    <3> QED BY <1>1, <1>4, <1>7, <3>1, CutsStay, Zenon
  <2>3. ASSUME long PROVE Known(Len(file'[d]))
    BY <1>1, <1>3, <1>5, <1>7, <2>3, NewCut, Zenon
  <2>4. \A c \in cuts'[d] : Known(c)
    BY <1>9, <2>2, <2>3, Zenon
  <2> QED BY <2>4, Zenon DEF CutsKnown, TooLong
<1>14. Idle(d)'
  BY <1>7 DEF Idle
<1> QED BY <1>10, <1>11, <1>12, <1>13, <1>14, StreamOthers

LEMMA StreamEnd ==
    ASSUME StreamInv, NEW d \in Daemon, End(d)
    PROVE  StreamInv'
<1>1. /\ file[d] \in Text /\ pending[d] \in Text /\ chunk[d] = <<>> /\ pipe[d] = <<>>
      /\ file[d] \o pending[d] \o chunk[d] \o pipe[d] = written[d] /\ pc[d] = "restored"
      /\ pc' = [pc EXCEPT ![d] = "gone"] /\ pending' = [pending EXCEPT ![d] = <<>>]
      /\ UNCHANGED <<pipe, chunk, written>>
  BY DEF StreamInv, StreamType, Whole, End, Goto
<1>2. /\ <<>> \in Text /\ "gone" \in Phase /\ file[d] \o pending[d] \in Text
      /\ file[d] \o <<>> = file[d]
  BY <1>1, ConcatProperties, ConcatEmptySeq DEF Text, Phase
<1>3. file'[d] = file[d] \o pending[d] /\ file' \in [Daemon -> Text]
      /\ \A e \in Daemon \ {d} : file'[e] = file[e]
  <2>1. CASE pending[d] = <<>>
    BY <1>2, <2>1 DEF End, StreamInv, StreamType
  <2>2. CASE pending[d] # <<>>
    <3>1. file' = [file EXCEPT ![d] = @ \o pending[d]]
      BY <2>2 DEF End
    <3> QED BY <1>2, <3>1 DEF StreamInv, StreamType
  <2> QED BY <2>1, <2>2
<1>4. Len(file'[d]) \in Nat
  BY <1>2, <1>3, LenProperties DEF Text
<1>5. /\ cuts' \in [Daemon -> SUBSET Nat]
      /\ cuts'[d] = IF pending[d] = <<>> THEN cuts[d] ELSE cuts[d] \cup {Len(file'[d])}
      /\ \A e \in Daemon \ {d} : cuts'[e] = cuts[e]
  <2>1. cuts \in [Daemon -> SUBSET Nat]
    BY DEF StreamInv, StreamType
  <2>2. CASE pending[d] = <<>>
    BY <2>1, <2>2 DEF End
  <2>3. CASE pending[d] # <<>>
    <3>1. cuts' = [cuts EXCEPT ![d] = @ \cup {Len(file'[d])}]
      BY <2>3 DEF End
    <3> QED BY <1>4, <2>1, <2>3, <3>1
  <2> QED BY <2>2, <2>3
<1>6. StreamType'
  BY <1>1, <1>2, <1>3, <1>5 DEF StreamInv, StreamType
<1>7. \A e \in Daemon \ {d} : UNCHANGED StreamOf(e)
  BY <1>1, <1>3, <1>5 DEF StreamOf, StreamInv, StreamType
<1>8. pending'[d] = <<>> /\ chunk'[d] = <<>> /\ pipe'[d] = <<>> /\ written'[d] = written[d]
      /\ pc'[d] = "gone"
  BY <1>1 DEF StreamInv, StreamType
<1>9. Whole(d)'
  <2>1. (file[d] \o pending[d]) \o <<>> \o <<>> \o <<>> = file[d] \o pending[d]
    BY <1>2, ConcatEmptySeq DEF Text
  <2>2. file[d] \o pending[d] \o <<>> \o <<>> = file[d] \o pending[d]
    BY <1>2, ConcatEmptySeq DEF Text
  <2>3. file'[d] \o pending'[d] \o chunk'[d] \o pipe'[d] = written'[d]
    BY <1>1, <1>3, <1>8, <2>1, <2>2, Zenon
  <2> QED BY <2>3, Zenon DEF Whole
<1>10. CutsKnown(d)'
  <2> DEFINE Known(c) == c \in 1..Len(file'[d]) /\ (c = Len(file'[d]) \/ TooLong(file'[d], c))
  <2>1. ASSUME NEW c \in cuts[d] PROVE Known(c)
    <3>1. c \in 1..Len(file[d]) /\ TooLong(file[d], c)
      BY <1>1, <2>1 DEF StreamInv, CutsKnown
    <3> QED BY <1>1, <1>3, <3>1, CutsStay, Zenon
  <2>2. ASSUME pending[d] # <<>> PROVE Known(Len(file'[d]))
    <3>1. Len(file[d]) \in Nat /\ Len(pending[d]) \in Nat /\ Len(pending[d]) # 0
      BY <1>1, <2>2, LenProperties, EmptySeq DEF Text
    <3>2. Len(file[d] \o pending[d]) = Len(file[d]) + Len(pending[d])
      BY <1>1, ConcatProperties DEF Text
    <3>3. Len(file'[d]) = Len(file[d]) + Len(pending[d])
      BY <1>3, <3>2, Zenon
    <3>4. \A m, n \in Nat : n # 0 => m + n \in 1..(m + n)
      OBVIOUS
    <3>5. Len(file'[d]) \in 1..Len(file'[d])
      BY <3>1, <3>3, <3>4, Zenon
    <3> QED BY <3>5
  <2>3. \A c \in cuts'[d] : Known(c)
    BY <1>5, <2>1, <2>2, Zenon
  <2> QED BY <1>8, <2>3, Zenon DEF CutsKnown, TooLong
<1>11. Idle(d)'
  BY <1>8 DEF Idle
<1> QED BY <1>6, <1>7, <1>9, <1>10, <1>11, StreamOthers

LEMMA StreamStep == StreamInv /\ [Next]_vars => StreamInv'
<1> SUFFICES ASSUME StreamInv, [Next]_vars PROVE StreamInv'
  OBVIOUS
<1>1. ASSUME NEW d \in Daemon, Start(d) PROVE StreamInv'
  <2>1. "checking" \in Phase /\ "checking" \in Capturing /\ "idle" # "gone"
    BY DEF Phase, Capturing
  <2> QED BY <1>1, <2>1, StreamPhase DEF Start
<1>2. ASSUME NEW d \in Daemon, StartFails(d) PROVE StreamInv'
  <2>1. "uncaptured" \in Phase /\ "idle" \notin Capturing /\ "idle" # "gone"
    BY DEF Phase, Capturing
  <2> QED BY <1>2, <2>1, StreamPhase DEF StartFails, pipeVars
<1>3. ASSUME NEW d \in Daemon, Check(d) PROVE StreamInv'
  <2>1. {"serving", "stopping"} \subseteq Phase \cap Capturing
    BY DEF Phase, Capturing
  <2>2. Goto(d, "checking", "serving") \/ Goto(d, "checking", "stopping")
    BY <1>3 DEF Check
  <2>3. UNCHANGED <<pipe, chunk, pending, file, cuts, written>>
    BY <1>3 DEF Check, pipeVars
  <2> QED BY <2>1, <2>2, <2>3, StreamPhase
<1>4. ASSUME NEW d \in Daemon, Quit(d) PROVE StreamInv'
  <2>1. "stopping" \in Phase /\ "stopping" \in Capturing
    BY DEF Phase, Capturing
  <2> QED BY <1>4, <2>1, StreamPhase DEF Quit, pipeVars
<1>5. ASSUME NEW d \in Daemon, Restore(d) PROVE StreamInv'
  <2>1. "restored" \in Phase /\ "restored" \in Capturing
    BY DEF Phase, Capturing
  <2> QED BY <1>5, <2>1, StreamPhase DEF Restore
<1>6. ASSUME NEW d \in Daemon, Reader(d) \/ End(d) PROVE StreamInv'
  BY <1>6, StreamRead, StreamLog, StreamEnd DEF Reader
<1>7. ASSUME NEW d \in Daemon, NEW w \in Module \cup {"daemon"}, NEW t \in Token, Write(d, w, t)
      PROVE  StreamInv'
  BY <1>7, StreamWrite
<1>8. ASSUME NEW d \in Daemon, NEW m \in Module, ModuleStarts(d, m) \/ ModuleExits(d, m)
      PROVE  StreamInv'
  BY <1>8, StreamSame DEF ModuleStarts, ModuleExits
<1>9. ASSUME NEW d \in Daemon, ConsoleStalls(d) \/ ConsoleResumes(d)
      PROVE  StreamInv'
  BY <1>9, StreamSame DEF ConsoleStalls, ConsoleResumes
<1>10. CASE UNCHANGED vars
  BY <1>10, StreamSame DEF vars
<1> QED BY <1>1, <1>2, <1>3, <1>4, <1>5, <1>6, <1>7, <1>8, <1>9, <1>10, Zenon DEF Next

\* The log and what is on its way to it are what was written, and a line is
\* broken off only when it is too long or at the end of the output.
THEOREM LogIsTheStream == Spec => []LogFollowsStream
<1>1. StreamInv => LogFollowsStream
  BY DEF StreamInv, LogFollowsStream, Whole, CutsKnown, TooLong
<1> QED BY <1>1, StreamInit, StreamStep, PTL DEF Spec

-----------------------------------------------------------------------------
(* The directory.                                                          *)

FileName == [stamp : 1..MaxClock, age : Nat]

\* A file is in the directory and at most n others were modified after it.
Within(files, f, n) == \E i \in 1..Len(files) : files[i] = f /\ Len(files) - i <= n

LEMMA LastIsWithin ==
    ASSUME NEW q \in Seq(FileName), NEW e \in FileName
    PROVE  /\ Append(q, e) \in Seq(FileName)
           /\ Within(Append(q, e), e, 0)
<1>1. Len(q) \in Nat
  BY LenProperties
<1>2. /\ Append(q, e) \in Seq(FileName) /\ Len(Append(q, e)) = Len(q) + 1
      /\ Append(q, e)[Len(q) + 1] = e
  BY AppendProperties
<1>3. Len(q) + 1 \in 1..(Len(q) + 1) /\ (Len(q) + 1) - (Len(q) + 1) <= 0
  BY <1>1
<1> QED BY <1>2, <1>3 DEF Within

LEMMA AppendKeeps ==
    ASSUME NEW q \in Seq(FileName), NEW e \in FileName, NEW f, NEW n \in Nat, Within(q, f, n)
    PROVE  Within(Append(q, e), f, n + 1)
<1>1. Len(q) \in Nat
  BY LenProperties
<1>2. PICK i \in 1..Len(q) : q[i] = f /\ Len(q) - i <= n
  BY DEF Within
<1>3. Append(q, e)[i] = f /\ Len(Append(q, e)) = Len(q) + 1
  BY <1>2, AppendProperties
<1>4. i \in 1..(Len(q) + 1) /\ (Len(q) + 1) - i <= n + 1
  BY <1>1, <1>2
<1> QED BY <1>3, <1>4 DEF Within

LEMMA PrunedKeeps ==
    ASSUME NEW keep \in Nat, dir \in Seq(FileName)
    PROVE  /\ Pruned(keep) \in Seq(FileName)
           /\ \A f : \A n \in Nat : n < keep /\ Within(dir, f, n) => Within(Pruned(keep), f, n)
<1>1. Len(dir) \in Nat /\ \A i \in 1..Len(dir) : dir[i] \in FileName
  BY LenProperties, ElementOfSeq
<1>2. CASE Len(dir) <= keep
  BY <1>2, SubSeqFull DEF Pruned
<1>3. CASE Len(dir) > keep
  <2> DEFINE a == Len(dir) - keep + 1
  <2>1. a \in 1..(Len(dir) + 1)
    BY <1>1, <1>3
  <2>2. Pruned(keep) = SubSeq(dir, a, Len(dir))
    <3>1. ~(Len(dir) <= keep)
      BY <1>1, <1>3
    <3> QED BY <3>1, Zenon DEF Pruned
  <2>3. /\ SubSeq(dir, a, Len(dir)) \in Seq(FileName)
        /\ Len(SubSeq(dir, a, Len(dir))) = IF a <= Len(dir) THEN Len(dir) - a + 1 ELSE 0
        /\ \A j \in 1..(Len(dir) - a + 1) : SubSeq(dir, a, Len(dir))[j] = dir[a + j - 1]
    <3>1. a \in Int /\ Len(dir) \in Int /\ \A i \in a..Len(dir) : dir[i] \in FileName
      BY <1>1, <2>1
    <3> HIDE DEF a
    <3> QED BY <3>1, SubSeqProperties
  <2>4. Len(SubSeq(dir, a, Len(dir))) = keep /\ Len(dir) - a + 1 = keep
    BY <1>1, <1>3, <2>3
  <2>5. ASSUME NEW f, NEW n \in Nat, n < keep, Within(dir, f, n)
        PROVE  Within(SubSeq(dir, a, Len(dir)), f, n)
    <3>1. PICK i \in 1..Len(dir) : dir[i] = f /\ Len(dir) - i <= n
      BY <2>5 DEF Within
    <3> DEFINE j == i - a + 1
    <3>2. j \in 1..keep /\ a + j - 1 = i /\ keep - j <= n
      BY <1>1, <1>3, <2>5, <3>1
    <3>3. SubSeq(dir, a, Len(dir))[j] = f
      BY <2>3, <2>4, <3>1, <3>2
    <3> QED BY <2>4, <3>2, <3>3 DEF Within
  <2> QED BY <2>2, <2>3, <2>5
<1> QED BY <1>1, <1>2, <1>3

\* The others of a directory one file of which is removed.
LEMMA RemoveKeeps ==
    ASSUME NEW q \in Seq(FileName), NEW e
    PROVE  /\ RemoveFirst(q, e) \in Seq(FileName)
           /\ \A f : \A n \in Nat : f # e /\ Within(q, f, n) => Within(RemoveFirst(q, e), f, n)
<1> DEFINE I == {i \in 1..Len(q) : q[i] = e}
<1>1. Len(q) \in Nat /\ \A i \in 1..Len(q) : q[i] \in FileName
  BY LenProperties, ElementOfSeq
<1>2. CASE I = {}
  <2>1. RemoveFirst(q, e) = q
    BY <1>2 DEF RemoveFirst
  <2> QED BY <2>1
<1>3. CASE I # {}
  <2>1. I \in SUBSET Nat
    BY <1>1
  <2> DEFINE k == Min(I)
  <2>2. k \in I
    BY <1>3, <2>1, MinIs
  <2>3. RemoveFirst(q, e) = RemoveAt(q, k)
    <3>1. \E i \in 1..Len(q) : q[i] = e
      BY <1>3
    <3>2. SelectInSeq(q, LAMBDA v : v = e) = k
      BY <1>3 DEF SelectInSeq
    <3> QED BY <3>1, <3>2 DEF RemoveFirst
  <2>4. k \in 1..Len(q) /\ q[k] = e
    BY <2>2
  <2> HIDE DEF k, I
  <2> DEFINE a == SubSeq(q, 1, k - 1)
             b == SubSeq(q, k + 1, Len(q))
  <2>5. k - 1 \in Int /\ k + 1 \in Int /\ Len(q) \in Int /\ 1 \in Int
    BY <1>1, <2>4
  <2>6. /\ a \in Seq(FileName) /\ Len(a) = k - 1
        /\ \A j \in 1..(k - 1) : a[j] = q[j]
    <3>1. \A i \in 1..(k - 1) : q[i] \in FileName
      BY <1>1, <2>4
    <3>2. /\ SubSeq(q, 1, k - 1) \in Seq(FileName)
          /\ Len(SubSeq(q, 1, k - 1)) = IF 1 <= k - 1 THEN (k - 1) - 1 + 1 ELSE 0
          /\ \A j \in 1..((k - 1) - 1 + 1) : SubSeq(q, 1, k - 1)[j] = q[1 + j - 1]
      BY <2>5, <3>1, SubSeqProperties
    <3>3. (k - 1) - 1 + 1 = k - 1 /\ (~(1 <= k - 1) => k - 1 = 0)
      BY <1>1, <2>4
    <3>4. \A j \in 1..(k - 1) : 1 + j - 1 = j
      BY <1>1, <2>4
    <3> QED BY <3>2, <3>3, <3>4
  <2>7. /\ b \in Seq(FileName) /\ Len(b) = Len(q) - k
        /\ \A j \in 1..(Len(q) - k) : b[j] = q[k + j]
    <3>1. \A i \in (k + 1)..Len(q) : q[i] \in FileName
      BY <1>1, <2>4
    <3>2. /\ SubSeq(q, k + 1, Len(q)) \in Seq(FileName)
          /\ Len(SubSeq(q, k + 1, Len(q))) = IF k + 1 <= Len(q) THEN Len(q) - (k + 1) + 1 ELSE 0
          /\ \A j \in 1..(Len(q) - (k + 1) + 1) : SubSeq(q, k + 1, Len(q))[j] = q[k + 1 + j - 1]
      BY <2>5, <3>1, SubSeqProperties
    <3>3. Len(q) - (k + 1) + 1 = Len(q) - k /\ (~(k + 1 <= Len(q)) => Len(q) - k = 0)
      BY <1>1, <2>4
    <3>4. \A j \in 1..(Len(q) - k) : k + 1 + j - 1 = k + j
      BY <1>1, <2>4
    <3> QED BY <3>2, <3>3, <3>4
  <2>8. RemoveAt(q, k) = a \o b
    BY DEF RemoveAt
  <2> HIDE DEF a, b
  <2>9. /\ a \o b \in Seq(FileName) /\ Len(a \o b) = Len(a) + Len(b)
        /\ \A i \in 1..(Len(a) + Len(b)) : (a \o b)[i] = IF i <= Len(a) THEN a[i] ELSE b[i - Len(a)]
    BY <2>6, <2>7, ConcatProperties
  <2>10. Len(a \o b) = Len(q) - 1
    BY <1>1, <2>4, <2>6, <2>7, <2>9
  <2>11. ASSUME NEW f, NEW n \in Nat, f # e, Within(q, f, n)
         PROVE  Within(a \o b, f, n)
    <3>1. PICK i \in 1..Len(q) : q[i] = f /\ Len(q) - i <= n
      BY <2>11 DEF Within
    <3>2. CASE i < k
      <4>1. i \in 1..(k - 1) /\ i \in 1..(Len(a) + Len(b)) /\ i <= Len(a) /\ i \in 1..(Len(q) - 1)
            /\ (Len(q) - 1) - i <= n
        BY <1>1, <2>4, <2>6, <2>7, <3>1, <3>2
      <4>2. (a \o b)[i] = f
        BY <2>6, <2>9, <3>1, <4>1
      <4> QED BY <2>10, <4>1, <4>2 DEF Within
    <3>3. CASE i > k
      <4>1. /\ i - 1 \in 1..(Len(a) + Len(b)) /\ ~(i - 1 <= Len(a)) /\ i - k \in 1..(Len(q) - k)
            /\ (i - 1) - Len(a) = i - k /\ k + (i - k) = i
            /\ i - 1 \in 1..(Len(q) - 1) /\ (Len(q) - 1) - (i - 1) <= n
        BY <1>1, <2>4, <2>6, <2>7, <3>1, <3>3
      <4>2. (a \o b)[i - 1] = f
        BY <2>7, <2>9, <3>1, <4>1
      <4> QED BY <2>10, <4>1, <4>2 DEF Within
    <3>4. i # k
      BY <2>4, <2>11, <3>1
    <3> QED BY <2>4, <3>1, <3>2, <3>3, <3>4
  <2> QED BY <2>3, <2>8, <2>9, <2>11
<1> QED BY <1>2, <1>3

\* When the files of one start move one place, those of the others stay.
LEMMA AgedKeeps ==
    ASSUME NEW q \in Seq(FileName), NEW s \in 1..MaxClock
    PROVE  LET aged == [i \in DOMAIN q |-> Aged(q[i], s)] IN
           /\ aged \in Seq(FileName)
           /\ \A t \in 1..MaxClock : \A n \in Nat :
                t # s /\ Within(q, Live(t), n) => Within(aged, Live(t), n)
<1> DEFINE aged == [i \in DOMAIN q |-> Aged(q[i], s)]
<1>1. Len(q) \in Nat /\ DOMAIN q = 1..Len(q) /\ \A i \in 1..Len(q) : q[i] \in FileName
  BY LenProperties, ElementOfSeq
<1>2. ASSUME NEW f \in FileName
      PROVE  Aged(f, s) \in FileName
  <2>1. f.age \in Nat /\ f.age + 1 \in Nat
    BY DEF FileName
  <2>2. [f EXCEPT !.age = f.age + 1] \in FileName
    BY <2>1 DEF FileName
  <2> QED BY <2>2 DEF Aged
<1>3. \A f \in FileName : f.stamp # s => Aged(f, s) = f
  BY DEF Aged
<1>4. aged \in [1..Len(q) -> FileName]
  BY <1>1, <1>2
<1>5. aged \in Seq(FileName) /\ Len(aged) = Len(q)
  BY <1>1, <1>4, SeqDef, LenProperties
<1>6. ASSUME NEW t \in 1..MaxClock, NEW n \in Nat, t # s, Within(q, Live(t), n)
      PROVE  Within(aged, Live(t), n)
  <2>1. PICK i \in 1..Len(q) : q[i] = Live(t) /\ Len(q) - i <= n
    BY <1>6 DEF Within
  <2>2. Live(t) \in FileName /\ Live(t).stamp = t
    BY DEF Live, FileName
  <2>3. aged[i] = Live(t)
    BY <1>1, <1>3, <1>6, <2>1, <2>2
  <2> QED BY <1>5, <2>1, <2>3 DEF Within
<1> QED BY <1>5, <1>6

KeptType ==
    /\ dir \in Seq(FileName)
    /\ clock \in 1..MaxClock
    /\ stamp \in [Daemon -> 1..MaxClock]
    /\ since \in [1..MaxClock -> Nat]

\* The log of a stamp has at most so many other files behind it.
Near(s) == since[s] < MaxFiles - 1 => Within(dir, Live(s), since[s])

\* The stable name leads to the log of the start that linked last.
LinkLeads == latest \in Daemon => link = Live(stamp[latest])

KeptInv == KeptType /\ (\A s \in 1..MaxClock : Near(s)) /\ LinkLeads

LEMMA KeptInit == Init => KeptInv
<1> SUFFICES ASSUME Init PROVE KeptInv
  OBVIOUS
<1>1. MaxFiles \in Nat /\ 1 \in 1..MaxClock /\ <<>> \in Seq(FileName)
  BY MaxFilesAssumption, ClockAssumption
<1>2. KeptType
  BY <1>1 DEF Init, KeptType
<1>3. \A s \in 1..MaxClock : Near(s)
  BY <1>1 DEF Init, Near
<1>4. LinkLeads
  BY NameAssumption DEF Init, LinkLeads
<1> QED BY <1>2, <1>3, <1>4 DEF KeptInv

LEMMA KeptSame ==
    ASSUME KeptInv, UNCHANGED <<dir, link, clock, stamp, since, latest>>
    PROVE  KeptInv'
BY DEF KeptInv, KeptType, Near, LinkLeads

\* A line, or the opening of a new log, puts one log behind all others, which
\* keep what they have behind them but for that one.
LEMMA Noted ==
    ASSUME KeptInv, NEW s \in 1..MaxClock, NoteWritten(s), dir' \in Seq(FileName),
           Contains(dir', Live(s)) => Within(dir', Live(s), 0),
           ~Contains(dir', Live(s)) => dir' = dir,
           NEW front \in Seq(FileName),
           Contains(dir', Live(s)) => dir' = Append(front, Live(s)),
           \A t \in 1..MaxClock : \A n \in Nat :
               t # s /\ n < MaxFiles - 1 /\ Within(dir, Live(t), n) => Within(front, Live(t), n)
    PROVE  since' \in [1..MaxClock -> Nat] /\ \A t \in 1..MaxClock : Near(t)'
<1>1. since \in [1..MaxClock -> Nat] /\ MaxFiles \in Nat /\ Live(s) \in FileName
  BY MaxFilesAssumption DEF KeptInv, KeptType, Live, FileName
<1>2. since' = [t \in 1..MaxClock |->
          IF t = s THEN (IF Contains(dir', Live(s)) THEN 0 ELSE since[s])
          ELSE IF since[t] < MaxFiles THEN since[t] + 1 ELSE since[t]]
  BY DEF NoteWritten
<1>3. since' \in [1..MaxClock -> Nat]
  BY <1>1, <1>2
<1>4. Near(s)'
  <2>1. CASE Contains(dir', Live(s))
    <3>1. since'[s] = 0
      BY <1>2, <2>1
    <3>2. Within(dir', Live(s), since'[s])
      BY <2>1, <3>1
    <3> QED BY <3>2 DEF Near, Live
  <2>2. CASE ~Contains(dir', Live(s))
    <3>1. since'[s] = since[s]
      BY <1>2, <2>2
    <3> QED BY <2>2, <3>1 DEF KeptInv, Near, Live, Within
  <2> QED BY <2>1, <2>2
<1>5. ASSUME NEW t \in 1..MaxClock, t # s
      PROVE  Near(t)'
  <2> SUFFICES ASSUME since'[t] < MaxFiles - 1
               PROVE  Within(dir', Live(t), since'[t])
    BY DEF Near, Live, Within
  <2>1. since[t] \in Nat /\ since'[t] = since[t] + 1 /\ since[t] < MaxFiles - 1
    BY <1>1, <1>2, <1>5
  <2>2. Within(dir, Live(t), since[t])
    BY <2>1 DEF KeptInv, Near
  <2>3. CASE Contains(dir', Live(s))
    <3>1. Within(front, Live(t), since[t])
      BY <1>5, <2>1, <2>2
    <3>2. Within(Append(front, Live(s)), Live(t), since[t] + 1)
      BY <1>1, <2>1, <3>1, AppendKeeps
    <3> QED BY <2>1, <2>3, <3>2
  <2>4. CASE ~Contains(dir', Live(s))
    <3>1. Len(dir) \in Nat /\ dir' = dir
      BY <2>4, LenProperties DEF KeptInv, KeptType
    <3>2. PICK i \in 1..Len(dir) : dir[i] = Live(t) /\ Len(dir) - i <= since[t]
      BY <2>2 DEF Within
    <3>3. Len(dir) - i <= since[t] + 1
      BY <2>1, <3>1, <3>2
    <3> QED BY <2>1, <3>1, <3>2, <3>3 DEF Within
  <2> QED BY <2>3, <2>4
<1> QED BY <1>3, <1>4, <1>5

\* Room is made.
LEMMA KeptPruned ==
    ASSUME KeptInv, dir' = Pruned(MaxFiles - 1), UNCHANGED <<link, clock, stamp, since, latest>>
    PROVE  KeptInv'
<1>1. dir \in Seq(FileName) /\ MaxFiles - 1 \in Nat /\ since \in [1..MaxClock -> Nat]
  BY MaxFilesAssumption DEF KeptInv, KeptType
<1>2. /\ Pruned(MaxFiles - 1) \in Seq(FileName)
      /\ \A f : \A n \in Nat :
           n < MaxFiles - 1 /\ Within(dir, f, n) => Within(Pruned(MaxFiles - 1), f, n)
  BY <1>1, PrunedKeeps
<1>3. \A s \in 1..MaxClock : since[s] < MaxFiles - 1 => Within(dir', Live(s), since[s])
  BY <1>1, <1>2 DEF KeptInv, Near
<1>4. \A s \in 1..MaxClock : Near(s)'
  BY <1>3 DEF Near, Live, Within
<1>5. KeptType'
  BY <1>2 DEF KeptInv, KeptType
<1>6. LinkLeads'
  BY DEF KeptInv, LinkLeads, Live
<1> QED BY <1>4, <1>5, <1>6 DEF KeptInv

LEMMA KeptOpened ==
    ASSUME KeptInv, NEW d \in Daemon, OpenLog(d)
    PROVE  KeptInv'
<1> DEFINE front == Pruned(MaxFiles - 1)
<1>1. dir \in Seq(FileName) /\ MaxFiles - 1 \in Nat /\ clock \in 1..MaxClock
  BY MaxFilesAssumption DEF KeptInv, KeptType
<1>2. clock' \in 1..MaxClock /\ Live(clock') \in FileName
  BY <1>1 DEF OpenLog, NextSecond, Live, FileName
<1>3. /\ front \in Seq(FileName)
      /\ \A f : \A n \in Nat : n < MaxFiles - 1 /\ Within(dir, f, n) => Within(front, f, n)
  BY <1>1, PrunedKeeps
<1> HIDE DEF front
<1>4. /\ dir' = IF Contains(front, Live(clock')) THEN front ELSE Append(front, Live(clock'))
      /\ IF Contains(front, Live(clock')) THEN UNCHANGED since ELSE NoteWritten(clock')
      /\ stamp' = [stamp EXCEPT ![d] = clock'] /\ link' = Live(clock') /\ latest' = d
  BY DEF OpenLog, Opened, Link, front
<1>5. since' \in [1..MaxClock -> Nat] /\ dir' \in Seq(FileName) /\ \A s \in 1..MaxClock : Near(s)'
  <2>1. CASE Contains(front, Live(clock'))
    <3>1. \A s \in 1..MaxClock : since[s] < MaxFiles - 1 => Within(front, Live(s), since[s])
      BY <1>3 DEF KeptInv, KeptType, Near
    <3>2. \A s \in 1..MaxClock : Near(s)'
      BY <1>4, <2>1, <3>1 DEF Near, Live, Within
    <3> QED BY <1>3, <1>4, <2>1, <3>2 DEF KeptInv, KeptType
  <2>2. CASE ~Contains(front, Live(clock'))
    <3>1. dir' = Append(front, Live(clock')) /\ NoteWritten(clock')
      BY <1>4, <2>2
    <3>2. dir' \in Seq(FileName) /\ Within(dir', Live(clock'), 0)
      BY <1>2, <1>3, <3>1, LastIsWithin
    <3>3. Contains(dir', Live(clock'))
      BY <3>2 DEF Contains, Within
    <3> QED BY <1>2, <1>3, <3>1, <3>2, <3>3, Noted
  <2> QED BY <2>1, <2>2
<1>6. KeptType'
  BY <1>2, <1>4, <1>5 DEF KeptInv, KeptType
<1>7. LinkLeads'
  BY <1>4 DEF KeptInv, KeptType, LinkLeads, Live
<1> QED BY <1>5, <1>6, <1>7 DEF KeptInv

LEMMA KeptLogged ==
    ASSUME KeptInv, NEW s \in 1..MaxClock, LogLine(s), NoteWritten(s),
           UNCHANGED <<link, clock, stamp, latest>>
    PROVE  KeptInv'
<1>1. dir \in Seq(FileName) /\ MaxFiles - 1 \in Nat /\ Live(s) \in FileName
  BY MaxFilesAssumption DEF KeptInv, KeptType, Live, FileName
<1>2. \A t \in 1..MaxClock : t # s => Live(t) # Live(s)
  BY DEF Live
<1>3. since' \in [1..MaxClock -> Nat] /\ dir' \in Seq(FileName) /\ \A t \in 1..MaxClock : Near(t)'
  <2>1. CASE dir' = Touched(s) /\ Present(Live(s))
    <3> DEFINE front == RemoveFirst(dir, Live(s))
    <3>1. /\ front \in Seq(FileName)
          /\ \A f : \A n \in Nat : f # Live(s) /\ Within(dir, f, n) => Within(front, f, n)
      BY <1>1, RemoveKeeps
    <3>2. dir' = Append(front, Live(s))
      BY <2>1 DEF Touched
    <3> HIDE DEF front
    <3>3. dir' \in Seq(FileName) /\ Within(dir', Live(s), 0)
      BY <1>1, <3>1, <3>2, LastIsWithin
    <3>4. Contains(dir', Live(s))
      BY <3>3 DEF Contains, Within
    <3> QED BY <1>2, <3>1, <3>2, <3>3, <3>4, Noted
  <2>2. CASE dir' = Touched(s) /\ ~Present(Live(s))
    <3>1. dir' = dir /\ ~Contains(dir', Live(s))
      BY <2>2 DEF Touched, Present
    <3> QED BY <1>1, <3>1, Noted
  <2>3. CASE dir' = Rotated(s)
    <3> DEFINE last  == [stamp |-> s, age |-> MaxFiles - 1]
               kept  == RemoveFirst(dir, last)
               front == [i \in DOMAIN kept |-> Aged(kept[i], s)]
    <3>1. /\ kept \in Seq(FileName)
          /\ \A f : \A n \in Nat : f # last /\ Within(dir, f, n) => Within(kept, f, n)
      BY <1>1, RemoveKeeps
    <3>2. \A t \in 1..MaxClock : t # s => Live(t) # last
      BY DEF Live
    <3>3. dir' = Append(front, Live(s))
      BY <2>3 DEF Rotated
    <3> HIDE DEF last, kept
    <3>4. /\ front \in Seq(FileName)
          /\ \A t \in 1..MaxClock : \A n \in Nat :
               t # s /\ Within(kept, Live(t), n) => Within(front, Live(t), n)
      BY <3>1, AgedKeeps
    <3> HIDE DEF front
    <3>5. dir' \in Seq(FileName) /\ Within(dir', Live(s), 0)
      BY <1>1, <3>3, <3>4, LastIsWithin
    <3>6. Contains(dir', Live(s))
      BY <3>5 DEF Contains, Within
    <3> QED BY <3>1, <3>2, <3>3, <3>4, <3>5, <3>6, Noted
  <2> QED BY <2>1, <2>2, <2>3 DEF LogLine
<1>4. KeptType'
  BY <1>3 DEF KeptInv, KeptType
<1>5. LinkLeads'
  BY DEF KeptInv, LinkLeads, Live
<1> QED BY <1>3, <1>4, <1>5 DEF KeptInv

LEMMA KeptStep == KeptInv /\ [Next]_vars => KeptInv'
<1> SUFFICES ASSUME KeptInv, [Next]_vars PROVE KeptInv'
  OBVIOUS
<1>1. ASSUME NEW d \in Daemon, Start(d) PROVE KeptInv'
  BY <1>1, KeptOpened DEF Start
<1>2. ASSUME NEW d \in Daemon, StartFails(d) PROVE KeptInv'
  BY <1>2, KeptOpened, KeptPruned, KeptSame DEF StartFails, fileVars
<1>3. ASSUME NEW d \in Daemon, Check(d) \/ Quit(d) \/ Restore(d) \/ Read(d) PROVE KeptInv'
  BY <1>3, KeptSame DEF Check, Quit, Restore, Read, fileVars
<1>4. ASSUME NEW d \in Daemon, LogChunk(d) \/ End(d) PROVE KeptInv'
  <2>1. /\ UNCHANGED <<link, clock, stamp, latest>>
        /\ \/ UNCHANGED <<dir, since>>
           \/ LogLine(stamp[d]) /\ NoteWritten(stamp[d])
    BY <1>4 DEF LogChunk, End
  <2>2. stamp[d] \in 1..MaxClock
    BY DEF KeptInv, KeptType
  <2> QED BY <2>1, <2>2, KeptLogged, KeptSame
<1>5. ASSUME NEW d \in Daemon, NEW w \in Module \cup {"daemon"}, NEW t \in Token, Write(d, w, t)
      PROVE  KeptInv'
  BY <1>5, KeptSame DEF Write, fileVars
<1>6. ASSUME NEW d \in Daemon, NEW m \in Module, ModuleStarts(d, m) \/ ModuleExits(d, m)
      PROVE  KeptInv'
  BY <1>6, KeptSame DEF ModuleStarts, ModuleExits, fileVars
<1>7. ASSUME NEW d \in Daemon, ConsoleStalls(d) \/ ConsoleResumes(d)
      PROVE  KeptInv'
  BY <1>7, KeptSame DEF ConsoleStalls, ConsoleResumes, fileVars
<1>8. CASE UNCHANGED vars
  BY <1>8, KeptSame DEF vars, fileVars
<1> QED BY <1>1, <1>2, <1>3, <1>4, <1>5, <1>6, <1>7, <1>8, Zenon DEF Next, Reader

\* A daemon's log stays in the directory, and the stable name leads to one that
\* is there, until max_files - 1 other logs were opened anew or written.
THEOREM RecentLogsStay == Spec => []LogsKept
<1>1. KeptInv => LogsKept
  <2> SUFFICES ASSUME KeptInv, NEW d \in Daemon, since[stamp[d]] < MaxFiles - 1
               PROVE  Present(Live(stamp[d])) /\ (d = latest => link = Live(stamp[d]))
    BY DEF LogsKept
  <2>1. stamp[d] \in 1..MaxClock
    BY DEF KeptInv, KeptType
  <2>2. Within(dir, Live(stamp[d]), since[stamp[d]])
    BY <2>1 DEF KeptInv, Near
  <2> QED BY <2>2 DEF Within, Present, Contains, KeptInv, LinkLeads
<1> QED BY <1>1, KeptInit, KeptStep, PTL DEF Spec
=============================================================================
