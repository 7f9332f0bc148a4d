---------------------------- MODULE StdioProofs -----------------------------
(***************************************************************************)
(* The buffers of stdio.c, for any buffer size, items, reads and room.     *)
(***************************************************************************)
EXTENDS Stdio, SequenceTheorems, TLAPS

\* A byte is a number: nothing here looks at its value.
Bytes == Seq(Nat)

TypeInv ==
    /\ content \in Bytes /\ wbuf \in Bytes /\ src \in Bytes /\ rbuf \in Bytes
    /\ accepted \in Bytes /\ got \in Bytes
    /\ position \in Nat /\ wanted \in Nat

\* The file is no longer than its room, and nobody has read past its end.
FileInv == Len(content) <= Room /\ position <= Len(content)

\* What is needed to read in order, whatever the room.
IInv == TypeInv /\ FileInv /\ BuffersFit /\ ReadInOrder

\* And that writes are not short: the caller stays within MaxAccepted; nor is
\* anything written once fclose has begun.
KeptInv ==
    /\ AcceptedIsKept /\ Len(accepted) + Len(src) <= MaxAccepted
    /\ closed = "open" \/ src = <<>>
-----------------------------------------------------------------------------
\* The smaller of two numbers: what limits a chunk.
LEMMA MinTwo ==
    ASSUME NEW a \in Int, NEW b \in Int
    PROVE  Min({a, b}) = IF a <= b THEN a ELSE b
<1>1. CASE a <= b
  <2>1. \A x \in {a, b} : (\A y \in {a, b} : x <= y) => x = a
    BY <1>1
  <2>2. a \in {a, b} /\ \A y \in {a, b} : a <= y
    BY <1>1
  <2>3. Min({a, b}) = a
    BY <2>1, <2>2, Zenon DEF Min
  <2> QED BY <1>1, <2>3
<1>2. CASE ~(a <= b)
  <2>1. \A x \in {a, b} : (\A y \in {a, b} : x <= y) => x = b
    BY <1>2
  <2>2. b \in {a, b} /\ \A y \in {a, b} : b <= y
    BY <1>2
  <2>3. Min({a, b}) = b
    BY <2>1, <2>2, Zenon DEF Min
  <2> QED BY <1>2, <2>3
<1> QED BY <1>1, <1>2

\* A byte string cut in two.
LEMMA CutFacts ==
    ASSUME NEW s \in Bytes, NEW k \in 0 .. Len(s)
    PROVE  /\ Len(s) \in Nat
           /\ SubSeq(s, 1, k) \in Bytes /\ Len(SubSeq(s, 1, k)) = k
           /\ SubSeq(s, k + 1, Len(s)) \in Bytes /\ Len(SubSeq(s, k + 1, Len(s))) = Len(s) - k
           /\ SubSeq(s, 1, k) \o SubSeq(s, k + 1, Len(s)) = s
<1>1. Len(s) \in Nat /\ s \in Seq(Nat)
  BY LenProperties DEF Bytes
<1>2. \A i \in 1 .. Len(s) : s[i] \in Nat
  BY <1>1, ElementOfSeq, Zenon
<1>3. SubSeq(s, 1, k) \in Seq(Nat) /\ Len(SubSeq(s, 1, k)) = k
  <2>1. k \in Int /\ \A i \in 1 .. k : s[i] \in Nat
    BY <1>1, <1>2
  <2>2. /\ SubSeq(s, 1, k) \in Seq(Nat)
        /\ Len(SubSeq(s, 1, k)) = IF 1 <= k THEN k - 1 + 1 ELSE 0
    BY <2>1, SubSeqProperties
  <2> QED BY <1>1, <2>2
<1>4. SubSeq(s, k + 1, Len(s)) \in Seq(Nat) /\ Len(SubSeq(s, k + 1, Len(s))) = Len(s) - k
  <2>1. k + 1 \in Int /\ Len(s) \in Int /\ \A i \in k + 1 .. Len(s) : s[i] \in Nat
    BY <1>1, <1>2
  <2>2. /\ SubSeq(s, k + 1, Len(s)) \in Seq(Nat)
        /\ Len(SubSeq(s, k + 1, Len(s))) = IF k + 1 <= Len(s) THEN Len(s) - (k + 1) + 1 ELSE 0
    BY <2>1, SubSeqProperties
  <2> QED BY <1>1, <2>2
<1>5. SubSeq(s, 1, k) \o SubSeq(s, k + 1, Len(s)) = SubSeq(s, 1, Len(s))
  <2>1. 1 \in 1 .. Len(s) + 1 /\ k \in 1 - 1 .. Len(s) /\ Len(s) \in k .. Len(s)
    BY <1>1
  <2> QED BY <1>1, <2>1, ConcatAdjacentSubSeq, Zenon
<1>6. SubSeq(s, 1, Len(s)) = s
  BY <1>1, SubSeqFull
<1> QED BY <1>1, <1>3, <1>4, <1>5, <1>6, Zenon DEF Bytes

\* The length of a byte string, and the empty one.
LEMMA LenFacts ==
    ASSUME NEW s \in Bytes
    PROVE  /\ Len(s) \in Nat /\ (s # <<>> => Len(s) > 0)
           /\ s \o <<>> = s /\ <<>> \o s = s /\ <<>> \in Bytes /\ Len(<<>>) = 0
<1>0. s \in Seq(Nat)
  BY DEF Bytes
<1>1. s \o <<>> = s /\ <<>> \o s = s
  BY <1>0, ConcatEmptySeq, Zenon
<1>2. <<>> \in Bytes /\ Len(<<>>) = 0 /\ Len(s) \in Nat /\ (s # <<>> => Len(s) \in Nat \ {0})
  BY <1>0, EmptySeq, LenProperties, Zenon DEF Bytes
<1> QED BY <1>1, <1>2

\* Joining byte strings.
LEMMA JoinFacts ==
    ASSUME NEW s \in Bytes, NEW t \in Bytes
    PROVE  s \o t \in Bytes /\ Len(s \o t) = Len(s) + Len(t)
BY ConcatProperties, Zenon DEF Bytes

\* Joining the three in either grouping is the same.
Associate(s, t, u) == (s \o t) \o u = s \o (t \o u)

\* Byte strings may be joined in any grouping.
LEMMA JoinAssociative ==
    ASSUME NEW s \in Bytes, NEW t \in Bytes, NEW u \in Bytes
    PROVE  Associate(s, t, u)
<1>0. s \in Seq(Nat) /\ t \in Seq(Nat) /\ u \in Seq(Nat)
  BY DEF Bytes
<1>1. (s \o t) \o u = s \o (t \o u)
  BY <1>0
<1> QED BY <1>1, Zenon DEF Associate

\* The beginning of a file that is appended to.
LEMMA BeginningStays ==
    ASSUME NEW s \in Bytes, NEW t \in Bytes, NEW p \in 0 .. Len(s)
    PROVE  SubSeq(s \o t, 1, p) = SubSeq(s, 1, p)
<1>1. Len(s) \in Nat /\ s \in Seq(Nat) /\ t \in Seq(Nat)
  BY LenProperties DEF Bytes
<1>2. CASE p = 0
  BY <1>2, SubSeqEmpty
<1>3. CASE p # 0
  <2>1. 1 \in 1 .. Len(s) /\ p \in 1 .. Len(s)
    BY <1>1, <1>3
  <2> QED BY <1>1, <2>1, SubSeqOfConcat1
<1> QED BY <1>2, <1>3
-----------------------------------------------------------------------------
(***************************************************************************)
(* The steps.                                                              *)
(***************************************************************************)
\* A write() appends a part of the buffer, all of it when there is room.
LEMMA WriteFacts ==
    ASSUME TypeInv, FileInv
    PROVE  /\ Written(wbuf) \in 0 .. Len(wbuf) /\ Len(content) + Written(wbuf) <= Room
           /\ Len(content) + Len(wbuf) <= Room => Written(wbuf) = Len(wbuf)
<1>1. Len(wbuf) \in Nat /\ Len(content) \in Nat /\ Room \in Nat /\ Len(content) <= Room
  BY LenFacts, StdioConstants DEF TypeInv, FileInv
<1>2. Written(wbuf) = IF Len(wbuf) <= Room - Len(content) THEN Len(wbuf) ELSE Room - Len(content)
  BY <1>1, MinTwo DEF Written
<1> QED BY <1>1, <1>2

\* What a write() leaves true of the file and its reader.
LEMMA FileGrows ==
    ASSUME IInv, NEW n \in 0 .. Len(wbuf), Len(content) + n <= Room,
           NEW c, c = content \o SubSeq(wbuf, 1, n)
    PROVE  /\ c \in Bytes /\ Len(c) <= Room /\ position <= Len(c)
           /\ SubSeq(c, 1, position) = SubSeq(content, 1, position)
<1>0. content \in Bytes /\ wbuf \in Bytes /\ position \in Nat /\ position <= Len(content)
  BY Zenon DEF IInv, TypeInv, FileInv
<1> DEFINE x == SubSeq(wbuf, 1, n)
<1>1. x \in Bytes /\ Len(x) = n
  BY <1>0, CutFacts, Zenon
<1> HIDE DEF x
<1>2. c = content \o x
  BY DEF x
<1>3. c \in Bytes /\ Len(c) = Len(content) + n /\ Len(content) \in Nat /\ n \in Nat
  <2>1. c \in Bytes /\ Len(c) = Len(content) + Len(x) /\ Len(content) \in Nat
    BY <1>0, <1>1, <1>2, JoinFacts, LenFacts, Zenon
  <2>2. Len(wbuf) \in Nat
    BY <1>0, LenFacts, Zenon
  <2> QED BY <1>1, <2>1, <2>2
<1>4. Len(c) <= Room /\ position <= Len(c) /\ position \in 0 .. Len(content)
  BY <1>0, <1>3
<1>5. SubSeq(c, 1, position) = SubSeq(content, 1, position)
  BY <1>0, <1>1, <1>2, <1>4, BeginningStays
<1> QED BY <1>3, <1>4, <1>5, Zenon

\* The bytes that an iteration of fwrite moves, and those that stay.
LEMMA ChunkFacts ==
    ASSUME IInv, NEW kept \in Bytes, NEW chunk, Len(kept) < FILE_BUF_SIZE,
           chunk = Min({Len(src), FILE_BUF_SIZE - Len(kept)})
    PROVE  /\ chunk \in 0 .. Len(src) /\ SubSeq(src, 1, chunk) \in Bytes
           /\ kept \o SubSeq(src, 1, chunk) \in Bytes
           /\ Len(kept \o SubSeq(src, 1, chunk)) <= FILE_BUF_SIZE
           /\ accepted \o SubSeq(src, 1, chunk) \in Bytes
           /\ Len(accepted \o SubSeq(src, 1, chunk)) = Len(accepted) + chunk
           /\ SubSeq(src, chunk + 1, Len(src)) \in Bytes
           /\ Len(SubSeq(src, chunk + 1, Len(src))) = Len(src) - chunk
<1>0. src \in Bytes /\ accepted \in Bytes /\ FILE_BUF_SIZE \in Nat
  BY StdioConstants DEF IInv, TypeInv
<1>1. Len(src) \in Nat /\ Len(kept) \in Nat
  BY <1>0, LenFacts, Zenon
<1>2. chunk = IF Len(src) <= FILE_BUF_SIZE - Len(kept) THEN Len(src) ELSE FILE_BUF_SIZE - Len(kept)
  BY <1>0, <1>1, MinTwo
<1>3. chunk \in 0 .. Len(src) /\ Len(kept) + chunk <= FILE_BUF_SIZE
  BY <1>0, <1>1, <1>2
<1> DEFINE x == SubSeq(src, 1, chunk)
<1>4. /\ x \in Bytes /\ Len(x) = chunk
      /\ SubSeq(src, chunk + 1, Len(src)) \in Bytes
      /\ Len(SubSeq(src, chunk + 1, Len(src))) = Len(src) - chunk
  BY <1>0, <1>3, CutFacts, Zenon
<1> HIDE DEF x
<1>5. kept \o x \in Bytes /\ Len(kept \o x) = Len(kept) + chunk
  BY <1>4, JoinFacts, Zenon
<1>6. accepted \o x \in Bytes /\ Len(accepted \o x) = Len(accepted) + chunk
  BY <1>0, <1>4, JoinFacts
<1> QED BY <1>3, <1>4, <1>5, <1>6 DEF x

\* An iteration of fwrite: a full buffer goes to the file, then a chunk into the buffer.
LEMMA FwriteStepKeeps ==
    ASSUME IInv, fwrite_step
    PROVE  IInv' /\ (MaxAccepted <= Room /\ KeptInv => KeptInv')
<1> DEFINE flush == Len(wbuf) >= FILE_BUF_SIZE
           kept == IF flush THEN <<>> ELSE wbuf
           chunk == Min({Len(src), FILE_BUF_SIZE - Len(kept)})
           x == SubSeq(src, 1, chunk)
           w == SubSeq(wbuf, 1, Written(wbuf))
<1>0. /\ content \in Bytes /\ wbuf \in Bytes /\ src \in Bytes /\ accepted \in Bytes
      /\ position \in Nat /\ TypeInv /\ FileInv /\ ReadInOrder /\ BuffersFit
      /\ FILE_BUF_SIZE \in Nat /\ FILE_BUF_SIZE > 0
  BY StdioConstants DEF IInv, TypeInv
<1>1. /\ content' = IF flush THEN content \o w ELSE content
      /\ wbuf' = kept \o x /\ accepted' = accepted \o x
      /\ src' = SubSeq(src, chunk + 1, Len(src)) /\ UNCHANGED reader
      /\ src # <<>> /\ closed' = closed
  BY Zenon DEF fwrite_step
<1>2. kept \in Bytes /\ Len(kept) < FILE_BUF_SIZE
  <2>1. <<>> \in Bytes /\ Len(<<>>) = 0 /\ Len(wbuf) \in Nat
    BY <1>0, LenFacts, Zenon
  <2> QED BY <1>0, <2>1
<1> HIDE DEF kept
<1>3. /\ chunk \in 0 .. Len(src) /\ x \in Bytes /\ kept \o x \in Bytes
      /\ Len(kept \o x) <= FILE_BUF_SIZE /\ accepted \o x \in Bytes
      /\ Len(accepted \o x) = Len(accepted) + chunk
      /\ SubSeq(src, chunk + 1, Len(src)) \in Bytes
      /\ Len(SubSeq(src, chunk + 1, Len(src))) = Len(src) - chunk
  BY <1>2, ChunkFacts
<1> HIDE DEF chunk, x
<1>4. /\ Written(wbuf) \in 0 .. Len(wbuf) /\ Len(content) + Written(wbuf) <= Room
      /\ Len(content) + Len(wbuf) <= Room => Written(wbuf) = Len(wbuf)
  BY <1>0, WriteFacts, Zenon
<1>5. /\ content' \in Bytes /\ Len(content') <= Room /\ position <= Len(content')
      /\ SubSeq(content', 1, position) = SubSeq(content, 1, position)
  <2>1. CASE flush
    BY <1>1, <1>4, <2>1, FileGrows, Zenon
  <2>2. CASE ~flush
    BY <1>0, <1>1, <2>2, Zenon DEF FileInv
  <2> QED BY <2>1, <2>2, Zenon
<1>6. TypeInv'
  BY <1>0, <1>1, <1>3, <1>5, Zenon DEF TypeInv, reader
<1>7. FileInv' /\ ReadInOrder'
  BY <1>0, <1>1, <1>5, Zenon DEF FileInv, ReadInOrder, reader
<1>8. BuffersFit'
  BY <1>0, <1>1, <1>3, Zenon DEF BuffersFit, reader
<1>9. ASSUME MaxAccepted <= Room, KeptInv PROVE KeptInv'
  <2>0. /\ content \o wbuf = accepted /\ Len(accepted) + Len(src) <= MaxAccepted
        /\ {Room, MaxAccepted} \subseteq Nat /\ closed = "open"
    BY <1>1, <1>9, StdioConstants DEF KeptInv, AcceptedIsKept
  <2>1. /\ Len(src) \in Nat /\ Len(wbuf) \in Nat /\ Len(content) \in Nat /\ Len(accepted) \in Nat
        /\ Len(accepted) = Len(content) + Len(wbuf)
    BY <1>0, <2>0, JoinFacts, LenFacts
  <2>2. Len(accepted') + Len(src') <= MaxAccepted
    <3>1. Len(accepted') = Len(accepted) + chunk /\ Len(src') = Len(src) - chunk
      BY <1>1, <1>3, Zenon
    <3>2. chunk \in Int
      BY <1>3, <2>1
    <3> QED BY <2>0, <2>1, <3>1, <3>2
  <2>3. Written(wbuf) = Len(wbuf)
    BY <1>4, <1>9, <2>0, <2>1
  <2>4. w = wbuf
    BY <1>0, <2>3, SubSeqFull, Zenon DEF Bytes
  <2>5. content' \o wbuf' = accepted'
    <3>1. CASE flush
      <4>1. content' = accepted /\ kept = <<>>
        BY <1>1, <2>0, <2>4, <3>1, Zenon DEF kept
      <4>2. <<>> \o x = x
        BY <1>3, LenFacts, Zenon
      <4> QED BY <1>1, <4>1, <4>2, Zenon
    <3>2. CASE ~flush
      <4>1. content' = content /\ kept = wbuf
        BY <1>1, <3>2, Zenon DEF kept
      <4>2. (content \o wbuf) \o x = content \o (wbuf \o x)
        <5>1. Associate(content, wbuf, x)
          BY <1>0, <1>3, JoinAssociative, Zenon
        <5> QED BY <5>1, Zenon DEF Associate
      <4> QED BY <1>1, <2>0, <4>1, <4>2, Zenon
    <3> QED BY <3>1, <3>2, Zenon
  <2> QED BY <1>1, <2>0, <2>2, <2>5, Zenon DEF KeptInv, AcceptedIsKept
<1> QED BY <1>6, <1>7, <1>8, <1>9, Zenon DEF IInv

\* fwrite breaks off: only the bytes it has not taken are forgotten.
LEMMA FwriteFailsKeeps ==
    ASSUME IInv, fwrite_fails
    PROVE  IInv' /\ (KeptInv => KeptInv')
<1>1. /\ src' = <<>> /\ content' = content /\ wbuf' = wbuf /\ closed' = closed
      /\ accepted' = accepted /\ UNCHANGED reader
  BY Zenon DEF fwrite_fails
<1>2. /\ src \in Bytes /\ accepted \in Bytes /\ <<>> \in Bytes /\ Len(<<>>) = 0
      /\ Len(src) \in Nat /\ Len(accepted) \in Nat
  BY LenFacts, Zenon DEF IInv, TypeInv
<1>3. IInv'
  BY <1>1, <1>2, Zenon DEF IInv, TypeInv, FileInv, BuffersFit, ReadInOrder, reader
<1>4. ASSUME KeptInv PROVE KeptInv'
  <2>1. Len(accepted') + Len(src') <= MaxAccepted
    BY <1>1, <1>2, <1>4, StdioConstants DEF KeptInv
  <2> QED BY <1>1, <1>4, <2>1, Zenon DEF KeptInv, AcceptedIsKept
<1> QED BY <1>3, <1>4, Zenon

\* fwrite takes a string of bytes.
LEMMA FwriteKeeps ==
    ASSUME IInv, NEW data \in Items, fwrite(data)
    PROVE  IInv' /\ (KeptInv => KeptInv')
<1>1. data \in Bytes
  BY StdioConstants DEF Bytes
<1>2. TypeInv'
  BY <1>1, Zenon DEF fwrite, IInv, TypeInv, reader
<1>3. FileInv' /\ BuffersFit' /\ ReadInOrder'
  BY Zenon DEF fwrite, IInv, FileInv, BuffersFit, ReadInOrder, reader
<1>4. KeptInv => KeptInv'
  BY Zenon DEF fwrite, KeptInv, AcceptedIsKept, reader
<1> QED BY <1>2, <1>3, <1>4, Zenon DEF IInv

\* fclose writes what is left in the buffer, or loses it and remembers that.
LEMMA FcloseKeeps ==
    ASSUME IInv, fclose
    PROVE  IInv' /\ (MaxAccepted <= Room /\ KeptInv => KeptInv')
<1> DEFINE w == SubSeq(wbuf, 1, Written(wbuf))
<1>0. /\ content \in Bytes /\ wbuf \in Bytes /\ src \in Bytes /\ accepted \in Bytes
      /\ position \in Nat /\ TypeInv /\ FileInv /\ ReadInOrder /\ BuffersFit
      /\ FILE_BUF_SIZE \in Nat /\ FILE_BUF_SIZE > 0
  BY StdioConstants DEF IInv, TypeInv
<1>1. /\ \/ content' = content /\ closed' = "failed"
         \/ content' = content \o w /\ closed' = "flushed"
      /\ wbuf' = <<>> /\ src = <<>> /\ closed = "open" /\ UNCHANGED <<src, accepted, reader>>
  BY Zenon DEF fclose
<1>2. <<>> \in Bytes /\ Len(<<>>) = 0
  BY <1>0, LenFacts, Zenon
<1>3. /\ Written(wbuf) \in 0 .. Len(wbuf) /\ Len(content) + Written(wbuf) <= Room
      /\ Len(content) + Len(wbuf) <= Room => Written(wbuf) = Len(wbuf)
  BY <1>0, WriteFacts, Zenon
<1>4. /\ content' \in Bytes /\ Len(content') <= Room /\ position <= Len(content')
      /\ SubSeq(content', 1, position) = SubSeq(content, 1, position)
  <2>1. CASE content' = content
    BY <1>0, <2>1, Zenon DEF FileInv
  <2>2. CASE content' = content \o w
    BY <1>3, <2>2, FileGrows, Zenon
  <2> QED BY <1>1, <2>1, <2>2, Zenon
<1>5. TypeInv'
  BY <1>0, <1>1, <1>2, <1>4, Zenon DEF TypeInv, reader
<1>6. FileInv' /\ ReadInOrder'
  BY <1>0, <1>1, <1>4, Zenon DEF FileInv, ReadInOrder, reader
<1>7. BuffersFit'
  <2>1. Len(<<>>) <= FILE_BUF_SIZE
    BY <1>0, <1>2
  <2> QED BY <1>0, <1>1, <2>1, Zenon DEF BuffersFit, reader
<1>8. ASSUME MaxAccepted <= Room, KeptInv PROVE KeptInv'
  <2>0. /\ content \o wbuf = accepted /\ Len(accepted) + Len(src) <= MaxAccepted
        /\ {Room, MaxAccepted} \subseteq Nat
    BY <1>1, <1>8, StdioConstants DEF KeptInv, AcceptedIsKept
  <2>1. /\ Len(src) \in Nat /\ Len(wbuf) \in Nat /\ Len(content) \in Nat /\ Len(accepted) \in Nat
        /\ Len(accepted) = Len(content) + Len(wbuf)
    BY <1>0, <2>0, JoinFacts, LenFacts
  <2>2. Written(wbuf) = Len(wbuf)
    BY <1>3, <1>8, <2>0, <2>1
  <2>3. w = wbuf
    BY <1>0, <2>2, SubSeqFull, Zenon DEF Bytes
  <2>4. content' = accepted \/ closed' = "failed"
    BY <1>1, <2>0, <2>3, Zenon
  <2>5. accepted \o <<>> = accepted
    BY <1>0, LenFacts, Zenon
  <2> QED BY <1>1, <2>0, <2>4, <2>5, Zenon DEF KeptInv, AcceptedIsKept
<1> QED BY <1>5, <1>6, <1>7, <1>8, Zenon DEF IInv

\* Closing a descriptor changes no byte; fclose remembers that bytes were lost.
LEMMA CloseKeeps ==
    ASSUME IInv, fclose_close \/ close_elsewhere
    PROVE  IInv' /\ (KeptInv => KeptInv')
<1>1. /\ content' = content /\ wbuf' = wbuf /\ src' = src /\ accepted' = accepted
      /\ UNCHANGED reader
  BY Zenon DEF fclose_close, close_elsewhere, writer
<1>2. IInv'
  BY <1>1, Zenon DEF IInv, TypeInv, FileInv, BuffersFit, ReadInOrder, reader
<1>3. ASSUME KeptInv PROVE KeptInv'
  <2>1. AcceptedIsKept' /\ (closed' = "open" \/ src = <<>>)
    <3>1. CASE close_elsewhere
      BY <1>1, <1>3, <3>1, Zenon DEF KeptInv, AcceptedIsKept, close_elsewhere, writer
    <3>2. CASE fclose_close
      <4>1. src = <<>>
        BY <1>3, <3>2 DEF KeptInv, fclose_close
      <4>2. closed = "flushed" \/ closed' = "closed: -1"
        BY <3>2, Zenon DEF fclose_close
      <4>3. closed = "flushed" => content \o wbuf = accepted
        BY <1>3 DEF KeptInv, AcceptedIsKept
      <4> QED BY <1>1, <4>1, <4>2, <4>3, Zenon DEF AcceptedIsKept
    <3> QED BY <3>1, <3>2
  <2> QED BY <1>1, <1>3, <2>1, Zenon DEF KeptInv
<1> QED BY <1>2, <1>3, Zenon

\* fread takes a number of bytes.
LEMMA FreadKeeps ==
    ASSUME IInv, NEW n \in Reads, fread(n)
    PROVE  IInv' /\ (KeptInv => KeptInv')
<1>1. n \in Nat
  BY StdioConstants
<1>2. TypeInv'
  BY <1>1, Zenon DEF fread, IInv, TypeInv, writer
<1>3. FileInv' /\ BuffersFit' /\ ReadInOrder'
  BY Zenon DEF fread, IInv, FileInv, BuffersFit, ReadInOrder, writer
<1>4. KeptInv => KeptInv'
  BY Zenon DEF fread, KeptInv, AcceptedIsKept, writer
<1> QED BY <1>2, <1>3, <1>4, Zenon DEF IInv

\* A read() returns what follows the position, at most a buffer of it.
LEMMA RefillFacts ==
    ASSUME IInv
    PROVE  /\ Fill \in Bytes /\ Len(Fill) \in Nat /\ Len(Fill) <= FILE_BUF_SIZE
           /\ position + Len(Fill) <= Len(content)
           /\ SubSeq(content, 1, position) \o Fill = SubSeq(content, 1, position + Len(Fill))
<1>0. /\ content \in Bytes /\ content \in Seq(Nat) /\ position \in Nat /\ position <= Len(content)
      /\ FILE_BUF_SIZE \in Nat
  BY StdioConstants DEF IInv, TypeInv, FileInv, Bytes
<1>1. Len(content) \in Nat
  BY <1>0, LenFacts, Zenon
<1>a. CASE "r" \notin open
  <2>1. Fill = <<>>
    BY <1>a, Zenon DEF Fill
  <2>2. position \in 0 .. Len(content) /\ position + 0 = position /\ 0 <= FILE_BUF_SIZE
    BY <1>0, <1>1
  <2>3. SubSeq(content, 1, position) \in Bytes /\ <<>> \in Bytes /\ Len(<<>>) = 0
    BY <1>0, <2>2, CutFacts, LenFacts, Zenon
  <2>4. SubSeq(content, 1, position) \o <<>> = SubSeq(content, 1, position)
    BY <2>3, LenFacts, Zenon
  <2> QED BY <1>0, <2>1, <2>2, <2>3, <2>4
<1> SUFFICES ASSUME "r" \in open
             PROVE  /\ Fill \in Bytes /\ Len(Fill) \in Nat /\ Len(Fill) <= FILE_BUF_SIZE
                    /\ position + Len(Fill) <= Len(content)
                    /\ SubSeq(content, 1, position) \o Fill = SubSeq(content, 1, position + Len(Fill))
  BY <1>a, Zenon
<1> DEFINE q == Min({position + FILE_BUF_SIZE, Len(content)})
<1>2. q = IF position + FILE_BUF_SIZE <= Len(content) THEN position + FILE_BUF_SIZE ELSE Len(content)
  <2>1. position + FILE_BUF_SIZE \in Int /\ Len(content) \in Int
    BY <1>0, <1>1
  <2> QED BY <2>1, MinTwo, Zenon
<1>3. Fill = SubSeq(content, position + 1, q)
  BY Zenon DEF Fill
<1> HIDE DEF q
<1>4. q \in Nat /\ position <= q /\ q <= Len(content) /\ q - position <= FILE_BUF_SIZE
  BY <1>0, <1>1, <1>2
<1>5. \A i \in 1 .. Len(content) : content[i] \in Nat
  BY <1>0, ElementOfSeq, Zenon
<1>6. Fill \in Seq(Nat) /\ Len(Fill) = q - position
  <2>1. position + 1 \in Int /\ q \in Int /\ \A i \in position + 1 .. q : content[i] \in Nat
    BY <1>0, <1>1, <1>4, <1>5
  <2>2. /\ SubSeq(content, position + 1, q) \in Seq(Nat)
        /\ Len(SubSeq(content, position + 1, q))
               = IF position + 1 <= q THEN q - (position + 1) + 1 ELSE 0
    BY <2>1, SubSeqProperties
  <2> QED BY <1>0, <1>3, <1>4, <2>2
<1>7. position + Len(Fill) = q
  BY <1>0, <1>4, <1>6
<1>8. SubSeq(content, 1, position) \o Fill = SubSeq(content, 1, q)
  <2>1. 1 \in 1 .. Len(content) + 1 /\ position \in 1 - 1 .. Len(content) /\ q \in position .. Len(content)
    BY <1>0, <1>1, <1>4
  <2>2. SubSeq(content, 1, position) \o SubSeq(content, position + 1, q) = SubSeq(content, 1, q)
    BY <1>0, <2>1, ConcatAdjacentSubSeq
  <2> QED BY <1>3, <2>2, Zenon
<1>9. Len(Fill) \in Nat /\ Len(Fill) <= FILE_BUF_SIZE /\ position + Len(Fill) <= Len(content)
  BY <1>0, <1>4, <1>6, <1>7
<1> QED BY <1>6, <1>7, <1>8, <1>9, Zenon DEF Bytes

\* An iteration of fread hands out the beginning of the buffer.
LEMMA FreadStepKeeps ==
    ASSUME IInv, fread_step
    PROVE  IInv' /\ (KeptInv => KeptInv')
<1> DEFINE buf == IF rbuf = <<>> THEN Fill ELSE rbuf
           chunk == Min({Len(buf), wanted})
           x == SubSeq(buf, 1, chunk)
           y == SubSeq(buf, chunk + 1, Len(buf))
           p == IF rbuf = <<>> THEN position + Len(Fill) ELSE position
<1>0. /\ content \in Bytes /\ got \in Bytes /\ rbuf \in Bytes /\ wanted \in Nat
      /\ position \in Nat /\ TypeInv /\ FileInv /\ ReadInOrder /\ BuffersFit
      /\ FILE_BUF_SIZE \in Nat
  BY StdioConstants DEF IInv, TypeInv
<1>1. /\ position' = p /\ got' = got \o x /\ rbuf' = y /\ UNCHANGED <<content, writer>>
      /\ wanted' = IF buf = <<>> THEN 0 ELSE wanted - chunk
  BY Zenon DEF fread_step
<1>2. /\ Fill \in Bytes /\ Len(Fill) \in Nat /\ Len(Fill) <= FILE_BUF_SIZE
      /\ position + Len(Fill) <= Len(content)
      /\ SubSeq(content, 1, position) \o Fill = SubSeq(content, 1, position + Len(Fill))
  BY RefillFacts, Zenon
<1>3. /\ buf \in Bytes /\ Len(buf) <= FILE_BUF_SIZE /\ p \in Nat /\ p <= Len(content)
      /\ got \o buf = SubSeq(content, 1, p)
  <2>1. CASE rbuf = <<>>
    <3>1. buf = Fill /\ p = position + Len(Fill)
      BY <2>1, Zenon
    <3>2. got = SubSeq(content, 1, position)
      BY <1>0, <2>1, LenFacts, Zenon DEF ReadInOrder
    <3>3. position + Len(Fill) \in Nat
      BY <1>0, <1>2
    <3> QED BY <1>2, <3>1, <3>2, <3>3, Zenon
  <2>2. CASE rbuf # <<>>
    BY <1>0, <2>2, Zenon DEF ReadInOrder, BuffersFit, FileInv
  <2> QED BY <2>1, <2>2, Zenon
<1> HIDE DEF buf, p
<1>4. Len(buf) \in Nat
  BY <1>3, LenFacts, Zenon
<1>5. chunk = IF Len(buf) <= wanted THEN Len(buf) ELSE wanted
  BY <1>0, <1>4, MinTwo
<1> HIDE DEF chunk
<1>6. chunk \in 0 .. Len(buf) /\ wanted - chunk \in Nat
  BY <1>0, <1>4, <1>5
<1>7. /\ x \in Bytes /\ y \in Bytes /\ Len(y) = Len(buf) - chunk /\ x \o y = buf
  BY <1>3, <1>6, CutFacts, Zenon
<1> HIDE DEF x, y
<1>8. (got \o x) \o y = SubSeq(content, 1, p)
  <2>1. Associate(got, x, y)
    BY <1>0, <1>7, JoinAssociative, Zenon
  <2> QED BY <1>3, <1>7, <2>1, Zenon DEF Associate
<1>9. got \o x \in Bytes
  BY <1>0, <1>7, JoinFacts, Zenon
<1>10. TypeInv'
  <2>1. wanted' \in Nat
    BY <1>1, <1>6
  <2> QED BY <1>0, <1>1, <1>3, <1>7, <1>9, <2>1, Zenon DEF TypeInv, writer
<1>11. FileInv' /\ ReadInOrder'
  BY <1>0, <1>1, <1>3, <1>8, Zenon DEF FileInv, ReadInOrder, writer
<1>12. BuffersFit'
  <2>1. Len(y) <= FILE_BUF_SIZE
    BY <1>0, <1>3, <1>4, <1>6, <1>7
  <2> QED BY <1>0, <1>1, <2>1, Zenon DEF BuffersFit, writer
<1>13. KeptInv => KeptInv'
  BY <1>1, Zenon DEF KeptInv, AcceptedIsKept, writer
<1> QED BY <1>10, <1>11, <1>12, <1>13, Zenon DEF IInv
-----------------------------------------------------------------------------
\* What fopen leaves satisfies both invariants.
LEMMA InitInv ==
    ASSUME Init
    PROVE  IInv /\ KeptInv
<1>1. /\ content = <<>> /\ wbuf = <<>> /\ src = <<>> /\ rbuf = <<>> /\ accepted = <<>> /\ got = <<>>
      /\ position = 0 /\ wanted = 0 /\ closed = "open"
  BY Zenon DEF Init
<1>2. /\ <<>> \in Bytes /\ Len(<<>>) = 0 /\ <<>> \o <<>> = <<>> /\ SubSeq(<<>>, 1, 0) = <<>>
      /\ Room \in Nat /\ MaxAccepted \in Nat /\ FILE_BUF_SIZE \in Nat
  <2>1. <<>> \in Bytes
    BY EmptySeq, Zenon DEF Bytes
  <2>2. SubSeq(<<>>, 1, Len(<<>>)) = <<>> /\ Len(<<>>) = 0 /\ <<>> \o <<>> = <<>>
    BY <2>1, LenFacts, SubSeqFull, Zenon DEF Bytes
  <2> QED BY <2>1, <2>2, StdioConstants
<1>3. TypeInv
  BY <1>1, <1>2 DEF TypeInv
<1>4. FileInv /\ BuffersFit
  BY <1>1, <1>2 DEF FileInv, BuffersFit
<1>5. ReadInOrder /\ AcceptedIsKept
  BY <1>1, <1>2, Zenon DEF ReadInOrder, AcceptedIsKept
<1>6. Len(accepted) + Len(src) <= MaxAccepted
  BY <1>1, <1>2
<1> QED BY <1>1, <1>3, <1>4, <1>5, <1>6, Zenon DEF IInv, KeptInv

\* Every step keeps them, the second one while the room suffices.
LEMMA NextInv ==
    ASSUME IInv, [Next]_vars
    PROVE  IInv' /\ (MaxAccepted <= Room /\ KeptInv => KeptInv')
<1>1. CASE UNCHANGED vars
  BY <1>1, Zenon DEF vars, IInv, TypeInv, FileInv, BuffersFit, ReadInOrder, KeptInv, AcceptedIsKept
<1>2. CASE \E data \in Items : fwrite(data)
  BY <1>2, FwriteKeeps, Zenon
<1>3. CASE fwrite_step
  BY <1>3, FwriteStepKeeps, Zenon
<1>4. CASE fclose
  BY <1>4, FcloseKeeps, Zenon
<1>5. CASE \E n \in Reads : fread(n)
  BY <1>5, FreadKeeps, Zenon
<1>6. CASE fread_step
  BY <1>6, FreadStepKeeps, Zenon
<1>7. CASE fwrite_fails
  BY <1>7, FwriteFailsKeeps, Zenon
<1>8. CASE fclose_close \/ close_elsewhere
  BY <1>8, CloseKeeps, Zenon
<1> QED BY <1>1, <1>2, <1>3, <1>4, <1>5, <1>6, <1>7, <1>8, Zenon DEF Next

\* Neither buffer of a FILE outgrows the FILE_BUF_SIZE bytes that fopen gave it,
\* whatever sizes fwrite and fread are called with and however short the writes.
THEOREM BuffersNeverOverrun == Spec => []BuffersFit
<1>1. Init => IInv
  BY InitInv, Zenon
<1>2. IInv /\ [Next]_vars => IInv'
  BY NextInv, Zenon
<1>3. IInv => BuffersFit
  BY Zenon DEF IInv
<1> QED BY <1>1, <1>2, <1>3, PTL DEF Spec

\* What fread has returned and read ahead is the beginning of the file, in order,
\* however its refills fall between the flushes of the writer, and also when the
\* quota cuts those short.
THEOREM ReadsAreInOrder == Spec => []ReadInOrder
<1>1. Init => IInv
  BY InitInv, Zenon
<1>2. IInv /\ [Next]_vars => IInv'
  BY NextInv, Zenon
<1>3. IInv => ReadInOrder
  BY Zenon DEF IInv
<1> QED BY <1>1, <1>2, <1>3, PTL DEF Spec

\* As long as the quota has room for all that the process writes, the file followed
\* by the buffer is what fwrite has accepted: no byte lost, repeated or out of order,
\* also when another program closes the descriptor, unless fclose says so with -1.
THEOREM WritesAreKept ==
    ASSUME MaxAccepted <= Room
    PROVE  Spec => []AcceptedIsKept
<1>1. Init => IInv /\ KeptInv
  BY InitInv, Zenon
<1>2. IInv /\ KeptInv /\ [Next]_vars => (IInv /\ KeptInv)'
  BY NextInv, Zenon
<1>3. KeptInv => AcceptedIsKept
  BY Zenon DEF KeptInv
<1> QED BY <1>1, <1>2, <1>3, PTL DEF Spec
=============================================================================
