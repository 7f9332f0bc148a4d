------------------------------- MODULE Stdio -------------------------------
(***************************************************************************)
(* Buffered files of the C library (libc/src/stdio.c): a process writes a  *)
(* file through a FILE opened with "w" while another reads it through a    *)
(* FILE opened with "r".  A step is an iteration of the loop of fwrite or  *)
(* fread, with at most one system call in it.                              *)
(*                                                                         *)
(* The file itself is what Vfs shows of it: a write appends, short when    *)
(* the quota is reached; a read returns what stands at the position.       *)
(* Descriptors are shared by all programs, so another one may close either *)
(* of the two; that it opens a file of its own there is left out.          *)
(***************************************************************************)
EXTENDS Integers, SequencesExt, FiniteSetsExt

CONSTANTS
    FILE_BUF_SIZE,
    Items,              \* byte strings passed to fwrite
    Reads,              \* sizes passed to fread
    Room,               \* bytes that the quota leaves for the file
    MaxAccepted         \* bound on what is written

ASSUME StdioConstants ==
    /\ FILE_BUF_SIZE \in Nat \ {0} /\ Reads \subseteq Nat \ {0} /\ {Room, MaxAccepted} \subseteq Nat
    /\ Items \subseteq Seq(Nat)

VARIABLES
    content, position,  \* the file, and the position of the reader's descriptor
    open,               \* which of the two descriptors are open
    wbuf,               \* the writer's buffer: buf up to buf_pos
    src,                \* what the current fwrite has not copied yet
    closed,             \* "open", how fclose's write went, or what it has returned
    rbuf,               \* the reader's buffer: buf from buf_pos to buf_len
    wanted,             \* bytes that the current fread still wants
    accepted, got       \* ghost: all bytes taken by fwrite, and returned by fread

vars == <<content, position, open, wbuf, src, closed, rbuf, wanted, accepted, got>>
writer == <<wbuf, src, closed, accepted>>
reader == <<position, rbuf, wanted, got>>

\* fopen: empty buffers; "w" has truncated the file.
Init ==
    /\ content = <<>> /\ position = 0 /\ open = {"r", "w"}
    /\ wbuf = <<>> /\ src = <<>> /\ closed = "open"
    /\ rbuf = <<>> /\ wanted = 0
    /\ accepted = <<>> /\ got = <<>>

\* The system call write: how much of data goes into the file.  With no room left
\* it is 0, which is no error.
Written(data) == Min({Len(data), Room - Len(content)})

\* Another program calls close.
close_elsewhere ==
    /\ \E d \in open : open' = open \ {d}
    /\ UNCHANGED <<content, writer, reader>>
-----------------------------------------------------------------------------
fwrite(data) ==
    /\ closed = "open" /\ src = <<>>
    /\ Len(accepted) + Len(data) <= MaxAccepted
    /\ src' = data
    /\ UNCHANGED <<content, open, wbuf, closed, accepted, reader>>

\* Mutants of fwrite_step: the room in the buffer is not looked at; the buffer is
\* written one byte too late.
FwriteStepOverruns ==
    LET flush == Len(wbuf) >= FILE_BUF_SIZE
        kept == IF flush THEN <<>> ELSE wbuf
        chunk == Len(src)
    IN  /\ src # <<>> /\ (flush => "w" \in open)
        /\ content' = IF flush THEN content \o SubSeq(wbuf, 1, Written(wbuf)) ELSE content
        /\ wbuf' = kept \o SubSeq(src, 1, chunk)
        /\ accepted' = accepted \o SubSeq(src, 1, chunk)
        /\ src' = SubSeq(src, chunk + 1, Len(src))
        /\ UNCHANGED <<open, closed, reader>>

FwriteStepLate ==
    LET flush == Len(wbuf) > FILE_BUF_SIZE
        kept == IF flush THEN <<>> ELSE wbuf
        chunk == Min({Len(src), FILE_BUF_SIZE - Len(kept)})
    IN  /\ src # <<>> /\ (flush => "w" \in open)
        /\ content' = IF flush THEN content \o SubSeq(wbuf, 1, Written(wbuf)) ELSE content
        /\ wbuf' = kept \o SubSeq(src, 1, chunk)
        /\ accepted' = accepted \o SubSeq(src, 1, chunk)
        /\ src' = SubSeq(src, chunk + 1, Len(src))
        /\ UNCHANGED <<open, closed, reader>>

\* One iteration of fwrite: a full buffer goes to the file first, and is taken to
\* be empty then even if the write was short.
fwrite_step ==
    LET flush == Len(wbuf) >= FILE_BUF_SIZE
        kept == IF flush THEN <<>> ELSE wbuf
        chunk == Min({Len(src), FILE_BUF_SIZE - Len(kept)})
    IN  /\ src # <<>> /\ (flush => "w" \in open)
        /\ content' = IF flush THEN content \o SubSeq(wbuf, 1, Written(wbuf)) ELSE content
        /\ wbuf' = kept \o SubSeq(src, 1, chunk)
        /\ accepted' = accepted \o SubSeq(src, 1, chunk)
        /\ src' = SubSeq(src, chunk + 1, Len(src))
        /\ UNCHANGED <<open, closed, reader>>

\* write() returns -1: fwrite breaks off with the full buffer kept, and returns how
\* much it has taken.
fwrite_fails ==
    /\ src # <<>> /\ Len(wbuf) >= FILE_BUF_SIZE /\ "w" \notin open
    /\ src' = <<>>
    /\ UNCHANGED <<content, open, wbuf, closed, accepted, reader>>

\* Mutant of fclose: what is buffered is dropped.
FcloseDrops ==
    /\ closed = "open" /\ src = <<>>
    /\ closed' = "flushed" /\ wbuf' = <<>>
    /\ UNCHANGED <<content, open, src, accepted, reader>>

\* fclose writes what is buffered.  If that fails it is lost, and the result is -1.
fclose ==
    /\ closed = "open" /\ src = <<>>
    /\ IF wbuf # <<>> /\ "w" \notin open
       THEN closed' = "failed" /\ content' = content
       ELSE closed' = "flushed" /\ content' = content \o SubSeq(wbuf, 1, Written(wbuf))
    /\ wbuf' = <<>>
    /\ UNCHANGED <<open, src, accepted, reader>>

\* Its second system call, close; the FILE is freed.
fclose_close ==
    /\ closed \in {"flushed", "failed"}
    /\ closed' = IF closed = "flushed" /\ "w" \in open THEN "closed: 0" ELSE "closed: -1"
    /\ open' = open \ {"w"}
    /\ UNCHANGED <<content, wbuf, src, accepted, reader>>
-----------------------------------------------------------------------------
fread(n) ==
    /\ wanted = 0
    /\ wanted' = n
    /\ UNCHANGED <<content, open, writer, position, rbuf, got>>

\* What the system call read returns for a whole buffer: nothing at the end of the
\* file, or when it fails.
Fill ==
    IF "r" \notin open THEN <<>>
    ELSE SubSeq(content, position + 1, Min({position + FILE_BUF_SIZE, Len(content)}))

\* Mutant of fread_step: the buffer is refilled before it is drained.
FreadStepRefills ==
    LET buf == IF Len(rbuf) < wanted THEN Fill ELSE rbuf
        chunk == Min({Len(buf), wanted})
    IN  /\ wanted > 0
        /\ position' = IF Len(rbuf) < wanted THEN position + Len(Fill) ELSE position
        /\ got' = got \o SubSeq(buf, 1, chunk)
        /\ rbuf' = SubSeq(buf, chunk + 1, Len(buf))
        /\ wanted' = IF buf = <<>> THEN 0 ELSE wanted - chunk
        /\ UNCHANGED <<content, open, writer>>

\* One iteration of fread: an empty buffer is refilled; if there is nothing to
\* fill it with the call returns with what it has.
fread_step ==
    LET buf == IF rbuf = <<>> THEN Fill ELSE rbuf
        chunk == Min({Len(buf), wanted})
    IN  /\ wanted > 0
        /\ position' = IF rbuf = <<>> THEN position + Len(Fill) ELSE position
        /\ got' = got \o SubSeq(buf, 1, chunk)
        /\ rbuf' = SubSeq(buf, chunk + 1, Len(buf))
        /\ wanted' = IF buf = <<>> THEN 0 ELSE wanted - chunk
        /\ UNCHANGED <<content, open, writer>>

Next ==
    \/ \E data \in Items : fwrite(data)
    \/ fwrite_step \/ fwrite_fails
    \/ fclose \/ fclose_close
    \/ \E n \in Reads : fread(n)
    \/ fread_step
    \/ close_elsewhere

Spec ==
    /\ Init /\ [][Next]_vars
    /\ WF_vars(fwrite_step \/ fwrite_fails) /\ WF_vars(fread_step)
-----------------------------------------------------------------------------
\* What fwrite has accepted is in the file or, in order, in the buffer, also when
\* another program closes the descriptor in the middle: coalescing writes neither
\* loses, repeats nor reorders a byte (as long as the quota lets the writes
\* through), unless the fclose that drops them returns -1.
AcceptedIsKept == closed \in {"failed", "closed: -1"} \/ content \o wbuf = accepted

\* What fread has returned, and the bytes it has read ahead, are the beginning of
\* the file in order, however the reads fall between the writer's flushes.
ReadInOrder == got \o rbuf = SubSeq(content, 1, position)

\* Neither buffer outgrows the FILE_BUF_SIZE bytes that fopen allocated for it.
BuffersFit == Len(wbuf) <= FILE_BUF_SIZE /\ Len(rbuf) <= FILE_BUF_SIZE

\* A call of fread or fwrite returns: both loops make progress, or stop at the end
\* of the file or at a descriptor that is no longer open.
CallsReturn == [](wanted > 0 => <>(wanted = 0)) /\ [](src # <<>> => <>(src = <<>>))

\* "Flush any buffered writes, close the underlying fd ... Returns 0 on success"
\* (stdio.h, fclose): after that everything accepted is in the file.
ClosedMeansWritten == closed = "closed: 0" => content = accepted
=============================================================================
