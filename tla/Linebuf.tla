------------------------------- MODULE Linebuf -------------------------------
(***************************************************************************)
(* linebuf/linebuf.c over the default socket operations of                 *)
(* vio/vio_sockets.c: a read buffer that is cut into lines, a write buffer *)
(* that is sent as the socket takes it, and an orderly shutdown.           *)
(*                                                                         *)
(* A byte is its position in its stream.  `received' says of every byte    *)
(* the peer sent what it is.  recv and send may take any part of what they *)
(* are offered, nothing for now (EAGAIN), or fail.                         *)
(*                                                                         *)
(* Client code runs between events and in readline_cb, while               *)
(* mowgli_linebuf_process is in the middle of the buffer; there it writes  *)
(* and shuts down, but does not detach the line buffer.  It attaches it    *)
(* again only to the event loop it is attached to.  `partial' says that a  *)
(* send() took some bytes and left some; no function reads it.             *)
(***************************************************************************)
EXTENDS Integers, SequencesExt, FiniteSetsExt

CONSTANTS
  MaxBufLen,  \* maxbuflen of both buffers (65536)
  EndlLen,    \* endl_len
  Sends,      \* kinds of bytes the peer sends
  MaxIn,      \* bound: bytes the peer sends
  MaxOut      \* bound: bytes the client writes

\* text, a delimiter, or the byte 0
Kind == {"text", "delim", "nul"}

ASSUME LinebufAssumption ==
  /\ Sends \subseteq Kind
  /\ {MaxBufLen, EndlLen} \subseteq Nat \ {0}
  /\ {MaxIn, MaxOut} \subseteq Nat

VARIABLES
  attached,   \* linebuf->eventloop is set
  selected,   \* the directions mowgli_pollable_setselect has functions for
  flags,      \* linebuf->flags
  needwrite,  \* MOWGLI_VIO_FLAGS_NEEDWRITE
  isclosed,   \* MOWGLI_VIO_FLAGS_ISCLOSED
  error,      \* vio->error: its type, and whether its code is not 0
  readbuf, writebuf, \* what the first buflen bytes of the buffers hold
  pc,         \* "idle", "process", or "line" in readline_cb
  scan,       \* mowgli_linebuf_process: the buffer from line_start on
  linecount,  \* ... the lines it found so far
  received,   \* per byte received, its kind
  lines,      \* the lines passed to readline_cb
  written,    \* number of bytes the write buffer has accepted
  sent,       \* the bytes send() took
  partial,    \* some send() took only the first of the bytes it was offered
  shutdown    \* why shutdown_cb was last called: "none", "flushed", "broken"

rvars == <<readbuf, pc, scan, linecount, received, lines>>
wvars == <<writebuf, written, sent, partial>>
vars == <<attached, selected, flags, needwrite, isclosed, error, rvars, wvars, shutdown>>

NoError == [type |-> "none", code |-> FALSE]

Init ==
  /\ attached = FALSE
  /\ selected = {}
  /\ flags = {}
  /\ needwrite = FALSE /\ isclosed = FALSE
  /\ error = NoError
  /\ readbuf = << >> /\ writebuf = << >>
  /\ pc = "idle" /\ scan = << >> /\ linecount = 0
  /\ received = << >> /\ lines = << >>
  /\ written = 0 /\ sent = << >> /\ partial = FALSE
  /\ shutdown = "none"

Has(flag) == flag \in flags

\* strchr(delim, c) is not NULL: strchr finds the byte that ends the string
\* delim, too, so that a byte 0 is taken for a delimiter
Ends(c) == c # "text"

-----------------------------------------------------------------------------
(* The client.                                                             *)

mowgli_linebuf_attach_to_eventloop ==
  /\ pc # "process"
  /\ ~isclosed
  /\ attached' = TRUE
  /\ selected' = {"read", "write"}
  /\ UNCHANGED <<flags, needwrite, isclosed, error, rvars, wvars, shutdown>>

mowgli_linebuf_detach_from_eventloop ==
  /\ pc = "idle"
  /\ attached
  /\ attached' = FALSE
  /\ selected' = {}
  /\ UNCHANGED <<flags, needwrite, isclosed, error, rvars, wvars, shutdown>>

\* mowgli_linebuf_error: the type stays until another error replaces it
LinebufError(flag) ==
  /\ flags' = flags \cup {flag}
  /\ error' = [error EXCEPT !.type = "custom"]

Fits(len) == Len(writebuf) + len + EndlLen <= MaxBufLen

\* without an event loop there is no interest to set
mowgli_linebuf_write(len) ==
  /\ pc # "process"
  /\ ~Has("SHUTTING_DOWN")
  /\ IF Fits(len)
     THEN LET n == len + EndlLen
          IN  /\ written + n <= MaxOut
              /\ writebuf' = writebuf \o [i \in 1 .. n |-> written + i]
              /\ written' = written + n
              /\ selected' = IF attached THEN selected \cup {"write"} ELSE selected
              /\ UNCHANGED <<flags, error>>
     ELSE /\ LinebufError("WRITEBUF_FULL")
          /\ UNCHANGED <<writebuf, written, selected>>
  /\ UNCHANGED <<attached, needwrite, isclosed, rvars, sent, partial, shutdown>>

Mutant_ShutDown ==
  /\ pc # "process"
  /\ flags' = flags \cup {"SHUTTING_DOWN"}
  /\ shutdown' = "flushed"
  /\ UNCHANGED <<attached, selected, needwrite, isclosed, error, rvars, wvars>>

mowgli_linebuf_shut_down ==
  /\ pc # "process"
  /\ flags' = flags \cup {"SHUTTING_DOWN"}
  /\ shutdown' = IF writebuf = << >> THEN "flushed" ELSE shutdown
  /\ UNCHANGED <<attached, selected, needwrite, isclosed, error, rvars, wvars>>

-----------------------------------------------------------------------------
(* mowgli_linebuf_write_data, one action per outcome of send().            *)

WriteEvent == attached /\ pc = "idle" /\ "write" \in selected

\* what is left after send() took n bytes: buflen shrinks, nothing is moved
AfterSend(n) == SubSeq(writebuf, 1, Len(writebuf) - n)

Mutant_WriteDone(more) ==
  /\ selected' = selected \ {"write"}
  /\ shutdown' = IF Has("SHUTTING_DOWN") THEN "flushed" ELSE shutdown

\* the end of write_data, `more' being the flag NEEDWRITE
WriteDone(more) ==
  IF writebuf' = << >>
  THEN /\ selected' = IF more THEN selected ELSE selected \ {"write"}
       /\ shutdown' = IF Has("SHUTTING_DOWN") THEN "flushed" ELSE shutdown
  ELSE /\ selected' = selected \cup {"write"}
       /\ UNCHANGED shutdown

WriteSome(n) ==
  /\ WriteEvent
  /\ n \in 1 .. Len(writebuf) \/ (writebuf = << >> /\ n = 0)
  /\ sent' = sent \o SubSeq(writebuf, 1, n)
  /\ writebuf' = AfterSend(n)
  /\ needwrite' = (needwrite \/ n < Len(writebuf))
  /\ partial' = (partial \/ n < Len(writebuf))
  /\ WriteDone(needwrite')
  /\ UNCHANGED <<attached, flags, isclosed, error, rvars, written>>

\* EAGAIN: mowgli_vio_default_write drops the interest and the end of
\* write_data takes it up again
WriteAgain ==
  /\ WriteEvent
  /\ needwrite' = FALSE
  /\ UNCHANGED writebuf
  /\ WriteDone(FALSE)
  /\ UNCHANGED <<attached, flags, isclosed, error, rvars, written, sent, partial>>

WriteFails ==
  /\ WriteEvent
  /\ needwrite' = FALSE
  /\ selected' = selected \ {"write"}
  /\ error' = [type |-> "errcode", code |-> TRUE]
  /\ UNCHANGED <<attached, flags, isclosed, rvars, wvars, shutdown>>

-----------------------------------------------------------------------------
(* mowgli_linebuf_read_data.                                               *)

ReadEvent == attached /\ pc = "idle" /\ "read" \in selected

\* the size passed to recv(), 0 once the buffer is one byte past its end
Room == MaxBufLen - Len(readbuf) + 1

ReadFull ==
  /\ ReadEvent
  /\ Len(readbuf) = MaxBufLen
  /\ LinebufError("READBUF_FULL")
  /\ UNCHANGED <<attached, selected, needwrite, isclosed, rvars, wvars, shutdown>>

\* the bytes of kinds k arrive; NEEDREAD asks for the interest there is
ReadSome(k) ==
  /\ ReadEvent
  /\ Len(readbuf) # MaxBufLen
  /\ Len(k) <= Room
  /\ Len(received) + Len(k) <= MaxIn
  /\ received' = received \o k
  /\ readbuf' = readbuf \o [i \in 1 .. Len(k) |-> Len(received) + i]
  /\ selected' = IF needwrite THEN selected \cup {"write"} ELSE selected
  /\ pc' = "process"
  /\ scan' = readbuf'
  /\ linecount' = 0
  /\ UNCHANGED <<attached, flags, needwrite, isclosed, error, lines, wvars, shutdown>>

\* "Let's never come back here"
ReadBroken ==
  /\ selected' = selected \ {"read"}
  /\ shutdown' = "broken"

\* EAGAIN: nothing happens, unless some earlier error is still recorded
ReadAgain ==
  /\ ReadEvent
  /\ Len(readbuf) # MaxBufLen
  /\ error.type # "none"
  /\ ReadBroken
  /\ UNCHANGED <<attached, flags, needwrite, isclosed, error, rvars, wvars>>

\* recv() returns 0, as it also does when asked for 0 bytes
ReadHangup ==
  /\ ReadEvent
  /\ Len(readbuf) # MaxBufLen
  /\ error' = [error EXCEPT !.type = "hangup"]
  /\ isclosed' = TRUE
  /\ needwrite' = FALSE
  /\ ReadBroken
  /\ UNCHANGED <<attached, flags, rvars, wvars>>

ReadFails ==
  /\ ReadEvent
  /\ Len(readbuf) # MaxBufLen
  /\ error' = [type |-> "errcode", code |-> TRUE]
  /\ ReadBroken
  /\ UNCHANGED <<attached, flags, needwrite, isclosed, rvars, wvars>>

-----------------------------------------------------------------------------
(* mowgli_linebuf_process.                                                 *)

Delims(s) == {i \in DOMAIN s : Ends(received[s[i]])}

Mutant_NextLine(s) == SubSeq(s, Min(Delims(s)) + 2, Len(s))

\* Where the next line starts: past the first run of delimiters.  Only a byte
\* that is none stops the loop that skips them.  When they run to the end of
\* what was received it goes on in the bytes behind, at the end of a full
\* buffer in those behind its allocation, and wherever it stops, buflen
\* becomes 0.
NextLine(s) ==
  LET d == Min(Delims(s))
      text == {i \in DOMAIN s \ Delims(s) : i > d}
  IN  IF text = {} THEN << >> ELSE SubSeq(s, Min(text), Len(s))

ProcessLine ==
  /\ pc = "process"
  /\ Delims(scan) # {}
  /\ linecount' = linecount + 1
  /\ IF Has("SHUTTING_DOWN")
     THEN /\ scan' = NextLine(scan)
          /\ UNCHANGED <<lines, pc>>
     ELSE /\ lines' = Append(lines, SubSeq(scan, 1, Min(Delims(scan)) - 1))
          /\ pc' = "line"
          /\ UNCHANGED scan
  /\ UNCHANGED <<attached, selected, flags, needwrite, isclosed, error,
                 readbuf, received, wvars, shutdown>>

\* readline_cb returns
LineReturn ==
  /\ pc = "line"
  /\ scan' = NextLine(scan)
  /\ pc' = "process"
  /\ UNCHANGED <<attached, selected, flags, needwrite, isclosed, error,
                 readbuf, linecount, received, lines, wvars, shutdown>>

\* what stays in the buffer: the start of a line
Leftover == scan

ProcessDone ==
  /\ pc = "process"
  /\ Delims(scan) = {}
  /\ pc' = "idle"
  /\ IF linecount = 0 /\ Len(readbuf) = MaxBufLen
     THEN /\ LinebufError("READBUF_FULL")
          /\ UNCHANGED readbuf
     ELSE /\ readbuf' = Leftover
          /\ UNCHANGED <<flags, error>>
  /\ scan' = << >>
  /\ UNCHANGED <<attached, selected, needwrite, isclosed, linecount,
                 received, lines, wvars, shutdown>>

-----------------------------------------------------------------------------
Chunks == UNION {[1 .. k -> Sends] : k \in 1 .. MaxBufLen + 1}

Flush == \E n \in 0 .. MaxBufLen : WriteSome(n)

Process == ProcessLine \/ LineReturn \/ ProcessDone

Next ==
  \/ mowgli_linebuf_attach_to_eventloop \/ mowgli_linebuf_detach_from_eventloop
  \/ \E len \in 1 .. MaxBufLen : mowgli_linebuf_write(len)
  \/ mowgli_linebuf_shut_down
  \/ Flush \/ WriteAgain \/ WriteFails
  \/ ReadFull \/ (\E k \in Chunks : ReadSome(k)) \/ ReadAgain \/ ReadHangup \/ ReadFails
  \/ Process

Spec == Init /\ [][Next]_vars

(* The event loop calls write_data while it is selected and the socket     *)
(* takes some bytes in the end; the scan of a buffer runs to its end.      *)
FairSpec == Spec /\ WF_vars(Flush) /\ WF_vars(Process)

-----------------------------------------------------------------------------
(* Properties.                                                             *)

\* The state of a line buffer keeps its types.
TypeOK ==
  /\ attached \in BOOLEAN
  /\ selected \subseteq {"read", "write"}
  /\ flags \subseteq {"READBUF_FULL", "WRITEBUF_FULL", "SHUTTING_DOWN"}
  /\ {needwrite, isclosed} \subseteq BOOLEAN
  /\ error \in [type : {"none", "custom", "errcode", "hangup"}, code : BOOLEAN]
  /\ readbuf \in Seq(Nat) /\ writebuf \in Seq(Nat)
  /\ pc \in {"idle", "process", "line"}
  /\ scan \in Seq(Nat) /\ linecount \in Nat
  /\ received \in Seq(Kind) /\ lines \in Seq(Seq(Nat))
  /\ written \in Nat /\ sent \in Seq(Nat) /\ partial \in BOOLEAN
  /\ shutdown \in {"none", "flushed", "broken"}

\* the bytes from i up to, not including, j
Span(i, j) == [k \in 1 .. j - i |-> i + k - 1]

\* they are text, the stream or a delimiter comes before them and a
\* delimiter after
IsLine(i, j) ==
  /\ i < j /\ Ends(received[j])
  /\ \A k \in i .. j - 1 : ~Ends(received[k])
  /\ i = 1 \/ Ends(received[i - 1])

\* the lines of the stream that a delimiter has ended, empty ones left out
Frames ==
  LET ends == {p \in (DOMAIN received) \X (DOMAIN received) : IsLine(p[1], p[2])}
  IN  {Span(p[1], p[2]) : p \in ends}

Delivered == {i \in DOMAIN lines : lines[i] # << >>}

\* The lines a client gets do not depend on how the stream was cut into
\* reads: apart from empty ones they are the lines of the stream, each once
\* and in order, none of them skipped, and only a shut down ends them early.
\* A byte 0 ends a line here as it does in the code, which expects it inside
\* one ("Warn about unexpected null chars in the string") but never sees one
\* there.
LinesExact ==
  LET got == {lines[i] : i \in Delivered}
  IN  /\ got \subseteq Frames
      /\ \A i, j \in Delivered : i < j => lines[i][1] < lines[j][1]
      /\ \A f \in Frames, g \in got : f[1] < g[1] => f \in got
      /\ pc = "idle" /\ ~Has("SHUTTING_DOWN") => got = Frames

\* send() has taken as many bytes as left the write buffer: the count that
\* decides when it is empty, and a shut down complete.  Which bytes they are
\* is another matter.
BytesCounted == Len(sent) + Len(writebuf) = written

\* The peer gets what was written, in order and each byte once: what send()
\* reports as taken leaves the buffer, as "Return the length of bytes written
\* or read, similar to the semantics of the read(3) or write(3) calls"
\* (vio.c) makes one expect.
SentInOrder == \A i \in DOMAIN sent : sent[i] = i

\* As long as no send() took only a part of the buffer, no byte is lost,
\* repeated or out of order: those sent are the first ones written and the
\* buffer holds all the others.  After a part was taken bytes are repeated
\* and lost.
ExactUntilPartial ==
  ~partial => SentInOrder /\ \A i \in DOMAIN writebuf : writebuf[i] = Len(sent) + i

\* While there is something to send and no error was met, write_data is
\* scheduled: partial writes, EAGAIN and writes from readline_cb included.
WriteScheduled ==
  attached /\ writebuf # << >> /\ ~error.code => "write" \in selected

\* The write buffer stays within its allocation.  The read buffer does not:
\* recv() is offered one byte more than is free, and never more than that
\* one is stored past the end.
BuflenBounds == Len(readbuf) <= MaxBufLen + 1 /\ Len(writebuf) <= MaxBufLen

\* Both directions of a line buffer at once, however recv() cuts the stream,
\* whatever send() takes and whatever readline_cb writes in between: the
\* lines are those of the stream; what is sent is what was written, until a
\* send() takes a part of it; what is buffered has a scheduled write; the
\* read buffer gets at most one byte past its end.
LinebufExact ==
  TypeOK /\ LinesExact /\ BytesCounted /\ ExactUntilPartial /\ WriteScheduled /\ BuflenBounds

\* An orderly shutdown is reported only when the write buffer has drained,
\* whether the client asked for it before or after the last send().
ShutdownAfterFlush ==
  [][shutdown' = "flushed" /\ shutdown # "flushed" => writebuf' = << >>]_vars

\* While something was written write_data goes on until the buffer is empty,
\* and a shut down that is asked for is reported in the end, unless the
\* socket fails or the client detaches the line buffer.
LinebufLive ==
  /\ (attached /\ writebuf # << >>) ~> (writebuf = << >> \/ error.code \/ ~attached)
  /\ (attached /\ Has("SHUTTING_DOWN")) ~> (shutdown # "none" \/ error.code \/ ~attached)
=============================================================================
