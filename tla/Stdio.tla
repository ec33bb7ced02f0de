-------------------------------- MODULE Stdio --------------------------------
(* knowledge_based/linux_internals/stdio: a buffered I/O library and the     *)
(* main() that copies stdin to stdout and then one file to another with it.  *)
EXTENDS Integers, Sequences, SequencesExt

CONSTANTS
  OPEN_MAX,   \* the slots of iob[]
  BUFF_SIZE,  \* the size of a buffer
  IoInput     \* the files that are read hold these characters or the first of them

ASSUME StdioAssumption ==
  OPEN_MAX \in Nat \ {0, 1, 2} /\ BUFF_SIZE \in Nat \ {0} /\ IoInput \in Seq(Nat)

VARIABLES
  iob,      \* the streams; slot 1 is stdin, 2 is stdout, 3 is stderr
  ioBuffers,\* the slots with a buffer: buff is not NULL
  ioFile,   \* per slot: what is still to be read, or what was written
  ioPc,     \* where main() stands
  ioPair,   \* the streams the running copy loop reads and writes
  ioRead,   \* the characters the copy loop got
  ioChar,   \* the character main() holds in c, or EOF
  ioFault   \* a read() or write() of this copy failed or fell short, or it had no
            \* memory for the buffer it writes to

ioVars == <<iob, ioBuffers, ioFile, ioPc, ioPair, ioRead, ioChar, ioFault>>

EOF == -1
NoStream == [flags |-> {}, buff_cnt |-> 0, next |-> 0, buff |-> <<>>, last_op |-> "none"]
\* A stream just opened: no buffer yet.
Opened(fl) == [NoStream EXCEPT !.flags = fl]

IoInit ==
  /\ iob = [s \in 1..OPEN_MAX |-> CASE s = 1 -> Opened({"READ"})
                                    [] s = 2 -> Opened({"WRITE"})
                                    [] s = 3 -> Opened({"WRITE", "UNBUF"})
                                    [] OTHER -> NoStream]
  /\ ioBuffers = {}
  /\ ioFile = [s \in 1..OPEN_MAX |-> IF s = 1 THEN IoInput ELSE <<>>]
  /\ ioPc = "getc" /\ ioPair = <<1, 2>> /\ ioRead = <<>> /\ ioChar = EOF /\ ioFault = FALSE

\* In a stream being read, buff holds the characters read() put into the buffer
\* and next how many of them were returned; in one being written, buff holds
\* the characters put since the buffer was last empty and next is its length.
Getc(f) ==
  [f EXCEPT !.last_op = "READ", !.buff_cnt = @ - 1, !.next = @ + 1]

\* getc() with characters left in the buffer.
GetcBuffered ==
  LET s == ioPair[1]  f == iob[s] IN
    /\ ioPc = "getc" /\ f.buff_cnt > 0
    /\ iob' = [iob EXCEPT ![s] = Getc(f)]
    /\ ioChar' = f.buff[f.next + 1]
    /\ ioRead' = Append(ioRead, ioChar')
    /\ ioPc' = "putc"
    /\ UNCHANGED <<ioBuffers, ioFile, ioPair, ioFault>>

\* fillbuff(): a stream that is at its end or failed stays there; else read()
\* gives some of what is left, nothing at the end of the file (which may come
\* after any prefix of IoInput), or -1.
CanFill(f) == f.flags \cap {"READ", "EOF", "ERR"} = {"READ"}
Filled(f, got) ==
  [f EXCEPT !.buff = got, !.next = 0, !.buff_cnt = Len(got), !.last_op = "READ"]

GetcFill ==
  LET s == ioPair[1]  f == iob[s] IN
    /\ ioPc = "getc" /\ f.buff_cnt <= 0 /\ CanFill(f)
    /\ \E n \in 1..BUFF_SIZE :
         /\ n <= Len(ioFile[s])
         /\ iob' = [iob EXCEPT ![s] = Getc(Filled(f, SubSeq(ioFile[s], 1, n)))]
         /\ ioFile' = [ioFile EXCEPT ![s] = SubSeq(@, n + 1, Len(@))]
         /\ ioChar' = ioFile[s][1]
    /\ ioBuffers' = ioBuffers \cup {s}
    /\ ioRead' = Append(ioRead, ioChar')
    /\ ioPc' = "putc"
    /\ UNCHANGED <<ioPair, ioFault>>

\* The loop ends at EOF, which also stands for an error of read(), and for a
\* malloc() of the buffer that fails: that one leaves no flag.
GetcEnd ==
  LET s == ioPair[1]  f == iob[s] IN
    /\ ioPc = "getc" /\ f.buff_cnt <= 0
    /\ \/ /\ ~CanFill(f) \/ s \notin ioBuffers
          /\ iob' = [iob EXCEPT ![s].last_op = "READ"]
          /\ UNCHANGED <<ioBuffers, ioFault>>
       \/ /\ CanFill(f)
          /\ iob' = [iob EXCEPT ![s] = [Filled(f, <<>>) EXCEPT !.flags = @ \cup {"EOF"}]]
          /\ ioBuffers' = ioBuffers \cup {s}
          /\ UNCHANGED ioFault
       \/ /\ CanFill(f)
          /\ iob' = [iob EXCEPT ![s] = [Filled(f, <<>>) EXCEPT !.flags = @ \cup {"ERR"},
                                                               !.buff_cnt = -1]]
          /\ ioBuffers' = ioBuffers \cup {s}
          /\ ioFault' = TRUE
    /\ ioChar' = EOF
    /\ ioPc' = "flush"
    /\ UNCHANGED <<ioFile, ioPair, ioRead>>

Put(f, c) == [f EXCEPT !.last_op = "WRITE", !.buff_cnt = @ - 1, !.next = @ + 1,
                       !.buff = Append(@, c)]
NoMemory(f) == [f EXCEPT !.buff_cnt = BUFF_SIZE, !.last_op = "WRITE"]
Emptied(f) == [f EXCEPT !.next = 0, !.buff = <<>>, !.buff_cnt = BUFF_SIZE, !.last_op = "WRITE"]

PutcBuffered ==
  LET s == ioPair[2]  f == iob[s] IN
    /\ ioPc = "putc" /\ f.buff_cnt > 0 /\ s \in ioBuffers
    /\ iob' = [iob EXCEPT ![s] = Put(f, ioChar)]
    /\ ioPc' = "getc"
    /\ UNCHANGED <<ioBuffers, ioFile, ioPair, ioRead, ioChar, ioFault>>

\* putc() into a stream left with room but no buffer: *f->next is *NULL.
PutcCrashes ==
  /\ ioPc = "putc" /\ iob[ioPair[2]].buff_cnt > 0 /\ ioPair[2] \notin ioBuffers
  /\ ioPc' = "crashed"
  /\ UNCHANGED <<iob, ioBuffers, ioFile, ioPair, ioRead, ioChar, ioFault>>

\* write(): everything, or part of it (possibly nothing, on an error).
Writes(s, n) == [ioFile EXCEPT ![s] = @ \o SubSeq(iob[s].buff, 1, n)]

\* flushbuf(): the buffer is full, or not there yet. When malloc() gives none
\* the character is dropped and buff_cnt promises room all the same. No stream
\* main() writes to is unbuffered: the branch of FL_UNBUF is out of its reach.
CanFlush(f) == f.flags \cap {"WRITE", "EOF", "ERR"} = {"WRITE"}
PutcFlush ==
  LET s == ioPair[2]  f == iob[s] IN
    /\ ioPc = "putc" /\ f.buff_cnt <= 0
    /\ \/ /\ ~CanFlush(f)
          /\ iob' = [iob EXCEPT ![s].last_op = "WRITE"]
          /\ UNCHANGED <<ioBuffers, ioFile, ioFault>>
       \/ /\ CanFlush(f)
          /\ ioFile' = Writes(s, f.next)
          /\ iob' = [iob EXCEPT ![s] = Put(Emptied(f), ioChar)]
          /\ ioBuffers' = ioBuffers \cup {s}
          /\ UNCHANGED ioFault
       \/ /\ CanFlush(f) /\ s \notin ioBuffers
          /\ iob' = [iob EXCEPT ![s] = NoMemory(f)]
          /\ ioFault' = TRUE
          /\ UNCHANGED <<ioBuffers, ioFile>>
       \/ /\ CanFlush(f) /\ f.next > 0
          /\ \E n \in 0..(f.next - 1) : ioFile' = Writes(s, n)
          /\ iob' = [iob EXCEPT ![s].flags = @ \cup {"ERR"}, ![s].last_op = "WRITE"]
          /\ ioFault' = TRUE
          /\ UNCHANGED ioBuffers
    /\ ioPc' = "getc"
    /\ UNCHANGED <<ioPair, ioRead, ioChar>>

\* fflush(): whatever write() took, the buffer is empty afterwards.
Fflush(s) ==
  LET f == iob[s] IN
    IF /\ "WRITE" \in f.flags /\ "UNBUF" \notin f.flags
       /\ f.next > 0 /\ f.last_op = "WRITE"
    THEN \E n \in 0..f.next :
           /\ ioFile' = Writes(s, n)
           /\ iob' = [iob EXCEPT ![s] = Emptied(f)]
           /\ ioFault' = (ioFault \/ n < f.next)
    ELSE UNCHANGED <<iob, ioFile, ioFault>>

FlushStdout ==
  /\ ioPc = "flush" /\ ioPair = <<1, 2>>
  /\ Fflush(2)
  /\ ioPc' = "fopen"
  /\ UNCHANGED <<ioBuffers, ioPair, ioRead, ioChar>>

\* fclose(): flush and close; the slot of iob[] keeps its flags.
Fclose ==
  /\ ioPc = "flush" /\ ioPair # <<1, 2>>
  /\ Fflush(ioPair[2])
  /\ ioPc' = "closed"
  /\ UNCHANGED <<ioBuffers, ioPair, ioRead, ioChar>>

\* fopen() of "r" and of "w": the first slot without flags, or NULL.
FreeSlot(io) == SelectInSeq(io, LAMBDA f : f.flags = {})
Fopen ==
  LET src == FreeSlot(iob)
      io1 == [iob EXCEPT ![src] = Opened({"READ"})]
      dst == FreeSlot(io1)
  IN /\ ioPc = "fopen" /\ src # 0 /\ dst # 0
     /\ iob' = [io1 EXCEPT ![dst] = Opened({"WRITE"})]
     /\ ioBuffers' = ioBuffers \ {src, dst}
     /\ ioFile' = [ioFile EXCEPT ![src] = IoInput, ![dst] = <<>>]
     /\ ioPair' = <<src, dst>> /\ ioPc' = "getc"
     /\ ioRead' = <<>> /\ ioFault' = FALSE
     /\ UNCHANGED ioChar

\* fopen() of either file returns NULL and main() returns.
FopenFails ==
  /\ ioPc = "fopen" /\ ioPc' = "failed"
  /\ UNCHANGED <<iob, ioBuffers, ioFile, ioPair, ioRead, ioChar, ioFault>>

IoNext ==
  \/ GetcBuffered \/ GetcFill \/ GetcEnd \/ PutcBuffered \/ PutcCrashes
  \/ PutcFlush
  \/ FlushStdout \/ Fclose \/ Fopen \/ FopenFails

IoSpec == IoInit /\ [][IoNext]_ioVars
----------------------------------------------------------------------------
\* As long as every read() and write() of a copy did its work and malloc() gave
\* the stream written to its buffer, nothing is lost, repeated or reordered: what
\* was written, what waits in the buffer and the character in hand are what was
\* read, after the flush all of it is in the file, and putc() never writes
\* through a null pointer (getc(), putc(), fillbuff(), flushbuf(), fflush()).
StdioFaithful ==
  ~ioFault =>
    LET s == ioPair[2]
        inHand == IF ioPc = "putc" THEN <<ioChar>> ELSE <<>>
    IN /\ ioRead = ioFile[s] \o SubSeq(iob[s].buff, 1, iob[s].next) \o inHand
       /\ iob[s].next <= BUFF_SIZE
       /\ ioPc \in {"fopen", "closed"} => ioFile[s] = ioRead
       /\ ioPc # "crashed"
=============================================================================
