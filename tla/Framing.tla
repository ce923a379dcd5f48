------------------------------ MODULE Framing ------------------------------
(***************************************************************************)
(* How events cross a Unix socket between a client and its daemon: frames  *)
(* of a size and a body, written by IPC::send_to_stream and put together   *)
(* again by StreamReader.                                                  *)
(*                                                                         *)
(* The writer may get only a part of a frame into the socket at a time,    *)
(* and may give a frame up; the reader takes what it finds there, and      *)
(* works on it until it has used it up.  A byte is a pair of the message   *)
(* it belongs to and its place in the frame.                               *)
(*                                                                         *)
(* Definitions whose comment begins with "Mutant" are wrong on purpose and *)
(* used by no specification.                                               *)
(***************************************************************************)
EXTENDS Naturals, Sequences

CONSTANTS
  Messages,     \* the number of messages sent
  BodySize,     \* BodySize[m]: the bytes of the body of message m
  HeaderSize,   \* the bytes of a size, four in the code
  ReadSize,     \* the capacity of read_buf, 1 MiB in the code
  SocketSize,   \* the bytes the socket has room for
  MaxFailures   \* bound: frames given up half written

ASSUME FramingAssumption ==
  /\ Messages \in Nat
  /\ BodySize \in [1..Messages -> Nat \ {0}]
  /\ HeaderSize \in Nat \ {0}
  /\ ReadSize \in Nat \ {0}
  /\ SocketSize \in Nat \ {0}
  /\ MaxFailures \in Nat

VARIABLES
  next,       \* the message the writer is at
  rest,       \* what is left to write of its frame
  socket,     \* the bytes in the socket
  read_buf,   \* what the reader has read and not used yet
  buf,        \* the part of a body put together so far
  size,       \* reading_size: the size of that body
  stream_reader, \* "read", "use" (inside read_chunk), "failed" or "panicked"
  received,   \* the messages handed on, Forged for one that nobody sent
  failures,   \* history: number of frames given up, bounded by MaxFailures
  cut         \* history: a read ended in a size or behind it, or was too short

framing == <<next, rest, socket, read_buf, buf, size, stream_reader, received,
             failures, cut>>

Frame(m) == [i \in 1..(HeaderSize + BodySize[m]) |-> <<m, i>>]
Header(m) == SubSeq(Frame(m), 1, HeaderSize)
Body(m) == SubSeq(Frame(m), HeaderSize + 1, HeaderSize + BodySize[m])

(* A message put together from pieces of others.                           *)
Forged == 0

(* The bytes begin with the others.                                        *)
BeginWith(bytes, first) ==
  Len(first) <= Len(bytes) /\ \A i \in 1..Len(first) : bytes[i] = first[i]

(* What a header is read as: its size, or any size if it is not one.       *)
SizesOf(bytes) ==
  IF \E m \in 1..Messages : bytes = Header(m)
    THEN {BodySize[m] : m \in {n \in 1..Messages : bytes = Header(n)}}
    ELSE 0..(HeaderSize + 1)

FramingInit ==
  /\ next = 1
  /\ rest = IF Messages = 0 THEN <<>> ELSE Frame(1)
  /\ socket = <<>>
  /\ read_buf = <<>>
  /\ buf = <<>>
  /\ size = 0
  /\ stream_reader = "read"
  /\ received = <<>>
  /\ failures = 0
  /\ cut = FALSE

-----------------------------------------------------------------------------
(* send_to_stream, one message after the other.                            *)

NextFrame ==
  /\ next' = next + 1
  /\ rest' = IF next < Messages THEN Frame(next + 1) ELSE <<>>

(* try_write takes some bytes, if there is room.                           *)
Write(n) ==
  /\ n <= Len(rest)
  /\ Len(socket) + n <= SocketSize
  /\ socket' = socket \o SubSeq(rest, 1, n)
  /\ IF n = Len(rest) THEN NextFrame
     ELSE rest' = SubSeq(rest, n + 1, Len(rest)) /\ UNCHANGED next
  /\ UNCHANGED <<read_buf, buf, size, stream_reader, received, failures, cut>>

(* After too many attempts without success the frame is given up, written  *)
(* in part or not at all; the next one goes over the same stream.          *)
GiveUp ==
  /\ rest # <<>>
  /\ failures < MaxFailures
  /\ failures' = failures + 1
  /\ NextFrame
  /\ UNCHANGED <<socket, read_buf, buf, size, stream_reader, received, cut>>

-----------------------------------------------------------------------------
(* StreamReader.                                                           *)

(* Mutant of Read, breaks FrameInv: the bytes are looked at, and stay in   *)
(* the socket.                                                             *)
Peek ==
  LET n == IF Len(socket) < ReadSize THEN Len(socket) ELSE ReadSize IN
  /\ stream_reader = "read"
  /\ n > 0
  /\ read_buf' = SubSeq(socket, 1, n)
  /\ stream_reader' = IF n < HeaderSize THEN "failed" ELSE "use"
  /\ cut' = (cut \/ n < HeaderSize)
  /\ UNCHANGED <<next, rest, socket, buf, size, received, failures>>

(* read: what the socket holds is read, as far as it fits; read_chunk      *)
(* refuses less than a size, wherever in a frame it is.                    *)
Read ==
  LET n == IF Len(socket) < ReadSize THEN Len(socket) ELSE ReadSize IN
  /\ stream_reader = "read"
  /\ n > 0
  /\ read_buf' = SubSeq(socket, 1, n)
  /\ socket' = SubSeq(socket, n + 1, Len(socket))
  /\ stream_reader' = IF n < HeaderSize THEN "failed" ELSE "use"
  /\ cut' = (cut \/ n < HeaderSize)
  /\ UNCHANGED <<next, rest, buf, size, received, failures>>

(* An empty buf is taken to mean that a size comes next; indexing past the *)
(* end of what was read is a panic.                                        *)
CutHeader ==
  /\ stream_reader = "use"
  /\ buf = <<>>
  /\ Len(read_buf) < HeaderSize
  /\ stream_reader' = "panicked"
  /\ cut' = TRUE
  /\ UNCHANGED <<next, rest, socket, read_buf, buf, size, received, failures>>

(* Mutant of Remaining, breaks AllReceived: a body is taken     *)
(* with what follows it.                                                   *)
RemainingAll(s, bytes) == Len(bytes)

(* The bytes of the body that are there.                                   *)
Remaining(s, bytes) ==
  IF Len(bytes) < s - Len(buf) THEN Len(bytes) ELSE s - Len(buf)

(* Mutant of Handed, breaks FailuresExplained: the last byte is not waited *)
(* for.                                                                    *)
HandedEarly(s, body) == Len(body) + 1 >= s

(* A body is handed on when it has its size.                               *)
Handed(s, body) == Len(body) = s

(* from_reader takes the bytes it needs and ignores those behind them: a   *)
(* body that begins with a whole one is read as that one.                  *)
Complete(body) == {m \in 1..Messages : BeginWith(body, Body(m))}

(* A body has no end before its last byte.  Any other mixture, such as one *)
(* whose missing end the next size fills up, may be read as some message.  *)
Decoded(body) ==
  IF Complete(body) # {} THEN Complete(body)
  ELSE IF \E m \in 1..Messages : BeginWith(Body(m), body) THEN {}
  ELSE {Forged}

(* One round of the loop of read_chunk: the size if a new body begins, the *)
(* bytes of the body, and the body to the event loop when it is complete;  *)
(* a body that does not decode ends the reader.                            *)
Use(s) ==
  LET bytes == IF buf = <<>> THEN SubSeq(read_buf, HeaderSize + 1, Len(read_buf))
               ELSE read_buf
      n == Remaining(s, bytes)
      body == buf \o SubSeq(bytes, 1, n)
      left == SubSeq(bytes, n + 1, Len(bytes))
  IN
  /\ stream_reader = "use"
  /\ IF buf = <<>> THEN /\ Len(read_buf) >= HeaderSize
                        /\ s \in SizesOf(SubSeq(read_buf, 1, HeaderSize))
     ELSE s = size
  /\ read_buf' = left
  /\ cut' = (cut \/ body = <<>>)
  /\ IF Handed(s, body)
       THEN /\ buf' = <<>>
            /\ size' = 0
            /\ \/ /\ \E m \in Decoded(body) : received' = Append(received, m)
                  /\ stream_reader' = IF left = <<>> THEN "read" ELSE "use"
               \/ /\ Complete(body) = {}
                  /\ stream_reader' = "failed"
                  /\ UNCHANGED received
       ELSE /\ buf' = body
            /\ size' = s
            /\ stream_reader' = IF left = <<>> THEN "read" ELSE "use"
            /\ UNCHANGED received
  /\ UNCHANGED <<next, rest, socket, failures>>

Sizes == 0..(HeaderSize + 1) \cup {BodySize[m] : m \in 1..Messages}

FramingNext ==
  \/ \E n \in 1..SocketSize : Write(n)
  \/ GiveUp
  \/ Read
  \/ CutHeader
  \/ \E s \in Sizes : Use(s)

FramingSpec == FramingInit /\ [][FramingNext]_framing

(* The writer writes while there is room, the reader reads what is there.  *)
FairFraming ==
  /\ FramingSpec
  /\ WF_framing(\E n \in 1..SocketSize : Write(n))
  /\ WF_framing(Read \/ CutHeader \/ \E s \in Sizes : Use(s))

-----------------------------------------------------------------------------
Byte == UNION {{m} \X (1..(HeaderSize + BodySize[m])) : m \in 1..Messages}

(* Every value has its type, and the buffers keep to their sizes.          *)
FramingTypes ==
  /\ next \in 1..(Messages + 1)
  /\ rest \in Seq(Byte)
  /\ socket \in Seq(Byte) /\ Len(socket) <= SocketSize
  /\ read_buf \in Seq(Byte) /\ Len(read_buf) <= ReadSize
  /\ buf \in Seq(Byte)
  /\ size \in Sizes
  /\ (buf # <<>> => Len(buf) < size)
  /\ stream_reader \in {"read", "use", "failed", "panicked"}
  /\ received \in Seq(Forged..Messages)
  /\ failures \in 0..MaxFailures
  /\ cut \in BOOLEAN

(* The messages handed on that were sent come in their order and none      *)
(* twice, even when the reader has lost the frames and hands on messages   *)
(* that nobody sent among them (a frame given up is filled up with the     *)
(* size of the next).  Without a frame given up and without an unlucky     *)
(* read every message handed on was sent, and none is missing.             *)
ReceivedInOrder ==
  /\ \A i, j \in DOMAIN received :
       i < j /\ received[j] # Forged => received[i] < received[j]
  /\ \A i \in DOMAIN received : received[i] <= next
  /\ failures = 0 /\ ~cut => \A i \in DOMAIN received : received[i] = i

(* The reader ends for no other reason than these: a frame was given up,   *)
(* or a read ended within a size or right behind it, or was shorter than a *)
(* size.  Where else frames are cut does not matter.                       *)
FailuresExplained ==
  stream_reader \in {"failed", "panicked"} => failures > 0 \/ cut

(* All that is sent arrives, if none of that happens.                      *)
AllReceived == <>(Len(received) = Messages \/ failures > 0 \/ cut)

(* The types and buffers, and what comes out of them.                      *)
FrameInv == FramingTypes /\ ReceivedInOrder

=============================================================================
