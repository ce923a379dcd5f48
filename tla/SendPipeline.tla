---------------------------- MODULE SendPipeline ----------------------------
(***************************************************************************)
(* How one file is read, compressed and sent (do_send_file,                *)
(* chunk_and_compress): the inside of the step DoSendFile of FileTransfer. *)
(*                                                                         *)
(* A reader task reads the file chunk after chunk and spawns a task for    *)
(* each, that compresses the chunk and sends it on a channel with room for *)
(* Capacity chunks.  The main loop of the daemon takes the chunks off the  *)
(* channel and puts them on the network, and does nothing else meanwhile.  *)
(* It leaves the channel when all who could send on it are gone, or when   *)
(* the daemon is told to quit (ctrl-c); then it waits for the reader,      *)
(* which waits for the compressing tasks, and sends Done.  On Android the  *)
(* handler is dropped when its loop has something else to do (see          *)
(* AndroidLoop), and leaves the reader behind.                             *)
(*                                                                         *)
(* Sizes and places are counted in half chunks.  A read may bring less     *)
(* than a chunk wherever it is in the file, and the file may grow while it *)
(* is read.                                                                *)
(*                                                                         *)
(* Definitions whose comment begins with "Mutant" are wrong on purpose and *)
(* used by no specification.                                               *)
(***************************************************************************)
EXTENDS Naturals, FiniteSets

CONSTANTS
  MaxSize,   \* bound: half chunks of the file
  Capacity,  \* MAX_CONCURRENT_CONNECTIONS
  Android    \* whether the handler can be dropped

ASSUME SendPipelineAssumption ==
  /\ MaxSize \in Nat
  /\ Capacity \in Nat \ {0}
  /\ Android \in BOOLEAN

VARIABLES
  size,       \* the size of the file, bounded by MaxSize
  pos,        \* how much of it has been read
  next,       \* the chunk the reader comes to next
  reader,     \* "read", "join" (waits for the tasks), or "returned"
  compress,   \* the chunks that are compressed or wait for room
  channel,    \* the chunks in the channel
  main,       \* "recv", "await" (waits for the reader), "done" or "dropped"
  sent,       \* the chunks put on the network
  aborted,    \* whether the daemon has been told to quit
  failed,     \* history: the file could not be read to its end
  whole,      \* history: the reader came to the end of the file
  short,      \* history: the chunks for which less than a chunk was read
  misplaced   \* history: the chunks not read from where they are sent to

CHUNK_SIZE == 2
Index == 0..(MaxSize - 1)

reading == <<pos, next, reader, failed, whole, short, misplaced>>
vars == <<size, reading, compress, channel, main, sent, aborted>>

Init ==
  /\ size \in 0..MaxSize
  /\ pos = 0
  /\ next = 0
  /\ reader = "read"
  /\ compress = {}
  /\ channel = {}
  /\ main = "recv"
  /\ sent = {}
  /\ aborted = FALSE
  /\ failed = FALSE
  /\ whole = FALSE
  /\ short = {}
  /\ misplaced = {}

(* Somebody appends to the file.                                           *)
Grow ==
  /\ size < MaxSize
  /\ size' = size + 1
  /\ UNCHANGED <<reading, compress, channel, main, sent, aborted>>

(* ctrl-c: the broadcast reaches the reader and the main loop.             *)
Abort ==
  /\ ~aborted
  /\ aborted' = TRUE
  /\ UNCHANGED <<size, reading, compress, channel, main, sent>>

-----------------------------------------------------------------------------
(* The reader.                                                             *)

(* Mutant of Place, breaks InPlace: the chunks are counted up before the   *)
(* task takes the number.                                                  *)
PlaceAfter(i) == CHUNK_SIZE * (i + 1)

(* The place in the file that chunk i is sent to.                          *)
Place(i) == CHUNK_SIZE * i

(* A read brings a chunk, or what is left, or less; it is followed by no   *)
(* other for the same chunk.                                               *)
BytesRead == {n \in 1..CHUNK_SIZE : pos + n <= size}

(* A read that is not at the end; the chunk gets a task of its own.        *)
ReadChunk ==
  /\ reader = "read"
  /\ ~aborted
  /\ \E n \in BytesRead :
       /\ pos' = pos + n
       /\ short' = IF n < CHUNK_SIZE THEN short \cup {next} ELSE short
  /\ next' = next + 1
  /\ compress' = compress \cup {next}
  /\ misplaced' = IF pos = Place(next) THEN misplaced ELSE misplaced \cup {next}
  /\ UNCHANGED <<size, reader, failed, whole, channel, main, sent, aborted>>

(* The end of the file, or the abort.                                      *)
StopReading ==
  /\ reader = "read"
  /\ pos = size \/ aborted
  /\ reader' = "join"
  /\ whole' = (pos = size)
  /\ UNCHANGED <<size, pos, next, failed, short, misplaced, compress, channel,
                 main, sent, aborted>>

(* open or read fails: the reader returns and leaves its tasks to run.     *)
ReadFails ==
  /\ reader = "read"
  /\ reader' = "returned"
  /\ failed' = TRUE
  /\ UNCHANGED <<size, pos, next, whole, short, misplaced, compress, channel,
                 main, sent, aborted>>

(* join_all: the reader waits for its tasks.                               *)
Join ==
  /\ reader = "join"
  /\ compress = {}
  /\ reader' = "returned"
  /\ UNCHANGED <<size, pos, next, failed, whole, short, misplaced, compress,
                 channel, main, sent, aborted>>

(* The task of chunk i sends it, once there is room, or finds that nobody  *)
(* receives any more.                                                      *)
Compressed(i) ==
  /\ i \in compress
  /\ compress' = compress \ {i}
  /\ \/ /\ main # "dropped"
        /\ Cardinality(channel) < Capacity
        /\ channel' = channel \cup {i}
     \/ /\ main = "dropped"
        /\ UNCHANGED channel
  /\ UNCHANGED <<size, reading, main, sent, aborted>>

-----------------------------------------------------------------------------
(* The main loop.                                                          *)

(* The chunk taken is dropped when the daemon has been told to quit.       *)
Receive(i) ==
  /\ main = "recv"
  /\ i \in channel
  /\ channel' = channel \ {i}
  /\ IF aborted THEN main' = "await" /\ UNCHANGED sent
                ELSE sent' = sent \cup {i} /\ UNCHANGED main
  /\ UNCHANGED <<size, reading, compress, aborted>>

(* Mutant of SendersGone, breaks SendEnds: the main loop has kept the      *)
(* sender it cloned for the reader.                                        *)
SenderKept == FALSE

(* Mutant of SendersGone, breaks StuckOnlyAfterAbort: an empty channel is  *)
(* taken for a closed one.                                                 *)
TakenForGone == TRUE

(* Mutant of SendersGone, breaks AllSent: the tasks are forgotten.         *)
ReaderGone == reader = "returned"

(* The reader and every compressing task hold a sender.                    *)
SendersGone == reader = "returned" /\ compress = {}

(* recv returns None. *)
ChannelClosed ==
  /\ main = "recv"
  /\ channel = {}
  /\ SendersGone
  /\ main' = "await"
  /\ UNCHANGED <<size, reading, compress, channel, sent, aborted>>

(* The reader has returned: Done is sent, and the channel dropped with     *)
(* what is in it; tasks that are left end with an error.                   *)
SendDone ==
  /\ main = "await"
  /\ reader = "returned"
  /\ main' = "done"
  /\ channel' = {}
  /\ compress' = {}
  /\ UNCHANGED <<size, reading, sent, aborted>>

(* Service::run takes another branch while the handler waits.              *)
Drop ==
  /\ Android
  /\ main \in {"recv", "await"}
  /\ main' = "dropped"
  /\ channel' = {}
  /\ UNCHANGED <<size, reading, compress, sent, aborted>>

Next ==
  \/ Grow
  \/ Abort
  \/ ReadChunk
  \/ StopReading
  \/ ReadFails
  \/ Join
  \/ \E i \in Index : Compressed(i) \/ Receive(i)
  \/ ChannelClosed
  \/ SendDone
  \/ Drop

Spec == Init /\ [][Next]_vars

(* Tasks that can run do run; ctrl-c and a failure may never come.         *)
Fairness ==
  /\ WF_vars(ReadChunk)
  /\ WF_vars(StopReading)
  /\ WF_vars(Join)
  /\ WF_vars(\E i \in Index : Compressed(i))
  /\ WF_vars(\E i \in Index : Receive(i))
  /\ WF_vars(ChannelClosed)
  /\ WF_vars(SendDone)

FairSpec == Spec /\ Fairness

-----------------------------------------------------------------------------
(* Every value has its type: no chunk beyond the end of the file.          *)
TypeOK ==
  /\ size \in 0..MaxSize
  /\ pos \in 0..size
  /\ next \in 0..pos
  /\ reader \in {"read", "join", "returned"}
  /\ compress \subseteq Index
  /\ channel \subseteq Index
  /\ main \in {"recv", "await", "done", "dropped"}
  /\ sent \subseteq Index
  /\ {aborted, failed, whole} \subseteq BOOLEAN
  /\ short \subseteq Index
  /\ misplaced \subseteq Index

(* No chunk that was read is lost or doubled on its way through the tasks, *)
(* and Done comes behind all of them, unless the daemon is told to quit or *)
(* the handler is dropped.                                                 *)
AllSent ==
  ~aborted /\ main # "dropped" =>
    /\ compress \cup channel \cup sent = 0..(next - 1)
    /\ compress \cap channel = {}
    /\ (compress \cup channel) \cap sent = {}
    /\ main = "done" => sent = 0..(next - 1) /\ (failed \/ whole)

(* A chunk is sent to another place than it was read from exactly when     *)
(* less than a chunk was read for an earlier one, at whatever time the     *)
(* file grew: places are counted in chunks (do_send_file: CHUNK_SIZE *     *)
(* index).  So a file that is read to its end arrives in place exactly if  *)
(* its last chunk alone is short.                                          *)
InPlace == misplaced = {i \in 0..(next - 1) : \E j \in short : j < i}

(* The main loop waits for a reader that waits for tasks that wait for     *)
(* room, which only the main loop could make.                              *)
Stuck ==
  /\ main = "await"
  /\ reader = "join"
  /\ compress # {}
  /\ Cardinality(channel) = Capacity

(* The daemon gets stuck only when it is told to quit, and only while more *)
(* chunks are left than the channel has room for.                          *)
StuckOnlyAfterAbort ==
  Stuck => aborted /\ Cardinality(compress \cup channel) > Capacity

(* Everything else comes to an end, also the reader of a handler that was  *)
(* dropped.                                                                *)
SendEnds ==
  <>(main = "done" \/ Stuck \/ (main = "dropped" /\ reader = "returned"))

=============================================================================
