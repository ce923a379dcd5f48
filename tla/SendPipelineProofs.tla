------------------------- MODULE SendPipelineProofs -------------------------
(***************************************************************************)
(* Proofs about SendPipeline, for files of every size and every capacity   *)
(* of the channel:                                                         *)
(*                                                                         *)
(*   TypeCorrect        the types of the variables                         *)
(*   EveryChunkSent     no chunk is lost or doubled, Done comes last       *)
(*   ChunksInPlace      chunks are misplaced exactly behind a short read   *)
(*   StuckBehindAbort   the main loop gets stuck only after ctrl-c         *)
(*                                                                         *)
(* The inductive invariant adds to the properties where the reader and the *)
(* main loop are with respect to one another: the reader leaves its loop   *)
(* for a reason, the main loop leaves the channel only after an abort or   *)
(* when nobody can send on it any more, and what has been read is a number *)
(* of whole chunks until the first short read.                             *)
(***************************************************************************)
EXTENDS SendPipeline, FiniteSetTheorems, TLAPS

(* Where the chunks that were read are: nothing is lost, nothing doubled.  *)
Partition ==
  /\ compress \cap channel = {}
  /\ ~aborted /\ main # "dropped" =>
       /\ compress \cup channel \cup sent = 0..(next - 1)
       /\ (compress \cup channel) \cap sent = {}

(* The reader leaves its loop for a reason.                                *)
ReaderStops ==
  reader # "read" => aborted \/ failed \/ whole

(* The main loop leaves the channel for a reason.                          *)
MainLeaves ==
  /\ main \in {"await", "done"} => aborted \/ (SendersGone /\ channel = {})
  /\ main = "dropped" => channel = {}

(* The reader is where its next chunk goes until a read has been short,    *)
(* and then stays behind.                                                  *)
WholeChunks ==
  /\ short \subseteq 0..(next - 1)
  /\ short = {} => pos = CHUNK_SIZE * next
  /\ short # {} => pos < CHUNK_SIZE * next
  /\ InPlace

IInv == TypeOK /\ Partition /\ ReaderStops /\ MainLeaves /\ WholeChunks

LEMMA InitInvariant == Init => IInv
<1> SUFFICES ASSUME Init
             PROVE  IInv
  OBVIOUS
<1> USE SendPipelineAssumption DEF Init
<1>1. TypeOK
  <2>1. next \in 0..pos /\ pos \in 0..size
    OBVIOUS
  <2>2. {aborted, failed, whole} \subseteq BOOLEAN
    OBVIOUS
  <2> QED
    BY <2>1, <2>2 DEF TypeOK
<1>2. 0..(next - 1) = {}
  OBVIOUS
<1>3. WholeChunks
  BY <1>2 DEF WholeChunks, InPlace, CHUNK_SIZE
<1> QED
  BY <1>1, <1>2, <1>3 DEF IInv, Partition, ReaderStops, MainLeaves

(* A read keeps the reader where its next chunk goes if it brings a chunk, *)
(* and leaves it behind for good if it brings less.                        *)
LEMMA ReadKeepsPlaces ==
  ASSUME TypeOK, WholeChunks, ReadChunk
  PROVE  WholeChunks'
<1>1. PICK n \in BytesRead :
        /\ pos' = pos + n
        /\ short' = IF n < CHUNK_SIZE THEN short \cup {next} ELSE short
  BY DEF ReadChunk
<1>2. /\ next' = next + 1
      /\ misplaced' = IF pos = CHUNK_SIZE * next THEN misplaced
                      ELSE misplaced \cup {next}
  BY DEF ReadChunk, Place
<1>3. n \in 1..2 /\ pos \in Nat /\ next \in Nat
  BY SendPipelineAssumption DEF TypeOK, BytesRead, CHUNK_SIZE
<1>4. /\ short \subseteq 0..(next - 1)
      /\ short = {} => pos = 2 * next
      /\ short # {} => pos < 2 * next
      /\ misplaced = {i \in 0..(next - 1) : \E j \in short : j < i}
  BY DEF WholeChunks, InPlace, CHUNK_SIZE
<1>5. short' \subseteq 0..next
  BY <1>1, <1>3, <1>4
<1>6. short' = {} => pos' = 2 * (next + 1)
  BY <1>1, <1>3, <1>4 DEF CHUNK_SIZE
<1>7. short' # {} => pos' < 2 * (next + 1)
  <2>1. CASE n < 2
    <3>1. pos <= 2 * next
      BY <1>3, <1>4
    <3> QED BY <2>1, <3>1, <1>1, <1>3
  <2>2. CASE ~(n < 2)
    <3>1. short' = short /\ n = 2
      BY <2>2, <1>1, <1>3 DEF CHUNK_SIZE
    <3> QED BY <3>1, <1>1, <1>3, <1>4
  <2> QED BY <2>1, <2>2
<1>8. misplaced' = {i \in 0..next : \E j \in short' : j < i}
  <2>1. \A j \in short : j \in Nat /\ j < next
    BY <1>3, <1>4
  <2>2. \A i \in 0..next : (\E j \in short' : j < i) <=> (\E j \in short : j < i)
    BY <1>1, <1>3, <2>1
  <2>3. misplaced' = {i \in 0..next : \E j \in short : j < i}
    <3>1. CASE short = {}
      BY <3>1, <1>2, <1>3, <1>4 DEF CHUNK_SIZE
    <3>2. CASE short # {}
      <4>1. misplaced' = misplaced \cup {next} /\ \E j \in short : j < next
        BY <3>2, <2>1, <1>2, <1>3, <1>4 DEF CHUNK_SIZE
      <4> QED BY <4>1, <1>3, <1>4
    <3> QED BY <3>1, <3>2
  <2> QED BY <2>2, <2>3
<1>9. next' - 1 = next
  BY <1>2, <1>3
<1> QED
  BY <1>2, <1>5, <1>6, <1>7, <1>8, <1>9 DEF WholeChunks, InPlace, CHUNK_SIZE

(* Nothing else has to do with the places.                                 *)
LEMMA SamePlaces ==
  ASSUME WholeChunks, UNCHANGED <<pos, next, short, misplaced>>
  PROVE  WholeChunks'
BY DEF WholeChunks, InPlace

LEMMA StepInvariant == IInv /\ [Next]_vars => IInv'
<1> SUFFICES ASSUME IInv, [Next]_vars
             PROVE  IInv'
  OBVIOUS
<1> USE SendPipelineAssumption
<1> USE DEF IInv, TypeOK, Partition, ReaderStops, MainLeaves, SendersGone,
            Index, reading
<1>1. CASE Abort
  BY <1>1, SamePlaces DEF Abort
<1>2. CASE ReadChunk
  <2>1. /\ next' = next + 1
        /\ compress' = compress \cup {next}
        /\ UNCHANGED <<size, reader, failed, whole, channel, main, sent,
                       aborted>>
    BY <1>2 DEF ReadChunk
  <2>2. pos < size /\ reader = "read" /\ pos' \in (pos + 1)..size
    BY <1>2 DEF ReadChunk, BytesRead, CHUNK_SIZE
  <2>3. next \in Index /\ next + 1 \in 0..pos' /\ pos' \in 0..size
    BY <2>2
  <2>4. short' \subseteq Index /\ misplaced' \subseteq Index
    BY <1>2, <2>3 DEF ReadChunk
  <2>5. compress' \subseteq Index
    BY <2>1, <2>3
  <2>6. TypeOK'
    BY <2>1, <2>3, <2>4, <2>5
  <2>7. WholeChunks'
    BY <1>2, ReadKeepsPlaces
  <2>8. MainLeaves'
    BY <2>1, <2>2
  <2>9. Partition'
    <3>1. compress' \cap channel' = {}
      <4>1. ~aborted
        BY <1>2 DEF ReadChunk
      <4>2. next \notin channel
        BY <4>1
      <4> QED
        BY <2>1, <4>2
    <3>2. CASE ~aborted /\ main # "dropped"
      BY <2>1, <3>2
    <3> QED
      BY <2>1, <3>1, <3>2
  <2> QED
    BY <2>1, <2>2, <2>6, <2>7, <2>8, <2>9
<1>3. CASE StopReading
  BY <1>3, SamePlaces DEF StopReading
<1>4. CASE ReadFails
  BY <1>4, SamePlaces DEF ReadFails
<1>5. CASE Join
  BY <1>5, SamePlaces DEF Join
<1>6. ASSUME NEW i \in Index, Compressed(i)
      PROVE  IInv'
  BY <1>6, SamePlaces DEF Compressed
<1>7. ASSUME NEW i \in Index, Receive(i)
      PROVE  IInv'
  <2>1. CASE aborted
    BY <1>7, <2>1, SamePlaces DEF Receive
  <2>2. CASE ~aborted
    BY <1>7, <2>2, SamePlaces DEF Receive
  <2> QED
    BY <2>1, <2>2
<1>8. CASE ChannelClosed
  BY <1>8, SamePlaces DEF ChannelClosed
<1>9. CASE SendDone
  BY <1>9, SamePlaces DEF SendDone
<1>11. CASE Grow
  <2>1. /\ size' = size + 1 /\ size < MaxSize
        /\ UNCHANGED <<reading, compress, channel, main, sent, aborted>>
    BY <1>11 DEF Grow
  <2>2. size' \in 0..MaxSize /\ pos \in 0..size'
    BY <2>1
  <2>3. TypeOK'
    BY <2>1, <2>2
  <2>4. WholeChunks'
    BY <2>1, SamePlaces
  <2> QED
    BY <2>1, <2>3, <2>4
<1>12. CASE Drop
  BY <1>12, SamePlaces DEF Drop
<1>10. CASE UNCHANGED vars
  BY <1>10, SamePlaces DEF vars
<1> QED
  BY <1>1, <1>2, <1>3, <1>4, <1>5, <1>6, <1>7, <1>8, <1>9, <1>10, <1>11,
     <1>12 DEF Next

LEMMA Invariance == Spec => []IInv
<1> QED
  BY InitInvariant, StepInvariant, PTL DEF Spec

(* No chunk beyond the end of the file is ever in the pipeline.            *)
THEOREM TypeCorrect == Spec => []TypeOK
<1>1. IInv => TypeOK
  BY DEF IInv
<1> QED
  BY <1>1, Invariance, PTL

(* No chunk that was read is lost or doubled on its way through the tasks, *)
(* and Done comes behind all of them, unless the daemon is told to quit or *)
(* the handler is dropped.                                                 *)
THEOREM EveryChunkSent == Spec => []AllSent
<1>1. IInv => AllSent
  BY SendPipelineAssumption
  DEF IInv, TypeOK, Partition, ReaderStops, MainLeaves, SendersGone, AllSent
<1> QED
  BY <1>1, Invariance, PTL

(* A chunk is sent to another place than it was read from exactly when     *)
(* less than a chunk was read for an earlier one (do_send_file counts      *)
(* places in chunks).                                                      *)
THEOREM ChunksInPlace == Spec => []InPlace
<1>1. IInv => InPlace
  BY DEF IInv, WholeChunks, InPlace
<1> QED
  BY <1>1, Invariance, PTL

(* The daemon gets stuck only when it is told to quit, and only while more *)
(* chunks are left than the channel has room for.                          *)
THEOREM StuckBehindAbort == Spec => []StuckOnlyAfterAbort
<1>1. ASSUME IInv, Stuck
      PROVE  aborted /\ Cardinality(compress \cup channel) > Capacity
  <2> USE SendPipelineAssumption
  <2>1. aborted
    BY <1>1 DEF IInv, MainLeaves, SendersGone, Stuck
  <2>2. IsFiniteSet(Index)
    BY FS_Interval DEF Index
  <2>3. IsFiniteSet(compress) /\ IsFiniteSet(channel)
    BY <1>1, <2>2, FS_Subset DEF IInv, TypeOK
  <2>4. Cardinality(compress) \in Nat /\ Cardinality(compress) # 0
    BY <1>1, <2>3, FS_CardinalityType, FS_EmptySet DEF Stuck
  <2>5. compress \cap channel = {}
    BY <1>1 DEF IInv, Partition
  <2>6. Cardinality(compress \cup channel)
          = Cardinality(compress) + Cardinality(channel)
    <3>1. Cardinality(compress \cup channel)
            = Cardinality(compress) + Cardinality(channel)
                - Cardinality(compress \cap channel)
      BY <2>3, FS_Union
    <3>2. Cardinality(compress \cap channel) = 0
      BY <2>5, FS_EmptySet
    <3>3. Cardinality(channel) \in Nat
      BY <2>3, FS_CardinalityType
    <3> QED
      BY <2>4, <3>1, <3>2, <3>3
  <2> QED
    BY <1>1, <2>1, <2>4, <2>6 DEF Stuck
<1> QED
  BY <1>1, Invariance, PTL DEF StuckOnlyAfterAbort

=============================================================================
