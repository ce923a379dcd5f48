------------------------- MODULE FileTransferProofs -------------------------
(***************************************************************************)
(* What holds of FileTransfer for any number of sessions, files and        *)
(* applications, any size and any number of restarts: the types and what   *)
(* is written to which file, why a chunk may be missing, what a client     *)
(* that loads a file may miss, and that a transfer implements Transfer.    *)
(*                                                                         *)
(* A session goes through its messages in one order, though its chunks and *)
(* Done overtake one another: Ready alone, then the response alone, then   *)
(* the rest.  SessionInv says what holds on the way.  No action looks at   *)
(* more than one session, so that each is shown for its own session and    *)
(* leaves the others as they are (SameSession).                            *)
(***************************************************************************)
EXTENDS FileTransfer, FiniteSetTheorems, TLAPS

(* Nothing has been read or received for s.                                *)
Untouched(s) ==
  /\ content[s] = {}
  /\ writers[s] = None
  /\ disk[s] = {} /\ flying[s] = {}
  /\ s \notin updated

(* A session that was not announced has no messages, and one whose Ready   *)
(* is under way no other message.                                          *)
Begun(s) ==
  /\ declared[s] = None => Untouched(s) /\ \A m \in net : m.session # s
  /\ \A m \in net : m.session = s /\ m.kind = "Ready" =>
       /\ m.size = declared[s].size
       /\ Untouched(s)
       /\ \A n \in net : n.session = s => n = m

(* The response comes before Done is sent.                                 *)
Answered(s) == Response(s) \in net => s \notin updated /\ Done(s) \notin net

(* A writer is open from Ready to Done.                                    *)
Writing(s) ==
  writers[s] # None =>
    /\ writers[s] = declared[s].size
    /\ s \notin updated
    /\ s \in broken \/ Response(s) \in net \/ Done(s) \in net

(* What is in the file of s fits, and at most one write is under way.      *)
Written(s) ==
  /\ \A c \in disk[s] \cup flying[s] : c.offset + c.len <= declared[s].size
  /\ \A c, d \in flying[s] : c = d

(* Where the chunks of s are while its writer is open, and afterwards when *)
(* it was reported.                                                        *)
Accounted(s) ==
  writers[s] # None \/ s \in updated =>
    \A c \in content[s] :
      \/ c \in disk[s] \cup flying[s] \cup dropped[s]
      \/ c.offset + CHUNK_SIZE > declared[s].size
      \/ s \notin updated /\ ChunkOf(s, c) \in net

(* What was loaded is all but one chunk of a file that was reported.       *)
Loaded(s) ==
  loaded[s] # None =>
    /\ s \in updated
    /\ loaded[s] \subseteq disk[s]
    /\ \A c, d \in (disk[s] \cup flying[s]) \ loaded[s] : c = d

SessionInv(s) ==
  /\ Begun(s) /\ Answered(s) /\ Writing(s)
  /\ Written(s) /\ Accounted(s) /\ Loaded(s)

(* The table is empty, as every row lacks a column: see NoRow.             *)
NoRows == regist_file = {}

IInv == TypeOK /\ NoRows /\ \A s \in Session : SessionInv(s)

-----------------------------------------------------------------------------
(* What a message is, by its kind.                                         *)
LEMMA Forms ==
  ASSUME NEW m \in Message
  PROVE  /\ m.session \in Session
         /\ m.kind \in {"Ready", "ReadyResponse", "Done", "Chunk"}
         /\ m.kind = "Ready" => m.size \in Size
         /\ m.kind = "ReadyResponse" => m = Response(m.session)
         /\ m.kind = "Done" => m = Done(m.session)
         /\ m.kind = "Chunk" => m.chunk \in Chunk /\ m = ChunkOf(m.session, m.chunk)
BY DEF Message, Response, Done, ChunkOf

LEMMA Messages ==
  ASSUME NEW s \in Session
  PROVE  /\ Response(s) \in Message
         /\ Response(s).session = s /\ Response(s).kind = "ReadyResponse"
         /\ Done(s) \in Message
         /\ Done(s).session = s /\ Done(s).kind = "Done"
         /\ \A c \in Chunk : /\ ChunkOf(s, c) \in Message
                             /\ ChunkOf(s, c).session = s
                             /\ ChunkOf(s, c).kind = "Chunk"
                             /\ ChunkOf(s, c).chunk = c
BY DEF Message, Response, Done, ChunkOf

(* The chunks of a file are chunks, and so are those under way.            *)
LEMMA ChunkTypes ==
  ASSUME NEW size \in Size
  PROVE  ChunksOf(size) \subseteq Chunk
<1> SUFFICES ASSUME NEW o \in Size, o % CHUNK_SIZE = 0, o < size
             PROVE  [offset |-> o, len |-> IF o + CHUNK_SIZE <= size THEN CHUNK_SIZE
                                           ELSE size - o] \in Chunk
  BY DEF ChunksOf
<1>1. o \in Nat /\ size \in Nat
  BY FileTransferAssumption DEF Size
<1>2. (IF o + CHUNK_SIZE <= size THEN CHUNK_SIZE ELSE size - o) \in 1..CHUNK_SIZE
  BY <1>1 DEF CHUNK_SIZE
<1> QED
  BY <1>2 DEF Chunk

LEMMA SizeTypes ==
  ASSUME NEW item
  PROVE  SizesOf(item) \subseteq Size
BY FileTransferAssumption DEF SizesOf, Size

(* The registry keeps its types, and has no row: NewRow leaves out a       *)
(* column that the migration demands.                                      *)
LEMMA NoRow ==
  ASSUME NEW a, NEW f, NEW path
  PROVE  ~Insertable(NewRow(a, f, path))
<1>1. "version" \notin DOMAIN NewRow(a, f, path)
  BY DEF NewRow
<1> QED
  BY <1>1 DEF Insertable, NotNull

LEMMA RegistryKept ==
  ASSUME RegistryTypeOK, regist_file = {}, RegistryRequest \/ RegistryRestart
  PROVE  RegistryTypeOK' /\ regist_file' = {}
<1>1. CASE RegistryRestart
  BY <1>1 DEF RegistryRestart, RegistryTypeOK, NoRaw
<1>2. ASSUME NEW a \in App, NEW f \in File, NEW path \in Path,
             RegistPath(a, f, path)
      PROVE  RegistryTypeOK' /\ regist_file' = {}
  BY <1>2, NoRow DEF RegistPath, RegistryTypeOK
<1>3. ASSUME NEW a \in App, NEW f \in File, UnregistFile(a, f)
      PROVE  RegistryTypeOK' /\ regist_file' = {}
  BY <1>3 DEF UnregistFile, RegistryTypeOK
<1>4. ASSUME NEW a \in App, UnregistApp(a)
      PROVE  RegistryTypeOK' /\ regist_file' = {}
  BY <1>4 DEF UnregistApp, RegistryTypeOK
<1>5. ASSUME NEW f \in File, NEW data \in Raw, RegistRaw(f, data)
      PROVE  RegistryTypeOK' /\ regist_file' = {}
  BY <1>5 DEF RegistRaw, RegistryTypeOK
<1>6. ASSUME NEW f \in File, UnregistRaw(f)
      PROVE  RegistryTypeOK' /\ regist_file' = {}
  BY <1>6 DEF UnregistRaw, RegistryTypeOK
<1> QED
  BY <1>1, <1>2, <1>3, <1>4, <1>5, <1>6 DEF RegistryRequest

(* Only raw items are there to be sent.                                    *)
LEMMA RawItems ==
  ASSUME RegistryTypeOK, regist_file = {}, NEW a \in App, NEW f \in File,
         NEW item \in RegistItems(a, f)
  PROVE  item \in Raw
BY DEF RegistItems, FileModels, RegistryTypeOK

-----------------------------------------------------------------------------
(* The types, and that there is no row.                                    *)
TypeInv == TypeOK /\ NoRows

LEMMA InitTypeInv == Init => TypeInv
<1> SUFFICES ASSUME Init PROVE TypeInv
  OBVIOUS
<1>1. RegistryTypeOK /\ NoRows
  BY DEF Init, RegistryInit, NoRaw, RegistryTypeOK, NoRows
<1>2. MaxEdits \in Nat /\ MaxRestarts \in Nat
  BY FileTransferAssumption
<1>3. edits = 0 /\ restarts = 0
  BY DEF Init
<1>4. net = {} /\ updated = {} /\ broken = {} /\ failed = {}
  BY DEF Init
<1>5. /\ writers = [s \in Session |-> None] /\ loaded = [s \in Session |-> None]
      /\ declared = [s \in Session |-> None]
  BY DEF Init
<1>6. /\ disk = [s \in Session |-> {}] /\ flying = [s \in Session |-> {}]
      /\ content = [s \in Session |-> {}] /\ dropped = [s \in Session |-> {}]
  BY DEF Init
<1>7. /\ edits \in 0..MaxEdits /\ restarts \in 0..MaxRestarts
      /\ verified \in BOOLEAN
  <2>1. edits \in 0..MaxEdits /\ restarts \in 0..MaxRestarts
    BY <1>2, <1>3
  <2>2. verified \in BOOLEAN
    BY DEF Init
  <2> QED
    BY <2>1, <2>2
<1>8. /\ writers \in [Session -> Size \cup {None}]
      /\ loaded \in [Session -> (SUBSET Chunk) \cup {None}]
      /\ declared \in [Session -> [app : App, file : File, item : Raw \cup Path,
                                   size : Size] \cup {None}]
  BY <1>5
<1>9. /\ {disk, flying} \subseteq [Session -> SUBSET Chunk]
      /\ content \in [Session -> SUBSET Chunk]
      /\ dropped \in [Session -> SUBSET Chunk]
  BY <1>6
<1> QED
  BY <1>1, <1>4, <1>7, <1>8, <1>9 DEF TypeInv, TypeOK

(* The announcement is that of a raw item.                                 *)
LEMMA Announcement ==
  ASSUME TypeInv, NEW s \in Session, NEW a \in App, NEW f \in File,
         SendFile(s, a, f)
  PROVE  \E item \in Raw, size \in Size :
           /\ net' = net \cup {[session |-> s, kind |-> "Ready", size |-> size]}
           /\ declared' = [declared EXCEPT ![s] =
                             [app |-> a, file |-> f, item |-> item, size |-> size]]
<1>1. PICK item \in RegistItems(a, f) : \E size \in SizesOf(item) :
        /\ net' = net \cup {[session |-> s, kind |-> "Ready", size |-> size]}
        /\ declared' = [declared EXCEPT ![s] =
                          [app |-> a, file |-> f, item |-> item, size |-> size]]
  BY DEF SendFile
<1>2. item \in Raw /\ SizesOf(item) \subseteq Size
  BY RawItems, SizeTypes DEF TypeInv, TypeOK, NoRows
<1> QED
  BY <1>1, <1>2

(* What is sent of a file are chunks of it, and Done or nothing.           *)
LEMMA Sending ==
  ASSUME NEW s \in Session, DoSendFile(s)
  PROVE  \E size \in Size, chunks \in SUBSET Chunk, end \in SUBSET {Done(s)} :
           /\ ChunksOf(size) \subseteq Chunk
           /\ chunks \subseteq ChunksOf(size)
           /\ net' = (net \ {Response(s)}) \cup {ChunkOf(s, c) : c \in chunks} \cup end
           /\ content' = [content EXCEPT ![s] = ChunksOf(size)]
           /\ dropped' = [dropped EXCEPT ![s] = ChunksOf(size) \ chunks]
           /\ broken' = IF chunks = ChunksOf(size) /\ end # {} THEN broken
                        ELSE broken \cup {s}
<1>1. PICK size \in Size : \E chunks \in SUBSET ChunksOf(size), end \in SUBSET {Done(s)} :
        /\ net' = (net \ {Response(s)}) \cup {ChunkOf(s, c) : c \in chunks} \cup end
        /\ content' = [content EXCEPT ![s] = ChunksOf(size)]
        /\ dropped' = [dropped EXCEPT ![s] = ChunksOf(size) \ chunks]
        /\ broken' = IF chunks = ChunksOf(size) /\ end # {} THEN broken
                     ELSE broken \cup {s}
  BY SizeTypes DEF DoSendFile
<1>2. ChunksOf(size) \subseteq Chunk
  BY ChunkTypes
<1> QED
  BY <1>1, <1>2

LEMMA TypeStep == TypeInv /\ [Next]_vars => TypeInv'
<1> SUFFICES ASSUME TypeInv, [Next]_vars PROVE TypeInv'
  OBVIOUS
<1> USE DEF TypeInv, NoRows
<1>1. CASE UNCHANGED vars
  BY <1>1 DEF vars, sender, registry, receiver, file, history, TypeOK, RegistryTypeOK
<1>2. CASE EditRegistry
  <2>1. RegistryTypeOK' /\ regist_file' = {}
    BY <1>2, RegistryKept DEF EditRegistry, TypeOK
  <2>2. edits' \in 0..MaxEdits
    BY <1>2, FileTransferAssumption DEF EditRegistry, TypeOK
  <2> QED
    BY <1>2, <2>1, <2>2 DEF EditRegistry, receiver, file, history, TypeOK
<1>3. ASSUME NEW v \in BOOLEAN, SetVerified(v)
      PROVE  TypeInv'
  BY <1>3 DEF SetVerified, registry, receiver, file, history, TypeOK, RegistryTypeOK
<1>4. ASSUME NEW s \in Session, NEW a \in App, NEW f \in File, SendFile(s, a, f)
      PROVE  TypeInv'
  <2>1. PICK item \in Raw, size \in Size :
          /\ net' = net \cup {[session |-> s, kind |-> "Ready", size |-> size]}
          /\ declared' = [declared EXCEPT ![s] =
                            [app |-> a, file |-> f, item |-> item, size |-> size]]
    BY <1>4, Announcement
  <2>2. net' \subseteq Message
    BY <2>1 DEF TypeOK, Message
  <2>3. declared' \in [Session -> [app : App, file : File, item : Raw \cup Path,
                                   size : Size] \cup {None}]
    BY <2>1 DEF TypeOK
  <2> QED
    BY <1>4, <2>2, <2>3
    DEF SendFile, sender, registry, receiver, file, TypeOK, RegistryTypeOK
<1>5. ASSUME NEW s \in Session, GiveUp(s)
      PROVE  TypeInv'
  BY <1>5
  DEF GiveUp, sender, registry, receiver, file, TypeOK, RegistryTypeOK
<1>6. ASSUME NEW s \in Session, DoSendFile(s)
      PROVE  TypeInv'
  <2>1. PICK size \in Size, chunks \in SUBSET Chunk, end \in SUBSET {Done(s)} :
         /\ ChunksOf(size) \subseteq Chunk
         /\ chunks \subseteq ChunksOf(size)
         /\ net' = (net \ {Response(s)}) \cup {ChunkOf(s, c) : c \in chunks} \cup end
         /\ content' = [content EXCEPT ![s] = ChunksOf(size)]
         /\ dropped' = [dropped EXCEPT ![s] = ChunksOf(size) \ chunks]
         /\ broken' = IF chunks = ChunksOf(size) /\ end # {} THEN broken
                      ELSE broken \cup {s}
    BY <1>6, Sending
  <2>2. net' \subseteq Message
    BY <2>1, Messages DEF TypeOK
  <2>3. /\ content' \in [Session -> SUBSET Chunk]
        /\ dropped' \in [Session -> SUBSET Chunk]
        /\ broken' \subseteq Session
    BY <2>1 DEF TypeOK
  <2> QED
    BY <1>6, <2>2, <2>3
    DEF DoSendFile, sender, registry, receiver, file, TypeOK, RegistryTypeOK
<1>7. CASE SenderRestarts
  <2>1. RegistryTypeOK' /\ regist_file' = {}
    BY <1>7, RegistryKept DEF SenderRestarts, TypeOK
  <2>2. restarts' \in 0..MaxRestarts
    BY <1>7, FileTransferAssumption DEF SenderRestarts, TypeOK
  <2> QED
    BY <1>7, <2>1, <2>2 DEF SenderRestarts, receiver, file, TypeOK
<1>8. ASSUME NEW m \in net, Ready(m)
      PROVE  TypeInv'
  <2>1. m \in Message /\ m.session \in Session /\ m.size \in Size
    BY <1>8, Forms DEF TypeOK, Ready
  <2>2. net' \subseteq Message
    BY <1>8, <2>1, Messages DEF TypeOK, Ready
  <2> QED
    BY <1>8, <2>1, <2>2
    DEF Ready, AddWriter, sender, registry, file, history, TypeOK, RegistryTypeOK
<1>9. ASSUME NEW m \in net, Read(m)
      PROVE  TypeInv'
  <2>1. m \in Message /\ m.session \in Session /\ m.chunk \in Chunk
    BY <1>9, Forms DEF TypeOK, Read
  <2>2. /\ {disk, flying}' \subseteq [Session -> SUBSET Chunk]
        /\ dropped' \in [Session -> SUBSET Chunk]
        /\ failed' \subseteq Session
    BY <1>9, <2>1 DEF TypeOK, Read, Write
  <2> QED
    BY <1>9, <2>2
    DEF Read, sender, registry, TypeOK, RegistryTypeOK
<1>10. ASSUME NEW m \in net, Finish(m)
       PROVE  TypeInv'
  <2>1. m \in Message /\ m.session \in Session
    BY Forms DEF TypeOK
  <2>2. UnderWay(m.session) \subseteq Chunk
    BY DEF UnderWay
  <2>3. /\ dropped' \in [Session -> SUBSET Chunk]
        /\ writers' \in [Session -> Size \cup {None}]
        /\ updated' \subseteq Session /\ broken' \subseteq Session
        /\ failed' \subseteq Session
    BY <1>10, <2>1, <2>2 DEF TypeOK, Finish, RemoveWriter
  <2> QED
    BY <1>10, <2>3
    DEF Finish, sender, registry, TypeOK, RegistryTypeOK
<1>11. ASSUME NEW m \in net, Lose(m)
       PROVE  TypeInv'
  <2>1. m \in Message /\ m.session \in Session /\ (m.kind = "Chunk" => m.chunk \in Chunk)
    BY Forms DEF TypeOK
  <2>2. /\ dropped' \in [Session -> SUBSET Chunk]
        /\ broken' \subseteq Session
        /\ net' \subseteq Message
    BY <1>11, <2>1 DEF TypeOK, Lose
  <2> QED
    BY <1>11, <2>2
    DEF Lose, sender, registry, receiver, file, TypeOK, RegistryTypeOK
<1>12. ASSUME NEW s \in Session, Flush(s)
       PROVE  TypeInv'
  <2>1. {disk, flying}' \subseteq [Session -> SUBSET Chunk]
    BY <1>12 DEF TypeOK, Flush
  <2> QED
    BY <1>12, <2>1 DEF Flush, sender, registry, history, TypeOK, RegistryTypeOK
<1>13. ASSUME NEW s \in Session, Load(s)
       PROVE  TypeInv'
  <2>1. loaded' \in [Session -> (SUBSET Chunk) \cup {None}]
    BY <1>13 DEF TypeOK, Load
  <2> QED
    BY <1>13, <2>1 DEF Load, sender, registry, history, TypeOK, RegistryTypeOK
<1>14. CASE ReceiverRestarts
  <2>1. restarts' \in 0..MaxRestarts
    BY <1>14, FileTransferAssumption DEF ReceiverRestarts, TypeOK
  <2>2. /\ writers' \in [Session -> Size \cup {None}]
        /\ {disk, flying}' \subseteq [Session -> SUBSET Chunk]
        /\ dropped' \in [Session -> SUBSET Chunk]
        /\ broken' \subseteq Session
        /\ failed' \subseteq Session
    BY <1>14 DEF ReceiverRestarts, TypeOK
  <2> QED
    BY <1>14, <2>1, <2>2
    DEF ReceiverRestarts, sender, registry, TypeOK, RegistryTypeOK
<1>15. ASSUME NEW s \in Session, FlushFails(s)
       PROVE  TypeInv'
  <2>1. /\ {disk, flying}' \subseteq [Session -> SUBSET Chunk]
        /\ dropped' \in [Session -> SUBSET Chunk]
        /\ failed' \subseteq Session
    BY <1>15 DEF TypeOK, FlushFails
  <2> QED
    BY <1>15, <2>1 DEF FlushFails, sender, registry, TypeOK, RegistryTypeOK
<1> QED
  BY <1>1, <1>2, <1>3, <1>4, <1>5, <1>6, <1>7, <1>8, <1>9, <1>10, <1>11, <1>12,
     <1>13, <1>14, <1>15 DEF Next, Deliver

-----------------------------------------------------------------------------
(* What becomes of a session.                                              *)

(* A step leaves the session s as it is.                                   *)
Same(s) ==
  /\ writers'[s] = writers[s] /\ disk'[s] = disk[s] /\ flying'[s] = flying[s]
  /\ loaded'[s] = loaded[s] /\ declared'[s] = declared[s]
  /\ content'[s] = content[s] /\ dropped'[s] = dropped[s]
  /\ s \in updated' <=> s \in updated
  /\ s \in broken => s \in broken'
  /\ \A m \in Message : m.session = s => (m \in net' <=> m \in net)

LEMMA SameSession ==
  ASSUME net \subseteq Message, net' \subseteq Message,
         content \in [Session -> SUBSET Chunk],
         NEW s \in Session, SessionInv(s), Same(s)
  PROVE  SessionInv(s)'
<1>1. \A m \in net' : m.session = s => m \in net
  BY DEF Same
<1>2. Begun(s)'
  BY <1>1 DEF SessionInv, Same, Begun, Untouched
<1>3. Response(s) \in net' <=> Response(s) \in net
  BY Messages DEF Same
<1>4. Done(s) \in net' <=> Done(s) \in net
  BY Messages DEF Same
<1>5. Answered(s)' /\ Writing(s)'
  BY <1>3, <1>4 DEF SessionInv, Same, Answered, Writing, Response, Done
<1>6. Written(s)' /\ Loaded(s)'
  BY DEF SessionInv, Same, Written, Loaded
<1>7. \A c \in Chunk : ChunkOf(s, c) \in net' <=> ChunkOf(s, c) \in net
  BY Messages DEF Same
<1>8. content[s] \subseteq Chunk
  OBVIOUS
<1>9. Accounted(s)'
  BY <1>7, <1>8 DEF SessionInv, Same, Accounted, ChunkOf
<1> QED
  BY <1>2, <1>5, <1>6, <1>9 DEF SessionInv

LEMMA InitSession == Init => \A s \in Session : SessionInv(s)
<1> SUFFICES ASSUME Init, NEW s \in Session PROVE SessionInv(s)
  OBVIOUS
<1>1. /\ net = {} /\ updated = {}
      /\ writers[s] = None /\ loaded[s] = None /\ declared[s] = None
      /\ disk[s] = {} /\ flying[s] = {} /\ content[s] = {}
  BY DEF Init
<1> QED
  BY <1>1
  DEF SessionInv, Begun, Untouched, Answered, Writing, Written, Accounted, Loaded

LEMMA SessionStep ==
  ASSUME TypeInv, TypeInv', \A s \in Session : SessionInv(s), [Next]_vars
  PROVE  \A s \in Session : SessionInv(s)'
<1> USE DEF TypeInv
<1>1. /\ net \subseteq Message /\ net' \subseteq Message
      /\ content \in [Session -> SUBSET Chunk]
  BY DEF TypeOK
<1>2. ASSUME NEW t \in Session, Same(t)
      PROVE  SessionInv(t)'
  BY <1>1, <1>2, SameSession
<1>3. CASE \/ UNCHANGED vars \/ EditRegistry
           \/ \E v \in BOOLEAN : SetVerified(v)
  <2>1. UNCHANGED <<receiver, net, history>>
    BY <1>3 DEF vars, EditRegistry, SetVerified
  <2>2. \A t \in Session : Same(t)
    BY <2>1 DEF receiver, file, history, Same
  <2> QED
    BY <1>2, <2>2
<1>4. ASSUME NEW s \in Session, NEW a \in App, NEW f \in File, SendFile(s, a, f)
      PROVE  \A t \in Session : SessionInv(t)'
  <2>1. PICK item \in Raw, size \in Size :
          /\ net' = net \cup {[session |-> s, kind |-> "Ready", size |-> size]}
          /\ declared' = [declared EXCEPT ![s] =
                            [app |-> a, file |-> f, item |-> item, size |-> size]]
    BY <1>4, Announcement
  <2>2. Begun(s) /\ Untouched(s) /\ \A m \in net : m.session # s
    BY <1>4 DEF SendFile, SessionInv, Begun
  <2>3. UNCHANGED <<receiver, content, dropped, broken>>
    BY <1>4 DEF SendFile
  <2>4. declared'[s] # None /\ declared'[s].size = size
    <3>1. declared'[s] = [app |-> a, file |-> f, item |-> item, size |-> size]
      BY <2>1 DEF TypeOK
    <3> QED
      BY <3>1, FileTransferAssumption DEF Size
  <2>5. Untouched(s)'
    BY <2>2, <2>3 DEF Untouched, receiver, file
  <2>6. Begun(s)'
    BY <2>1, <2>2, <2>4, <2>5 DEF Begun
  <2>7. Response(s) \notin net'
    BY <2>1, <2>2 DEF Response
  <2>8. loaded'[s] = None
    BY <2>2, <2>3 DEF receiver, file, SessionInv, Loaded, Untouched
  <2>9. SessionInv(s)'
    BY <2>5, <2>6, <2>7, <2>8
    DEF SessionInv, Untouched, Answered, Response, Writing, Written, Accounted, Loaded
  <2>10. ASSUME NEW t \in Session, t # s
         PROVE  Same(t)
    BY <2>1, <2>3, <2>10 DEF receiver, file, Same, TypeOK
  <2> QED
    BY <1>2, <2>9, <2>10
<1>5. ASSUME NEW s \in Session, GiveUp(s)
      PROVE  \A t \in Session : SessionInv(t)'
  <2>1. /\ Response(s) \in net /\ net' = net \ {Response(s)}
        /\ s \in broken' /\ broken \subseteq broken'
        /\ UNCHANGED <<receiver, declared, content, dropped>>
    BY <1>5 DEF GiveUp, TypeOK
  <2>2. Response(s).session = s /\ Response(s).kind = "ReadyResponse"
    BY Messages
  <2>3. Begun(s)'
    BY <2>1, <2>2 DEF receiver, file, SessionInv, Begun, Untouched
  <2>4. Answered(s)' /\ Writing(s)'
    BY <2>1 DEF receiver, Answered, SessionInv, Writing, Response, Done
  <2>5. Written(s)' /\ Loaded(s)'
    BY <2>1 DEF receiver, file, SessionInv, Written, Loaded
  <2>6. \A c \in content[s] : ChunkOf(s, c) \in net => ChunkOf(s, c) \in net'
    BY <1>1, <2>1, <2>2, Messages
  <2>7. Accounted(s)'
    BY <2>1, <2>6 DEF receiver, file, SessionInv, Accounted, ChunkOf
  <2>8. ASSUME NEW t \in Session, t # s
        PROVE  Same(t)
    BY <2>1, <2>2, <2>8 DEF receiver, file, Same
  <2> QED
    BY <1>2, <2>3, <2>4, <2>5, <2>7, <2>8 DEF SessionInv
<1>6. ASSUME NEW s \in Session, DoSendFile(s)
      PROVE  \A t \in Session : SessionInv(t)'
  <2>1. PICK size \in Size, chunks \in SUBSET Chunk, end \in SUBSET {Done(s)} :
          /\ ChunksOf(size) \subseteq Chunk
          /\ chunks \subseteq ChunksOf(size)
          /\ net' = (net \ {Response(s)}) \cup {ChunkOf(s, c) : c \in chunks} \cup end
          /\ content' = [content EXCEPT ![s] = ChunksOf(size)]
          /\ dropped' = [dropped EXCEPT ![s] = ChunksOf(size) \ chunks]
          /\ broken' = IF chunks = ChunksOf(size) /\ end # {} THEN broken
                       ELSE broken \cup {s}
    BY <1>6, Sending
  <2>2. Response(s) \in net /\ UNCHANGED <<receiver, declared>>
    BY <1>6 DEF DoSendFile
  <2>3. Response(s).session = s /\ Response(s).kind = "ReadyResponse"
    BY Messages
  <2>4. chunks \subseteq Chunk
    BY <2>1
  <2>5. \A m \in net : m.session = s => m.kind # "Ready"
    BY <2>2, <2>3 DEF SessionInv, Begun
  <2>6. \A m \in net' : m.session = s => m.kind # "Ready"
    BY <2>1, <2>4, <2>5, Messages
  <2>7. declared[s] # None
    BY <2>2, <2>3 DEF SessionInv, Begun
  <2>8. Begun(s)'
    BY <2>2, <2>6, <2>7 DEF Begun
  <2>9. Response(s) \notin net'
    BY <2>1, <2>3, <2>4, Messages
  <2>10. Answered(s)'
    BY <2>9 DEF Answered, Response
  <2>11. s \in broken' \/ Done(s) \in net'
    BY <2>1 DEF TypeOK
  <2>12. s \notin updated
    BY <2>2 DEF SessionInv, Answered
  <2>13. Writing(s)'
    BY <2>2, <2>11, <2>12 DEF receiver, SessionInv, Writing, Done
  <2>14. Written(s)' /\ Loaded(s)'
    BY <2>2 DEF receiver, file, SessionInv, Written, Loaded
  <2>15. content'[s] = ChunksOf(size) /\ dropped'[s] = ChunksOf(size) \ chunks
    BY <2>1 DEF TypeOK
  <2>16. \A c \in content'[s] : c \in dropped'[s] \/ ChunkOf(s, c) \in net'
    BY <2>1, <2>15
  <2>17. Accounted(s)'
    BY <2>2, <2>12, <2>16 DEF receiver, Accounted, ChunkOf
  <2>18. ASSUME NEW t \in Session, t # s
         PROVE  Same(t)
    <3>1. \A m \in Message : m.session = t => (m \in net' <=> m \in net)
      BY <2>1, <2>3, <2>4, <2>18, Messages
    <3> QED
      BY <2>1, <2>2, <2>18, <3>1 DEF receiver, file, Same, TypeOK
  <2> QED
    BY <1>2, <2>8, <2>10, <2>13, <2>14, <2>17, <2>18 DEF SessionInv
<1>7. CASE SenderRestarts
  <2>1. /\ net' = {m \in net : m.kind # "ReadyResponse"}
        /\ broken' = broken \cup {s \in Session : declared[s] # None}
        /\ UNCHANGED <<receiver, declared, content, dropped>>
    BY <1>7 DEF SenderRestarts
  <2> SUFFICES ASSUME NEW s \in Session PROVE SessionInv(s)'
    OBVIOUS
  <2>2. Begun(s)'
    BY <2>1 DEF receiver, file, SessionInv, Begun, Untouched
  <2>3. Answered(s)'
    BY <2>1, Messages DEF receiver, Answered, Response
  <2>4. writers[s] # None => declared[s] # None
    BY DEF SessionInv, Begun, Untouched
  <2>5. Writing(s)'
    BY <2>1, <2>4 DEF receiver, SessionInv, Writing
  <2>6. Written(s)' /\ Loaded(s)'
    BY <2>1 DEF receiver, file, SessionInv, Written, Loaded
  <2>7. \A c \in content[s] : ChunkOf(s, c) \in net => ChunkOf(s, c) \in net'
    BY <1>1, <2>1, Messages
  <2>8. Accounted(s)'
    BY <2>1, <2>7 DEF receiver, file, SessionInv, Accounted, ChunkOf
  <2> QED
    BY <2>2, <2>3, <2>5, <2>6, <2>8 DEF SessionInv
<1>8. ASSUME NEW m \in net, Ready(m)
      PROVE  \A t \in Session : SessionInv(t)'
  <2> DEFINE s == m.session
  <2>1. /\ m \in Message /\ s \in Session /\ m.size \in Size
        /\ m.size # None
    BY <1>1, <1>8, Forms, FileTransferAssumption DEF Ready, Size
  <2>2. /\ m.kind = "Ready"
        /\ net' = (net \ {m}) \cup {Response(s)}
        /\ writers' = [writers EXCEPT ![s] = m.size]
        /\ UNCHANGED <<file, updated, history>>
    BY <1>8 DEF Ready, AddWriter
  <2>3. /\ Untouched(s) /\ declared[s] # None /\ m.size = declared[s].size
        /\ \A n \in net : n.session = s => n = m
    BY <2>1, <2>2 DEF SessionInv, Begun
  <2> HIDE DEF s
  <2>4. /\ Response(s).session = s /\ Response(s).kind = "ReadyResponse"
        /\ Done(s).session = s /\ Done(s).kind = "Done"
    BY <2>1, Messages
  <2>5. Begun(s)'
    BY <2>2, <2>3, <2>4 DEF history, Begun
  <2>6. Done(s) \notin net'
    BY <2>2, <2>3, <2>4
  <2>7. Answered(s)'
    BY <2>2, <2>3, <2>6 DEF Answered, Untouched, Done
  <2>8. writers'[s] = m.size /\ Response(s) \in net'
    BY <2>1, <2>2 DEF TypeOK
  <2>9. Writing(s)'
    BY <2>2, <2>3, <2>8 DEF history, Writing, Untouched, Response
  <2>10. Written(s)' /\ Accounted(s)' /\ Loaded(s)'
    BY <2>1, <2>2, <2>3
    DEF file, history, SessionInv, Untouched, Written, Accounted, Loaded
  <2>11. ASSUME NEW t \in Session, t # s
         PROVE  Same(t)
    <3>1. writers'[t] = writers[t]
      BY <2>2, <2>11 DEF TypeOK
    <3>2. m.session = s
      BY DEF s
    <3> QED
      BY <2>2, <2>4, <2>11, <3>1, <3>2 DEF file, history, Same
  <2> QED
    BY <1>2, <2>5, <2>7, <2>9, <2>10, <2>11 DEF SessionInv
<1>9. ASSUME NEW m \in net, Read(m)
      PROVE  \A t \in Session : SessionInv(t)'
  <2> DEFINE s == m.session
  <2>1. /\ m \in Message /\ s \in Session /\ m.chunk \in Chunk
        /\ m = ChunkOf(s, m.chunk)
    BY <1>1, <1>9, Forms DEF Read
  <2>2. /\ m.kind = "Chunk" /\ m.session = s
        /\ net' = net \ {m}
        /\ UNCHANGED <<writers, loaded, updated, declared, content, broken>>
    BY <1>9 DEF Read
  <2>3. /\ Response(s).kind = "ReadyResponse" /\ Done(s).kind = "Done"
    BY <2>1, Messages
  <2>4. \/ /\ writers[s] # None /\ Accepts(writers[s], m.chunk)
           /\ disk' = [disk EXCEPT ![s] = @ \cup flying[s]]
           /\ flying' = [flying EXCEPT ![s] = {m.chunk}]
           /\ UNCHANGED dropped
        \/ /\ dropped' = [dropped EXCEPT ![s] = @ \cup {m.chunk}]
           /\ UNCHANGED <<disk, flying>>
        \/ /\ ~(writers[s] # None /\ Accepts(writers[s], m.chunk))
           /\ UNCHANGED <<disk, flying, dropped>>
    BY <1>9 DEF Read, Write, Takes
  <2> HIDE DEF s
  <2>5. Begun(s) /\ Answered(s) /\ Writing(s) /\ Written(s) /\ Accounted(s) /\ Loaded(s)
    BY <2>1 DEF SessionInv
  <2>6. \/ /\ writers[s] # None /\ Accepts(writers[s], m.chunk)
           /\ disk'[s] = disk[s] \cup flying[s] /\ flying'[s] = {m.chunk}
           /\ dropped'[s] = dropped[s]
        \/ /\ dropped'[s] = dropped[s] \cup {m.chunk}
           /\ disk'[s] = disk[s] /\ flying'[s] = flying[s]
        \/ /\ ~(writers[s] # None /\ Accepts(writers[s], m.chunk))
           /\ disk'[s] = disk[s] /\ flying'[s] = flying[s]
           /\ dropped'[s] = dropped[s]
    BY <2>1, <2>4 DEF TypeOK
  <2>7. declared[s] # None /\ \A n \in net : n.session = s => n.kind # "Ready"
    BY <2>2, <2>5 DEF Begun
  <2>8. Begun(s)'
    BY <2>2, <2>7 DEF Begun
  <2>9. Answered(s)' /\ Writing(s)'
    BY <2>2, <2>3, <2>5 DEF Answered, Writing, Response, Done
  <2>10. ASSUME writers[s] # None /\ Accepts(writers[s], m.chunk),
                disk'[s] = disk[s] \cup flying[s] /\ flying'[s] = {m.chunk},
                dropped'[s] = dropped[s]
         PROVE  SessionInv(s)'
    <3>1. disk'[s] = disk[s] \cup flying[s] /\ flying'[s] = {m.chunk}
      BY <2>10
    <3>2. writers[s] = declared[s].size /\ s \notin updated
      BY <2>5, <2>10 DEF Writing
    <3>3. m.chunk.offset + m.chunk.len <= declared[s].size
      <4>1. writers[s] \in Nat
        BY <2>1, <2>10, FileTransferAssumption DEF TypeOK, Size
      <4>2. m.chunk.offset \in Nat /\ m.chunk.len \in 1..2
        BY <2>1, FileTransferAssumption DEF Chunk, Size, CHUNK_SIZE
      <4> QED
        BY <2>10, <3>2, <4>1, <4>2 DEF Accepts, CHUNK_SIZE
    <3>4. Written(s)'
      BY <2>2, <2>5, <3>1, <3>3 DEF Written
    <3>5. loaded[s] = None
      BY <2>5, <3>2 DEF Loaded
    <3>6. Loaded(s)'
      BY <2>2, <3>5 DEF Loaded
    <3>7. \A c \in content[s] : ChunkOf(s, c) \in net =>
            ChunkOf(s, c) \in net' \/ c \in flying'[s]
      <4>1. \A c \in Chunk : ChunkOf(s, c).chunk = c
        BY <2>1, Messages
      <4> QED
        BY <1>1, <2>1, <2>2, <3>1, <4>1
    <3>8. Accounted(s)'
      BY <2>2, <2>5, <2>10, <3>1, <3>2, <3>7 DEF Accounted, ChunkOf
    <3> QED
      BY <2>8, <2>9, <3>4, <3>6, <3>8 DEF SessionInv
  <2>11. ASSUME ~(writers[s] # None /\ Accepts(writers[s], m.chunk)),
                disk'[s] = disk[s] /\ flying'[s] = flying[s],
                dropped'[s] = dropped[s]
         PROVE  SessionInv(s)'
    <3>1. disk'[s] = disk[s] /\ flying'[s] = flying[s]
      BY <2>11
    <3>2. Written(s)' /\ Loaded(s)'
      BY <2>2, <2>5, <3>1 DEF Written, Loaded
    <3>3. ASSUME writers[s] # None \/ s \in updated, NEW c \in content[s]
          PROVE  \/ c \in disk[s] \cup flying[s] \cup dropped[s]
                 \/ c.offset + CHUNK_SIZE > declared[s].size
                 \/ s \notin updated /\ ChunkOf(s, c) \in net'
      <4>1. CASE s \notin updated /\ ChunkOf(s, c) = m
        <5>1. c = m.chunk /\ writers[s] = declared[s].size /\ writers[s] \in Nat
          <6>1. c \in Chunk
            BY <1>1, <2>1
          <6>2. c = m.chunk
            BY <2>1, <4>1, <6>1, Messages
          <6>3. writers[s] = declared[s].size /\ writers[s] \in Nat
            BY <2>1, <2>5, <3>3, <4>1, FileTransferAssumption DEF Writing, TypeOK, Size
          <6> QED
            BY <6>2, <6>3
        <5>2. c.offset \in Nat
          BY <2>1, <5>1, FileTransferAssumption DEF Chunk, Size
        <5>3. ~Accepts(writers[s], c)
          BY <2>11, <3>3, <4>1, <5>1
        <5> QED
          BY <5>1, <5>2, <5>3 DEF Accepts, CHUNK_SIZE
      <4>2. CASE ~(s \notin updated /\ ChunkOf(s, c) = m)
        BY <2>2, <2>5, <3>3, <4>2 DEF Accounted
      <4> QED
        BY <4>1, <4>2
    <3>4. Accounted(s)'
      BY <2>2, <2>11, <3>1, <3>3 DEF Accounted, ChunkOf
    <3> QED
      BY <2>8, <2>9, <3>2, <3>4 DEF SessionInv
  <2>12. ASSUME NEW t \in Session, t # s
         PROVE  Same(t)
    <3>1. disk'[t] = disk[t] /\ flying'[t] = flying[t] /\ dropped'[t] = dropped[t]
      BY <2>4, <2>12 DEF TypeOK
    <3> QED
      BY <2>2, <2>12, <3>1 DEF Same
  <2>13. ASSUME disk'[s] = disk[s] /\ flying'[s] = flying[s],
                dropped'[s] = dropped[s] \cup {m.chunk}
         PROVE  SessionInv(s)'
    <3>1. Written(s)' /\ Loaded(s)'
      BY <2>2, <2>5, <2>13 DEF Written, Loaded
    <3>2. \A c \in content[s] : ChunkOf(s, c) \in net =>
            ChunkOf(s, c) \in net' \/ c \in dropped'[s]
      <4>1. \A c \in Chunk : ChunkOf(s, c).chunk = c
        BY <2>1, Messages
      <4> QED
        BY <1>1, <2>1, <2>2, <2>13, <4>1
    <3>3. Accounted(s)'
      BY <2>2, <2>5, <2>13, <3>2 DEF Accounted, ChunkOf
    <3> QED
      BY <2>8, <2>9, <3>1, <3>3 DEF SessionInv
  <2>14. SessionInv(s)'
    BY <2>6, <2>10, <2>11, <2>13
  <2> QED
    BY <1>2, <2>12, <2>14
<1>10. ASSUME NEW m \in net, Finish(m)
       PROVE  \A t \in Session : SessionInv(t)'
  <2> DEFINE s == m.session
  <2>1. /\ m \in Message /\ s \in Session /\ m = Done(s)
    BY <1>1, <1>10, Forms DEF Finish
  <2>2. /\ m.kind = "Done" /\ m.session = s
        /\ net' = net \ {m}
        /\ writers' = [writers EXCEPT ![s] = None]
        /\ dropped' = [dropped EXCEPT ![s] = @ \cup UnderWay(s)]
        /\ \/ updated' = updated
           \/ writers[s] # None /\ updated' = updated \cup {s}
        /\ broken \subseteq broken'
        /\ UNCHANGED <<disk, flying, loaded, declared, content>>
    BY <1>10 DEF Finish, RemoveWriter
  <2> HIDE DEF s
  <2>3. Begun(s) /\ Answered(s) /\ Writing(s) /\ Written(s) /\ Accounted(s) /\ Loaded(s)
    BY <2>1 DEF SessionInv
  <2>4. declared[s] # None /\ \A n \in net : n.session = s => n.kind # "Ready"
    BY <2>2, <2>3 DEF Begun
  <2>5. Begun(s)'
    BY <2>2, <2>4 DEF Begun
  <2>6. Response(s) \notin net'
    BY <2>1, <2>2, <2>3 DEF Answered
  <2>7. Answered(s)'
    BY <2>6 DEF Answered, Response
  <2>8. writers'[s] = None /\ dropped'[s] = dropped[s] \cup UnderWay(s)
    BY <2>1, <2>2 DEF TypeOK
  <2>9. Writing(s)'
    BY <2>8 DEF Writing
  <2>10. Written(s)'
    BY <2>2, <2>3 DEF Written
  <2>11. \A c \in content[s] : ChunkOf(s, c) \in net => c \in UnderWay(s)
    BY <1>1, <2>1 DEF UnderWay
  <2>12. Accounted(s)'
    BY <2>2, <2>3, <2>8, <2>11 DEF Accounted, ChunkOf
  <2>13. Loaded(s)'
    BY <2>2, <2>3 DEF Loaded
  <2>14. ASSUME NEW t \in Session, t # s
         PROVE  Same(t)
    <3>1. writers'[t] = writers[t] /\ dropped'[t] = dropped[t]
      BY <2>2, <2>14 DEF TypeOK
    <3> QED
      BY <2>2, <2>14, <3>1 DEF Same
  <2> QED
    BY <1>2, <2>5, <2>7, <2>9, <2>10, <2>12, <2>13, <2>14 DEF SessionInv
<1>11. ASSUME NEW m \in net, Lose(m)
       PROVE  \A t \in Session : SessionInv(t)'
  <2> DEFINE s == m.session
  <2>1. m \in Message /\ s \in Session
    BY <1>1, Forms
  <2>2. /\ net' = net \ {m} /\ m.session = s
        /\ s \in broken' /\ broken \subseteq broken'
        /\ UNCHANGED <<receiver, declared, content>>
    BY <1>11, <2>1 DEF Lose, TypeOK
  <2>3. dropped' = IF m.kind = "Chunk"
                     THEN [dropped EXCEPT ![s] = @ \cup {m.chunk}] ELSE dropped
    BY <1>11 DEF Lose
  <2> HIDE DEF s
  <2>4. Begun(s) /\ Answered(s) /\ Writing(s) /\ Written(s) /\ Accounted(s) /\ Loaded(s)
    BY <2>1 DEF SessionInv
  <2>5. Begun(s)'
    BY <2>2, <2>4 DEF receiver, file, Begun, Untouched
  <2>6. Answered(s)' /\ Writing(s)'
    BY <2>2, <2>4 DEF receiver, Answered, Writing, Response, Done
  <2>7. Written(s)' /\ Loaded(s)'
    BY <2>2, <2>4 DEF receiver, file, Written, Loaded
  <2>8. /\ dropped[s] \subseteq dropped'[s]
        /\ m.kind = "Chunk" => m.chunk \in dropped'[s]
    BY <2>1, <2>3 DEF TypeOK
  <2>9. ASSUME NEW c \in content[s], ChunkOf(s, c) \in net
        PROVE  ChunkOf(s, c) \in net' \/ c \in dropped'[s]
    <3>1. ChunkOf(s, c).kind = "Chunk" /\ ChunkOf(s, c).chunk = c
      BY <1>1, <2>1, Messages
    <3> QED
      BY <2>2, <2>8, <2>9, <3>1
  <2>10. Accounted(s)'
    BY <2>2, <2>4, <2>8, <2>9 DEF receiver, file, Accounted, ChunkOf
  <2>11. ASSUME NEW t \in Session, t # s
         PROVE  Same(t)
    <3>1. dropped'[t] = dropped[t]
      BY <2>3, <2>11 DEF TypeOK
    <3>2. t \in broken => t \in broken'
      BY <2>2
    <3> QED
      BY <2>2, <2>11, <3>1, <3>2 DEF receiver, file, Same
  <2> QED
    BY <1>2, <2>5, <2>6, <2>7, <2>10, <2>11 DEF SessionInv
<1>12. ASSUME NEW s \in Session, Flush(s)
       PROVE  \A t \in Session : SessionInv(t)'
  <2>1. /\ disk' = [disk EXCEPT ![s] = @ \cup flying[s]]
        /\ flying' = [flying EXCEPT ![s] = {}]
        /\ flying[s] # {}
        /\ UNCHANGED <<writers, loaded, updated, net, history>>
    BY <1>12 DEF Flush
  <2>2. disk'[s] = disk[s] \cup flying[s] /\ flying'[s] = {}
    BY <2>1 DEF TypeOK
  <2>3. ~Untouched(s)
    BY <2>1 DEF Untouched
  <2>4. Begun(s)'
    BY <2>1, <2>3 DEF history, SessionInv, Begun
  <2>5. Answered(s)' /\ Writing(s)'
    BY <2>1 DEF history, SessionInv, Answered, Writing, Response, Done
  <2>6. Written(s)'
    BY <2>1, <2>2 DEF history, SessionInv, Written
  <2>7. Accounted(s)'
    BY <2>1, <2>2 DEF history, SessionInv, Accounted, ChunkOf
  <2>8. Loaded(s)'
    BY <2>1, <2>2 DEF SessionInv, Loaded
  <2>9. ASSUME NEW t \in Session, t # s
        PROVE  Same(t)
    BY <2>1, <2>9 DEF history, Same, TypeOK
  <2> QED
    BY <1>2, <2>4, <2>5, <2>6, <2>7, <2>8, <2>9 DEF SessionInv
<1>13. ASSUME NEW s \in Session, Load(s)
       PROVE  \A t \in Session : SessionInv(t)'
  <2>1. /\ s \in updated
        /\ loaded' = [loaded EXCEPT ![s] = disk[s]]
        /\ UNCHANGED <<writers, disk, flying, updated, net, history>>
    BY <1>13 DEF Load
  <2>2. loaded'[s] = disk[s]
    BY <2>1 DEF TypeOK
  <2>3. Begun(s)' /\ Answered(s)' /\ Writing(s)'
    BY <2>1
    DEF history, SessionInv, Begun, Untouched, Answered, Writing, Response, Done
  <2>4. Written(s)' /\ Accounted(s)'
    BY <2>1 DEF history, SessionInv, Written, Accounted, ChunkOf
  <2>5. Loaded(s)'
    BY <2>1, <2>2 DEF SessionInv, Written, Loaded
  <2>6. ASSUME NEW t \in Session, t # s
        PROVE  Same(t)
    BY <2>1, <2>6 DEF history, Same, TypeOK
  <2> QED
    BY <1>2, <2>3, <2>4, <2>5, <2>6 DEF SessionInv
<1>14. CASE ReceiverRestarts
  <2>1. /\ writers' = [s \in Session |-> None]
        /\ flying' = [s \in Session |-> {}]
        /\ dropped' = [s \in Session |-> dropped[s] \cup flying[s]]
        /\ UNCHANGED <<net, disk, loaded, updated, declared, content>>
    BY <1>14 DEF ReceiverRestarts
  <2> SUFFICES ASSUME NEW s \in Session PROVE SessionInv(s)'
    OBVIOUS
  <2>2. /\ writers'[s] = None /\ flying'[s] = {}
        /\ dropped'[s] = dropped[s] \cup flying[s]
    BY <2>1
  <2>3. Begun(s)'
    BY <2>1, <2>2 DEF SessionInv, Begun, Untouched
  <2>4. Answered(s)' /\ Writing(s)'
    BY <2>1, <2>2 DEF SessionInv, Answered, Writing, Response, Done
  <2>5. Written(s)' /\ Loaded(s)'
    BY <2>1, <2>2 DEF SessionInv, Written, Loaded
  <2>6. Accounted(s)'
    BY <2>1, <2>2 DEF SessionInv, Accounted, ChunkOf
  <2> QED
    BY <2>3, <2>4, <2>5, <2>6 DEF SessionInv
<1>15. ASSUME NEW s \in Session, FlushFails(s)
       PROVE  \A t \in Session : SessionInv(t)'
  <2>1. /\ flying' = [flying EXCEPT ![s] = {}]
        /\ dropped' = [dropped EXCEPT ![s] = @ \cup flying[s]]
        /\ flying[s] # {}
        /\ UNCHANGED <<writers, disk, loaded, updated, net, declared, content, broken>>
    BY <1>15 DEF FlushFails
  <2>2. dropped'[s] = dropped[s] \cup flying[s] /\ flying'[s] = {}
    BY <2>1 DEF TypeOK
  <2>3. ~Untouched(s)
    BY <2>1 DEF Untouched
  <2>4. Begun(s)'
    BY <2>1, <2>3 DEF SessionInv, Begun
  <2>5. Answered(s)' /\ Writing(s)'
    BY <2>1 DEF SessionInv, Answered, Writing, Response, Done
  <2>6. Written(s)'
    BY <2>1, <2>2 DEF SessionInv, Written
  <2>7. Accounted(s)'
    BY <2>1, <2>2 DEF SessionInv, Accounted, ChunkOf
  <2>8. Loaded(s)'
    BY <2>1, <2>2 DEF SessionInv, Loaded
  <2>9. ASSUME NEW t \in Session, t # s
        PROVE  Same(t)
    BY <2>1, <2>9 DEF Same, TypeOK
  <2> QED
    BY <1>2, <2>4, <2>5, <2>6, <2>7, <2>8, <2>9 DEF SessionInv
<1> QED
  BY <1>3, <1>4, <1>5, <1>6, <1>7, <1>8, <1>9, <1>10, <1>11, <1>12, <1>13, <1>14,
     <1>15
  DEF Next, Deliver

LEMMA Invariance == Spec => []IInv
<1>1. Init => IInv
  BY InitTypeInv, InitSession DEF IInv, TypeInv
<1>2. IInv /\ [Next]_vars => IInv'
  BY TypeStep, SessionStep DEF IInv, TypeInv
<1> QED
  BY <1>1, <1>2, PTL DEF Spec

-----------------------------------------------------------------------------
(* Every value has its type; nothing is written past the size announced,   *)
(* and a writer left open for ever is that of a broken session.            *)
THEOREM WritersKeepWithin == Spec => []WriterInv
<1>1. IInv => WriterInv
  <2> SUFFICES ASSUME IInv PROVE WriterInv
    OBVIOUS
  <2>1. TypeOK
    BY DEF IInv
  <2>2. WithinDeclared
    BY DEF IInv, SessionInv, Begun, Untouched, Written, WithinDeclared
  <2>3. NoLeak
    BY Messages DEF IInv, SessionInv, Writing, NoLeak
  <2> QED
    BY <2>1, <2>2, <2>3 DEF WriterInv
<1> QED
  BY <1>1, Invariance, PTL

(* A chunk that a reported file lacks was not sent, or lost, or came       *)
(* behind Done, or does not fit as a whole chunk.                          *)
THEOREM EveryGapIsExplained == Spec => []GapsExplained
<1>1. IInv => GapsExplained
  BY DEF IInv, TypeOK, SessionInv, Accounted, GapsExplained
<1> QED
  BY <1>1, Invariance, PTL

(* A client that reads a reported file misses one chunk written to it at   *)
(* most.                                                                   *)
THEOREM ClientMissesOneAtMost == Spec => []LoadedWithinOne
<1>1. ASSUME NEW S, \A c, d \in S : c = d
      PROVE  Cardinality(S) <= 1
  <2>1. CASE S = {}
    BY <2>1, FS_EmptySet
  <2>2. CASE S # {}
    <3>1. PICK c \in S : S = {c}
      BY <1>1, <2>2
    <3>2. Cardinality({c}) = 1
      BY FS_Singleton, Zenon
    <3> QED
      BY <3>1, <3>2
  <2> QED
    BY <2>1, <2>2
<1>2. IInv => LoadedWithinOne
  BY <1>1 DEF IInv, SessionInv, Loaded, LoadedWithinOne
<1> QED
  BY <1>2, Invariance, PTL

-----------------------------------------------------------------------------
(* A transfer implements Transfer: opening, collecting, settling and       *)
(* closing are Ready, Read, Flush and Finish, a write that fails is        *)
(* missed, and a restart of the receiver is a crash.  Done without a       *)
(* writer, a write that is refused, and all that the sender and the        *)
(* network do, are stuttering.                                             *)
THEOREM TransfersImplement == Spec => ImplementsTransfer
<1> DEFINE St(s) == IF s \in updated THEN "reported"
                    ELSE IF writers[s] # None THEN "open" ELSE "shut"
           st == [s \in Session |-> St(s)]
<1>1. Init => Abstract!Init
  <2> SUFFICES ASSUME Init PROVE Abstract!Init
    OBVIOUS
  <2>1. st = [s \in Session |-> "shut"]
    BY DEF Init
  <2>2. disk = [s \in Session |-> {}] /\ flying = [s \in Session |-> {}]
    BY DEF Init
  <2> QED
    BY <2>1, <2>2 DEF Abstract!Init
<1>2. IInv /\ IInv' /\ [Next]_vars => [Abstract!Next]_(Abstract!vars)
  <2> SUFFICES ASSUME IInv, [Next]_vars
               PROVE  Abstract!Next \/ UNCHANGED Abstract!vars
    OBVIOUS
  <2>1. /\ TypeOK /\ net \subseteq Message
        /\ \A s \in Session : SessionInv(s)
    BY DEF IInv, TypeOK
  <2>2. st' = [s \in Session |-> St(s)']
    OBVIOUS
  <2>3. ASSUME UNCHANGED receiver
        PROVE  UNCHANGED Abstract!vars
    BY <2>3 DEF receiver, file, Abstract!vars
  <2>4. ASSUME \/ UNCHANGED vars \/ EditRegistry \/ SenderRestarts
               \/ \E v \in BOOLEAN : SetVerified(v)
               \/ \E s \in Session, a \in App, f \in File : SendFile(s, a, f)
               \/ \E s \in Session : GiveUp(s) \/ DoSendFile(s)
               \/ \E m \in net : Lose(m)
        PROVE  UNCHANGED receiver
    BY <2>4
    DEF vars, EditRegistry, SenderRestarts, SetVerified, SendFile, GiveUp, DoSendFile,
        Lose
  <2>5. ASSUME NEW m \in net, Ready(m)
        PROVE  Abstract!Next
    <3> DEFINE s == m.session
    <3>1. s \in Session /\ m.size # None /\ Untouched(s)
      <4>1. m \in Message /\ s \in Session /\ m.size \in Size
        BY <2>1, <2>5, Forms DEF Ready
      <4> QED
        BY <2>1, <2>5, <4>1, FileTransferAssumption DEF Ready, Size, SessionInv, Begun
    <3>2. /\ writers' = [writers EXCEPT ![s] = m.size]
          /\ UNCHANGED <<disk, flying, updated>>
      BY <2>5 DEF Ready, AddWriter, file
    <3>3. st[s] = "shut" /\ st' = [st EXCEPT ![s] = "open"]
      BY <2>1, <3>1, <3>2 DEF TypeOK, Untouched
    <3>4. /\ disk' = [disk EXCEPT ![s] = {}]
          /\ flying' = [flying EXCEPT ![s] = {}]
      BY <2>1, <3>1, <3>2 DEF TypeOK, Untouched
    <3> QED
      BY <3>1, <3>3, <3>4 DEF Abstract!Next, Abstract!Open
  <2>6. ASSUME NEW m \in net, Read(m)
        PROVE  Abstract!Next \/ UNCHANGED Abstract!vars
    <3> DEFINE s == m.session
    <3>1. s \in Session /\ m.chunk \in Chunk
      BY <2>1, <2>6, Forms DEF Read
    <3>2. UNCHANGED <<writers, updated>>
      BY <2>6 DEF Read
    <3>3. st' = st
      BY <3>2
    <3>4. CASE UNCHANGED <<disk, flying>>
      BY <3>3, <3>4 DEF Abstract!vars
    <3>5. CASE writers[s] # None /\ Write(s, m.chunk)
      <4>1. st[s] = "open"
        BY <2>1, <3>1, <3>5 DEF SessionInv, Writing
      <4> QED
        BY <3>1, <3>3, <3>5, <4>1 DEF Write, Abstract!Next, Abstract!Collect
    <3> QED
      BY <2>6, <3>4, <3>5 DEF Read, Takes
  <2>7. ASSUME NEW m \in net, Finish(m)
        PROVE  Abstract!Next \/ UNCHANGED Abstract!vars
    <3> DEFINE s == m.session
    <3>1. s \in Session
      BY <2>1, Forms
    <3>2. /\ writers' = [writers EXCEPT ![s] = None]
          /\ \/ updated' = updated
             \/ writers[s] # None /\ updated' = updated \cup {s}
          /\ UNCHANGED <<disk, flying>>
      BY <2>7 DEF Finish, RemoveWriter
    <3>3. CASE writers[s] = None
      <4>1. writers' = writers /\ updated' = updated
        BY <2>1, <3>2, <3>3 DEF TypeOK
      <4> QED
        BY <3>2, <4>1 DEF Abstract!vars
    <3>4. CASE writers[s] # None
      <4>1. st[s] = "open"
        BY <2>1, <3>1, <3>4 DEF SessionInv, Writing
      <4>2. \E end \in {"reported", "shut"} : st' = [st EXCEPT ![s] = end]
        <5>1. CASE updated' = updated
          <6>1. st' = [st EXCEPT ![s] = "shut"]
            BY <2>1, <3>1, <3>2, <3>4, <5>1 DEF TypeOK, SessionInv, Writing
          <6> QED
            BY <6>1
        <5>2. CASE updated' = updated \cup {s}
          <6>1. st' = [st EXCEPT ![s] = "reported"]
            BY <2>1, <3>1, <3>2, <5>2 DEF TypeOK
          <6> QED
            BY <6>1
        <5> QED
          BY <3>2, <5>1, <5>2
      <4> QED
        BY <3>1, <3>2, <4>1, <4>2 DEF Abstract!Next, Abstract!Close
    <3> QED
      BY <3>3, <3>4
  <2>8. ASSUME NEW s \in Session, Flush(s)
        PROVE  Abstract!Next
    <3>1. st' = st
      BY <2>8 DEF Flush
    <3> QED
      BY <2>8, <3>1 DEF Flush, Abstract!Next, Abstract!Settle
  <2>9. ASSUME NEW s \in Session, Load(s)
        PROVE  UNCHANGED Abstract!vars
    BY <2>9 DEF Load, Abstract!vars
  <2>10. CASE ReceiverRestarts
    <3>1. /\ writers' = [s \in Session |-> None]
          /\ flying' = [s \in Session |-> {}]
          /\ UNCHANGED <<disk, updated>>
      BY <2>10 DEF ReceiverRestarts
    <3>2. st' = [s \in Session |-> IF st[s] = "open" THEN "shut" ELSE st[s]]
      BY <3>1
    <3> QED
      BY <3>1, <3>2 DEF Abstract!Next, Abstract!Crash
  <2>11. ASSUME NEW s \in Session, FlushFails(s)
         PROVE  Abstract!Next
    <3>1. st' = st
      BY <2>11 DEF FlushFails
    <3> QED
      BY <2>11, <3>1 DEF FlushFails, Abstract!Next, Abstract!Miss
  <2> QED
    BY <2>3, <2>4, <2>5, <2>6, <2>7, <2>8, <2>9, <2>10, <2>11 DEF Next, Deliver
<1> QED
  BY <1>1, <1>2, Invariance, PTL DEF Spec, ImplementsTransfer, Abstract!Spec

=============================================================================
