---------------------------- MODULE FileTransfer ----------------------------
(***************************************************************************)
(* The transfer of a file between two LocalEx nodes over the request-      *)
(* response protocol "/localex/file/1.0.0" (FileTransferClientProtocol,    *)
(* FileWriterManager, FileWriter).                                         *)
(*                                                                         *)
(* The sender announces a file (Ready), the receiver opens a writer and    *)
(* answers Ready, and the sender then reads the whole file and puts every  *)
(* chunk and a final Done on the network, each a request on a stream of    *)
(* its own: they arrive in any order, any of them may be lost, and none is *)
(* sent again.  The answers to chunks are only logged and left out here.   *)
(*                                                                         *)
(* Sizes and offsets are counted in half chunks, so that a file may end in *)
(* a partial chunk.  A raw item is told apart by its size alone; a file    *)
(* has any size whenever it is looked at, as it may change on disk.        *)
(*                                                                         *)
(* A tokio file takes a write into memory and carries it out in the        *)
(* background; the next seek waits for it, closing the file does not.  If  *)
(* it fails, the write after it is refused.  The client told of the file   *)
(* reads it when it likes.                                                 *)
(*                                                                         *)
(* Definitions whose comment begins with "Mutant" are wrong on purpose and *)
(* used by no specification.                                               *)
(***************************************************************************)
EXTENDS Registry, FiniteSets

CONSTANTS
  Session,      \* the sessions of a behaviour, one per send_file
  MaxSize,      \* bound: sizes of the file are 0..MaxSize, in half chunks
  MaxEdits,     \* bound: requests to register or unregister at the sender
  MaxRestarts   \* bound: restarts of the two daemons

ASSUME FileTransferAssumption ==
  /\ MaxSize \in Nat
  /\ Raw \subseteq 0..MaxSize
  /\ MaxEdits \in Nat
  /\ MaxRestarts \in Nat
  /\ None \notin Nat
  /\ None \notin [app : App, file : File, item : Raw \cup Path, size : 0..MaxSize]

VARIABLES
  edits,     \* number of requests to the registry, bounded by MaxEdits
  verified,  \* whether the sender holds the receiver for verified
  net,       \* the requests and responses under way
  writers,   \* writers[s]: the size the FileWriter of s was opened for, or None
  disk,      \* disk[s]: the chunks in the temporary file of s
  flying,    \* flying[s]: the write of s in the background, if any
  failed,    \* the sessions whose open file keeps the error of a write
  loaded,    \* loaded[s]: the chunks a client has found in the file, or None
  updated,   \* the sessions FileUpdated was emitted for
  restarts,  \* number of restarts, bounded by MaxRestarts
  declared,  \* history: the item and the size s was announced with, or None
  content,   \* history: the chunks of the file when it was read for s
  dropped,   \* history: chunks of s not sent, lost, behind their Done, or
             \* whose write failed or was refused after one that failed
  broken     \* history: sessions the sender gave up, or that met a loss, an
             \* abort or a restart

sender == <<registry, edits, verified>>
file == <<disk, flying, failed, loaded>>
receiver == <<writers, file, updated>>
history == <<declared, content, dropped, broken>>
vars == <<sender, receiver, restarts, net, history>>

CHUNK_SIZE == 2
Size == 0..MaxSize

SizesOf(item) == IF item \in Raw THEN {item} ELSE Size

(* A chunk of a file; the last one may be partial.                         *)
Chunk == [offset : {o \in Size : o % CHUNK_SIZE = 0}, len : 1..CHUNK_SIZE]

ChunksOf(size) ==
  {[offset |-> o, len |-> IF o + CHUNK_SIZE <= size THEN CHUNK_SIZE
                          ELSE size - o] :
     o \in {n \in Size : n % CHUNK_SIZE = 0 /\ n < size}}

Message ==
  [session : Session, kind : {"Ready"}, size : Size]
    \cup [session : Session, kind : {"ReadyResponse", "Done"}]
    \cup [session : Session, kind : {"Chunk"}, chunk : Chunk]

Response(s) == [session |-> s, kind |-> "ReadyResponse"]
Done(s) == [session |-> s, kind |-> "Done"]
ChunkOf(s, c) == [session |-> s, kind |-> "Chunk", chunk |-> c]

(* The chunks of s that are under way.                                     *)
UnderWay(s) == {c \in Chunk : ChunkOf(s, c) \in net}

Init ==
  /\ RegistryInit
  /\ edits = 0
  /\ verified = FALSE
  /\ net = {}
  /\ writers = [s \in Session |-> None]
  /\ disk = [s \in Session |-> {}]
  /\ flying = [s \in Session |-> {}]
  /\ failed = {}
  /\ loaded = [s \in Session |-> None]
  /\ updated = {}
  /\ restarts = 0
  /\ declared = [s \in Session |-> None]
  /\ content = [s \in Session |-> {}]
  /\ dropped = [s \in Session |-> {}]
  /\ broken = {}

-----------------------------------------------------------------------------
(* The sender.                                                             *)

(* RegistFileId, RegistRaw, UnRegistFileId, UnRegistAppId, UnRegistRaw.    *)
EditRegistry ==
  /\ edits < MaxEdits
  /\ edits' = edits + 1
  /\ RegistryRequest
  /\ UNCHANGED <<verified, receiver, restarts, net, history>>

(* The pairing of the two nodes: see Pairing.                              *)
SetVerified(v) ==
  /\ verified # v
  /\ verified' = v
  /\ UNCHANGED <<registry, edits, receiver, restarts, net, history>>

(* send_file, for SendFile, SendRaw or an offer of a peer: under a new     *)
(* session.                                                                *)
SendFile(s, a, f) ==
  \E item \in RegistItems(a, f) : \E size \in SizesOf(item) :
    /\ declared[s] = None
    /\ net' = net \cup {[session |-> s, kind |-> "Ready", size |-> size]}
    /\ declared' = [declared EXCEPT ![s] =
                      [app |-> a, file |-> f, item |-> item, size |-> size]]
    /\ UNCHANGED <<sender, receiver, restarts, content, dropped, broken>>

(* The item of s, looked up again.                                         *)
ItemsNow(s) == RegistItems(declared[s].app, declared[s].file)

(* handle_file_sender on Ready: nothing is sent to an unverified peer, or  *)
(* when the item is no longer registered.                                  *)
GiveUp(s) ==
  /\ Response(s) \in net
  /\ ~verified \/ ItemsNow(s) = {}
  /\ net' = net \ {Response(s)}
  /\ broken' = broken \cup {s}
  /\ UNCHANGED <<sender, receiver, restarts, declared, content, dropped>>

(* do_send_file: the item is read, the chunks are sent and then Done.      *)
(* Only some chunks, but Done still, when the file cannot be read to its   *)
(* end or the daemon is told to quit; some chunks and no Done when the     *)
(* handler is dropped on Android.                                          *)
DoSendFile(s) ==
  /\ Response(s) \in net
  /\ verified
  /\ \E item \in ItemsNow(s) : \E size \in SizesOf(item) :
       \E chunks \in SUBSET ChunksOf(size), end \in SUBSET {Done(s)} :
         /\ net' = (net \ {Response(s)}) \cup {ChunkOf(s, c) : c \in chunks} \cup end
         /\ content' = [content EXCEPT ![s] = ChunksOf(size)]
         /\ dropped' = [dropped EXCEPT ![s] = ChunksOf(size) \ chunks]
         /\ broken' = IF chunks = ChunksOf(size) /\ end # {} THEN broken
                      ELSE broken \cup {s}
  /\ UNCHANGED <<sender, receiver, restarts, declared>>

(* A restart forgets the raw items, and the responses that were to come.   *)
SenderRestarts ==
  /\ restarts < MaxRestarts
  /\ restarts' = restarts + 1
  /\ RegistryRestart
  /\ net' = {m \in net : m.kind # "ReadyResponse"}
  /\ broken' = broken \cup {s \in Session : declared[s] # None}
  /\ UNCHANGED <<edits, verified, receiver, declared, content, dropped>>

-----------------------------------------------------------------------------
(* The receiver.                                                           *)

(* FileWriterManager::add: a writer on a new temporary file.               *)
AddWriter(s, size) == writers' = [writers EXCEPT ![s] = size]

(* FileWriterManager::remove, and the file of the writer is closed: an     *)
(* error it keeps is told to nobody.                                       *)
RemoveWriter(s) ==
  /\ writers' = [writers EXCEPT ![s] = None]
  /\ failed' = failed \ {s}

(* Mutant of Ready, breaks TransferEnds: an empty file is not asked for.   *)
ReadyUnlessEmpty(m) ==
  /\ m.kind = "Ready"
  /\ net' = (net \ {m}) \cup (IF m.size = 0 THEN {} ELSE {Response(m.session)})
  /\ AddWriter(m.session, m.size)
  /\ UNCHANGED <<sender, file, updated, restarts, history>>

(* ready: a writer is opened, and the answer sent.                         *)
Ready(m) ==
  /\ m.kind = "Ready"
  /\ net' = (net \ {m}) \cup {Response(m.session)}
  /\ AddWriter(m.session, m.size)
  /\ UNCHANGED <<sender, file, updated, restarts, history>>

(* The test of FileWriter::write: a chunk is taken for a whole one.        *)
Accepts(size, c) == c.offset <= size /\ c.offset + CHUNK_SIZE <= size

(* Mutant of Write, breaks GapsExplained: a write gives up the one before. *)
WriteOver(s, c) ==
  /\ flying' = [flying EXCEPT ![s] = {c}]
  /\ UNCHANGED disk

(* Mutant of Write, breaks LoadedWithinOne: the seek does not wait.        *)
WriteBehind(s, c) ==
  /\ flying' = [flying EXCEPT ![s] = @ \cup {c}]
  /\ UNCHANGED disk

(* seek and write_all: the write before this one is awaited.               *)
Write(s, c) ==
  /\ disk' = [disk EXCEPT ![s] = @ \cup flying[s]]
  /\ flying' = [flying EXCEPT ![s] = {c}]

Takes(s, c) == writers[s] # None /\ Accepts(writers[s], c)

(* read: a chunk without a writer, or refused by its writer, is answered   *)
(* with Fail and nothing else comes of it.  So is the write that is handed *)
(* the error of the one before it, which the file then forgets.            *)
Read(m) ==
  LET s == m.session IN
  /\ m.kind = "Chunk"
  /\ net' = net \ {m}
  /\ \/ /\ Takes(s, m.chunk) /\ s \notin failed
        /\ Write(s, m.chunk)
        /\ UNCHANGED <<failed, dropped>>
     \/ /\ Takes(s, m.chunk) /\ s \in failed
        /\ failed' = failed \ {s}
        /\ dropped' = [dropped EXCEPT ![s] = @ \cup {m.chunk}]
        /\ UNCHANGED <<disk, flying>>
     \/ /\ ~Takes(s, m.chunk)
        /\ UNCHANGED <<disk, flying, failed, dropped>>
  /\ UNCHANGED <<sender, writers, loaded, updated, restarts, declared, content,
                 broken>>

(* The write in the background is carried out.                             *)
Flush(s) ==
  /\ flying[s] # {}
  /\ disk' = [disk EXCEPT ![s] = @ \cup flying[s]]
  /\ flying' = [flying EXCEPT ![s] = {}]
  /\ UNCHANGED <<sender, writers, failed, loaded, updated, restarts, net, history>>

(* The write in the background fails: the file keeps the error, if it is   *)
(* still open.                                                             *)
FlushFails(s) ==
  /\ flying[s] # {}
  /\ flying' = [flying EXCEPT ![s] = {}]
  /\ failed' = IF writers[s] # None THEN failed \cup {s} ELSE failed
  /\ dropped' = [dropped EXCEPT ![s] = @ \cup flying[s]]
  /\ UNCHANGED <<sender, writers, disk, loaded, updated, restarts, net, declared,
                 content, broken>>

(* Mutant of Finish, breaks ImplementsTransfer: the writer stays.          *)
FinishKeepsWriter(m) ==
  LET s == m.session IN
  /\ m.kind = "Done"
  /\ net' = net \ {m}
  /\ updated' = IF writers[s] # None THEN updated \cup {s} ELSE updated
  /\ dropped' = [dropped EXCEPT ![s] = @ \cup UnderWay(s)]
  /\ UNCHANGED <<sender, writers, file, restarts, declared, content, broken>>

(* Mutant of Finish, breaks WriterInv: the writer goes only if it wrote.   *)
FinishKeepsEmpty(m) ==
  LET s == m.session IN
  /\ m.kind = "Done"
  /\ net' = net \ {m}
  /\ updated' = IF writers[s] # None THEN updated \cup {s} ELSE updated
  /\ writers' = IF disk[s] = {} THEN writers
                ELSE [writers EXCEPT ![s] = None]
  /\ dropped' = [dropped EXCEPT ![s] = @ \cup UnderWay(s)]
  /\ UNCHANGED <<sender, file, restarts, declared, content, broken>>

(* done: the writer is closed and removed, and the clients are told        *)
(* FileUpdated; without a writer it is an error.  On Android the handler   *)
(* may be dropped between the two.                                         *)
Finish(m) ==
  LET s == m.session IN
  /\ m.kind = "Done"
  /\ net' = net \ {m}
  /\ RemoveWriter(s)
  /\ dropped' = [dropped EXCEPT ![s] = @ \cup UnderWay(s)]
  /\ \/ /\ updated' = IF writers[s] # None THEN updated \cup {s} ELSE updated
        /\ UNCHANGED broken
     \/ /\ broken' = broken \cup {s}
        /\ UNCHANGED updated
  /\ UNCHANGED <<sender, disk, flying, loaded, restarts, declared, content>>

(* handle_deamon of the example send-file: the file is read to its end.    *)
Load(s) ==
  /\ s \in updated
  /\ loaded[s] = None
  /\ loaded' = [loaded EXCEPT ![s] = disk[s]]
  /\ UNCHANGED <<sender, writers, disk, flying, failed, updated, restarts, net,
                 history>>

(* The writers are kept in memory only.                                    *)
ReceiverRestarts ==
  /\ restarts < MaxRestarts
  /\ restarts' = restarts + 1
  /\ writers' = [s \in Session |-> None]
  /\ flying' = [s \in Session |-> {}]
  /\ failed' = {}
  /\ broken' = broken \cup {s \in Session : declared[s] # None}
  /\ dropped' = [s \in Session |-> dropped[s] \cup flying[s]]
  /\ UNCHANGED <<sender, net, disk, loaded, updated, declared, content>>

-----------------------------------------------------------------------------
(* The network: a request that fails or times out is not sent again.       *)
Lose(m) ==
  /\ net' = net \ {m}
  /\ broken' = broken \cup {m.session}
  /\ dropped' = IF m.kind = "Chunk"
                  THEN [dropped EXCEPT ![m.session] = @ \cup {m.chunk}]
                  ELSE dropped
  /\ UNCHANGED <<sender, receiver, restarts, declared, content>>

(* Whatever can happen to the messages of a session.                       *)
Deliver(s) ==
  \/ GiveUp(s)
  \/ DoSendFile(s)
  \/ \E m \in net : m.session = s /\ (Ready(m) \/ Read(m) \/ Finish(m) \/ Lose(m))

Next ==
  \/ EditRegistry
  \/ \E v \in BOOLEAN : SetVerified(v)
  \/ \E s \in Session, a \in App, f \in File : SendFile(s, a, f)
  \/ \E s \in Session : Deliver(s) \/ Flush(s) \/ FlushFails(s) \/ Load(s)
  \/ SenderRestarts
  \/ ReceiverRestarts

Spec == Init /\ [][Next]_vars

(* A message under way is delivered or fails, at the latest when the       *)
(* request times out; the event loops take every event.                    *)
FairSpec == Spec /\ \A s \in Session : WF_vars(Deliver(s))

-----------------------------------------------------------------------------
(* Every value has its type: no chunk is empty or longer than CHUNK_SIZE.  *)
TypeOK ==
  /\ RegistryTypeOK
  /\ edits \in 0..MaxEdits
  /\ verified \in BOOLEAN
  /\ net \subseteq Message
  /\ writers \in [Session -> Size \cup {None}]
  /\ {disk, flying} \subseteq [Session -> SUBSET Chunk]
  /\ failed \subseteq Session
  /\ loaded \in [Session -> (SUBSET Chunk) \cup {None}]
  /\ updated \subseteq Session
  /\ restarts \in 0..MaxRestarts
  /\ declared \in [Session -> [app : App, file : File, item : Raw \cup Path,
                              size : Size] \cup {None}]
  /\ content \in [Session -> SUBSET Chunk]
  /\ dropped \in [Session -> SUBSET Chunk]
  /\ broken \subseteq Session

(* Nothing is written past the size the file was announced with, even when *)
(* the file has grown since (the test in FileWriter::write).               *)
WithinDeclared ==
  \A s \in Session : \A c \in disk[s] \cup flying[s] :
    declared[s] # None /\ c.offset + c.len <= declared[s].size

(* A file reported as updated lacks a chunk only for one of these reasons: *)
(* it was not sent, it was lost, it came behind Done, its write or the one *)
(* before it failed in the background, or its place does not lie, as a     *)
(* whole chunk, within the size announced.                                 *)
GapsExplained ==
  \A s \in updated : \A c \in content[s] \ (disk[s] \cup flying[s]) :
    c \in dropped[s] \/ c.offset + CHUNK_SIZE > declared[s].size

(* A writer is open only while its session is under way; it stays open for *)
(* ever only when the sender gave up, or a message of the session was lost.*)
NoLeak ==
  \A s \in Session :
    writers[s] # None /\ (\A m \in net : m.session # s) => s \in broken

(* A file that was announced is reported as updated in the end, unless the *)
(* session was broken.                                                     *)
TransferEnds ==
  \A s \in Session : declared[s] # None ~> s \in updated \cup broken

(* "oversized read": of the chunks under way to a writer, it refuses only  *)
(* those that do not fit its size.                                         *)
OversizedOnly ==
  \A s \in Session : \A c \in UnderWay(s) :
    writers[s] # None /\ ~Accepts(writers[s], c) => c.offset + c.len > writers[s]

(* Of the chunks that reach it, a client that reads the file as soon as it *)
(* is told misses one at most: the one that tokio was still writing when   *)
(* done dropped the file (FileWriter::get_file_path).                      *)
LoadedWithinOne ==
  \A s \in Session : loaded[s] # None =>
    /\ loaded[s] \subseteq disk[s]
    /\ Cardinality((disk[s] \cup flying[s]) \ loaded[s]) <= 1

(* The receiver keeps what Transfer promises: a file is reported once, and *)
(* however late a chunk comes, none is written to it any more, but for the *)
(* one under way (FileWriterManager::remove in done).                      *)
Abstract == INSTANCE Transfer WITH
  state <- [s \in Session |-> IF s \in updated THEN "reported"
                              ELSE IF writers[s] # None THEN "open" ELSE "shut"],
  file <- disk,
  owed <- flying

ImplementsTransfer == Abstract!Spec

(* The types, what writers are open, and what they have written.           *)
WriterInv == TypeOK /\ WithinDeclared /\ NoLeak

=============================================================================
