------------------------------ MODULE Registry ------------------------------
(***************************************************************************)
(* What a node has to send: the table regist_file of the database, and the *)
(* raw items kept in memory (LocalExDb, FilesRegisterCenter).              *)
(*                                                                         *)
(* The main loop handles one request at a time, database included.  A row  *)
(* is a function on the columns that are given a value.  The migration     *)
(* makes every column NOT NULL and gives none but the key a default, so    *)
(* SQLite refuses a row that leaves one out.                               *)
(*                                                                         *)
(* FileTransfer composes this registry with the transfer of its items.     *)
(***************************************************************************)
EXTENDS Naturals

CONSTANTS
  App,    \* the applications of the clients
  File,   \* the file ids they use
  Path,   \* the paths of files
  Raw,    \* the raw data
  None    \* no item

ASSUME RegistryAssumption ==
  /\ None \notin Raw \cup Path
  /\ Path \cap Raw = {}

VARIABLES
  regist_file,  \* the rows of the table
  raw_store     \* raw_store[f]: the raw item of f, or None

registry == <<regist_file, raw_store>>

NotNull == {"app_id", "file_id", "path", "version"}

NoRaw == [f \in File |-> None]

RegistryInit ==
  /\ regist_file = {}
  /\ raw_store = NoRaw

-----------------------------------------------------------------------------
(* The table.                                                              *)

(* The rows get_file_model finds.                                          *)
FileModels(a, f) ==
  {row \in regist_file : row["app_id"] = a /\ row["file_id"] = f}

(* The ActiveModel of regist_file: version is left to Default::default().  *)
NewRow(a, f, path) == [app_id |-> a, file_id |-> f, path |-> path]

Insertable(row) == NotNull \subseteq DOMAIN row

-----------------------------------------------------------------------------
(* Requests of the clients.                                                *)

(* regist_file: a file that is registered already, or a row that SQLite    *)
(* refuses, leaves the table alone.                                        *)
RegistPath(a, f, path) ==
  LET row == NewRow(a, f, path) IN
  /\ regist_file' = IF FileModels(a, f) = {} /\ Insertable(row)
                      THEN regist_file \cup {row}
                      ELSE regist_file
  /\ UNCHANGED raw_store

UnregistFile(a, f) ==
  /\ regist_file' = regist_file \ FileModels(a, f)
  /\ UNCHANGED raw_store

UnregistApp(a) ==
  /\ regist_file' = {row \in regist_file : row["app_id"] # a}
  /\ UNCHANGED raw_store

RegistRaw(f, data) ==
  /\ raw_store' = [raw_store EXCEPT ![f] = data]
  /\ UNCHANGED regist_file

UnregistRaw(f) ==
  /\ raw_store' = [raw_store EXCEPT ![f] = None]
  /\ UNCHANGED regist_file

(* The table is in a file, the raw items are not.                          *)
RegistryRestart ==
  /\ raw_store' = NoRaw
  /\ UNCHANGED regist_file

RegistryRequest ==
  \/ \E a \in App, f \in File :
       UnregistFile(a, f) \/ \E path \in Path : RegistPath(a, f, path)
  \/ \E a \in App : UnregistApp(a)
  \/ \E f \in File : UnregistRaw(f) \/ \E data \in Raw : RegistRaw(f, data)

(* get_regist_item: a raw item, whichever application asks, comes first.   *)
RegistItems(a, f) ==
  IF raw_store[f] # None THEN {raw_store[f]}
  ELSE {row["path"] : row \in FileModels(a, f)}

-----------------------------------------------------------------------------
Row == [app_id : App, file_id : File, path : Path, version : Nat]

(* Every value has its type; every row of the table has all its columns.   *)
RegistryTypeOK ==
  /\ regist_file \subseteq Row
  /\ raw_store \in [File -> Raw \cup {None}]

=============================================================================
