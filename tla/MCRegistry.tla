----------------------------- MODULE MCRegistry -----------------------------
(* Registry by itself, with a history of what clients asked for.           *)
EXTENDS Registry

VARIABLE asked  \* the files registered with a path and not unregistered since

MCInit == RegistryInit /\ asked = {}

Regist(a, f) ==
  /\ \E path \in Path : RegistPath(a, f, path)
  /\ asked' = asked \cup {<<a, f>>}

Unregist(a, f) == UnregistFile(a, f) /\ asked' = asked \ {<<a, f>>}

UnregistAll(a) == UnregistApp(a) /\ asked' = asked \ ({a} \X File)

RawRequest(f) ==
  /\ UnregistRaw(f) \/ \E data \in Raw : RegistRaw(f, data)
  /\ UNCHANGED asked

MCNext ==
  \/ \E a \in App, f \in File : Regist(a, f) \/ Unregist(a, f)
  \/ \E a \in App : UnregistAll(a)
  \/ \E f \in File : RawRequest(f)
  \/ RegistryRestart /\ UNCHANGED asked

MCSpec == MCInit /\ [][MCNext]_<<registry, asked>>

(* "already exists": a file that was registered is in the table until it   *)
(* is unregistered, over restarts too (regist_file of the database).       *)
RegisteredIsFound == \A <<a, f>> \in asked : FileModels(a, f) # {}

=============================================================================
