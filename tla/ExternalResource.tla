-------------------------- MODULE ExternalResource --------------------------
(***************************************************************************)
(* Local file resources: the broker of each executor, the resource manager *)
(* of the server master and the table between them                         *)
(* (pkg/externalresource/broker and pkg/externalresource/manager).         *)
(*                                                                         *)
(* A worker opens a resource by its name.  If the table has no record of   *)
(* it the worker becomes its creator, with a directory of its own on its   *)
(* executor; Persist inserts the record and then marks the directory, in   *)
(* the executor's memory, as one to keep.  Later workers find the record   *)
(* and read that directory, on the same executor only.                     *)
(***************************************************************************)
EXTENDS Naturals, Sequences, FiniteSets

CONSTANTS
  Worker,
  Exec,
  Resource,       \* resource names: sequences of path segments
  None,
  MaxLostReplies  \* bounds answers of the resource manager that are lost

ASSUME ResourceAssumption ==
  /\ \A r \in Resource : r \in Seq(STRING) /\ r # <<>>
  /\ None \notin Worker \cup Exec \cup Resource \cup [worker : Worker, exec : Exec]

VARIABLES
  home,        \* the executor a worker runs on
  up,          \* the executors that have not crashed
  meta,        \* the ResourceMeta table
  dirs,        \* the directories on the disks
  persisted,   \* persistedResourcesByCreator of every executor
  doomed,      \* the entry that RemoveTemporaryFiles has found without a mark
  storage,     \* how far each worker is with its storage
  lostReplies

resourceVars == <<home, up, meta, dirs, persisted, doomed, storage, lostReplies>>

Directory == [exec : Exec, creator : Worker, name : Resource]
Record == [worker : Worker, exec : Exec]

\* "queried": QueryResource has answered.  "open": OpenStorage has returned a
\* handle.  "stored": CreateResource has answered.  "kept": Persist is done.
Storage == [at : {"none", "queried", "open", "stored", "kept", "failed"},
            name : Resource \cup {None}, creator : Worker \cup {None}, new : BOOLEAN]
NoStorage == [at |-> "none", name |-> None, creator |-> None, new |-> FALSE]

\* The directory a handle of worker w stands for.
Path(w) == [exec |-> home[w], creator |-> storage[w].creator, name |-> storage[w].name]

\* The entry of the creator's directory that a directory is in: the first
\* segment of its name.
EntryOf(d) == [exec |-> d.exec, creator |-> d.creator, name |-> <<d.name[1]>>]

ResourceTypeOK ==
  /\ home \in [Worker -> Exec \cup {None}]
  /\ up \subseteq Exec
  /\ meta \in [Resource -> Record \cup {None}]
  /\ dirs \subseteq Directory /\ persisted \subseteq Directory
  /\ doomed \in [Worker -> {EntryOf(d) : d \in Directory} \cup {None}]
  /\ storage \in [Worker -> Storage]
  /\ lostReplies \in 0..MaxLostReplies

ResourceInit ==
  /\ home = [w \in Worker |-> None]
  /\ up = Exec
  /\ meta = [r \in Resource |-> None]
  /\ dirs = {} /\ persisted = {} /\ doomed = [w \in Worker |-> None]
  /\ storage = [w \in Worker |-> NoStorage]
  /\ lostReplies = 0

Running(w) == home[w] \in up /\ storage[w].at # "failed"
Goto(w, at) == storage' = [storage EXCEPT ![w].at = at]

-----------------------------------------------------------------------------
(* OpenStorage.                                                            *)

\* Mutant: an error of the RPC counts as no record.
QueryResource_Optimistic(w, r) ==
  /\ Running(w) /\ storage[w].at = "none"
  /\ \E found \in BOOLEAN :
       /\ found => meta[r] # None
       /\ storage' = [storage EXCEPT ![w] =
            [at |-> "queried", name |-> r, new |-> ~found,
             creator |-> IF found THEN meta[r].worker ELSE w]]
  /\ UNCHANGED <<home, up, meta, dirs, persisted, doomed, lostReplies>>

\* checkForExistingResource: a found record names the creator.
QueryResource(w, r) ==
  /\ Running(w) /\ storage[w].at = "none"
  /\ storage' = [storage EXCEPT ![w] =
       [at |-> "queried", name |-> r, new |-> meta[r] = None,
        creator |-> IF meta[r] = None THEN w ELSE meta[r].worker]]
  /\ UNCHANGED <<home, up, meta, dirs, persisted, doomed, lostReplies>>

\* The RPC or the file system fails; a directory just made is removed.
OpenFails(w) ==
  /\ Running(w) /\ storage[w].at = "queried"
  /\ Goto(w, "failed")
  /\ UNCHANGED <<home, up, meta, dirs, persisted, doomed, lostReplies>>

\* LocalFileManager.CreateResource.
CreateDirectory(w) ==
  /\ Running(w) /\ storage[w].at = "queried" /\ storage[w].new
  /\ dirs' = dirs \cup {Path(w)}
  /\ Goto(w, "open")
  /\ UNCHANGED <<home, up, meta, persisted, doomed, lostReplies>>

\* The directory must exist, on this executor, and be marked.
GetPersistedResource(w) ==
  /\ Running(w) /\ storage[w].at = "queried" /\ ~storage[w].new
  /\ Goto(w, IF Path(w) \in dirs \cap persisted THEN "open" ELSE "failed")
  /\ UNCHANGED <<home, up, meta, dirs, persisted, doomed, lostReplies>>

-----------------------------------------------------------------------------
(* Persist.                                                                *)

\* Mutant: the transaction does not look for the ID.
Insert_Upsert(w) ==
  meta' = [meta EXCEPT ![storage[w].name] =
             [worker |-> storage[w].creator, exec |-> home[w]]]

\* CreateResource of the metastore client: one transaction that refuses an ID
\* the table has.
Insert(w) ==
  /\ meta[storage[w].name] = None
  /\ meta' = [meta EXCEPT ![storage[w].name] =
                [worker |-> storage[w].creator, exec |-> home[w]]]

\* DoFailoverRPC succeeds at one of its clients.  When the record exists, all
\* of them refuse, Persist returns an error and nothing changes.
CreateResource(w) ==
  /\ Running(w) /\ storage[w].at = "open"
  /\ Insert(w)
  /\ Goto(w, "stored")
  /\ UNCHANGED <<home, up, dirs, persisted, doomed, lostReplies>>

\* The record is inserted, the answer is lost, and the next client (or the
\* next call of Persist) is told that the resource exists.
CreateResourceLost(w) ==
  /\ Running(w) /\ storage[w].at = "open"
  /\ lostReplies < MaxLostReplies
  /\ Insert(w)
  /\ lostReplies' = lostReplies + 1
  /\ UNCHANGED <<home, up, dirs, persisted, doomed, storage>>

SetPersisted(w) ==
  /\ Running(w) /\ storage[w].at = "stored"
  /\ persisted' = persisted \cup {Path(w)}
  /\ Goto(w, "kept")
  /\ UNCHANGED <<home, up, meta, dirs, doomed, lostReplies>>

StorageStep(w) ==
  \/ \E r \in Resource : QueryResource(w, r)
  \/ OpenFails(w) \/ CreateDirectory(w) \/ GetPersistedResource(w)
  \/ CreateResource(w) \/ CreateResourceLost(w) \/ SetPersisted(w)

-----------------------------------------------------------------------------
(* The ends of workers and of executors.                                   *)

\* OnWorkerClosed "in called when a worker is closing", and runs
\* RemoveTemporaryFiles: for each entry of the worker's directory it asks, under
\* the lock, for the mark of that entry, and removes the whole entry after it has
\* given the lock up.  Nothing in the repository calls it, so it comes at any
\* time.
OnWorkerClosed(w) ==
  /\ home[w] \in up /\ doomed[w] = None
  /\ \E d \in dirs : /\ d.exec = home[w] /\ d.creator = w
                     /\ EntryOf(d) \notin persisted
                     /\ doomed' = [doomed EXCEPT ![w] = EntryOf(d)]
  /\ UNCHANGED <<home, up, meta, dirs, persisted, storage, lostReplies>>

RemoveAll(w) ==
  /\ home[w] \in up /\ doomed[w] # None
  /\ dirs' = {d \in dirs : EntryOf(d) # doomed[w]}
  /\ doomed' = [doomed EXCEPT ![w] = None]
  /\ UNCHANGED <<home, up, meta, persisted, storage, lostReplies>>

\* "we assume that if the executor process crashes, the file resources are
\* lost" (file_manager.go).
LoseExecutor(e) ==
  /\ e \in up
  /\ up' = up \ {e}
  /\ dirs' = {d \in dirs : d.exec # e}
  /\ persisted' = {d \in persisted : d.exec # e}
  /\ UNCHANGED <<home, meta, doomed, storage, lostReplies>>

\* A worker is started on some executor.
Place(w, e) ==
  /\ home[w] = None /\ e \in up
  /\ home' = [home EXCEPT ![w] = e]
  /\ UNCHANGED <<up, meta, dirs, persisted, doomed, storage, lostReplies>>

ResourceNext ==
  \/ \E w \in Worker : \/ StorageStep(w) \/ \E e \in Exec : Place(w, e)
                       \/ OnWorkerClosed(w) \/ RemoveAll(w)
  \/ \E e \in Exec : LoseExecutor(e)

ResourceSpec == ResourceInit /\ [][ResourceNext]_resourceVars

-----------------------------------------------------------------------------
(* Properties.                                                             *)

\* One creator wins: whatever a broker has marked as persisted is what the
\* table records under that name, so two workers that both found no record
\* never both keep their files.
OneOwner ==
  \A d \in persisted : meta[d.name] = [worker |-> d.creator, exec |-> d.exec]

\* "Persisted resources are skipped, as they are NOT temporary"
\* (RemoveTemporaryFiles): an entry that is to be removed holds no resource that
\* was marked when the entry was looked at.
PersistedSkipped ==
  [][\A w \in Worker : doomed[w] = None /\ doomed'[w] # None =>
       \A d \in dirs \cap persisted : EntryOf(d) # doomed'[w]]_resourceVars
=============================================================================
