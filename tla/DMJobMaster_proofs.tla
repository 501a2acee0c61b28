------------------------- MODULE DMJobMaster_proofs -------------------------
(***************************************************************************)
(* Proofs about local file resources and the DM job master, for any        *)
(* workers, executors, names and tasks, and any number of faults and       *)
(* restarts.  Of the workers that find no record of a resource only one    *)
(* persists it; the books of the job master agree, no unit of a task is    *)
(* skipped, the files of a finished dump can be read, and load workers     *)
(* read them.                                                              *)
(***************************************************************************)
EXTENDS DMJobMaster, TLAPS

-----------------------------------------------------------------------------
(* Local file resources: who owns a name.                                  *)

\* A worker that has asked for its resource.
Asked(w) == storage[w].at \in {"queried", "open", "stored", "kept"}

StorageTypes ==
  /\ home \in [Worker -> Exec \cup {None}]
  /\ up \subseteq Exec
  /\ meta \in [Resource -> Record \cup {None}]
  /\ storage \in [Worker -> Storage]
  /\ persisted \subseteq Directory
  /\ \A w \in Worker : Asked(w) =>
       /\ home[w] \in Exec
       /\ storage[w].name \in Resource
       /\ storage[w].creator \in Worker

\* From the first half of Persist on the worker's handle is what the table
\* records.
StoredIsRecorded ==
  \A w \in Worker : storage[w].at \in {"stored", "kept"} =>
    meta[storage[w].name] = [worker |-> storage[w].creator, exec |-> home[w]]

OwnerInv == StorageTypes /\ StoredIsRecorded /\ OneOwner

-----------------------------------------------------------------------------
\* One worker moves on with its storage, the others keep theirs.
LEMMA GotoTypes ==
  ASSUME StorageTypes, NEW w \in Worker,
         NEW at \in {"open", "stored", "kept", "failed"}, Goto(w, at),
         UNCHANGED <<home, up>>, Asked(w),
         meta' \in [Resource -> Record \cup {None}], persisted' \subseteq Directory
  PROVE  /\ StorageTypes'
         /\ storage'[w].at = at
         /\ storage'[w].name = storage[w].name
         /\ storage'[w].creator = storage[w].creator
         /\ storage'[w].new = storage[w].new
         /\ \A v \in Worker \ {w} : storage'[v] = storage[v]
<1>1. /\ storage' \in [Worker -> Storage]
      /\ storage'[w].at = at
      /\ storage'[w].name = storage[w].name
      /\ storage'[w].creator = storage[w].creator
      /\ storage'[w].new = storage[w].new
      /\ \A v \in Worker \ {w} : storage'[v] = storage[v]
  BY DEF StorageTypes, Goto, Storage
<1> QED
  BY <1>1, Zenon DEF StorageTypes, Asked

\* Every step of the workers, the brokers and the resource manager keeps the
\* table, the marks and the handles in agreement.
LEMMA OwnerStep ==
  ASSUME OwnerInv, [ResourceNext]_resourceVars
  PROVE  OwnerInv'
<1> USE DEF OwnerInv
<1>1. CASE UNCHANGED resourceVars
  BY <1>1, Zenon DEF resourceVars, StorageTypes, StoredIsRecorded, OneOwner, Asked
<1>2. ASSUME NEW w \in Worker, NEW r \in Resource, QueryResource(w, r)
      PROVE  OwnerInv'
  <2> DEFINE new == [at |-> "queried", name |-> r, new |-> meta[r] = None,
                     creator |-> IF meta[r] = None THEN w ELSE meta[r].worker]
  <2>1. storage' = [storage EXCEPT ![w] = new]
    BY <1>2, Zenon DEF QueryResource
  <2>2. UNCHANGED <<home, up, meta, persisted>> /\ home[w] \in Exec
    BY <1>2, Zenon DEF QueryResource, Running, StorageTypes
  <2>3. new.creator \in Worker
    BY Zenon DEF StorageTypes, Record
  <2>4. new \in Storage
    BY <2>3, Zenon DEF Storage
  <2>5. storage' \in [Worker -> Storage]
    BY <2>1, <2>4, Zenon DEF StorageTypes
  <2>6. \A v \in Worker : storage'[v] = IF v = w THEN new ELSE storage[v]
    BY <2>1, Zenon DEF StorageTypes
  <2>7. StorageTypes'
    BY <2>2, <2>3, <2>5, <2>6 DEF StorageTypes, Asked
  <2>8. StoredIsRecorded'
    BY <2>2, <2>6 DEF StoredIsRecorded
  <2> QED
    BY <2>2, <2>7, <2>8, Zenon DEF OneOwner
<1>3. ASSUME NEW w \in Worker,
             OpenFails(w) \/ CreateDirectory(w) \/ GetPersistedResource(w)
      PROVE  OwnerInv'
  <2>1. UNCHANGED <<home, up, meta, persisted>>
    BY <1>3, Zenon DEF OpenFails, CreateDirectory, GetPersistedResource
  <2>2. PICK at \in {"open", "failed"} : Goto(w, at) /\ Asked(w)
    BY <1>3, Zenon DEF OpenFails, CreateDirectory, GetPersistedResource, Asked
  <2>3. /\ StorageTypes' /\ storage'[w].at = at
        /\ \A v \in Worker \ {w} : storage'[v] = storage[v]
    BY <2>1, <2>2, GotoTypes DEF StorageTypes
  <2>4. StoredIsRecorded'
    BY <2>1, <2>3, Zenon DEF StoredIsRecorded
  <2> QED
    BY <2>1, <2>3, <2>4, Zenon DEF OneOwner
<1>4. ASSUME NEW w \in Worker, storage[w].at = "open", Insert(w),
             UNCHANGED <<home, up, persisted>>
      PROVE  /\ meta' \in [Resource -> Record \cup {None}]
             /\ meta'[storage[w].name] =
                  [worker |-> storage[w].creator, exec |-> home[w]]
             /\ OneOwner'
             /\ \A v \in Worker : storage[v].at \in {"stored", "kept"} =>
                  meta'[storage[v].name] =
                    [worker |-> storage[v].creator, exec |-> home[v]]
  <2> DEFINE rec == [worker |-> storage[w].creator, exec |-> home[w]]
  <2>1. \A v \in Worker : Asked(v) =>
          /\ storage[v].name \in Resource
          /\ [worker |-> storage[v].creator, exec |-> home[v]] \in Record
    BY Zenon DEF StorageTypes, Record
  <2>2. storage[w].name \in Resource /\ rec \in Record
    BY <1>4, <2>1, Zenon DEF Asked
  <2>3. /\ meta[storage[w].name] = None
        /\ meta' = [meta EXCEPT ![storage[w].name] = rec]
    BY <1>4, Zenon DEF Insert
  <2>4. /\ meta' \in [Resource -> Record \cup {None}]
        /\ meta'[storage[w].name] = rec
        /\ \A r \in Resource : meta[r] \in Record => meta'[r] = meta[r]
    BY <2>2, <2>3, ResourceAssumption DEF StorageTypes, Record
  <2>5. \A d \in persisted : d.name \in Resource
                             /\ [worker |-> d.creator, exec |-> d.exec] \in Record
    BY Zenon DEF StorageTypes, Directory, Record
  <2>6. OneOwner'
    BY <1>4, <2>4, <2>5, Zenon DEF OneOwner
  <2>7. \A v \in Worker : storage[v].at \in {"stored", "kept"} =>
          meta'[storage[v].name] = [worker |-> storage[v].creator, exec |-> home[v]]
    BY <2>1, <2>4, Zenon DEF StoredIsRecorded, Asked
  <2> QED
    BY <2>4, <2>6, <2>7, Zenon
<1>5. ASSUME NEW w \in Worker, CreateResource(w)
      PROVE  OwnerInv'
  <2>1. /\ storage[w].at = "open" /\ Insert(w) /\ Goto(w, "stored")
        /\ UNCHANGED <<home, up, persisted>>
    BY <1>5, Zenon DEF CreateResource
  <2>2. /\ StorageTypes' /\ storage'[w].at = "stored"
        /\ storage'[w].name = storage[w].name
        /\ storage'[w].creator = storage[w].creator
        /\ \A v \in Worker \ {w} : storage'[v] = storage[v]
    <3>1. meta' \in [Resource -> Record \cup {None}] /\ persisted' \subseteq Directory
      BY <2>1, <1>4, Zenon DEF StorageTypes
    <3>2. Asked(w)
      BY <2>1, Zenon DEF Asked
    <3> QED
      BY <2>1, <3>1, <3>2, GotoTypes, Zenon
  <2>3. /\ meta'[storage[w].name] = [worker |-> storage[w].creator, exec |-> home[w]]
        /\ OneOwner'
        /\ \A v \in Worker : storage[v].at \in {"stored", "kept"} =>
             meta'[storage[v].name] = [worker |-> storage[v].creator, exec |-> home[v]]
    BY <2>1, <1>4, Zenon
  <2>4. StoredIsRecorded'
    BY <2>1, <2>2, <2>3 DEF StoredIsRecorded
  <2> QED
    BY <2>2, <2>3, <2>4, Zenon
<1>6. ASSUME NEW w \in Worker, CreateResourceLost(w)
      PROVE  OwnerInv'
  <2>1. /\ storage[w].at = "open" /\ Insert(w)
        /\ UNCHANGED <<home, up, persisted, storage>>
    BY <1>6, Zenon DEF CreateResourceLost
  <2>2. StorageTypes'
    BY <2>1, <1>4, Zenon DEF StorageTypes, Asked
  <2>3. StoredIsRecorded'
    BY <2>1, <1>4, Zenon DEF StoredIsRecorded
  <2> QED
    BY <2>1, <2>2, <2>3, <1>4, Zenon
<1>7. ASSUME NEW w \in Worker, SetPersisted(w)
      PROVE  OwnerInv'
  <2>1. /\ storage[w].at = "stored" /\ Goto(w, "kept")
        /\ persisted' = persisted \cup {Path(w)}
        /\ UNCHANGED <<home, up, meta>>
    BY <1>7, Zenon DEF SetPersisted
  <2>2. Path(w) \in Directory
    BY <2>1, Zenon DEF StorageTypes, Path, Directory, Asked
  <2>3. /\ StorageTypes' /\ storage'[w].at = "kept"
        /\ storage'[w].name = storage[w].name
        /\ storage'[w].creator = storage[w].creator
        /\ \A v \in Worker \ {w} : storage'[v] = storage[v]
    BY <2>1, <2>2, GotoTypes, Zenon DEF StorageTypes, Asked
  <2>4. StoredIsRecorded'
    BY <2>1, <2>3 DEF StoredIsRecorded
  <2>5. OneOwner'
    <3>1. meta[Path(w).name] = [worker |-> Path(w).creator, exec |-> Path(w).exec]
      BY <2>1, Zenon DEF StoredIsRecorded, Path
    <3> QED
      BY <2>1, <3>1, Zenon DEF OneOwner
  <2> QED
    BY <2>3, <2>4, <2>5, Zenon
<1>8. ASSUME NEW e \in Exec, LoseExecutor(e)
      PROVE  OwnerInv'
  BY <1>8, Zenon DEF LoseExecutor, StorageTypes, StoredIsRecorded, OneOwner, Asked
<1>9. ASSUME NEW w \in Worker, NEW e \in Exec, Place(w, e)
      PROVE  OwnerInv'
  <2>1. /\ home' = [home EXCEPT ![w] = e] /\ home[w] = None
        /\ UNCHANGED <<up, meta, persisted, storage>>
    BY <1>9, Zenon DEF Place
  <2>2. ~Asked(w)
    BY <2>1, ResourceAssumption, Zenon DEF StorageTypes
  <2>3. StorageTypes'
    BY <2>1, Zenon DEF StorageTypes, Asked
  <2>4. StoredIsRecorded'
    BY <2>1, <2>2, Zenon DEF StorageTypes, StoredIsRecorded, Asked
  <2> QED
    BY <2>1, <2>3, <2>4, Zenon DEF OneOwner
<1>10. ASSUME NEW w \in Worker, OnWorkerClosed(w) \/ RemoveAll(w)
       PROVE  OwnerInv'
  <2>1. UNCHANGED <<home, up, meta, persisted, storage>>
    BY <1>10, Zenon DEF OnWorkerClosed, RemoveAll
  <2> QED
    BY <2>1, Zenon DEF StorageTypes, StoredIsRecorded, OneOwner, Asked
<1> QED
  BY <1>1, <1>2, <1>3, <1>5, <1>6, <1>7, <1>8, <1>9, <1>10, Zenon
  DEF ResourceNext, StorageStep

\* The brokers start without files or records.
LEMMA OwnerInit ==
  ASSUME ResourceInit
  PROVE  OwnerInv
<1>1. storage \in [Worker -> Storage] /\ \A w \in Worker : storage[w].at = "none"
  BY Zenon DEF ResourceInit, NoStorage, Storage
<1> QED
  BY <1>1, Zenon DEF ResourceInit, OwnerInv, StorageTypes, StoredIsRecorded, OneOwner,
       Asked

\* However many workers ask for a resource at once, and whichever replies of
\* the resource manager are lost, the broker marks as persisted only files of
\* the worker and executor that the table records under that name.
THEOREM PersistOneOwner == ResourceSpec => []OneOwner
<1>1. ResourceInit => OwnerInv
  BY OwnerInit, Zenon
<1>2. OwnerInv => OneOwner
  BY Zenon DEF OwnerInv
<1> QED
  BY <1>1, <1>2, OwnerStep, PTL DEF ResourceSpec

-----------------------------------------------------------------------------
(* The files.                                                              *)

\* A handle that may still be persisted stands for a directory that the worker
\* made itself: a handle of another worker's files was opened because there is
\* a record, which refuses a second one.  Once it is persisted it is marked.
OwnFile(w) ==
  /\ storage[w].at \in {"queried", "open"} /\ ~storage[w].new =>
       meta[storage[w].name] # None
  /\ storage[w].at = "queried" /\ storage[w].new => storage[w].creator = w
  /\ \/ storage[w].at = "open" /\ storage[w].new
     \/ storage[w].at = "stored"
     => storage[w].creator = w /\ (home[w] \in up => Path(w) \in dirs)
  /\ storage[w].at = "kept" =>
       storage[w].creator = w /\ (home[w] \in up => Path(w) \in persisted)

OwnFiles == \A w \in Worker : OwnFile(w)

\* What is marked is on the disk.
MarkedOnDisk == persisted \subseteq dirs

FilesInv == OwnerInv /\ OwnFiles /\ MarkedOnDisk

\* A step of worker w that removes no directory leaves the others' handles as
\* they are.
LEMMA OthersKeepFiles ==
  ASSUME OwnFiles, NEW w \in Worker,
         \A v \in Worker \ {w} : storage'[v] = storage[v],
         UNCHANGED <<home, up, meta>>, dirs \subseteq dirs', persisted \subseteq persisted'
  PROVE  \A v \in Worker \ {w} : OwnFile(v)'
<1> SUFFICES ASSUME NEW v \in Worker \ {w}
             PROVE  OwnFile(v)'
  BY Zenon
<1>1. storage'[v] = storage[v] /\ OwnFile(v)
  BY Zenon DEF OwnFiles
<1>2. Path(v)' = Path(v)
  BY <1>1, Zenon DEF Path
<1> QED
  BY <1>1, <1>2, Zenon DEF OwnFile

\* The steps of ResourceNext other than those of OnWorkerClosed.
WorkingStep ==
  \/ \E w \in Worker : StorageStep(w) \/ \E e \in Exec : Place(w, e)
  \/ \E e \in Exec : LoseExecutor(e)

\* No step of working brokers, losing an executor included, leaves a marked
\* directory without its files.
LEMMA FilesStep ==
  ASSUME FilesInv, WorkingStep \/ UNCHANGED resourceVars
  PROVE  FilesInv'
<1>0. OwnerInv /\ OwnerInv' /\ StorageTypes /\ OwnFiles /\ MarkedOnDisk
  BY OwnerStep, Zenon DEF FilesInv, OwnerInv, WorkingStep, ResourceNext
<1> SUFFICES OwnFiles' /\ MarkedOnDisk'
  BY <1>0, Zenon DEF FilesInv
<1>1. CASE UNCHANGED resourceVars
  BY <1>0, <1>1, Zenon DEF resourceVars, OwnFiles, OwnFile, MarkedOnDisk, Path
<1>2. ASSUME NEW w \in Worker, NEW r \in Resource, QueryResource(w, r)
      PROVE  OwnFiles' /\ MarkedOnDisk'
  <2> DEFINE new == [at |-> "queried", name |-> r, new |-> meta[r] = None,
                     creator |-> IF meta[r] = None THEN w ELSE meta[r].worker]
  <2>1. \A v \in Worker : storage'[v] = IF v = w THEN new ELSE storage[v]
    BY <1>0, <1>2, Zenon DEF QueryResource, StorageTypes
  <2>2. UNCHANGED <<home, up, meta, dirs, persisted>>
    BY <1>2, Zenon DEF QueryResource
  <2>3. new.at = "queried" /\ new.name = r /\ (new.new <=> meta[r] = None)
        /\ (meta[r] = None => new.creator = w)
    BY Zenon
  <2> QED
    BY <1>0, <2>1, <2>2, <2>3 DEF OwnFiles, OwnFile, MarkedOnDisk, Path
<1>3. ASSUME NEW w \in Worker,
             NEW at \in {"open", "stored", "kept", "failed"}, Goto(w, at)
      PROVE  /\ storage'[w].at = at
             /\ storage'[w].name = storage[w].name
             /\ storage'[w].creator = storage[w].creator
             /\ storage'[w].new = storage[w].new
             /\ \A v \in Worker \ {w} : storage'[v] = storage[v]
  BY <1>0, <1>3 DEF Goto, StorageTypes, Storage
<1>4. ASSUME NEW w \in Worker, OpenFails(w)
      PROVE  OwnFiles' /\ MarkedOnDisk'
  <2>1. Goto(w, "failed") /\ UNCHANGED <<home, up, meta, dirs, persisted>>
    BY <1>4, Zenon DEF OpenFails
  <2>2. storage'[w].at = "failed" /\ \A v \in Worker \ {w} : storage'[v] = storage[v]
    BY <2>1, <1>3, Zenon
  <2>3. \A v \in Worker \ {w} : OwnFile(v)'
    BY <1>0, <2>1, <2>2, OthersKeepFiles, Zenon
  <2>4. OwnFile(w)'
    BY <2>2, Zenon DEF OwnFile
  <2> QED
    BY <1>0, <2>1, <2>3, <2>4, Zenon DEF OwnFiles, MarkedOnDisk
<1>5. ASSUME NEW w \in Worker, CreateDirectory(w)
      PROVE  OwnFiles' /\ MarkedOnDisk'
  <2>1. /\ storage[w].at = "queried" /\ storage[w].new
        /\ dirs' = dirs \cup {Path(w)} /\ Goto(w, "open")
        /\ UNCHANGED <<home, up, meta, persisted>>
    BY <1>5, Zenon DEF CreateDirectory
  <2>2. /\ storage'[w].at = "open"
        /\ storage'[w].name = storage[w].name
        /\ storage'[w].creator = storage[w].creator
        /\ storage'[w].new = storage[w].new
        /\ \A v \in Worker \ {w} : storage'[v] = storage[v]
    BY <2>1, <1>3, Zenon
  <2>3. MarkedOnDisk'
    BY <1>0, <2>1, Zenon DEF MarkedOnDisk
  <2>4. storage[w].creator = w
    BY <1>0, <2>1, Zenon DEF OwnFiles, OwnFile
  <2>5. \A v \in Worker \ {w} : OwnFile(v)'
    BY <1>0, <2>1, <2>2, OthersKeepFiles, Zenon
  <2>6. Path(w)' = Path(w)
    BY <2>1, <2>2, Zenon DEF Path
  <2>7. OwnFile(w)'
    BY <2>1, <2>2, <2>4, <2>6, Zenon DEF OwnFile
  <2> QED
    BY <2>3, <2>5, <2>7, Zenon DEF OwnFiles
<1>6. ASSUME NEW w \in Worker, GetPersistedResource(w)
      PROVE  OwnFiles' /\ MarkedOnDisk'
  <2>1. PICK at \in {"open", "failed"} : Goto(w, at)
    BY <1>6, Zenon DEF GetPersistedResource
  <2>2. /\ storage[w].at = "queried" /\ ~storage[w].new
        /\ UNCHANGED <<home, up, meta, dirs, persisted>>
    BY <1>6, Zenon DEF GetPersistedResource
  <2>3. /\ storage'[w].at = at
        /\ storage'[w].name = storage[w].name
        /\ storage'[w].creator = storage[w].creator
        /\ storage'[w].new = storage[w].new
        /\ \A v \in Worker \ {w} : storage'[v] = storage[v]
    BY <2>1, <1>3, Zenon
  <2>4. \A v \in Worker \ {w} : OwnFile(v)'
    BY <1>0, <2>2, <2>3, OthersKeepFiles, Zenon
  <2>5. meta[storage[w].name] # None
    BY <1>0, <2>2, Zenon DEF OwnFiles, OwnFile
  <2>6. OwnFile(w)'
    BY <2>2, <2>3, <2>5, Zenon DEF OwnFile
  <2> QED
    BY <1>0, <2>2, <2>4, <2>6, Zenon DEF OwnFiles, MarkedOnDisk
<1>7. ASSUME NEW w \in Worker, Insert(w), storage[w].at = "open"
      PROVE  /\ storage[w].new
             /\ \A v \in Worker : Asked(v) /\ meta[storage[v].name] # None =>
                  meta'[storage[v].name] # None
  <2>1. storage[w].new
    BY <1>0, <1>7, Zenon DEF Insert, OwnFiles, OwnFile
  <2>2. /\ storage[w].name \in Resource
        /\ [worker |-> storage[w].creator, exec |-> home[w]] # None
    BY <1>0, <1>7, ResourceAssumption DEF StorageTypes, Asked
  <2>3. meta' = [meta EXCEPT ![storage[w].name] =
                   [worker |-> storage[w].creator, exec |-> home[w]]]
    BY <1>7, Zenon DEF Insert
  <2> QED
    BY <1>0, <2>1, <2>2, <2>3, Zenon DEF StorageTypes
<1>8. ASSUME NEW w \in Worker, CreateResource(w)
      PROVE  OwnFiles' /\ MarkedOnDisk'
  <2>1. /\ storage[w].at = "open" /\ Insert(w) /\ Goto(w, "stored")
        /\ UNCHANGED <<home, up, dirs, persisted>>
    BY <1>8, Zenon DEF CreateResource
  <2>2. /\ storage'[w].at = "stored"
        /\ storage'[w].name = storage[w].name
        /\ storage'[w].creator = storage[w].creator
        /\ \A v \in Worker \ {w} : storage'[v] = storage[v]
    BY <2>1, <1>3, Zenon
  <2>3. \A v \in Worker : Path(v)' = Path(v)
    BY <2>1, <2>2, Zenon DEF Path
  <2> QED
    BY <1>0, <1>7, <2>1, <2>2, <2>3 DEF OwnFiles, OwnFile, MarkedOnDisk, Asked
<1>9. ASSUME NEW w \in Worker, CreateResourceLost(w)
      PROVE  OwnFiles' /\ MarkedOnDisk'
  <2>1. /\ storage[w].at = "open" /\ Insert(w)
        /\ UNCHANGED <<home, up, dirs, persisted, storage>>
    BY <1>9, Zenon DEF CreateResourceLost
  <2> QED
    BY <1>0, <1>7, <2>1, Zenon DEF OwnFiles, OwnFile, MarkedOnDisk, Path, Asked
<1>10. ASSUME NEW w \in Worker, SetPersisted(w)
       PROVE  OwnFiles' /\ MarkedOnDisk'
  <2>1. /\ storage[w].at = "stored" /\ home[w] \in up /\ Goto(w, "kept")
        /\ persisted' = persisted \cup {Path(w)}
        /\ UNCHANGED <<home, up, meta, dirs>>
    BY <1>10, Zenon DEF SetPersisted, Running
  <2>2. Path(w) \in dirs
    BY <1>0, <2>1, Zenon DEF OwnFiles, OwnFile
  <2>3. /\ storage'[w].at = "kept"
        /\ storage'[w].name = storage[w].name
        /\ storage'[w].creator = storage[w].creator
        /\ \A v \in Worker \ {w} : storage'[v] = storage[v]
    BY <2>1, <1>3, Zenon
  <2>4. \A v \in Worker \ {w} : OwnFile(v)'
    BY <1>0, <2>1, <2>3, OthersKeepFiles, Zenon
  <2>5. storage[w].creator = w
    BY <1>0, <2>1, Zenon DEF OwnFiles, OwnFile
  <2>6. Path(w)' = Path(w)
    BY <2>1, <2>3, Zenon DEF Path
  <2>7. OwnFile(w)'
    BY <2>1, <2>3, <2>5, <2>6, Zenon DEF OwnFile
  <2> QED
    BY <1>0, <2>1, <2>2, <2>4, <2>7, Zenon DEF OwnFiles, MarkedOnDisk
<1>11. ASSUME NEW e \in Exec, LoseExecutor(e)
       PROVE  OwnFiles' /\ MarkedOnDisk'
  BY <1>0, <1>11, Zenon DEF LoseExecutor, OwnFiles, OwnFile, MarkedOnDisk, Path
<1>12. ASSUME NEW w \in Worker, NEW e \in Exec, Place(w, e)
       PROVE  OwnFiles' /\ MarkedOnDisk'
  <2>1. /\ home' = [home EXCEPT ![w] = e] /\ home[w] = None
        /\ UNCHANGED <<up, meta, dirs, persisted, storage>>
    BY <1>12, Zenon DEF Place
  <2>2. ~Asked(w)
    BY <1>0, <2>1, ResourceAssumption, Zenon DEF StorageTypes
  <2> QED
    BY <1>0, <2>1, <2>2, Zenon DEF OwnFiles, OwnFile, MarkedOnDisk, Path, Asked,
           StorageTypes
<1> QED
  BY <1>1, <1>2, <1>4, <1>5, <1>6, <1>8, <1>9, <1>10, <1>11, <1>12, Zenon
  DEF WorkingStep, StorageStep

\* The brokers start without files.
LEMMA FilesInit ==
  ASSUME ResourceInit
  PROVE  FilesInv
<1>1. OwnerInv
  BY OwnerInit, Zenon
<1>2. \A w \in Worker : storage[w].at = "none"
  BY Zenon DEF ResourceInit, NoStorage
<1> QED
  BY <1>1, <1>2, Zenon DEF ResourceInit, FilesInv, OwnFiles, OwnFile, MarkedOnDisk

-----------------------------------------------------------------------------
(* The units of a task, in the order of the mode.                          *)

\* The units that the mode of the job has.
UnitsOf == {workerSeq[i] : i \in DOMAIN workerSeq}

\* Some worker of task t has finished the unit before u, if there is one.
MayRun(t, u) ==
  LET i == workerIdxInSeq(u) IN i > 1 => workerSeq[i - 1] \in done[t]

Mode == {"all", "full", "incremental"}

\* workerSeqMap: two or three units or one, each once.
LEMMA Sequence ==
  ASSUME mode \in Mode
  PROVE  /\ Len(workerSeq) \in 1 .. 3 /\ DOMAIN workerSeq = 1 .. Len(workerSeq)
         /\ \A i \in DOMAIN workerSeq : workerSeq[i] \in Unit
         /\ \A i, j \in DOMAIN workerSeq : workerSeq[i] = workerSeq[j] => i = j
         /\ "load" \in UnitsOf => workerSeq[1] = "dump"
  <1>1. CASE mode = "all"
    <2>1. workerSeq = <<"dump", "load", "sync">>
      BY <1>1 DEF workerSeq, workerSeqMap
    <2> QED
      BY <2>1 DEF Unit, UnitsOf
  <1>2. CASE mode = "full"
    <2>1. workerSeq = <<"dump", "load">>
      BY <1>2 DEF workerSeq, workerSeqMap
    <2> QED
      BY <2>1 DEF Unit, UnitsOf
  <1>3. CASE mode = "incremental"
    <2>1. workerSeq = <<"sync">>
      BY <1>3 DEF workerSeq, workerSeqMap
    <2>2. "load" \notin UnitsOf
      BY <2>1 DEF UnitsOf
    <2> QED
      BY <2>1, <2>2 DEF Unit
  <1> QED
    BY <1>1, <1>2, <1>3 DEF Mode

\* workerIdxInSeq finds the place of a unit, and there is but one.
LEMMA IndexOf ==
  ASSUME mode \in Mode, NEW u \in UnitsOf
  PROVE  /\ workerIdxInSeq(u) \in 1 .. Len(workerSeq)
         /\ workerSeq[workerIdxInSeq(u)] = u
         /\ \A i \in 1 .. Len(workerSeq) : workerSeq[i] = u => workerIdxInSeq(u) = i
  <1>1. \E i \in DOMAIN workerSeq : workerSeq[i] = u
    BY Zenon DEF UnitsOf
  <1>2. workerIdxInSeq(u) \in DOMAIN workerSeq /\ workerSeq[workerIdxInSeq(u)] = u
    BY <1>1, Zenon DEF workerIdxInSeq
  <1> QED
    BY <1>2, Sequence, Zenon

\* A new unit may run when the one before it has been finished.
LEMMA NextMayRun ==
  ASSUME mode \in Mode, NEW t \in Task, NEW u \in UnitsOf, u \in done[t],
         nextUnitInSeq(u) # u
  PROVE  nextUnitInSeq(u) \in UnitsOf /\ MayRun(t, nextUnitInSeq(u))
  <1>1. PICK i \in 1 .. Len(workerSeq) : i = workerIdxInSeq(u) /\ workerSeq[i] = u
    BY IndexOf, Zenon
  <1>2. i # Len(workerSeq) /\ nextUnitInSeq(u) = workerSeq[i + 1]
    BY <1>1, Zenon DEF nextUnitInSeq
  <1>3. i + 1 \in 1 .. Len(workerSeq) /\ (i + 1) - 1 = i
    <2>1. PICK n \in 1 .. 3 : n = Len(workerSeq)
      BY Sequence, Zenon
    <2>2. i \in 1 .. n /\ i # n
      BY <1>1, <1>2, <2>1, Zenon
    <2>3. i + 1 \in 1 .. n /\ (i + 1) - 1 = i
      BY <2>2
    <2> QED
      BY <2>1, <2>3, Zenon
  <1>4. workerSeq[i + 1] \in UnitsOf
    BY <1>3, Sequence, Zenon DEF UnitsOf
  <1>5. workerIdxInSeq(workerSeq[i + 1]) = i + 1
    BY <1>3, <1>4, IndexOf, Zenon
  <1> QED
    BY <1>1, <1>2, <1>3, <1>4, <1>5, Zenon DEF MayRun

\* The first unit may always run.
LEMMA FirstMayRun ==
  ASSUME mode \in Mode, NEW t \in Task
  PROVE  workerSeq[1] \in UnitsOf /\ MayRun(t, workerSeq[1])
  <1>1. 1 \in 1 .. Len(workerSeq) /\ ~(1 > 1)
    BY Sequence
  <1>2. workerSeq[1] \in UnitsOf
    BY <1>1, Sequence, Zenon DEF UnitsOf
  <1>3. workerIdxInSeq(workerSeq[1]) = 1
    BY <1>1, <1>2, IndexOf, Zenon
  <1> QED
    BY <1>1, <1>2, <1>3, Zenon DEF MayRun

\* Places in a sequence of three have a last one.
LEMMA LastOfThree ==
  ASSUME NEW T, T # {}, T \subseteq {1, 2, 3}
  PROVE  \E i \in T : \A j \in T : j <= i
  <1>1. CASE 3 \in T
    BY <1>1
  <1>2. CASE 3 \notin T /\ 2 \in T
    BY <1>2
  <1>3. CASE 3 \notin T /\ 2 \notin T
    <2>1. T = {1}
      BY <1>3, Zenon
    <2> QED
      BY <2>1
  <1> QED
    BY <1>1, <1>2, <1>3

\* getCurrentUnit returns a unit with a checkpoint, or the first one.
LEMMA CurrentMayRun ==
  ASSUME mode \in Mode, NEW t \in Task,
         \A u \in cp[t] : u \in UnitsOf /\ MayRun(t, u)
  PROVE  getCurrentUnit(t) \in UnitsOf /\ MayRun(t, getCurrentUnit(t))
  <1> DEFINE touched == {i \in DOMAIN workerSeq : workerSeq[i] \in cp[t]}
  <1>1. CASE touched = {}
    <2>1. getCurrentUnit(t) = workerSeq[1]
      BY <1>1, Zenon DEF getCurrentUnit
    <2> QED
      BY <2>1, FirstMayRun, Zenon
  <1>2. CASE touched # {}
    <2>1. \A n \in 1 .. 3 : 1 .. n \subseteq {1, 2, 3}
      OBVIOUS
    <2>2. touched \subseteq {1, 2, 3}
      BY <2>1, Sequence, Zenon
    <2>3. \E i \in touched : \A j \in touched : j <= i
      BY <1>2, <2>2, LastOfThree, Zenon
    <2>4. PICK i \in touched : getCurrentUnit(t) = workerSeq[i]
      BY <1>2, <2>3, Zenon DEF getCurrentUnit
    <2> QED
      BY <2>4, Zenon
  <1> QED
    BY <1>1, <1>2, Zenon

-----------------------------------------------------------------------------
(* The units of the workers.                                               *)

DMTypes ==
  /\ mode \in Mode
  /\ Framework!CallbacksTypeOK
  /\ wst \in [Task -> WorkerStatus \cup {None}]
  /\ tst \in [Task -> Stage \cup {"Unscheduled"}]
  /\ hd \in [Task -> Worker \cup {None}]
  /\ of \in [Worker -> Assignment \cup {None}]
  /\ ext \in [Worker -> Stage] /\ seen \in [Worker -> Stage]
  /\ cp \in [Task -> SUBSET Unit] /\ done \in [Task -> SUBSET Unit]

\* Whatever tells the master of a unit (a worker, a checkpoint, a status on its
\* way or in the books) tells the truth: the unit is one of the mode's whose
\* turn had come, and a "Finished" comes from a worker that has finished it.
WorkerUnit(w) ==
  /\ of[w] = None <=> proc[w] = "none"
  /\ known[w] # "unknown" => proc[w] # "none"
  /\ of[w] # None => of[w].unit \in UnitsOf /\ MayRun(of[w].task, of[w].unit)
  /\ ext[w] = "Finished" \/ seen[w] = "Finished" =>
       of[w] # None /\ of[w].unit \in done[of[w].task]

TaskUnit(t) ==
  /\ \A u \in cp[t] : u \in UnitsOf /\ MayRun(t, u)
  /\ wst[t] # None =>
       /\ of[wst[t].id] = [task |-> t, unit |-> wst[t].unit]
       /\ wst[t].stage = "Finished" => wst[t].unit \in done[t]

UnitInv == (\A w \in Worker : WorkerUnit(w)) /\ (\A t \in Task : TaskUnit(t))

\* What a worker is created for.
LEMMA AssignmentOf ==
  ASSUME NEW t \in Task, NEW u \in Unit, NEW a, a = [task |-> t, unit |-> u]
  PROVE  a \in Assignment /\ a # None /\ a.task = t /\ a.unit = u
  <1>1. a \in Assignment /\ a.task = t /\ a.unit = u
    BY DEF Assignment
  <1> QED
    BY <1>1, TaskAssumption, Zenon

\* checkAndScheduleWorkers creates workers only of units whose turn has come.
LEMMA UnitForMayRun ==
  ASSUME DMTypes, UnitInv, NEW books, NEW t \in Task, books[t] \in {None, wst[t]},
         NeedsWorker(books, t)
  PROVE  UnitFor(books, t) \in UnitsOf /\ MayRun(t, UnitFor(books, t))
  <1>0. mode \in Mode
    BY Zenon DEF DMTypes
  <1>1. CASE books[t] = None
    <2>1. UnitFor(books, t) = getCurrentUnit(t)
      BY <1>1, Zenon DEF UnitFor
    <2>2. \A u \in cp[t] : u \in UnitsOf /\ MayRun(t, u)
      BY Zenon DEF UnitInv, WorkerUnit, TaskUnit
    <2> QED
      BY <1>0, <2>1, <2>2, CurrentMayRun, Zenon
  <1>2. CASE books[t] # None
    <2>1. /\ books[t] = wst[t] /\ wst[t] # None
          /\ getNextUnit(wst[t]) # wst[t].unit /\ UnitFor(books, t) = getNextUnit(wst[t])
      BY <1>2, Zenon DEF NeedsWorker, UnitFor
    <2>2. wst[t].stage = "Finished" /\ getNextUnit(wst[t]) = nextUnitInSeq(wst[t].unit)
      BY <2>1, Zenon DEF getNextUnit
    <2>3. wst[t] \in WorkerStatus
      BY <2>1, Zenon DEF DMTypes
    <2>4. wst[t].id \in Worker
      BY <2>3 DEF WorkerStatus
    <2>5. of[wst[t].id] = [task |-> t, unit |-> wst[t].unit] /\ wst[t].unit \in done[t]
      BY <2>1, <2>2, Zenon DEF UnitInv, WorkerUnit, TaskUnit
    <2>6. of[wst[t].id] # None /\ of[wst[t].id].unit = wst[t].unit
      <3>1. wst[t].unit \in Unit
        BY <2>3 DEF WorkerStatus
      <3> QED
        BY <2>5, <3>1, AssignmentOf
    <2>7. wst[t].unit \in UnitsOf
      BY <2>4, <2>6, Zenon DEF UnitInv, WorkerUnit, TaskUnit
    <2> QED
      BY <1>0, <2>1, <2>2, <2>5, <2>7, NextMayRun, Zenon
  <1> QED
    BY <1>1, <1>2, Zenon

\* A worker that a tick creates.
Created(w) ==
  /\ proc[w] = "none" /\ proc'[w] = "pending" /\ known'[w] = "creating" /\ cache'
  /\ of'[w] \in Assignment
  /\ of'[w].unit \in UnitsOf /\ MayRun(of'[w].task, of'[w].unit)

\* What a tick does to the workers and to the status of each task.
TickStep ==
  /\ cache => cache'
  /\ proc' \in [Worker -> Framework!Processes] /\ known' \in [Worker -> Framework!Knowledge]
  /\ of' \in [Worker -> Assignment \cup {None}]
  /\ wst' \in [Task -> WorkerStatus \cup {None}]
  /\ \A w \in Worker :
       Created(w) \/ (proc'[w] = proc[w] /\ known'[w] = known[w] /\ of'[w] = of[w])
  /\ \A t \in Task :
       \/ wst'[t] = wst[t]
       \/ wst'[t] = None /\ (wst[t] # None => wst[t].stage # "Online" \/ ~cache')
       \/ /\ hd[t] = None
          /\ \E w \in Worker : /\ Created(w) /\ of'[w].task = t
                               /\ wst'[t] = Creating(w, of'[w].unit)

\* checkAndScheduleWorkers, with the statuses that removeOfflineWorkers has left.
LEMMA ScheduleStep ==
  ASSUME DMTypes, UnitInv, NEW books \in [Task -> WorkerStatus \cup {None}],
         \A t \in Task : \/ books[t] = wst[t]
                         \/ books[t] = None /\ wst[t].stage # "Online",
         checkAndScheduleWorkers(books), cache'
  PROVE  TickStep
  <1>0. mode \in Mode
    BY Zenon DEF DMTypes
  <1> DEFINE free == {w \in Worker : proc[w] = "none"}
  <1>1. PICK S \in SUBSET {t \in Task : NeedsWorker(books, t) /\ hd[t] = None} :
          /\ \E f \in [S -> free] : IsInjective(f)
          /\ LET ids == CHOOSE f \in [S -> free] : IsInjective(f)
                 new == {ids[t] : t \in S}
                 taskOf(w) == CHOOSE t \in S : ids[t] = w
             IN /\ wst' = [t \in Task |-> IF t \in S THEN Creating(ids[t], UnitFor(books, t))
                                          ELSE books[t]]
                /\ of' = [w \in Worker |->
                           IF w \in new
                           THEN [task |-> taskOf(w), unit |-> UnitFor(books, taskOf(w))]
                           ELSE of[w]]
                /\ IF S = {} THEN UNCHANGED <<known, proc>> ELSE Framework!Create(new)
    BY Zenon DEF checkAndScheduleWorkers
  <1>2. PICK ids \in [S -> free] :
          /\ IsInjective(ids)
          /\ ids = CHOOSE f \in [S -> free] : IsInjective(f)
    BY <1>1, Zenon
  <1> DEFINE new == {ids[t] : t \in S}
             taskOf(w) == CHOOSE t \in S : ids[t] = w
  <1>3. /\ wst' = [t \in Task |-> IF t \in S THEN Creating(ids[t], UnitFor(books, t))
                                  ELSE books[t]]
        /\ of' = [w \in Worker |->
                   IF w \in new THEN [task |-> taskOf(w), unit |-> UnitFor(books, taskOf(w))]
                   ELSE of[w]]
        /\ IF S = {} THEN UNCHANGED <<known, proc>> ELSE Framework!Create(new)
    BY <1>1, <1>2, Zenon
  <1>4. \A t \in S : ids[t] \in Worker /\ proc[ids[t]] = "none" /\ taskOf(ids[t]) = t
    BY <1>2, Zenon DEF IsInjective
  <1>5. \A t \in S : /\ t \in Task /\ hd[t] = None
                     /\ UnitFor(books, t) \in UnitsOf /\ MayRun(t, UnitFor(books, t))
                     /\ UnitFor(books, t) \in Unit
    <2> SUFFICES ASSUME NEW t \in S
                 PROVE  /\ t \in Task /\ hd[t] = None
                        /\ UnitFor(books, t) \in UnitsOf /\ MayRun(t, UnitFor(books, t))
                        /\ UnitFor(books, t) \in Unit
      BY Zenon
    <2>1. t \in Task /\ NeedsWorker(books, t) /\ hd[t] = None
      BY Zenon
    <2>2. books[t] \in {None, wst[t]}
      BY <2>1, Zenon
    <2>3. UnitFor(books, t) \in UnitsOf /\ MayRun(t, UnitFor(books, t))
      BY <2>1, <2>2, UnitForMayRun, Zenon
    <2>4. UnitFor(books, t) \in Unit
      <3>1. \A u \in UnitsOf : u \in Unit
        BY <1>0, Sequence DEF UnitsOf
      <3> QED
        BY <2>3, <3>1, Zenon
    <2> QED
      BY <2>1, <2>3, <2>4, Zenon
  <1>6. \A t \in S : of'[ids[t]] = [task |-> t, unit |-> UnitFor(books, t)]
    BY <1>3, <1>4, Zenon
  <1>7. \A w \in Worker : w \notin new => of'[w] = of[w]
    BY <1>3, Zenon
  <1>8. /\ proc' = [w \in Worker |-> IF w \in new THEN "pending" ELSE proc[w]]
        /\ known' = [w \in Worker |-> IF w \in new THEN "creating" ELSE known[w]]
    <2>1. CASE S = {}
      <3>1. new = {} /\ UNCHANGED <<known, proc>>
        BY <1>3, <2>1, Zenon
      <3> QED
        BY <3>1, Zenon DEF DMTypes, Framework!CallbacksTypeOK
    <2>2. CASE S # {}
      BY <1>3, <2>2, Zenon DEF Framework!Create, Framework!Move
    <2> QED
      BY <2>1, <2>2, Zenon
  <1>9. \A t \in S : /\ of'[ids[t]] \in Assignment
                     /\ of'[ids[t]].task = t /\ of'[ids[t]].unit = UnitFor(books, t)
    <2> SUFFICES ASSUME NEW t \in S
                 PROVE  /\ of'[ids[t]] \in Assignment
                        /\ of'[ids[t]].task = t /\ of'[ids[t]].unit = UnitFor(books, t)
      BY Zenon
    <2>1. PICK a : a = of'[ids[t]]
      BY Zenon
    <2>2. PICK u \in Unit : u = UnitFor(books, t)
      BY <1>5, Zenon
    <2>3. t \in Task /\ a = [task |-> t, unit |-> u]
      BY <1>5, <1>6, <2>1, <2>2, Zenon
    <2>4. a \in Assignment /\ a.task = t /\ a.unit = u
      BY <2>3, AssignmentOf
    <2> QED
      BY <2>1, <2>2, <2>4, Zenon
  <1>10. ASSUME NEW t \in S
         PROVE  Created(ids[t])
    <2>1. PICK w : w = ids[t]
      BY Zenon
    <2>2. w \in Worker /\ w \in new /\ proc[w] = "none"
      BY <1>4, <2>1
    <2>3. proc'[w] = "pending" /\ known'[w] = "creating"
      BY <1>8, <2>2, Zenon
    <2>4. /\ of'[w] \in Assignment
          /\ of'[w].unit \in UnitsOf /\ MayRun(of'[w].task, of'[w].unit)
      BY <1>5, <1>9, <2>1, Zenon
    <2> QED
      BY <2>1, <2>2, <2>3, <2>4, Zenon DEF Created
  <1>11. \A w \in Worker :
           Created(w) \/ (proc'[w] = proc[w] /\ known'[w] = known[w] /\ of'[w] = of[w])
    BY <1>7, <1>8, <1>10, Zenon
  <1>12. \A t \in Task :
           \/ wst'[t] = wst[t]
           \/ wst'[t] = None /\ (wst[t] # None => wst[t].stage # "Online" \/ ~cache')
           \/ /\ hd[t] = None
              /\ \E w \in Worker : /\ Created(w) /\ of'[w].task = t
                                   /\ wst'[t] = Creating(w, of'[w].unit)
    <2> SUFFICES ASSUME NEW t \in Task
                 PROVE  \/ wst'[t] = wst[t]
                        \/ wst'[t] = None /\ (wst[t] # None => wst[t].stage # "Online" \/ ~cache')
                        \/ /\ hd[t] = None
                           /\ \E w \in Worker : /\ Created(w) /\ of'[w].task = t
                                                /\ wst'[t] = Creating(w, of'[w].unit)
      BY Zenon
    <2>1. CASE t \in S
      <3>1. wst'[t] = Creating(ids[t], UnitFor(books, t))
        BY <1>3, <2>1, Zenon
      <3>2. /\ ids[t] \in Worker /\ Created(ids[t]) /\ of'[ids[t]].task = t
            /\ wst'[t] = Creating(ids[t], of'[ids[t]].unit)
        BY <1>4, <1>9, <1>10, <2>1, <3>1, Zenon
      <3>3. hd[t] = None
        BY <1>5, <2>1, Zenon
      <3> QED
        BY <3>2, <3>3, Zenon
    <2>2. CASE t \notin S
      BY <1>3, <2>2, Zenon
    <2> QED
      BY <2>1, <2>2, Zenon
  <1>13. wst' \in [Task -> WorkerStatus \cup {None}]
    <2>1. \A t \in S : Creating(ids[t], UnitFor(books, t)) \in WorkerStatus
      BY <1>4, <1>5, Zenon DEF Creating, WorkerStatus
    <2> QED
      BY <1>3, <2>1, Zenon
  <1>14. of' \in [Worker -> Assignment \cup {None}]
    <2>1. \A w \in new : of'[w] \in Assignment
      BY <1>9, Zenon
    <2>2. \A w \in Worker : of'[w] \in Assignment \cup {None}
      BY <1>7, <2>1, Zenon DEF DMTypes
    <2> QED
      BY <1>3, <2>2, Zenon
  <1>15. proc' \in [Worker -> Framework!Processes] /\ known' \in [Worker -> Framework!Knowledge]
    BY <1>8, Zenon DEF DMTypes, Framework!CallbacksTypeOK, Framework!Processes,
       Framework!Knowledge
  <1> QED
    BY <1>11, <1>12, <1>13, <1>14, <1>15, Zenon DEF TickStep

\* TickImpl, whether or not the store returns the job.
LEMMA TickFacts ==
  ASSUME DMTypes, UnitInv, TickImpl
  PROVE  TickStep
  <1>1. PICK late \in SUBSET MayBeLate, got \in BOOLEAN :
          /\ Get(got)
          /\ IF got THEN checkAndScheduleWorkers(removeOfflineWorkers(late))
                    ELSE onJobNotExist(removeOfflineWorkers(late))
    BY Zenon DEF TickImpl
  <1>2. PICK books : books = removeOfflineWorkers(late)
    BY Zenon
  <1>3. books \in [Task -> WorkerStatus \cup {None}]
    BY <1>2, Zenon DEF removeOfflineWorkers, DMTypes
  <1>4. \A t \in Task : \/ books[t] = wst[t]
                        \/ books[t] = None /\ wst[t].stage # "Online"
    <2> SUFFICES ASSUME NEW t \in Task, books[t] # wst[t]
                 PROVE  books[t] = None /\ wst[t].stage # "Online"
      BY Zenon
    <2>1. books[t] = None /\ (wst[t].stage = "Offline" \/ t \in late)
      BY <1>2, Zenon DEF removeOfflineWorkers
    <2>2. t \in late => wst[t].stage = "Creating"
      BY Zenon DEF MayBeLate
    <2> QED
      BY <2>1, <2>2, Zenon
  <1>5. CASE got
    <2>1. cache'
      BY <1>1, <1>5, Zenon DEF Get
    <2>2. checkAndScheduleWorkers(books)
      BY <1>1, <1>2, <1>5, Zenon
    <2> QED
      BY <1>3, <1>4, <2>1, <2>2, ScheduleStep, Zenon
  <1>6. CASE ~got
    <2>1. ~cache /\ ~cache' /\ UNCHANGED <<known, proc, of>>
      BY <1>1, <1>6, Zenon DEF Get, onJobNotExist
    <2>2. PICK refused \in SUBSET Task :
            wst' = [t \in Task |-> IF books[t] # None /\ books[t].id = hd[t] /\ t \notin refused
                                   THEN None ELSE books[t]]
      BY <1>1, <1>2, <1>6, Zenon DEF onJobNotExist
    <2>3. wst' \in [Task -> WorkerStatus \cup {None}]
      BY <1>3, <2>2, Zenon
    <2>4. \A t \in Task : wst'[t] = wst[t] \/ wst'[t] = None
      BY <1>4, <2>2, Zenon
    <2> QED
      BY <2>1, <2>3, <2>4, Zenon DEF TickStep, DMTypes, Framework!CallbacksTypeOK
  <1> QED
    BY <1>5, <1>6, Zenon

\* A unit whose turn has come keeps it.
LEMMA MayRunKept ==
  ASSUME mode' = mode, \A t \in Task : done[t] \subseteq done'[t]
  PROVE  /\ UnitsOf' = UnitsOf
         /\ \A t \in Task : \A u : MayRun(t, u) => MayRun(t, u)'
  <1>1. workerSeq' = workerSeq
    BY Zenon DEF workerSeq
  <1>2. \A u : workerIdxInSeq(u)' = workerIdxInSeq(u)
    BY <1>1, Zenon DEF workerIdxInSeq
  <1> QED
    BY <1>1, <1>2, Zenon DEF MayRun, UnitsOf

\* Steps that create no worker, write no checkpoint and put no new status in
\* the books.
LEMMA UnitsCarried ==
  ASSUME DMTypes, UnitInv, UNCHANGED <<mode, of>>,
         \A w \in Worker : proc'[w] = "none" <=> proc[w] = "none",
         \A w \in Worker : known'[w] # "unknown" => proc[w] # "none",
         \A t \in Task : /\ done[t] \subseteq done'[t] /\ cp'[t] \subseteq cp[t]
                         /\ wst'[t] \in {wst[t], None},
         \A w \in Worker : ext'[w] = "Finished" =>
           \/ ext[w] = "Finished"
           \/ of[w] # None /\ of[w].unit \in done'[of[w].task],
         \A w \in Worker : seen'[w] = "Finished" => "Finished" \in {seen[w], ext[w]}
  PROVE  UnitInv'
  <1>1. UnitsOf' = UnitsOf /\ \A t \in Task : \A u : MayRun(t, u) => MayRun(t, u)'
    BY MayRunKept, Zenon
  <1>2. \A w \in Worker : of[w] # None => of[w].task \in Task
    BY DEF DMTypes, Assignment
  <1>3. ASSUME NEW w \in Worker
        PROVE  WorkerUnit(w)'
    <2>1. (of'[w] = None <=> proc'[w] = "none") /\ (known'[w] # "unknown" => proc'[w] # "none")
      BY Zenon DEF UnitInv, WorkerUnit
    <2>2. of'[w] # None => of'[w].unit \in UnitsOf' /\ MayRun(of[w].task, of[w].unit)'
      BY <1>1, <1>2, Zenon DEF UnitInv, WorkerUnit
    <2>3. ext[w] = "Finished" \/ seen[w] = "Finished" =>
            of[w] # None /\ of[w].unit \in done[of[w].task]
      BY Zenon DEF UnitInv, WorkerUnit, TaskUnit
    <2>4. ext'[w] = "Finished" \/ seen'[w] = "Finished" =>
            of'[w] # None /\ of'[w].unit \in done'[of'[w].task]
      BY <1>2, <2>3, Zenon
    <2> QED
      BY <2>1, <2>2, <2>4, Zenon DEF WorkerUnit
  <1>4. ASSUME NEW t \in Task
        PROVE  TaskUnit(t)'
    <2>1. \A u \in cp'[t] : u \in UnitsOf' /\ MayRun(t, u)'
      BY <1>1, Zenon DEF UnitInv, WorkerUnit, TaskUnit
    <2>2. wst'[t] # None =>
            /\ of'[wst'[t].id] = [task |-> t, unit |-> wst'[t].unit]
            /\ wst'[t].stage = "Finished" => wst'[t].unit \in done'[t]
      BY ZenonT(40) DEF UnitInv, WorkerUnit, TaskUnit
    <2> QED
      BY <2>1, <2>2, Zenon DEF TaskUnit
  <1> QED
    BY <1>3, <1>4, Zenon DEF UnitInv

\* A tick, which may be the one after which CloseImpl removes the checkpoints.
LEMMA TickUnits ==
  ASSUME DMTypes, UnitInv, TickStep, UNCHANGED <<mode, tst, hd, ext, seen, done>>,
         cp' \in {cp, [t \in Task |-> {}]}
  PROVE  DMTypes' /\ UnitInv'
  <1>1. UnitsOf' = UnitsOf /\ \A t \in Task : \A u : MayRun(t, u) => MayRun(t, u)'
    BY MayRunKept, Zenon
  <1>2. \A w \in Worker :
          Created(w) \/ (proc'[w] = proc[w] /\ known'[w] = known[w] /\ of'[w] = of[w])
    BY Zenon DEF TickStep
  <1>3. DMTypes'
    <2>1. cp' \in [Task -> SUBSET Unit]
      BY Zenon DEF DMTypes
    <2> QED
      BY <2>1, Zenon DEF DMTypes, TickStep, Framework!CallbacksTypeOK
  <1>4. ASSUME NEW w \in Worker
        PROVE  WorkerUnit(w)'
    <2>1. CASE Created(w)
      <3>1. /\ proc[w] = "none" /\ proc'[w] # "none" /\ of'[w] \in Assignment
            /\ of'[w].unit \in UnitsOf /\ MayRun(of'[w].task, of'[w].unit)
        BY <2>1, Zenon DEF Created
      <3>2. of'[w].task \in Task
        BY <3>1 DEF Assignment
      <3>3. of'[w] # None
        BY <3>1, TaskAssumption, Zenon
      <3>4. ~(ext'[w] = "Finished" \/ seen'[w] = "Finished")
        BY <3>1, Zenon DEF UnitInv, WorkerUnit, TaskUnit
      <3> QED
        BY <1>1, <3>1, <3>2, <3>3, <3>4, Zenon DEF WorkerUnit
    <2>2. CASE proc'[w] = proc[w] /\ known'[w] = known[w] /\ of'[w] = of[w]
      <3>1. of[w] # None => of[w].task \in Task
        BY DEF DMTypes, Assignment
      <3> QED
        BY <1>1, <2>2, <3>1, Zenon DEF UnitInv, WorkerUnit, TaskUnit
    <2> QED
      BY <1>2, <2>1, <2>2, Zenon
  <1>5. ASSUME NEW t \in Task
        PROVE  TaskUnit(t)'
    <2>1. \A u \in cp'[t] : u \in cp[t]
      BY Zenon
    <2>2. \A u \in cp'[t] : u \in UnitsOf' /\ MayRun(t, u)'
      BY <1>1, <2>1, Zenon DEF UnitInv, WorkerUnit, TaskUnit
    <2>3. CASE wst'[t] = wst[t] /\ wst[t] # None
      <3>1. wst[t].id \in Worker /\ wst[t].unit \in Unit
        BY <2>3 DEF DMTypes, WorkerStatus
      <3>2. /\ of[wst[t].id] = [task |-> t, unit |-> wst[t].unit]
            /\ wst[t].stage = "Finished" => wst[t].unit \in done[t]
        BY <2>3, Zenon DEF UnitInv, WorkerUnit, TaskUnit
      <3>3. of[wst[t].id] # None
        BY <3>1, <3>2, AssignmentOf
      <3>4. proc[wst[t].id] # "none"
        BY <3>1, <3>3, Zenon DEF UnitInv, WorkerUnit, TaskUnit
      <3>5. of'[wst[t].id] = of[wst[t].id]
        BY <1>2, <3>1, <3>4, Zenon DEF Created
      <3> QED
        BY <2>2, <2>3, <3>2, <3>5, Zenon DEF TaskUnit
    <2>4. CASE \E w \in Worker : /\ Created(w) /\ of'[w].task = t
                                 /\ wst'[t] = Creating(w, of'[w].unit)
      <3>1. PICK w \in Worker : /\ of'[w] \in Assignment /\ of'[w].task = t
                                /\ wst'[t] = Creating(w, of'[w].unit)
        BY <2>4, Zenon DEF Created
      <3>2. /\ wst'[t].id = w /\ wst'[t].unit = of'[w].unit /\ wst'[t].stage # "Finished"
        BY <3>1 DEF Creating
      <3>3. of'[w] = [task |-> t, unit |-> of'[w].unit]
        BY <3>1 DEF Assignment
      <3> QED
        BY <2>2, <3>2, <3>3, Zenon DEF TaskUnit
    <2> QED
      BY <2>2, <2>3, <2>4, Zenon DEF TickStep, TaskUnit
  <1> QED
    BY <1>3, <1>4, <1>5, Zenon DEF UnitInv

\* Workers that start, stop or are given up were created before.
LEMMA MoveProc ==
  ASSUME DMTypes, NEW S, NEW from, NEW to \in Framework!Processes, from # "none",
         to # "none", Framework!Move(S, from, to)
  PROVE  /\ proc' \in [Worker -> Framework!Processes]
         /\ \A w \in Worker : proc'[w] = "none" <=> proc[w] = "none"
         /\ \A w \in S : proc[w] = from
  <1>1. /\ proc' = [w \in Worker |-> IF w \in S THEN to ELSE proc[w]]
        /\ \A w \in S : proc[w] = from
    BY Zenon DEF Framework!Move
  <1>2. proc \in [Worker -> Framework!Processes]
    BY Zenon DEF DMTypes, Framework!CallbacksTypeOK
  <1> QED
    BY <1>1, <1>2, Zenon

\* A callback of which the master implementation takes notice.
LEMMA TellKnown ==
  ASSUME DMTypes, NEW w \in Worker, NEW before, NEW what \in Framework!Knowledge,
         Framework!Tell(w, before, what)
  PROVE  /\ known' \in [Worker -> Framework!Knowledge] /\ proc' = proc
         /\ known[w] \in before
         /\ \A v \in Worker : known'[v] = IF v = w THEN what ELSE known[v]
  BY Zenon DEF Framework!Tell, DMTypes, Framework!CallbacksTypeOK

\* The books of task t, and of no other one, say that worker w is at stage.
Recorded(t, w, stage, taskStage, handle) ==
  /\ of[w] = [task |-> t, unit |-> of[w].unit]
  /\ wst' \in [Task -> WorkerStatus \cup {None}]
  /\ wst'[t] # None /\ wst'[t].id = w
  /\ wst'[t].unit = of[w].unit /\ wst'[t].stage = stage
  /\ tst' \in [Task -> Stage \cup {"Unscheduled"}] /\ tst'[t] = taskStage
  /\ hd' \in [Task -> Worker \cup {None}] /\ hd'[t] = handle
  /\ \A s \in Task \ {t} : wst'[s] = wst[s] /\ tst'[s] = tst[s] /\ hd'[s] = hd[s]

\* SetBooks replaces the status of the worker's task by one of the worker.
LEMMA SetBooksFacts ==
  ASSUME DMTypes, UnitInv, NEW w \in Worker, of[w] # None,
         NEW stage \in {"Creating", "Online", "Finished", "Offline"},
         NEW taskStage \in Stage \cup {"Unscheduled"}, NEW handle \in Worker \cup {None},
         SetBooks(w, stage, taskStage, handle)
  PROVE  \E t \in Task : Recorded(t, w, stage, taskStage, handle)
  <1>1. of[w] \in Assignment
    BY Zenon DEF DMTypes
  <1>2. PICK t \in Task, u \in Unit :
          t = of[w].task /\ u = of[w].unit /\ of[w] = [task |-> t, unit |-> u]
    BY <1>1 DEF Assignment
  <1>3. PICK st : st = [id |-> w, unit |-> u, stage |-> stage]
    BY Zenon
  <1>4. st \in WorkerStatus /\ st.id = w /\ st.unit = u /\ st.stage = stage
    BY <1>3 DEF WorkerStatus
  <1>5. /\ wst' = [wst EXCEPT ![t] = st] /\ tst' = [tst EXCEPT ![t] = taskStage]
        /\ hd' = [hd EXCEPT ![t] = handle]
    BY <1>2, <1>3, Zenon DEF SetBooks
  <1>6. /\ wst' \in [Task -> WorkerStatus \cup {None}] /\ wst'[t] = st
        /\ tst' \in [Task -> Stage \cup {"Unscheduled"}] /\ tst'[t] = taskStage
        /\ hd' \in [Task -> Worker \cup {None}] /\ hd'[t] = handle
        /\ \A s \in Task \ {t} : wst'[s] = wst[s] /\ tst'[s] = tst[s] /\ hd'[s] = hd[s]
    BY <1>4, <1>5, Zenon DEF DMTypes
  <1>7. st # None
    BY <1>4, TaskAssumption, Zenon
  <1> QED
    BY <1>2, <1>4, <1>6, <1>7, ZenonT(40) DEF Recorded

\* OnWorkerOnline and OnWorkerOffline put what they have seen in the books.
LEMMA SetBooksUnits ==
  ASSUME DMTypes, UnitInv, NEW w \in Worker, of[w] # None,
         NEW stage \in {"Creating", "Online", "Finished", "Offline"},
         NEW taskStage \in Stage \cup {"Unscheduled"}, NEW handle \in Worker \cup {None},
         SetBooks(w, stage, taskStage, handle), stage = "Finished" => seen[w] = "Finished",
         known' \in [Worker -> Framework!Knowledge],
         \A v \in Worker : known'[v] # "unknown" => proc[v] # "none",
         UNCHANGED <<proc, mode, of, ext, seen, cp, done>>
  PROVE  DMTypes' /\ UnitInv'
  <1>0. PICK t \in Task : Recorded(t, w, stage, taskStage, handle)
    BY SetBooksFacts, Zenon
  <1>1.    /\ of[w] = [task |-> t, unit |-> of[w].unit]
           /\ wst' \in [Task -> WorkerStatus \cup {None}]
           /\ wst'[t].id = w /\ wst'[t].unit = of[w].unit /\ wst'[t].stage = stage
           /\ tst' \in [Task -> Stage \cup {"Unscheduled"}]
           /\ hd' \in [Task -> Worker \cup {None}]
           /\ \A s \in Task \ {t} : wst'[s] = wst[s]
    BY <1>0, Zenon DEF Recorded
  <1>2. DMTypes'
    BY <1>1, Zenon DEF DMTypes, Framework!CallbacksTypeOK
  <1>3. UnitsOf' = UnitsOf /\ \A s \in Task : \A u : MayRun(s, u) => MayRun(s, u)'
    BY MayRunKept, Zenon
  <1>4. ASSUME NEW v \in Worker
        PROVE  WorkerUnit(v)'
    <2>1. of[v] # None => of[v].task \in Task
      BY DEF DMTypes, Assignment
    <2> QED
      BY <1>3, <2>1, Zenon DEF UnitInv, WorkerUnit
  <1>5. ASSUME NEW s \in Task
        PROVE  TaskUnit(s)'
    <2>1. \A u \in cp'[s] : u \in UnitsOf' /\ MayRun(s, u)'
      BY <1>3, Zenon DEF UnitInv, TaskUnit
    <2>2. CASE s = t
      <3>1. stage = "Finished" => of[w].unit \in done[of[w].task]
        BY Zenon DEF UnitInv, WorkerUnit
      <3>2. of[w].task = t
        BY <1>1
      <3> QED
        BY <1>1, <2>1, <2>2, <3>1, <3>2, Zenon DEF TaskUnit
    <2>3. CASE s # t
      BY <1>1, <2>1, <2>3, Zenon DEF UnitInv, TaskUnit
    <2> QED
      BY <2>2, <2>3, Zenon
  <1> QED
    BY <1>2, <1>4, <1>5, Zenon DEF UnitInv

\* Every step keeps the types and what is said of units.
LEMMA UnitStep ==
  ASSUME DMTypes, UnitInv, [DMNext]_dmVars
  PROVE  DMTypes' /\ UnitInv'
  <1>0. /\ proc \in [Worker -> Framework!Processes]
        /\ known \in [Worker -> Framework!Knowledge]
        /\ \A w \in Worker : known[w] # "unknown" => proc[w] # "none"
    BY Zenon DEF DMTypes, Framework!CallbacksTypeOK, UnitInv, WorkerUnit
  <1>1. CASE UNCHANGED <<known, proc, mode, bookVars, unitVars, seen>>
    <2>1. DMTypes'
      BY <1>1, Zenon DEF DMTypes, Framework!CallbacksTypeOK, bookVars, unitVars
    <2>2. UnitInv'
      BY <1>0, <1>1, UnitsCarried, Zenon DEF bookVars, unitVars
    <2> QED
      BY <2>1, <2>2, Zenon
  <1>2. CASE \/ InitImpl \/ InitFails \/ MarkInitialized \/ CloseImpl \/ CloseFails
             \/ CrashMaster \/ DoPollFails \/ MarkFails
             \/ (\E w \in Worker : OpenStorage(w) \/ PersistDump(w))
             \/ UNCHANGED dmVars
    BY <1>1, <1>2, Zenon DEF InitImpl, InitFails, MarkInitialized, CloseImpl, CloseFails,
       CrashMaster, DoPollFails, PollFails, MarkFails, OpenStorage, PersistDump, dmVars,
       masterVars
  <1>3. CASE WorkerTick
    <2>1. TickStep
      BY <1>3, TickFacts, Zenon DEF WorkerTick
    <2> QED
      BY <1>3, <2>1, TickUnits, Zenon DEF WorkerTick
  <1>4. CASE CloseRound
    <2>1. TickStep
      BY <1>4, TickFacts, Zenon DEF CloseRound
    <2>2. cp' \in {cp, [t \in Task |-> {}]}
      BY <1>4, Zenon DEF CloseRound
    <2> QED
      BY <1>4, <2>1, <2>2, TickUnits, Zenon DEF CloseRound
  <1>5. CASE TaskTick
    <2>1. /\ tst' \in {tst, [t \in Task |-> "none"]}
          /\ UNCHANGED <<known, proc, mode, wst, hd, of, ext, seen, cp, done>>
      BY <1>5, Zenon DEF TaskTick
    <2>2. tst' \in [Task -> Stage \cup {"Unscheduled"}]
      BY <2>1, Zenon DEF DMTypes, Stage
    <2>3. DMTypes'
      BY <2>1, <2>2, Zenon DEF DMTypes, Framework!CallbacksTypeOK
    <2>4. UnitInv'
      BY <1>0, <2>1, UnitsCarried, Zenon
    <2> QED
      BY <2>3, <2>4, Zenon
  <1>6. CASE OnMasterRecovered
    <2>1. /\ Framework!Recover
          /\ UNCHANGED <<mode, wst, tst, hd, of, ext, seen, cp, done>>
      BY <1>6, Zenon DEF OnMasterRecovered, bookVars, unitVars
    <2>2. PICK on, off \in SUBSET {w \in Worker : proc[w] \in {"up", "down"}} :
            known' = [w \in Worker |-> IF w \in on THEN "online"
                                       ELSE IF w \in off THEN "gone" ELSE known[w]]
      BY <2>1, Zenon DEF Framework!Recover
    <2>3. proc' = proc
      BY <2>1, Zenon DEF Framework!Recover
    <2>4. known' \in [Worker -> Framework!Knowledge]
      BY <1>0, <2>2, Zenon DEF Framework!Knowledge
    <2>5. \A w \in Worker : known'[w] # "unknown" => proc[w] # "none"
      BY <1>0, <2>2
    <2>6. DMTypes'
      BY <2>1, <2>3, <2>4, Zenon DEF DMTypes, Framework!CallbacksTypeOK
    <2>7. UnitInv'
      BY <2>1, <2>3, <2>5, UnitsCarried, Zenon
    <2> QED
      BY <2>6, <2>7, Zenon
  <1>7. ASSUME NEW w \in Worker, OnWorkerDispatched(w)
        PROVE  DMTypes' /\ UnitInv'
    <2>1. /\ Framework!Tell(w, {"creating"}, "failed") /\ proc[w] = "never"
          /\ wst' = [t \in Task |-> IF wst[t] # None /\ wst[t].id = w THEN None ELSE wst[t]]
          /\ UNCHANGED <<mode, tst, hd, of, ext, seen, cp, done>>
      BY <1>7, Zenon DEF OnWorkerDispatched, Framework!ReportFailed, unitVars
    <2>2. "failed" \in Framework!Knowledge
      BY Zenon DEF Framework!Knowledge
    <2>3. /\ known' \in [Worker -> Framework!Knowledge] /\ proc' = proc
          /\ \A v \in Worker : known'[v] = IF v = w THEN "failed" ELSE known[v]
      BY <2>1, <2>2, TellKnown, Zenon
    <2>4. \A v \in Worker : known'[v] # "unknown" => proc[v] # "none"
      BY <1>0, <2>1, <2>3
    <2>5. /\ wst' \in [Task -> WorkerStatus \cup {None}]
          /\ \A t \in Task : wst'[t] \in {wst[t], None}
      BY <2>1, Zenon DEF DMTypes
    <2>6. DMTypes'
      BY <2>1, <2>3, <2>5, Zenon DEF DMTypes, Framework!CallbacksTypeOK
    <2>7. UnitInv'
      BY <2>1, <2>3, <2>4, <2>5, UnitsCarried, Zenon
    <2> QED
      BY <2>6, <2>7, Zenon
  <1>8. ASSUME NEW w \in Worker, OnWorkerOnline(w) \/ OnWorkerOffline(w)
        PROVE  DMTypes' /\ UnitInv'
    <2>1. PICK what \in {"online", "gone"} :
            Framework!Tell(w, {"creating", "online", "failed"}, what)
      BY <1>8, Zenon DEF OnWorkerOnline, OnWorkerOffline, Framework!ReportOnline,
         Framework!ReportOffline, Framework!Tell
    <2>2. UNCHANGED <<mode, of, ext, seen, cp, done>>
      BY <1>8, Zenon DEF OnWorkerOnline, OnWorkerOffline, unitVars
    <2>3. what \in Framework!Knowledge /\ what # "unknown"
      BY DEF Framework!Knowledge
    <2>4. /\ known' \in [Worker -> Framework!Knowledge] /\ proc' = proc
          /\ known[w] \in {"creating", "online", "failed"}
          /\ \A v \in Worker : known'[v] = IF v = w THEN what ELSE known[v]
      BY <2>1, <2>3, TellKnown, Zenon
    <2>5. of[w] # None /\ proc[w] # "none"
      BY <2>4, Zenon DEF UnitInv, WorkerUnit
    <2>6. \A v \in Worker : known'[v] # "unknown" => proc[v] # "none"
      BY <1>0, <2>4, <2>5, Zenon
    <2>7. CASE PollFails
      <3>1. UNCHANGED <<wst, tst, hd>>
        BY <2>7, Zenon DEF PollFails, bookVars
      <3>2. DMTypes'
        BY <2>2, <2>4, <3>1, Zenon DEF DMTypes, Framework!CallbacksTypeOK
      <3>3. UnitInv'
        BY <2>2, <2>4, <2>6, <3>1, UnitsCarried, Zenon
      <3> QED
        BY <3>2, <3>3, Zenon
    <2>8. CASE ~PollFails
      <3>1. PICK stage \in {"Creating", "Online", "Finished", "Offline"},
                 taskStage \in Stage \cup {"Unscheduled"}, handle \in Worker \cup {None} :
              /\ SetBooks(w, stage, taskStage, handle)
              /\ stage = "Finished" => seen[w] = "Finished"
        <4>1. CASE OnWorkerOnline(w)
          <5>1. SetBooks(w, "Online", seen[w], w) /\ seen[w] \in Stage
            BY <2>8, <4>1, Zenon DEF OnWorkerOnline, DMTypes
          <5> QED
            BY <5>1
        <4>2. CASE OnWorkerOffline(w)
          <5>1. \/ seen[w] = "Finished" /\ SetBooks(w, "Finished", "Finished", None)
                \/ SetBooks(w, "Offline", "Unscheduled", None)
            BY <2>8, <4>2, Zenon DEF OnWorkerOffline
          <5> QED
            BY <5>1, Zenon DEF Stage
        <4> QED
          BY <1>8, <4>1, <4>2, Zenon
      <3> QED
        BY <2>2, <2>4, <2>5, <2>6, <3>1, SetBooksUnits, Zenon
    <2> QED
      BY <2>7, <2>8, Zenon
  <1>9. ASSUME NEW w \in Worker, ReceiveStatus(w)
        PROVE  DMTypes' /\ UnitInv'
    <2>1. /\ seen' = [seen EXCEPT ![w] = ext[w]]
          /\ UNCHANGED <<known, proc, mode, wst, tst, hd, of, ext, cp, done>>
      BY <1>9, Zenon DEF ReceiveStatus, bookVars, unitVars
    <2>2. /\ seen' \in [Worker -> Stage]
          /\ \A v \in Worker : seen'[v] \in {seen[v], ext[v]}
      BY <2>1, Zenon DEF DMTypes
    <2>3. DMTypes'
      BY <2>1, <2>2, Zenon DEF DMTypes, Framework!CallbacksTypeOK
    <2>4. UnitInv'
      BY <1>0, <2>1, <2>2, UnitsCarried, Zenon
    <2> QED
      BY <2>3, <2>4, Zenon
  <1>10. CASE Restart
    <2>1. /\ Framework!Failover
          /\ wst' = [t \in Task |-> None] /\ tst' = [t \in Task |-> "none"]
          /\ hd' = [t \in Task |-> None] /\ seen' = [w \in Worker |-> "none"]
          /\ UNCHANGED <<mode, of, ext, cp, done>>
      BY <1>10, Zenon DEF Restart, unitVars
    <2>2. /\ known' = [w \in Worker |-> "unknown"]
          /\ \E lost \in SUBSET {w \in Worker : proc[w] = "pending"} :
                proc' = [w \in Worker |-> IF w \in lost THEN "never" ELSE proc[w]]
      BY <2>1, Zenon DEF Framework!Failover
    <2>3. /\ known' \in [Worker -> Framework!Knowledge]
          /\ \A w \in Worker : known'[w] = "unknown"
      BY <2>2, Zenon DEF Framework!Knowledge
    <2>4. PICK lost \in SUBSET {w \in Worker : proc[w] = "pending"} :
                proc' = [w \in Worker |-> IF w \in lost THEN "never" ELSE proc[w]]
      BY <2>2, Zenon
    <2>5. /\ proc' \in [Worker -> Framework!Processes]
          /\ \A w \in Worker : proc'[w] = "none" <=> proc[w] = "none"
      BY <1>0, <2>4 DEF Framework!Processes
    <2>6. DMTypes'
      BY <2>1, <2>3, <2>5, Zenon DEF DMTypes, Framework!CallbacksTypeOK, Stage
    <2>7. UnitInv'
      <3>1. /\ \A t \in Task : wst'[t] = None
            /\ \A w \in Worker : seen'[w] # "Finished"
        BY <2>1
      <3> QED
        BY <2>1, <2>3, <2>5, <3>1, UnitsCarried, Zenon
    <2> QED
      BY <2>6, <2>7, Zenon
  <1>11. ASSUME NEW S, NEW from \in {"pending", "up"}, NEW to \in {"up", "down", "never"},
                Framework!Move(S, from, to) \/ UNCHANGED proc,
                UNCHANGED <<known, mode, wst, tst, hd, of, seen, cp>>,
                ext' \in [Worker -> Stage], done' \in [Task -> SUBSET Unit],
                \A t \in Task : done[t] \subseteq done'[t],
                \A w \in Worker : ext'[w] = "Finished" =>
                  \/ ext[w] = "Finished"
                  \/ of[w] # None /\ of[w].unit \in done'[of[w].task]
         PROVE  DMTypes' /\ UnitInv'
    <2>1. from # "none" /\ to # "none" /\ to \in Framework!Processes
      BY DEF Framework!Processes
    <2>2. /\ proc' \in [Worker -> Framework!Processes]
          /\ \A w \in Worker : proc'[w] = "none" <=> proc[w] = "none"
      BY <1>0, <1>11, <2>1, MoveProc, Zenon
    <2>3. DMTypes'
      BY <1>11, <2>2, Zenon DEF DMTypes, Framework!CallbacksTypeOK
    <2>4. UnitInv'
      BY <1>0, <1>11, <2>2, UnitsCarried, Zenon
    <2> QED
      BY <2>3, <2>4, Zenon
  <1>12. \A S : \A from \in {"pending", "up"}, to \in {"up", "down", "never"} :
           /\ Framework!Move(S, from, to) \/ UNCHANGED proc
           /\ UNCHANGED <<known, mode, wst, tst, hd, of, seen, cp, ext, done>>
           => DMTypes' /\ UnitInv'
    <2>1. ext \in [Worker -> Stage] /\ done \in [Task -> SUBSET Unit]
      BY Zenon DEF DMTypes
    <2> QED
      BY <1>11, <2>1, Zenon
  <1>13. ASSUME NEW w \in Worker, AbandonWorker(w) \/ \E e \in Exec : StartWorker(w, e)
         PROVE  DMTypes' /\ UnitInv'
    <2>1. /\ UNCHANGED <<known, mode, wst, tst, hd, of, seen, cp, ext, done>>
          /\ \/ Framework!Move({w}, "pending", "never")
             \/ Framework!Move({w}, "pending", "up")
      BY <1>13, Zenon DEF AbandonWorker, StartWorker, Framework!Abandon, Framework!Start,
         masterVars, bookVars, unitVars
    <2> QED
      BY <1>12, <2>1, Zenon
  <1>14. ASSUME NEW e \in Exec, LoseExecutorAndWorkers(e)
         PROVE  DMTypes' /\ UnitInv'
    <2>1. /\ UNCHANGED <<known, mode, wst, tst, hd, of, seen, cp, ext, done>>
          /\ \E S : Framework!Move(S, "up", "down") \/ UNCHANGED proc
      BY <1>14, Zenon DEF LoseExecutorAndWorkers, Framework!Stop, masterVars, bookVars,
         unitVars
    <2> QED
      BY <1>12, <2>1, Zenon
  <1>15. ASSUME NEW w \in Worker, NEW stage \in Stage \ {"Finished"},
                StopWorker(w, stage), UNCHANGED done
         PROVE  DMTypes' /\ UnitInv'
    <2>1. /\ UNCHANGED <<known, mode, wst, tst, hd, of, seen, cp>>
          /\ ext' = [ext EXCEPT ![w] = stage] /\ Framework!Move({w}, "up", "down")
      BY <1>15, Zenon DEF StopWorker, Framework!Stop, masterVars, bookVars
    <2>2. /\ ext' \in [Worker -> Stage] /\ done' \in [Task -> SUBSET Unit]
          /\ \A v \in Worker : ext'[v] = "Finished" => ext[v] = "Finished"
      BY <1>15, <2>1, Zenon DEF DMTypes
    <2> QED
      BY <1>11, <1>15, <2>1, <2>2, Zenon
  <1>16. ASSUME NEW w \in Worker, StopWorker(w, ext[w]), UNCHANGED done
         PROVE  DMTypes' /\ UnitInv'
    <2>1. /\ UNCHANGED <<known, mode, wst, tst, hd, of, seen, cp>>
          /\ ext' = [ext EXCEPT ![w] = ext[w]] /\ Framework!Move({w}, "up", "down")
      BY <1>16, Zenon DEF StopWorker, Framework!Stop, masterVars, bookVars
    <2>2. /\ ext' \in [Worker -> Stage] /\ done' \in [Task -> SUBSET Unit]
          /\ \A v \in Worker : ext'[v] = "Finished" => ext[v] = "Finished"
      BY <1>16, <2>1, Zenon DEF DMTypes
    <2> QED
      BY <1>11, <1>16, <2>1, <2>2, Zenon
  <1>17. ASSUME NEW w \in Worker, InitWorkerFails(w) \/ FailWorker(w)
         PROVE  DMTypes' /\ UnitInv'
    <2>1. "Paused" \in Stage \ {"Finished"}
      BY DEF Stage
    <2> QED
      BY <1>15, <1>16, <1>17, <2>1, Zenon DEF InitWorkerFails, FailWorker
  <1>18. ASSUME NEW w \in Worker, SendRunning(w) \/ SendPaused(w)
         PROVE  DMTypes' /\ UnitInv'
    <2>1. PICK stage \in {"Running", "Paused"} : ext' = [ext EXCEPT ![w] = stage]
      BY <1>18, Zenon DEF SendRunning, SendPaused
    <2>2. UNCHANGED <<known, proc, mode, wst, tst, hd, of, seen, cp, done>>
      BY <1>18, Zenon DEF SendRunning, SendPaused, masterVars, bookVars
    <2>3. stage \in Stage /\ stage # "Finished"
      BY DEF Stage
    <2>4. /\ ext' \in [Worker -> Stage] /\ done' \in [Task -> SUBSET Unit]
          /\ \A v \in Worker : ext'[v] = "Finished" => ext[v] = "Finished"
      BY <2>1, <2>2, <2>3, Zenon DEF DMTypes
    <2> QED
      BY <1>11, <2>2, <2>4, Zenon
  <1>19. ASSUME NEW w \in Worker, of[w] # None, Finish(w)
         PROVE  DMTypes' /\ UnitInv'
    <2>1. /\ UNCHANGED <<known, mode, wst, tst, hd, of, seen, cp>>
          /\ ext' = [ext EXCEPT ![w] = "Finished"] /\ Framework!Move({w}, "up", "down")
          /\ done' = [done EXCEPT ![of[w].task] = @ \cup {of[w].unit}]
      BY <1>19, Zenon DEF Finish, StopWorker, Framework!Stop, masterVars, bookVars
    <2>2. of[w].task \in Task /\ of[w].unit \in Unit
      BY <1>19 DEF DMTypes, Assignment
    <2>3. "Finished" \in Stage
      BY DEF Stage
    <2>4. /\ ext' \in [Worker -> Stage]
          /\ \A v \in Worker : ext'[v] = "Finished" => ext[v] = "Finished" \/ v = w
      BY <2>1, <2>3, Zenon DEF DMTypes
    <2>5. /\ done' \in [Task -> SUBSET Unit] /\ of[w].unit \in done'[of[w].task]
          /\ \A t \in Task : done[t] \subseteq done'[t]
      BY <2>1, <2>2, Zenon DEF DMTypes
    <2>6. \A v \in Worker : ext'[v] = "Finished" =>
            ext[v] = "Finished" \/ (of[v] # None /\ of[v].unit \in done'[of[v].task])
      BY <1>19, <2>4, <2>5, Zenon
    <2> QED
      BY <1>11, <2>1, <2>4, <2>5, <2>6, Zenon
  <1>20. ASSUME NEW w \in Worker, of[w] # None, Checkpoint(w)
         PROVE  DMTypes' /\ UnitInv'
    <2>1. /\ UNCHANGED <<known, proc, mode, wst, tst, hd, of, seen, ext, done>>
          /\ cp' = [cp EXCEPT ![of[w].task] = @ \cup {of[w].unit}]
      BY <1>20, Zenon DEF Checkpoint, masterVars, bookVars
    <2>2. of[w].task \in Task /\ of[w].unit \in Unit
      BY <1>20 DEF DMTypes, Assignment
    <2>3. /\ cp' \in [Task -> SUBSET Unit]
          /\ \A t \in Task : \A u \in cp'[t] :
               u \in cp[t] \/ (t = of[w].task /\ u = of[w].unit)
      BY <2>1, <2>2, Zenon DEF DMTypes
    <2>4. DMTypes'
      BY <2>1, <2>3, Zenon DEF DMTypes, Framework!CallbacksTypeOK
    <2>5. UnitsOf' = UnitsOf /\ \A t \in Task : \A u : MayRun(t, u) => MayRun(t, u)'
      BY <2>1, MayRunKept, Zenon
    <2>6. ASSUME NEW v \in Worker
          PROVE  WorkerUnit(v)'
      <3>1. of[v] # None => of[v].task \in Task
        BY DEF DMTypes, Assignment
      <3> QED
        BY <2>1, <2>5, <3>1, Zenon DEF UnitInv, WorkerUnit
    <2>7. ASSUME NEW t \in Task
          PROVE  TaskUnit(t)'
      <3>1. of[w].unit \in UnitsOf /\ MayRun(of[w].task, of[w].unit)
        BY <1>20, Zenon DEF UnitInv, WorkerUnit
      <3>2. \A u \in cp'[t] : u \in UnitsOf /\ MayRun(t, u)
        BY <2>3, <3>1, Zenon DEF UnitInv, TaskUnit
      <3>3. \A u \in cp'[t] : u \in UnitsOf' /\ MayRun(t, u)'
        BY <2>5, <3>2, Zenon
      <3> QED
        BY <2>1, <3>3, Zenon DEF UnitInv, TaskUnit
    <2> QED
      BY <2>4, <2>6, <2>7, Zenon DEF UnitInv
  <1>21. CASE MasterStep
    BY <1>2, <1>3, <1>4, <1>5, <1>6, <1>7, <1>8, <1>9, <1>21, Zenon DEF MasterStep
  <1>22. CASE WorkerStep
    BY <1>2, <1>13, <1>17, <1>18, <1>19, <1>20, <1>22, Zenon DEF WorkerStep
  <1>23. CASE Fault
    BY <1>2, <1>10, <1>14, <1>17, <1>18, <1>23, Zenon DEF Fault
  <1> QED
    BY <1>2, <1>21, <1>22, <1>23, Zenon DEF DMNext

-----------------------------------------------------------------------------
(* The files of the dump and load workers.                                 *)

\* Worker c has dumped task t and persisted the files.
DumpKept(c, t) == of[c] = [task |-> t, unit |-> "dump"] /\ storage[c].at = "kept"

\* A worker asks for the resource of its own task.  A load worker is started
\* only when the table has a record for the task, so it never makes a directory
\* of its own: what it has open is what a dump worker of the task has kept.
WorkerStorage(w) ==
  /\ of[w] = None => home[w] = None /\ ~Asked(w)
  /\ Asked(w) => storage[w].name = NewDMResourceID(of[w].task)
  /\ of[w] # None /\ of[w].unit = "load" =>
       /\ home[w] # None => meta[NewDMResourceID(of[w].task)] # None
       /\ storage[w].at = "queried" => ~storage[w].new
       /\ storage[w].at \notin {"stored", "kept"}
       /\ storage[w].at = "open" =>
            ~storage[w].new /\ DumpKept(storage[w].creator, of[w].task)

\* Only dump workers persist files.
MarkedByDump(d) == \E t \in Task : d.name = NewDMResourceID(t) /\ DumpKept(d.creator, t)

StorageInv ==
  /\ \A w \in Worker : WorkerStorage(w)
  /\ \A d \in persisted : MarkedByDump(d)

\* The steps of the composition as far as files and assignments go.
FilesUntouched ==
  UNCHANGED resourceVars /\ \A w \in Worker : of[w] # None => of'[w] = of[w]
PlaceStep(w) ==
  /\ \E e \in Exec : Place(w, e)
  /\ of[w].unit = "load" => meta[NewDMResourceID(of[w].task)] # None
OpenStep(w) ==
  \/ QueryResource(w, NewDMResourceID(of[w].task))
  \/ OpenFails(w) \/ CreateDirectory(w) \/ GetPersistedResource(w)
PersistStep(w) ==
  of[w].unit = "dump" /\ (CreateResource(w) \/ CreateResourceLost(w) \/ SetPersisted(w))

FileStep ==
  \/ FilesUntouched
  \/ /\ UNCHANGED of
     /\ \/ \E w \in Worker : of[w] # None /\ (PlaceStep(w) \/ OpenStep(w) \/ PersistStep(w))
        \/ \E e \in Exec : LoseExecutor(e)

\* What the steps of the job master and of its workers do with files.
LEMMA FileSteps ==
  ASSUME DMTypes, UnitInv, [DMNext]_dmVars
  PROVE  FileStep
  <1>1. CASE UNCHANGED <<resourceVars, of>>
    BY <1>1, Zenon DEF FileStep, FilesUntouched
  <1>2. CASE TickImpl /\ UNCHANGED resourceVars
    <2>1. \A w \in Worker : of[w] # None => of'[w] = of[w]
      BY <1>2, TickFacts, ZenonT(40) DEF TickStep, Created, UnitInv, WorkerUnit
    <2> QED
      BY <1>2, <2>1, Zenon DEF FileStep, FilesUntouched
  <1>3. CASE MasterStep
    <2>1. \/ TickImpl /\ UNCHANGED resourceVars
          \/ UNCHANGED <<resourceVars, of>>
      BY <1>3, Zenon DEF MasterStep, InitImpl, InitFails, MarkInitialized,
         OnMasterRecovered, WorkerTick, TaskTick, CloseImpl, CloseFails, CloseRound,
         OnWorkerDispatched, OnWorkerOnline, OnWorkerOffline, ReceiveStatus, unitVars
    <2> QED
      BY <1>1, <1>2, <2>1, Zenon
  <1>4. ASSUME NEW w \in Worker, of[w] # None, NEW e \in Exec, StartWorker(w, e)
        PROVE  FileStep
    <2>1. /\ Place(w, e) /\ UNCHANGED of
          /\ workerIdxInSeq(of[w].unit) # 1 => meta[NewDMResourceID(of[w].task)] # None
      BY <1>4, Zenon DEF StartWorker, unitVars
    <2>2. of[w].unit \in UnitsOf /\ mode \in Mode
      BY <1>4, Zenon DEF UnitInv, WorkerUnit, DMTypes
    <2>3. workerSeq[workerIdxInSeq(of[w].unit)] = of[w].unit
      BY <2>2, IndexOf, Zenon
    <2>4. of[w].unit = "load" => workerSeq[1] = "dump"
      BY <2>2, Sequence, Zenon
    <2>5. PlaceStep(w)
      BY <2>1, <2>3, <2>4, Zenon DEF PlaceStep
    <2> QED
      BY <1>4, <2>1, <2>5, Zenon DEF FileStep
  <1>5. CASE WorkerStep
    <2>1. PICK w \in Worker : of[w] # None /\
            (\/ AbandonWorker(w) \/ \E e \in Exec : StartWorker(w, e)
             \/ OpenStorage(w) \/ InitWorkerFails(w) \/ SendRunning(w)
             \/ Checkpoint(w) \/ PersistDump(w) \/ Finish(w))
      BY <1>5, Zenon DEF WorkerStep
    <2>2. CASE AbandonWorker(w) \/ InitWorkerFails(w) \/ SendRunning(w) \/ Checkpoint(w)
               \/ Finish(w)
      BY <1>1, <2>2, Zenon DEF AbandonWorker, InitWorkerFails, SendRunning, Checkpoint,
         Finish, StopWorker, unitVars
    <2>3. CASE OpenStorage(w) \/ PersistDump(w)
      BY <2>1, <2>3, Zenon DEF OpenStorage, PersistDump, OpenStep, PersistStep, unitVars,
         FileStep
    <2> QED
      BY <1>4, <2>1, <2>2, <2>3, Zenon
  <1>6. CASE Fault
    <2>1. CASE \E e \in Exec : LoseExecutorAndWorkers(e)
      BY <2>1, Zenon DEF LoseExecutorAndWorkers, unitVars, FileStep
    <2>2. CASE \/ CrashMaster \/ Restart \/ DoPollFails \/ MarkFails
               \/ \E w \in Worker : SendPaused(w) \/ FailWorker(w)
      BY <1>1, <2>2, Zenon DEF CrashMaster, Restart, DoPollFails, MarkFails, SendPaused,
         FailWorker, StopWorker, unitVars
    <2> QED
      BY <1>6, <2>1, <2>2, Zenon DEF Fault
  <1>7. CASE UNCHANGED dmVars
    BY <1>1, <1>7, Zenon DEF dmVars, unitVars
  <1> QED
    BY <1>3, <1>5, <1>6, <1>7, Zenon DEF DMNext

\* Seen from the brokers they are steps of ExternalResource.
LEMMA FileStepWorks ==
  ASSUME DMTypes, FileStep
  PROVE  WorkingStep \/ UNCHANGED resourceVars
  <1>1. \A w \in Worker : of[w] # None => NewDMResourceID(of[w].task) \in Resource
    <2> SUFFICES ASSUME NEW w \in Worker, of[w] # None
                 PROVE  NewDMResourceID(of[w].task) \in Resource
      BY Zenon
    <2>1. of[w].task \in Task
      BY DEF DMTypes, Assignment
    <2> QED
      BY <2>1, TaskAssumption, Zenon
  <1> QED
    BY <1>1, Zenon DEF FileStep, FilesUntouched, PlaceStep, OpenStep, PersistStep,
       WorkingStep, StorageStep

\* What a dump worker has kept stays with it.
LEMMA DumpStays ==
  ASSUME DMTypes, \A v \in Worker : of[v] # None => of'[v] = of[v],
         \A v \in Worker : storage[v].at = "kept" => storage'[v].at = "kept",
         NEW c \in Worker, NEW t \in Task, DumpKept(c, t)
  PROVE  DumpKept(c, t)'
  <1>1. of[c] = [task |-> t, unit |-> "dump"] /\ storage[c].at = "kept"
    BY Zenon DEF DumpKept
  <1>2. of[c] # None
    BY <1>1, AssignmentOf DEF Unit
  <1> QED
    BY <1>1, <1>2, Zenon DEF DumpKept

\* A step of worker w, or of none, leaves what is said of the other workers and
\* of the marks as it was.
LEMMA StorageCarried ==
  ASSUME DMTypes, StorageTypes, StorageInv, UNCHANGED of, NEW w,
         w \in Worker => (storage[w].at = "kept" => storage'[w].at = "kept"),
         \A v \in Worker \ {w} : storage'[v] = storage[v] /\ home'[v] = home[v],
         \A r \in Resource : meta[r] # None => meta'[r] # None
  PROVE  /\ \A v \in Worker \ {w} : WorkerStorage(v)'
         /\ \A d \in persisted : MarkedByDump(d)'
  <1>1. \A c \in Worker, t \in Task : DumpKept(c, t) => DumpKept(c, t)'
    BY DumpStays, Zenon
  <1>2. ASSUME NEW v \in Worker \ {w}
        PROVE  WorkerStorage(v)'
    <2>1. /\ WorkerStorage(v) /\ of'[v] = of[v]
          /\ storage'[v] = storage[v] /\ home'[v] = home[v]
      BY Zenon DEF StorageInv
    <2>2. of[v] # None => of[v].task \in Task
      BY DEF DMTypes, Assignment
    <2>3. of[v] # None => NewDMResourceID(of[v].task) \in Resource
      BY <2>2, TaskAssumption, Zenon
    <2>4. Asked(v)' <=> Asked(v)
      BY <2>1, Zenon DEF Asked
    <2>5. storage[v].at = "open" => storage[v].creator \in Worker
      BY Zenon DEF StorageTypes, Asked
    <2>6. of[v] # None /\ of[v].unit = "load" /\ storage[v].at = "open" =>
            DumpKept(storage[v].creator, of[v].task)'
      BY <1>1, <2>1, <2>2, <2>5, Zenon DEF WorkerStorage
    <2> QED
      BY <2>1, <2>3, <2>4, <2>6, Zenon DEF WorkerStorage, NewDMResourceID
  <1>3. ASSUME NEW d \in persisted
        PROVE  MarkedByDump(d)'
    <2>1. d.creator \in Worker
      BY Zenon DEF StorageTypes, Directory
    <2> QED
      BY <1>1, <2>1, Zenon DEF StorageInv, MarkedByDump, NewDMResourceID
  <1> QED
    BY <1>2, <1>3, Zenon

\* Two tasks have two resources.
LEMMA ResourceOfTask ==
  ASSUME NEW s, NEW t, NewDMResourceID(s) = NewDMResourceID(t)
  PROVE  s = t
  BY DEF NewDMResourceID

\* Steps that touch no file: at most new workers are created.
LEMMA StorageUntouched ==
  ASSUME DMTypes, StorageTypes, StorageInv, FilesUntouched
  PROVE  StorageInv'
  <1>1. /\ UNCHANGED <<storage, home, meta, persisted>>
        /\ \A w \in Worker : of[w] # None => of'[w] = of[w]
    BY Zenon DEF FilesUntouched, resourceVars
  <1>2. \A c \in Worker, t \in Task : DumpKept(c, t) => DumpKept(c, t)'
    BY <1>1, DumpStays, Zenon
  <1>3. ASSUME NEW w \in Worker
        PROVE  WorkerStorage(w)'
    <2>1. WorkerStorage(w) /\ (Asked(w)' <=> Asked(w))
      BY <1>1, Zenon DEF StorageInv, Asked
    <2>2. CASE of[w] = None
      <3>1. home'[w] = None /\ ~Asked(w)'
        BY <1>1, <2>1, <2>2, Zenon DEF WorkerStorage
      <3>2. storage'[w].at \notin {"queried", "open", "stored", "kept"}
        BY <3>1, Zenon DEF Asked
      <3> QED
        BY <3>1, <3>2, Zenon DEF WorkerStorage
    <2>3. CASE of[w] # None
      <3>1. of'[w] = of[w]
        BY <1>1, <2>3, Zenon
      <3>2. of[w].task \in Task
        BY <2>3 DEF DMTypes, Assignment
      <3>3. storage[w].at = "open" => storage[w].creator \in Worker
        BY Zenon DEF StorageTypes, Asked
      <3>4. of[w].unit = "load" /\ storage[w].at = "open" =>
              DumpKept(storage[w].creator, of[w].task)'
        BY <1>1, <1>2, <2>1, <2>3, <3>1, <3>2, <3>3, Zenon DEF WorkerStorage
      <3> QED
        BY <1>1, <2>1, <2>3, <3>1, <3>4, Zenon DEF WorkerStorage, NewDMResourceID
    <2> QED
      BY <2>2, <2>3, Zenon
  <1>4. ASSUME NEW d \in persisted
        PROVE  MarkedByDump(d)'
    <2>1. d.creator \in Worker
      BY Zenon DEF StorageTypes, Directory
    <2> QED
      BY <1>2, <2>1, Zenon DEF StorageInv, MarkedByDump, NewDMResourceID
  <1> QED
    BY <1>1, <1>3, <1>4, Zenon DEF StorageInv

\* Every step keeps what is said of the files of dump and load workers.
LEMMA StorageInvStep ==
  ASSUME DMTypes, FilesInv, StorageInv, FileStep
  PROVE  StorageInv'
  <1>0. /\ StorageTypes /\ OwnFiles
        /\ \A w \in Worker : WorkerStorage(w)
        /\ storage \in [Worker -> Storage]
    BY Zenon DEF FilesInv, OwnerInv, StorageInv, StorageTypes
  <1>1. CASE FilesUntouched
    BY <1>0, <1>1, StorageUntouched, Zenon
  <1>2. ASSUME NEW e \in Exec, LoseExecutor(e), UNCHANGED of
        PROVE  StorageInv'
    <2>1. UNCHANGED <<home, meta, storage>> /\ persisted' \subseteq persisted
      BY <1>2, Zenon DEF LoseExecutor
    <2>2. PICK x : x \notin Worker
      BY ResourceAssumption, Zenon
    <2>3. \A v \in Worker \ {x} : WorkerStorage(v)'
      BY <1>0, <1>2, <2>1, <2>2, StorageCarried, Zenon
    <2>4. \A d \in persisted : MarkedByDump(d)'
      BY <1>0, <1>2, <2>1, <2>2, StorageCarried, Zenon
    <2> QED
      BY <2>1, <2>2, <2>3, <2>4, Zenon DEF StorageInv
  <1>3. ASSUME NEW w \in Worker, of[w] # None, UNCHANGED of,
               storage[w].at = "kept" => storage'[w].at = "kept",
               \A v \in Worker \ {w} : storage'[v] = storage[v] /\ home'[v] = home[v],
               \A r \in Resource : meta[r] # None => meta'[r] # None,
               \A d \in persisted' : d \in persisted \/ MarkedByDump(d)',
               Asked(w)' => storage'[w].name = NewDMResourceID(of[w].task),
               of[w].unit = "load" =>
                 /\ home'[w] # None => meta'[NewDMResourceID(of[w].task)] # None
                 /\ storage'[w].at = "queried" => ~storage'[w].new
                 /\ storage'[w].at \notin {"stored", "kept"}
                 /\ storage'[w].at = "open" =>
                      /\ ~storage'[w].new
                      /\ \E c \in Worker : storage'[w].creator = c /\ DumpKept(c, of[w].task)
        PROVE  StorageInv'
    <2>1. /\ \A v \in Worker \ {w} : WorkerStorage(v)'
          /\ \A d \in persisted : MarkedByDump(d)'
      BY <1>0, <1>3, StorageCarried, ZenonT(40)
    <2>2. of'[w] = of[w] /\ of[w].task \in Task
      BY <1>3 DEF DMTypes, Assignment
    <2>3. \A c \in Worker, t \in Task : DumpKept(c, t) => DumpKept(c, t)'
      BY <1>3, DumpStays, Zenon
    <2>4. of[w].unit = "load" /\ storage'[w].at = "open" =>
            DumpKept(storage[w].creator, of[w].task)'
      BY <1>3, <2>2, <2>3, Zenon
    <2>5. WorkerStorage(w)'
      BY <1>3, <2>2, <2>4, Zenon DEF WorkerStorage, NewDMResourceID
    <2> QED
      BY <1>3, <2>1, <2>5, Zenon DEF StorageInv
  <1>4. ASSUME NEW w \in Worker,
               NEW at \in {"open", "stored", "kept", "failed"}, Goto(w, at)
        PROVE  /\ storage'[w].at = at
               /\ storage'[w].name = storage[w].name
               /\ storage'[w].creator = storage[w].creator
               /\ storage'[w].new = storage[w].new
               /\ \A v \in Worker \ {w} : storage'[v] = storage[v]
    BY <1>0, <1>4 DEF Goto, Storage
  <1>5. ASSUME NEW w \in Worker, of[w] # None
        PROVE  /\ WorkerStorage(w) /\ of[w].task \in Task
               /\ NewDMResourceID(of[w].task) \in Resource
    <2>1. of[w].task \in Task
      BY <1>5 DEF DMTypes, Assignment
    <2> QED
      BY <1>0, <2>1, TaskAssumption, Zenon
  <1>6. ASSUME NEW w \in Worker, of[w] # None, UNCHANGED of, PlaceStep(w)
        PROVE  StorageInv'
    <2>1. PICK e \in Exec : Place(w, e)
      BY <1>6, Zenon DEF PlaceStep
    <2>2. /\ home[w] = None /\ home' = [home EXCEPT ![w] = e]
          /\ UNCHANGED <<meta, storage, persisted>>
      BY <2>1, Zenon DEF Place
    <2>3. /\ \A v \in Worker \ {w} : home'[v] = home[v]
          /\ of[w].unit = "load" => meta[NewDMResourceID(of[w].task)] # None
      BY <1>0, <1>6, <2>2, Zenon DEF StorageTypes, PlaceStep
    <2>4. ~Asked(w) /\ storage[w].at \notin {"queried", "open", "stored", "kept"}
      BY <1>0, <2>2, ResourceAssumption, Zenon DEF StorageTypes, Asked
    <2>5. ~Asked(w)'
      BY <2>2, <2>4, Zenon DEF Asked
    <2> QED
      BY <1>3, <1>6, <2>2, <2>3, <2>4, <2>5, Zenon
  <1>7. ASSUME NEW w \in Worker, of[w] # None, UNCHANGED of,
               QueryResource(w, NewDMResourceID(of[w].task))
        PROVE  StorageInv'
    <2>1. PICK r \in Resource : r = NewDMResourceID(of[w].task)
      BY <1>5, <1>7, Zenon
    <2> DEFINE new == [at |-> "queried", name |-> r, new |-> meta[r] = None,
                       creator |-> IF meta[r] = None THEN w ELSE meta[r].worker]
    <2>2. /\ storage[w].at = "none" /\ home[w] \in up
          /\ storage' = [storage EXCEPT ![w] = new]
          /\ UNCHANGED <<home, meta, persisted>>
      BY <1>7, <2>1, Zenon DEF QueryResource, Running
    <2>3. storage'[w] = new /\ \A v \in Worker \ {w} : storage'[v] = storage[v]
      BY <1>0, <2>2, Zenon
    <2>4. new.at = "queried" /\ new.name = r /\ (new.new <=> meta[r] = None)
      BY Zenon
    <2>5. /\ storage'[w].at = "queried" /\ storage'[w].name = r
          /\ storage'[w].new <=> meta[r] = None
      BY <2>3, <2>4, Zenon
    <2>6. home[w] # None
      BY <1>0, <2>2, ResourceAssumption, Zenon DEF StorageTypes
    <2>7. of[w].unit = "load" => meta[r] # None
      BY <1>5, <1>7, <2>1, <2>6, Zenon DEF WorkerStorage
    <2> HIDE DEF new
    <2> QED
      BY <1>3, <1>7, <2>1, <2>2, <2>3, <2>5, <2>7, Zenon
  <1>8. ASSUME NEW w \in Worker, of[w] # None, UNCHANGED of,
               OpenFails(w) \/ CreateDirectory(w)
        PROVE  StorageInv'
    <2>1. UNCHANGED <<home, meta, persisted>> /\ storage[w].at = "queried"
      BY <1>8, Zenon DEF OpenFails, CreateDirectory
    <2>2. PICK at \in {"open", "failed"} : Goto(w, at) /\ (at = "open" => storage[w].new)
      BY <1>8, Zenon DEF OpenFails, CreateDirectory
    <2>3. /\ storage'[w].at = at /\ storage'[w].name = storage[w].name
          /\ \A v \in Worker \ {w} : storage'[v] = storage[v]
      BY <1>4, <2>2, Zenon
    <2>4. storage[w].name = NewDMResourceID(of[w].task)
      BY <1>5, <1>8, <2>1, Zenon DEF WorkerStorage, Asked
    <2>5. of[w].unit = "load" => /\ home[w] # None => meta[NewDMResourceID(of[w].task)] # None
                                 /\ at # "open"
      BY <1>5, <1>8, <2>1, <2>2, Zenon DEF WorkerStorage
    <2>6. at \notin {"queried", "stored", "kept"}
      BY <2>2, Zenon
    <2> QED
      BY <1>3, <1>8, <2>1, <2>3, <2>4, <2>5, <2>6, Zenon
  <1>9. ASSUME NEW w \in Worker, of[w] # None, UNCHANGED of, GetPersistedResource(w)
        PROVE  StorageInv'
    <2>1. /\ UNCHANGED <<home, meta, persisted>>
          /\ storage[w].at = "queried" /\ ~storage[w].new
      BY <1>9, Zenon DEF GetPersistedResource
    <2>2. PICK at \in {"open", "failed"} :
            Goto(w, at) /\ (at = "open" => Path(w) \in persisted)
      BY <1>9, Zenon DEF GetPersistedResource
    <2>3. /\ storage'[w].at = at /\ storage'[w].name = storage[w].name
          /\ storage'[w].creator = storage[w].creator /\ storage'[w].new = storage[w].new
          /\ \A v \in Worker \ {w} : storage'[v] = storage[v]
      BY <1>4, <2>2, Zenon
    <2>4. /\ storage[w].name = NewDMResourceID(of[w].task)
          /\ storage[w].creator \in Worker
      BY <1>0, <1>5, <1>9, <2>1, Zenon DEF WorkerStorage, Asked, StorageTypes
    <2>5. at = "open" => DumpKept(storage[w].creator, of[w].task)
      <3> SUFFICES ASSUME at = "open"
                   PROVE  DumpKept(storage[w].creator, of[w].task)
        BY Zenon
      <3>1. MarkedByDump(Path(w))
        BY <2>2, Zenon DEF StorageInv
      <3>2. Path(w).creator = storage[w].creator /\ Path(w).name = storage[w].name
        BY DEF Path
      <3>3. PICK t \in Task : storage[w].name = NewDMResourceID(t)
                              /\ DumpKept(storage[w].creator, t)
        BY <3>1, <3>2, Zenon DEF MarkedByDump
      <3>4. t = of[w].task
        BY <2>4, <3>3, ResourceOfTask, Zenon
      <3> QED
        BY <3>3, <3>4, Zenon
    <2>6. of[w].unit = "load" => (home[w] # None => meta[NewDMResourceID(of[w].task)] # None)
      BY <1>5, <1>9, Zenon DEF WorkerStorage
    <2>7. at \notin {"queried", "stored", "kept"}
      BY <2>2, Zenon
    <2> QED
      BY <1>3, <1>9, <2>1, <2>3, <2>4, <2>5, <2>6, <2>7, Zenon
  <1>10. ASSUME NEW w \in Worker, of[w] # None, UNCHANGED of, of[w].unit = "dump",
                CreateResource(w) \/ CreateResourceLost(w)
         PROVE  StorageInv'
    <2>1. storage[w].at = "open" /\ Insert(w) /\ UNCHANGED <<home, persisted>>
      BY <1>10, Zenon DEF CreateResource, CreateResourceLost
    <2>2. /\ storage'[w].at \in {"open", "stored"} /\ storage'[w].name = storage[w].name
          /\ \A v \in Worker \ {w} : storage'[v] = storage[v]
      BY <1>4, <1>10, <2>1, Zenon DEF CreateResource, CreateResourceLost
    <2>3. storage[w].name = NewDMResourceID(of[w].task)
      BY <1>5, <1>10, <2>1, Zenon DEF WorkerStorage, Asked
    <2>4. \A r \in Resource : meta[r] # None => meta'[r] # None
      BY <1>0, <2>1, Zenon DEF Insert, StorageTypes
    <2> QED
      BY <1>3, <1>10, <2>1, <2>2, <2>3, <2>4, Zenon
  <1>11. ASSUME NEW w \in Worker, of[w] # None, UNCHANGED of, of[w].unit = "dump",
                SetPersisted(w)
         PROVE  StorageInv'
    <2>1. /\ storage[w].at = "stored" /\ Goto(w, "kept") /\ UNCHANGED <<home, meta>>
          /\ persisted' = persisted \cup {Path(w)}
      BY <1>11, Zenon DEF SetPersisted
    <2>2. /\ storage'[w].at = "kept" /\ storage'[w].name = storage[w].name
          /\ \A v \in Worker \ {w} : storage'[v] = storage[v]
      BY <1>4, <2>1, Zenon
    <2>3. storage[w].name = NewDMResourceID(of[w].task) /\ of[w].task \in Task
      BY <1>5, <1>11, <2>1, Zenon DEF WorkerStorage, Asked
    <2>4. storage[w].creator = w
      BY <1>0, <2>1, ZenonT(40) DEF OwnFiles, OwnFile
    <2>5. of[w] = [task |-> of[w].task, unit |-> "dump"]
      BY <1>11 DEF DMTypes, Assignment
    <2>6. PICK d : d = Path(w)
      BY Zenon
    <2>7. d.creator = w /\ d.name = storage[w].name
      BY <2>4, <2>6 DEF Path
    <2>8. MarkedByDump(d)'
      <3>1. PICK t \in Task : t = of[w].task
        BY <2>3, Zenon
      <3>2. d.name = NewDMResourceID(t)' /\ DumpKept(d.creator, t)'
        BY <1>11, <2>2, <2>3, <2>5, <2>7, <3>1, Zenon DEF NewDMResourceID, DumpKept
      <3> QED
        BY <3>2, Zenon DEF MarkedByDump
    <2>9. \A x \in persisted' : x \in persisted \/ MarkedByDump(x)'
      BY <2>1, <2>6, <2>8, Zenon
    <2> QED
      BY <1>3, <1>11, <2>1, <2>2, <2>3, <2>9, Zenon
  <1> QED
    BY <1>1, <1>2, <1>6, <1>7, <1>8, <1>9, <1>10, <1>11, Zenon
    DEF FileStep, OpenStep, PersistStep

\* The dump of a task is finished only by a worker that has kept it.
DumpsDone == \A t \in Task : "dump" \in done[t] => \E c \in Worker : DumpKept(c, t)

\* A dump counts as finished only once its worker has kept the files.
LEMMA DumpsDoneStep ==
  ASSUME DMTypes, StorageTypes, FileStep, DumpsDone, [DMNext]_dmVars
  PROVE  DumpsDone'
  <1>1. \/ UNCHANGED storage
        \/ \E w \in Worker : /\ storage[w].at # "kept"
                             /\ \A v \in Worker \ {w} : storage'[v] = storage[v]
    <2>1. \/ UNCHANGED storage
          \/ \E w \in Worker : OpenStep(w) \/ PersistStep(w)
      BY Zenon DEF FileStep, FilesUntouched, resourceVars, PlaceStep, Place, LoseExecutor
    <2>2. ASSUME NEW w \in Worker, OpenStep(w) \/ PersistStep(w)
          PROVE  \/ UNCHANGED storage
                 \/ /\ storage[w].at # "kept"
                    /\ \A v \in Worker \ {w} : storage'[v] = storage[v]
      <3>1. storage \in [Worker -> Storage]
        BY Zenon DEF StorageTypes
      <3>2. \A at : Goto(w, at) => \A v \in Worker \ {w} : storage'[v] = storage[v]
        BY <3>1, Zenon DEF Goto
      <3>3. CASE QueryResource(w, NewDMResourceID(of[w].task))
        BY <3>1, <3>3, Zenon DEF QueryResource
      <3>4. CASE OpenFails(w) \/ CreateDirectory(w) \/ GetPersistedResource(w)
        BY <3>2, <3>4, Zenon DEF OpenFails, CreateDirectory, GetPersistedResource
      <3>5. CASE CreateResource(w) \/ CreateResourceLost(w) \/ SetPersisted(w)
        BY <3>2, <3>5, Zenon DEF CreateResource, CreateResourceLost, SetPersisted
      <3> QED
        BY <2>2, <3>3, <3>4, <3>5, Zenon DEF OpenStep, PersistStep
    <2> QED
      BY <2>1, <2>2, Zenon
  <1>2. \A v \in Worker : storage[v].at = "kept" => storage'[v].at = "kept"
    BY <1>1, Zenon
  <1>3. \A v \in Worker : of[v] # None => of'[v] = of[v]
    BY Zenon DEF FileStep, FilesUntouched
  <1>4. \A c \in Worker, t \in Task : DumpKept(c, t) => DumpKept(c, t)'
    BY <1>2, <1>3, DumpStays, Zenon
  <1>5. CASE UNCHANGED done
    BY <1>4, <1>5, Zenon DEF DumpsDone
  <1>6. ASSUME NEW w \in Worker, of[w] # None, Finish(w)
        PROVE  DumpsDone'
    <2>1. /\ done' = [done EXCEPT ![of[w].task] = @ \cup {of[w].unit}] /\ MayFinish(w)
      BY <1>6, Zenon DEF Finish
    <2>2. of[w].task \in Task /\ of[w] = [task |-> of[w].task, unit |-> of[w].unit]
      BY <1>6 DEF DMTypes, Assignment
    <2>3. of[w].unit = "dump" => DumpKept(w, of[w].task)
      BY <2>1, <2>2, Zenon DEF MayFinish, DumpKept
    <2>4. ASSUME NEW t \in Task, "dump" \in done'[t]
          PROVE  \E c \in Worker : DumpKept(c, t)
      <3>1. "dump" \in done[t] \/ (t = of[w].task /\ of[w].unit = "dump")
        BY <2>1, <2>2, <2>4, Zenon DEF DMTypes
      <3> QED
        BY <2>3, <3>1, Zenon DEF DumpsDone
    <2> QED
      BY <1>4, <2>4, Zenon DEF DumpsDone
  <1>7. UNCHANGED done \/ \E w \in Worker : of[w] # None /\ Finish(w)
    <2>1. CASE MasterStep
      BY <2>1, Zenon DEF MasterStep, InitImpl, InitFails, MarkInitialized,
         OnMasterRecovered, WorkerTick, TaskTick, CloseImpl, CloseFails, CloseRound,
         OnWorkerDispatched, OnWorkerOnline, OnWorkerOffline, ReceiveStatus, unitVars
    <2>2. CASE WorkerStep
      BY <2>2, Zenon DEF WorkerStep, AbandonWorker, StartWorker, OpenStorage,
         InitWorkerFails, SendRunning, Checkpoint, PersistDump, unitVars
    <2>3. CASE Fault
      BY <2>3, Zenon DEF Fault, CrashMaster, Restart, DoPollFails, MarkFails, SendPaused,
         FailWorker, LoseExecutorAndWorkers, unitVars
    <2>4. CASE UNCHANGED dmVars
      BY <2>4, Zenon DEF dmVars, unitVars
    <2> QED
      BY <2>1, <2>2, <2>3, <2>4, Zenon DEF DMNext
  <1> QED
    BY <1>5, <1>6, <1>7, Zenon

-----------------------------------------------------------------------------
(* The books of the job master.                                            *)

\* A master that has not made its components knows no worker and has no books.
\* While it runs, a handle is that of the task's Online worker, which has been
\* reported online and not gone since; there is none before the job is found.
TaskBooks(t) ==
  /\ jm \in {"starting", "marking"} => wst[t] = None /\ hd[t] = None
  /\ wst[t] # None /\ wst[t].stage = "Online" =>
       /\ hd[t] = wst[t].id /\ tst[t] # "Unscheduled"
       /\ jm = "running" => known[wst[t].id] = "online"
  /\ jm = "running" /\ hd[t] # None =>
       cache /\ wst[t] # None /\ wst[t].id = hd[t] /\ wst[t].stage = "Online"

\* A master that cannot find its job creates no workers, and recovers none.
MasterBooks ==
  /\ jm = "marking" => cache
  /\ jm = "starting" => \A w \in Worker : known[w] = "unknown"
  /\ jm = "running" /\ ~cache => \A w \in Worker : known[w] \notin {"creating", "online"}

BooksInv == MasterBooks /\ \A t \in Task : TaskBooks(t)

\* A master that is neither starting nor running keeps its books as they are.
LEMMA BooksFrozen ==
  ASSUME BooksInv, jm' \notin {"starting", "marking", "running"}, UNCHANGED bookVars
  PROVE  BooksInv'
  BY Zenon DEF BooksInv, MasterBooks, TaskBooks, bookVars

\* A worker is reported online, or gone.
LEMMA BooksRecorded ==
  ASSUME DMTypes, UnitInv, BooksInv, jm = "running", UNCHANGED <<jm, cache>>,
         NEW w \in Worker, NEW t \in Task, NEW stage, NEW taskStage, NEW handle,
         Recorded(t, w, stage, taskStage, handle), NEW what, what # "creating",
         \A v \in Worker : known'[v] = IF v = w THEN what ELSE known[v],
         stage = "Online" => what = "online" /\ handle = w /\ cache,
         stage = "Online" => taskStage # "Unscheduled",
         stage # "Online" => what # "online" /\ handle = None
  PROVE  BooksInv'
  <1>1. /\ wst'[t] # None /\ wst'[t].id = w /\ wst'[t].stage = stage
        /\ tst'[t] = taskStage /\ hd'[t] = handle
        /\ \A s \in Task \ {t} : wst'[s] = wst[s] /\ tst'[s] = tst[s] /\ hd'[s] = hd[s]
    BY Zenon DEF Recorded
  <1>2. of[w].task = t
    <2>1. of[w] = [task |-> t, unit |-> of[w].unit]
      BY Zenon DEF Recorded
    <2> QED
      BY <2>1
  <1>3. MasterBooks'
    BY Zenon DEF BooksInv, MasterBooks
  <1>4. TaskBooks(t)'
    BY <1>1, Zenon DEF TaskBooks
  <1>5. ASSUME NEW s \in Task, s # t
        PROVE  TaskBooks(s)'
    <2>1. TaskBooks(s) /\ wst'[s] = wst[s] /\ tst'[s] = tst[s] /\ hd'[s] = hd[s]
      BY <1>1, <1>5, Zenon DEF BooksInv
    <2>2. CASE wst[s] = None
      BY <2>1, <2>2, Zenon DEF TaskBooks
    <2>3. CASE wst[s] # None
      <3>1. of[wst[s].id] = [task |-> s, unit |-> wst[s].unit]
        BY <2>3, Zenon DEF UnitInv, TaskUnit
      <3>2. wst[s].id # w
        BY <1>2, <1>5, <3>1
      <3>3. wst[s].id \in Worker
        BY <2>3 DEF DMTypes, WorkerStatus
      <3>4. known'[wst[s].id] = known[wst[s].id]
        BY <3>2, <3>3, Zenon
      <3> QED
        BY <2>1, <3>4, Zenon DEF TaskBooks
    <2> QED
      BY <2>2, <2>3, Zenon
  <1> QED
    BY <1>3, <1>4, <1>5, Zenon DEF BooksInv

\* A tick keeps the handles and the statuses they belong to.
LEMMA BooksTick ==
  ASSUME DMTypes, UnitInv, BooksInv, jm = "running", TickStep, UNCHANGED <<jm, tst, hd>>
  PROVE  BooksInv'
  <1>1. ASSUME NEW w \in Worker, known[w] # "unknown"
        PROVE  known'[w] = known[w]
    BY <1>1, Zenon DEF UnitInv, WorkerUnit, TickStep, Created
  <1>2. ~cache' => ~cache /\ \A w \in Worker : known'[w] = known[w]
    BY Zenon DEF TickStep, Created
  <1>3. MasterBooks'
    BY <1>2, Zenon DEF BooksInv, MasterBooks
  <1>4. ASSUME NEW t \in Task
        PROVE  TaskBooks(t)'
    <2>1. TaskBooks(t) /\ (cache => cache')
      BY Zenon DEF BooksInv, TickStep
    <2>2. CASE wst'[t] = wst[t]
      <3>1. wst[t] # None => wst[t].id \in Worker
        BY DEF DMTypes, WorkerStatus
      <3>2. wst[t] # None /\ wst[t].stage = "Online" => known'[wst[t].id] = "online"
        BY <1>1, <2>1, <3>1, Zenon DEF TaskBooks
      <3> QED
        BY <2>1, <2>2, <3>2, Zenon DEF TaskBooks
    <2>3. CASE wst'[t] = None /\ (wst[t] # None => wst[t].stage # "Online" \/ ~cache')
      BY <2>1, <2>3, Zenon DEF TaskBooks
    <2>4. CASE /\ hd[t] = None
               /\ \E w \in Worker : /\ Created(w) /\ of'[w].task = t
                                    /\ wst'[t] = Creating(w, of'[w].unit)
      <3>1. wst'[t].stage = "Creating"
        BY <2>4 DEF Creating
      <3> QED
        BY <2>4, <3>1, Zenon DEF TaskBooks
    <2> QED
      BY <2>2, <2>3, <2>4, Zenon DEF TickStep
  <1> QED
    BY <1>3, <1>4, Zenon DEF BooksInv

\* The rounds of CloseImpl: what is Online has its handle to the end.
LEMMA BooksClose ==
  ASSUME BooksInv, jm' \notin {"starting", "marking", "running"}, TickStep,
         UNCHANGED <<tst, hd>>
  PROVE  BooksInv'
  <1>1. MasterBooks'
    BY Zenon DEF MasterBooks
  <1>2. ASSUME NEW t \in Task
        PROVE  TaskBooks(t)'
    <2>1. CASE \E w \in Worker : wst'[t] = Creating(w, of'[w].unit)
      <3>1. wst'[t].stage = "Creating"
        BY <2>1 DEF Creating
      <3> QED
        BY <3>1, Zenon DEF TaskBooks
    <2>2. CASE wst'[t] \in {wst[t], None}
      BY <2>2, Zenon DEF BooksInv, TaskBooks
    <2> QED
      BY <2>1, <2>2, Zenon DEF TickStep
  <1> QED
    BY <1>1, <1>2, Zenon DEF BooksInv

\* Every step keeps the books in order.
LEMMA BooksStep ==
  ASSUME DMTypes, UnitInv, BooksInv, [DMNext]_dmVars
  PROVE  BooksInv'
  <1>1. CASE UNCHANGED <<known, jm, cache, bookVars>>
    BY <1>1, Zenon DEF BooksInv, MasterBooks, TaskBooks, bookVars
  <1>2. CASE \/ InitFails \/ CloseImpl \/ CloseFails \/ CrashMaster \/ DoPollFails
             \/ MarkFails
    <2>1. jm' \notin {"starting", "marking", "running"} /\ UNCHANGED bookVars
      BY <1>2, Zenon DEF InitFails, CloseImpl, CloseFails, CrashMaster, DoPollFails,
         PollFails, MarkFails
    <2> QED
      BY <2>1, BooksFrozen, Zenon
  <1>3. CASE InitImpl \/ MarkInitialized
    <2>1. /\ jm \in {"starting", "marking"} /\ jm' \in {"marking", "running"} /\ cache'
          /\ UNCHANGED bookVars
      BY <1>3, Zenon DEF InitImpl, MarkInitialized, jobVars, BooksInv, MasterBooks
    <2>2. \A t \in Task : wst'[t] = None /\ hd'[t] = None
      BY <2>1, Zenon DEF BooksInv, TaskBooks, bookVars
    <2> QED
      BY <2>1, <2>2, Zenon DEF BooksInv, MasterBooks, TaskBooks
  <1>4. CASE OnMasterRecovered
    <2>1. /\ jm = "starting" /\ UNCHANGED <<cache, bookVars>> /\ Framework!Recover
          /\ jm' = IF \E w \in Worker : known'[w] = "online" THEN "down" ELSE "running"
      BY <1>4, Zenon DEF OnMasterRecovered, jobVars
    <2>2. /\ \A t \in Task : wst'[t] = None /\ hd'[t] = None
          /\ \A w \in Worker : known[w] = "unknown"
      BY <2>1, Zenon DEF BooksInv, TaskBooks, MasterBooks, bookVars
    <2>3. \A w \in Worker : known'[w] # "creating"
      BY <2>1, <2>2, Zenon DEF Framework!Recover
    <2>4. jm' \in {"down", "running"}
      BY <2>1, Zenon
    <2>5. jm' = "running" => \A w \in Worker : known'[w] \notin {"creating", "online"}
      BY <2>1, <2>3, Zenon
    <2> QED
      BY <2>2, <2>4, <2>5, Zenon DEF BooksInv, MasterBooks, TaskBooks
  <1>5. CASE Restart
    <2>1. /\ jm' = "starting" /\ ~cache' /\ known' = [w \in Worker |-> "unknown"]
          /\ wst' = [t \in Task |-> None] /\ hd' = [t \in Task |-> None]
      BY <1>5, Zenon DEF Restart, Framework!Failover
    <2> QED
      BY <2>1, Zenon DEF BooksInv, MasterBooks, TaskBooks
  <1>6. CASE WorkerTick
    <2>1. jm = "running" /\ TickStep /\ UNCHANGED <<jm, tst, hd>>
      BY <1>6, TickFacts, Zenon DEF WorkerTick
    <2> QED
      BY <2>1, BooksTick, Zenon
  <1>7. CASE CloseRound
    <2>1. /\ TickStep /\ UNCHANGED <<tst, hd>>
          /\ jm' \in {"closing", "down"}
      BY <1>7, TickFacts, Zenon DEF CloseRound
    <2>2. jm' \notin {"starting", "marking", "running"}
      BY <2>1, Zenon
    <2> QED
      BY <2>1, <2>2, BooksClose, Zenon
  <1>8. CASE TaskTick
    <2>0. PICK got \in BOOLEAN :
            Get(got) /\ tst' = IF got THEN tst ELSE [t \in Task |-> "none"]
      BY <1>8, Zenon DEF TaskTick
    <2>1. /\ jm = "running" /\ UNCHANGED <<known, jm, wst, hd>> /\ (cache => cache')
          /\ tst' \in {tst, [t \in Task |-> "none"]}
      BY <1>8, <2>0, Zenon DEF TaskTick, Get
    <2>2. \A t \in Task : tst'[t] = tst[t] \/ tst'[t] = "none"
      BY <2>1, Zenon
    <2>3. \A t \in Task : TaskBooks(t)'
      BY <2>1, <2>2, Zenon DEF BooksInv, TaskBooks
    <2> QED
      BY <2>1, <2>3, Zenon DEF BooksInv, MasterBooks
  <1>9. ASSUME NEW w \in Worker, OnWorkerDispatched(w)
        PROVE  BooksInv'
    <2>1. /\ Framework!Tell(w, {"creating"}, "failed") /\ jm = "running"
          /\ wst' = [t \in Task |-> IF wst[t] # None /\ wst[t].id = w THEN None ELSE wst[t]]
          /\ UNCHANGED <<jm, cache, tst, hd>>
      BY <1>9, Zenon DEF OnWorkerDispatched, Framework!ReportFailed, jobVars
    <2>2. "failed" \in Framework!Knowledge
      BY Zenon DEF Framework!Knowledge
    <2>3. /\ known[w] = "creating"
          /\ \A v \in Worker : known'[v] = IF v = w THEN "failed" ELSE known[v]
      <3>1. known[w] \in {"creating"}
        BY <2>1, Zenon DEF Framework!Tell
      <3> QED
        BY <2>1, <2>2, <3>1, TellKnown, Zenon
    <2>4. MasterBooks'
      BY <2>1, <2>3, Zenon DEF BooksInv, MasterBooks
    <2>5. ASSUME NEW t \in Task
          PROVE  TaskBooks(t)'
      <3>1. wst[t] # None => wst[t].id \in Worker
        BY DEF DMTypes, WorkerStatus
      <3>2. CASE wst[t] # None /\ wst[t].id = w
        <4>1. wst'[t] = None /\ wst[t].stage # "Online"
          BY <2>1, <2>3, <3>2, Zenon DEF BooksInv, TaskBooks
        <4> QED
          BY <2>1, <4>1, Zenon DEF BooksInv, TaskBooks
      <3>3. CASE ~(wst[t] # None /\ wst[t].id = w)
        <4>1. /\ wst'[t] = wst[t]
              /\ wst[t] # None => known'[wst[t].id] = known[wst[t].id]
          BY <2>1, <2>3, <3>1, <3>3, Zenon
        <4> QED
          BY <2>1, <4>1, Zenon DEF BooksInv, TaskBooks
      <3> QED
        BY <3>2, <3>3, Zenon
    <2> QED
      BY <2>4, <2>5, Zenon DEF BooksInv
  <1>10. ASSUME NEW w \in Worker, OnWorkerOnline(w)
         PROVE  BooksInv'
    <2>1. /\ Framework!Tell(w, {"creating"}, "online") /\ jm = "running"
          /\ UNCHANGED cache
          /\ IF seen[w] = "none" THEN PollFails ELSE SetBooks(w, "Online", seen[w], w)
      BY <1>10, Zenon DEF OnWorkerOnline, Framework!ReportOnline, jobVars
    <2>2. "online" \in Framework!Knowledge
      BY Zenon DEF Framework!Knowledge
    <2>3. /\ known[w] = "creating"
          /\ \A v \in Worker : known'[v] = IF v = w THEN "online" ELSE known[v]
      <3>1. known[w] \in {"creating"}
        BY <2>1, Zenon DEF Framework!Tell
      <3> QED
        BY <2>1, <2>2, <3>1, TellKnown, Zenon
    <2>4. cache /\ of[w] # None
      BY <2>1, <2>3, Zenon DEF BooksInv, MasterBooks, UnitInv, WorkerUnit
    <2>5. CASE PollFails
      BY <2>5, BooksFrozen, Zenon DEF PollFails
    <2>6. CASE SetBooks(w, "Online", seen[w], w)
      <3>1. seen[w] \in Stage \cup {"Unscheduled"} /\ seen[w] # "Unscheduled"
        BY DEF DMTypes, Stage
      <3>2. PICK t \in Task : Recorded(t, w, "Online", seen[w], w)
        BY <2>4, <2>6, <3>1, SetBooksFacts, Zenon
      <3>3. UNCHANGED jm
        BY <2>6, Zenon DEF SetBooks
      <3> QED
        <4>1. PICK stage, what, taskStage, handle :
                /\ stage = "Online" /\ what = "online"
                /\ taskStage = seen[w] /\ handle = w
          BY Zenon
        <4>2. Recorded(t, w, stage, taskStage, handle)
          BY <3>2, <4>1, Zenon
        <4>3. \A v \in Worker : known'[v] = IF v = w THEN what ELSE known[v]
          BY <2>3, <4>1, Zenon
        <4>4. /\ what # "creating"
              /\ stage = "Online" => what = "online" /\ handle = w /\ cache
              /\ stage = "Online" => taskStage # "Unscheduled"
              /\ stage # "Online" => what # "online" /\ handle = None
          BY <2>4, <3>1, <4>1, Zenon
        <4>5. jm = "running" /\ UNCHANGED <<jm, cache>>
          BY <2>1, <3>3, Zenon
        <4> QED
          BY <4>2, <4>3, <4>4, <4>5, BooksRecorded
    <2> QED
      BY <2>1, <2>5, <2>6, Zenon
  <1>11. ASSUME NEW w \in Worker, OnWorkerOffline(w)
         PROVE  BooksInv'
    <2>1. /\ Framework!Tell(w, {"creating", "online", "failed"}, "gone")
          /\ jm = "running" /\ UNCHANGED cache
          /\ \/ PollFails
             \/ SetBooks(w, "Finished", "Finished", None)
             \/ SetBooks(w, "Offline", "Unscheduled", None)
      BY <1>11, Zenon DEF OnWorkerOffline, Framework!ReportOffline, jobVars
    <2>2. "gone" \in Framework!Knowledge
      BY Zenon DEF Framework!Knowledge
    <2>3. /\ known[w] \in {"creating", "online", "failed"}
          /\ \A v \in Worker : known'[v] = IF v = w THEN "gone" ELSE known[v]
      BY <2>1, <2>2, TellKnown, Zenon
    <2>4. of[w] # None
      BY <2>3, Zenon DEF UnitInv, WorkerUnit
    <2>5. CASE PollFails
      BY <2>5, BooksFrozen, Zenon DEF PollFails
    <2>6. ASSUME NEW stage \in {"Finished", "Offline"},
                 NEW taskStage \in {"Finished", "Unscheduled"},
                 SetBooks(w, stage, taskStage, None)
          PROVE  BooksInv'
      <3>1. /\ taskStage \in Stage \cup {"Unscheduled"} /\ stage # "Online"
            /\ stage \in {"Creating", "Online", "Finished", "Offline"}
        BY <2>6 DEF Stage
      <3>2. PICK t \in Task : Recorded(t, w, stage, taskStage, None)
        BY <2>4, <2>6, <3>1, SetBooksFacts, Zenon
      <3>3. UNCHANGED jm
        BY <2>6, Zenon DEF SetBooks
      <3> QED
        BY <2>1, <2>3, <3>1, <3>2, <3>3, BooksRecorded, ZenonT(40)
    <2> QED
      BY <2>1, <2>5, <2>6, Zenon
  <1>12. CASE \/ \E w \in Worker : ReceiveStatus(w)
              \/ WorkerStep
              \/ \E w \in Worker : SendPaused(w) \/ FailWorker(w)
              \/ \E e \in Exec : LoseExecutorAndWorkers(e)
              \/ UNCHANGED dmVars
    <2>1. UNCHANGED <<known, jm, cache, bookVars>>
      BY <1>12, Zenon DEF ReceiveStatus, WorkerStep, AbandonWorker, StartWorker, OpenStorage,
         InitWorkerFails, SendRunning, Checkpoint, PersistDump, Finish, SendPaused,
         FailWorker, LoseExecutorAndWorkers, StopWorker, Framework!Abandon,
         Framework!Start, Framework!Stop, masterVars, jobVars, dmVars
    <2> QED
      BY <1>1, <2>1, Zenon
  <1> QED
    BY <1>2, <1>3, <1>4, <1>5, <1>6, <1>7, <1>8, <1>9, <1>10, <1>11, <1>12, Zenon
    DEF DMNext, MasterStep, Fault

-----------------------------------------------------------------------------
(* The job master as a whole.                                              *)

DMInv == DMTypes /\ UnitInv /\ FilesInv /\ StorageInv /\ DumpsDone /\ BooksInv

\* The job master is started for the first time: there are no workers, no files
\* and no books.
LEMMA DMInitial ==
  ASSUME DMInit
  PROVE  DMInv
  <1>1. /\ \A w \in Worker : /\ of[w] = None /\ proc[w] = "none" /\ known[w] = "unknown"
                             /\ ext[w] = "none" /\ seen[w] = "none" /\ home[w] = None
        /\ \A t \in Task : wst[t] = None /\ hd[t] = None /\ cp[t] = {} /\ done[t] = {}
        /\ persisted = {} /\ jm = "starting"
    BY Zenon DEF DMInit, ResourceInit
  <1>2. DMTypes
    <2>1. mode \in Mode
      BY DEF DMInit, workerSeqMap, Mode
    <2> QED
      BY <2>1, Zenon DEF DMInit, DMTypes, Framework!CallbacksTypeOK, Framework!Knowledge,
         Framework!Processes, Stage
  <1>3. UnitInv
    BY <1>1, Zenon DEF UnitInv, WorkerUnit, TaskUnit
  <1>4. FilesInv
    BY FilesInit, Zenon DEF DMInit
  <1>5. StorageInv
    <2>1. \A w \in Worker : storage[w].at = "none"
      BY DEF DMInit, ResourceInit, NoStorage
    <2> QED
      BY <1>1, <2>1, Zenon DEF StorageInv, WorkerStorage, Asked
  <1>6. BooksInv
    BY <1>1, Zenon DEF BooksInv, MasterBooks, TaskBooks
  <1>7. DumpsDone
    BY <1>1, Zenon DEF DumpsDone
  <1> QED
    BY <1>2, <1>3, <1>4, <1>5, <1>6, <1>7, Zenon DEF DMInv

\* The inductive invariant, over failures of workers and executors, lost
\* answers, late events, and crashes and restarts of the job master.
THEOREM DMInvariant == DMSpec => []DMInv
  <1>1. DMInit => DMInv
    BY DMInitial, Zenon
  <1>2. DMInv /\ [DMNext]_dmVars => DMInv'
    <2> SUFFICES ASSUME DMInv, [DMNext]_dmVars
                 PROVE  DMInv'
      BY Zenon
    <2>1. DMTypes /\ UnitInv /\ FilesInv /\ StorageInv /\ DumpsDone /\ BooksInv
      BY Zenon DEF DMInv
    <2>2. DMTypes' /\ UnitInv'
      BY <2>1, UnitStep, Zenon
    <2>3. FileStep
      BY <2>1, FileSteps, Zenon
    <2>4. FilesInv'
      BY <2>1, <2>3, FileStepWorks, FilesStep, Zenon
    <2>5. StorageInv'
      BY <2>1, <2>3, StorageInvStep, Zenon
    <2>6. BooksInv'
      BY <2>1, BooksStep, Zenon
    <2>7. DumpsDone'
      BY <2>1, <2>3, DumpsDoneStep, Zenon DEF FilesInv, OwnerInv
    <2> QED
      BY <2>2, <2>4, <2>5, <2>6, <2>7, Zenon DEF DMInv
  <1> QED
    BY <1>1, <1>2, PTL DEF DMSpec

\* No unit of a task is started before some worker has finished the unit before
\* it: neither a status in the books nor a checkpoint makes checkAndScheduleWorkers
\* skip one, whatever was lost or came late, and whichever master reads them.
THEOREM UnitsInOrder == DMSpec => []NoUnitSkipped
  <1>1. DMInv => NoUnitSkipped
    BY Zenon DEF DMInv, UnitInv, WorkerUnit, MayRun, NoUnitSkipped
  <1> QED
    BY <1>1, DMInvariant, PTL

\* What a load worker has open are the files of a dump worker of its own task
\* that has persisted them, never an empty directory.
THEOREM LoadAfterDump == DMSpec => []LoadReadsDump
  <1>1. DMInv => LoadReadsDump
    <2> SUFFICES ASSUME StorageInv, NEW w \in Worker, of[w] # None, of[w].unit = "load",
                        storage[w].at \in {"open", "stored", "kept"}
                 PROVE  /\ ~storage[w].new
                        /\ of[storage[w].creator] = [task |-> of[w].task, unit |-> "dump"]
                        /\ storage[storage[w].creator].at = "kept"
      BY Zenon DEF DMInv, LoadReadsDump
    <2>1. WorkerStorage(w)
      BY Zenon DEF StorageInv
    <2>2. ~storage[w].new /\ DumpKept(storage[w].creator, of[w].task)
      BY <2>1, Zenon DEF WorkerStorage
    <2> QED
      BY <2>2, Zenon DEF DumpKept
  <1> QED
    BY <1>1, DMInvariant, PTL

\* The worker manager, the task manager and the message agent never contradict
\* each other about which worker of a task is Online.
THEOREM BooksConsistent == DMSpec => []BooksAgree
  <1>1. DMInv => BooksAgree
    BY Zenon DEF DMInv, BooksInv, TaskBooks, BooksAgree
  <1> QED
    BY <1>1, DMInvariant, PTL

\* Once a dump is reported as finished the table names the executor that has
\* its files, and unless that has crashed the files are there and marked, so the
\* broker opens them for the next unit.
THEOREM DumpFilesStay == DMSpec => []DumpAvailable
  <1>1. DMInv => DumpAvailable
    <2> SUFFICES ASSUME DMInv, NEW t \in Task, "dump" \in done[t], NEW r, NEW m,
                        r = NewDMResourceID(t), m = meta[r]
                 PROVE  /\ m # None
                        /\ m.exec \in up =>
                             [exec |-> m.exec, creator |-> m.worker, name |-> r]
                               \in dirs \cap persisted
      BY Zenon DEF DumpAvailable
    <2>1. PICK c \in Worker : DumpKept(c, t)
      BY Zenon DEF DMInv, DumpsDone
    <2>2. storage[c].at = "kept" /\ of[c] = [task |-> t, unit |-> "dump"]
      BY <2>1, Zenon DEF DumpKept
    <2>3. Asked(c)
      BY <2>2, Zenon DEF Asked
    <2>4. storage[c].name = NewDMResourceID(t)
      <3>1. storage[c].name = NewDMResourceID(of[c].task)
        BY <2>3, Zenon DEF DMInv, StorageInv, WorkerStorage
      <3>2. of[c].task = t
        BY <2>2
      <3> QED
        BY <3>1, <3>2, Zenon
    <2>5. storage[c].creator = c /\ (home[c] \in up => Path(c) \in persisted)
      BY <2>2, Zenon DEF DMInv, FilesInv, OwnFiles, OwnFile
    <2>6. meta[storage[c].name] = [worker |-> storage[c].creator, exec |-> home[c]]
      BY <2>2, Zenon DEF DMInv, FilesInv, OwnerInv, StoredIsRecorded
    <2>7. home[c] \in Exec
      BY <2>3, Zenon DEF DMInv, FilesInv, OwnerInv, StorageTypes
    <2>8. m = [worker |-> c, exec |-> home[c]] /\ m.worker = c /\ m.exec = home[c]
      <3>1. m = [worker |-> c, exec |-> home[c]]
        BY <2>4, <2>5, <2>6, Zenon
      <3> QED
        BY <3>1
    <2>9. m # None
      BY <2>7, <2>8, ResourceAssumption DEF Record
    <2>10. Path(c) = [exec |-> home[c], creator |-> c, name |-> r]
      BY <2>4, <2>5, Zenon DEF Path
    <2>11. home[c] \in up => Path(c) \in dirs \cap persisted
      BY <2>5, Zenon DEF DMInv, FilesInv, MarkedOnDisk
    <2> QED
      BY <2>8, <2>9, <2>10, <2>11, Zenon
  <1> QED
    BY <1>1, DMInvariant, PTL
=============================================================================
