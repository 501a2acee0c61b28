------------------------ MODULE TaskDispatch_proofs -------------------------
(***************************************************************************)
(* Proofs about the TaskRunner and the two-phase dispatch, for any number  *)
(* of tasks, containers, requests and dispatchers and any capacity of the  *)
(* queue and of the semaphore.                                             *)
(***************************************************************************)
EXTENDS TaskDispatch, FiniteSetTheorems, SequenceTheorems, TLAPS

-----------------------------------------------------------------------------
(* The TaskRunner and its inductive invariant.                              *)

\* What is in the queue, or in Run's hands, waits to be launched, and waits
\* there once; so OnNewTask never starts a container a second time.
QueueInv ==
  /\ \A i \in 1 .. Len(inQueue) : phase[inQueue[i]] = "queued"
  /\ \A i, j \in 1 .. Len(inQueue) : inQueue[i] = inQueue[j] => i = j
  /\ runPC = "acquire" =>
       /\ current \in Container
       /\ phase[current] = "queued"
       /\ \A i \in 1 .. Len(inQueue) : inQueue[i] # current

\* A container is "submitted" until Init has succeeded.
StatusInv ==
  \A c \in Container :
    /\ phase[c] \in {"new", "queued", "init"} => status[c] = "Submitted"
    /\ phase[c] = "loop" => status[c] = "Running"
    /\ phase[c] = "close" => status[c] \in {"Submitted", "Running"}

\* The counters count finite sets.
CountInv ==
  /\ IsFiniteSet(At(Unfinished))
  /\ QuotaHeldByInit
  /\ CountMatches

StopInv == runPC \in {"wait", "returned"} => canceled

\* The counter of the wait group counts the goroutines that have not called
\* Done.  It is zero when Run returns, and none is started afterwards.
WaitInv ==
  /\ IsFiniteSet(At(Waited))
  /\ wg = Cardinality(At(Waited))
  /\ runPC = "returned" => At(Waited) = {}

RunnerInv ==
  /\ RunnerTypeOK
  /\ EntryOwned
  /\ QueueInv
  /\ StatusInv
  /\ CountInv
  /\ StopInv
  /\ WaitInv

-----------------------------------------------------------------------------
\* Moving one container to another phase adds it to, or takes it from, the set
\* of the containers in given phases.
LEMMA AtMove ==
  ASSUME NEW c \in Container, NEW p \in Phases, NEW S,
         phase \in [Container -> Phases],
         phase' = [phase EXCEPT ![c] = p]
  PROVE  At(S)' = IF p \in S THEN At(S) \cup {c} ELSE At(S) \ {c}
BY Zenon DEF At

\* Init's tasks are among the unfinished ones, so they are finitely many.
LEMMA InitFinite ==
  ASSUME IsFiniteSet(At(Unfinished))
  PROVE  /\ IsFiniteSet(At({"init"}))
         /\ Cardinality(At({"init"})) \in Nat
         /\ Cardinality(At(Unfinished)) \in Nat
<1>1. At({"init"}) \subseteq At(Unfinished)
  BY Zenon DEF At, Unfinished, InMap
<1> QED
  BY <1>1, FS_Subset, FS_CardinalityType, Zenon

\* How the two counters of a step must move for CountInv to be preserved: by
\* one for the container that enters or leaves the phases they count.
LEMMA CountMove ==
  ASSUME NEW c \in Container, NEW p \in Phases,
         phase \in [Container -> Phases],
         phase' = [phase EXCEPT ![c] = p],
         CountInv
  PROVE  /\ IsFiniteSet(At(Unfinished))'
         /\ sema \in Nat /\ taskCount \in Nat
         /\ (Cardinality(At({"init"})))' =
              IF p = "init"
              THEN IF phase[c] = "init" THEN sema ELSE sema + 1
              ELSE IF phase[c] = "init" THEN sema - 1 ELSE sema
         /\ (Cardinality(At(Unfinished)))' =
              IF p \in Unfinished
              THEN IF phase[c] \in Unfinished THEN taskCount ELSE taskCount + 1
              ELSE IF phase[c] \in Unfinished THEN taskCount - 1 ELSE taskCount
         /\ phase[c] = "init" => sema > 0
         /\ phase[c] \in Unfinished => taskCount > 0
<1>1. /\ IsFiniteSet(At(Unfinished)) /\ IsFiniteSet(At({"init"}))
      /\ sema = Cardinality(At({"init"})) /\ sema \in Nat
      /\ taskCount = Cardinality(At(Unfinished)) /\ taskCount \in Nat
  BY InitFinite, Zenon DEF CountInv, QuotaHeldByInit, CountMatches
<1>2. /\ At({"init"})' = IF p = "init" THEN At({"init"}) \cup {c} ELSE At({"init"}) \ {c}
      /\ At(Unfinished)' =
           IF p \in Unfinished THEN At(Unfinished) \cup {c} ELSE At(Unfinished) \ {c}
  BY AtMove, Zenon
<1>3. /\ c \in At({"init"}) <=> phase[c] = "init"
      /\ c \in At(Unfinished) <=> phase[c] \in Unfinished
  BY Zenon DEF At
<1>4. /\ IsFiniteSet(At(Unfinished) \cup {c})
      /\ IsFiniteSet(At(Unfinished) \ {c})
      /\ Cardinality(At(Unfinished) \cup {c}) =
           IF c \in At(Unfinished) THEN taskCount ELSE taskCount + 1
      /\ Cardinality(At(Unfinished) \ {c}) =
           IF c \in At(Unfinished) THEN taskCount - 1 ELSE taskCount
      /\ Cardinality(At({"init"}) \cup {c}) =
           IF c \in At({"init"}) THEN sema ELSE sema + 1
      /\ Cardinality(At({"init"}) \ {c}) =
           IF c \in At({"init"}) THEN sema - 1 ELSE sema
  BY <1>1, FS_AddElement, FS_RemoveElement, Zenon
<1>5. ASSUME NEW S, IsFiniteSet(S), c \in S
      PROVE  Cardinality(S) # 0
  BY <1>5, FS_EmptySet, Zenon
<1>6. /\ phase[c] = "init" => sema > 0
      /\ phase[c] \in Unfinished => taskCount > 0
  BY <1>1, <1>3, <1>5
<1> QED
  BY <1>1, <1>2, <1>3, <1>4, <1>6, Zenon

\* The same for the wait group.
LEMMA WaitMove ==
  ASSUME NEW c \in Container, NEW p \in Phases,
         phase \in [Container -> Phases],
         phase' = [phase EXCEPT ![c] = p],
         WaitInv
  PROVE  /\ IsFiniteSet(At(Waited))'
         /\ wg \in Nat
         /\ (Cardinality(At(Waited)))' =
              IF p \in Waited
              THEN IF phase[c] \in Waited THEN wg ELSE wg + 1
              ELSE IF phase[c] \in Waited THEN wg - 1 ELSE wg
         /\ phase[c] \in Waited => wg > 0 /\ runPC # "returned"
<1>1. /\ IsFiniteSet(At(Waited)) /\ wg = Cardinality(At(Waited)) /\ wg \in Nat
  BY FS_CardinalityType, Zenon DEF WaitInv
<1>2. At(Waited)' = IF p \in Waited THEN At(Waited) \cup {c} ELSE At(Waited) \ {c}
  BY AtMove, Zenon
<1>3. c \in At(Waited) <=> phase[c] \in Waited
  BY Zenon DEF At
<1>4. /\ IsFiniteSet(At(Waited) \cup {c}) /\ IsFiniteSet(At(Waited) \ {c})
      /\ Cardinality(At(Waited) \cup {c}) = IF c \in At(Waited) THEN wg ELSE wg + 1
      /\ Cardinality(At(Waited) \ {c}) = IF c \in At(Waited) THEN wg - 1 ELSE wg
  BY <1>1, FS_AddElement, FS_RemoveElement, Zenon
<1>5. c \in At(Waited) => wg # 0 /\ runPC # "returned"
  BY <1>1, FS_EmptySet, Zenon DEF WaitInv
<1>6. phase[c] \in Waited => wg > 0 /\ runPC # "returned"
  BY <1>1, <1>3, <1>5
<1> QED
  BY <1>1, <1>2, <1>3, <1>4, <1>6, Zenon

\* A goroutine takes itself off the wait group with its last step only.
LEMMA GoroutineWait ==
  ASSUME NEW c \in Container, RunnerInv, Goroutine(c)
  PROVE  WaitInv' /\ wg' \in Nat
<1>0. phase \in [Container -> Phases] /\ WaitInv
  BY Zenon DEF RunnerInv, RunnerTypeOK
<1>1. CASE TaskExit(c)
  <2>1. /\ phase[c] = "uncounted" /\ phase' = [phase EXCEPT ![c] = "exited"]
        /\ wg' = wg - 1 /\ runPC' = runPC
    BY <1>1, Zenon DEF TaskExit
  <2>2. "uncounted" \in Waited /\ "exited" \notin Waited /\ "exited" \in Phases
    BY Zenon DEF Waited, Unfinished, InMap, Phases
  <2>3. /\ IsFiniteSet(At(Waited))' /\ wg \in Nat /\ wg > 0 /\ runPC # "returned"
        /\ (Cardinality(At(Waited)))' = wg - 1
    BY <1>0, <2>1, <2>2, WaitMove, Zenon
  <2>4. wg - 1 \in Nat
    BY <2>3
  <2> QED
    BY <2>1, <2>3, <2>4, Zenon DEF WaitInv
<1>2. CASE ~TaskExit(c)
  <2>1. /\ wg' = wg /\ runPC' = runPC
        /\ phase[c] \in Waited /\ phase'[c] \in Waited
        /\ phase' = [phase EXCEPT ![c] = phase'[c]] /\ phase'[c] \in Phases
    BY <1>0, <1>2, Zenon DEF Goroutine, TaskInitialized, TaskInitFailed, EventLoopReturn,
       TaskClose, TaskDelete, TaskCountDec, Waited, Unfinished, InMap, Phases
  <2>2. /\ IsFiniteSet(At(Waited))' /\ wg \in Nat /\ runPC # "returned"
        /\ (Cardinality(At(Waited)))' = wg
    BY <1>0, <2>1, WaitMove, Zenon
  <2> QED
    BY <2>1, <2>2, Zenon DEF WaitInv
<1> QED
  BY <1>1, <1>2, Zenon

\* Run adds to the wait group before it starts a goroutine, and returns when
\* nothing is left on it.
LEMMA RunLoopWait ==
  ASSUME RunnerInv, RunLoop
  PROVE  WaitInv' /\ wg' \in Nat
<1>0. /\ phase \in [Container -> Phases] /\ WaitInv /\ wg \in Nat
  BY Zenon DEF RunnerInv, RunnerTypeOK
<1>1. CASE RunReceive \/ CancelAll
  BY <1>0, <1>1, Zenon DEF RunReceive, CancelAll, WaitInv, At
<1>2. CASE RunReturn
  <2>1. wg = 0 /\ UNCHANGED <<wg, phase>>
    BY <1>2, Zenon DEF RunReturn
  <2>2. At(Waited) = {}
    BY <1>0, <2>1, FS_EmptySet, Zenon DEF WaitInv
  <2> QED
    BY <1>0, <2>1, <2>2, Zenon DEF WaitInv, At
<1>3. CASE OnNewTask \/ OnNewTaskTimeout
  <2>1. current \in Container /\ phase[current] = "queued" /\ runPC' = "select"
    BY <1>3, Zenon DEF RunnerInv, QueueInv, OnNewTask, OnNewTaskTimeout, OnNewTaskEnds
  <2>2. \/ phase' = [phase EXCEPT ![current] = "init"] /\ wg' = wg + 1
        \/ phase' = [phase EXCEPT ![current] = "dropped"] /\ wg' = wg
    BY <1>3, Zenon DEF OnNewTask, OnNewTaskTimeout, StartGoroutine, Refuse
  <2>3. /\ "init" \in Waited /\ "dropped" \notin Waited /\ "queued" \notin Waited
        /\ "init" \in Phases /\ "dropped" \in Phases
    BY Zenon DEF Waited, Unfinished, InMap, Phases
  <2>4. IsFiniteSet(At(Waited))' /\ (Cardinality(At(Waited)))' = wg'
    BY <1>0, <2>1, <2>2, <2>3, WaitMove, Zenon
  <2>5. wg' \in Nat
    BY <1>0, <2>2
  <2> QED
    BY <2>1, <2>4, <2>5, Zenon DEF WaitInv
<1> QED
  BY <1>1, <1>2, <1>3, Zenon DEF RunLoop

-----------------------------------------------------------------------------
\* The invariant holds for a new runner.
LEMMA RunnerInitInv == RunnerInit => RunnerInv
<1> SUFFICES ASSUME RunnerInit PROVE RunnerInv
  BY Zenon
<1> USE RunnerAssumption DEF RunnerInit
<1>1. RunnerTypeOK
  <2>1. ctxDone \in BOOLEAN /\ canceled \in BOOLEAN
    BY Zenon
  <2>2. inQueue \in Seq(Container) /\ Len(inQueue) = 0
    BY EmptySeq, Zenon
  <2> QED
    BY <2>1, <2>2 DEF RunnerTypeOK, Phases
<1>2. EntryOwned /\ QueueInv /\ StatusInv /\ StopInv
  BY DEF EntryOwned, QueueInv, StatusInv, StopInv, InMap
<1>3. At({"init"}) = {} /\ At(Unfinished) = {} /\ At(Waited) = {}
  BY Zenon DEF At, Waited, Unfinished, InMap
<1>4. CountInv /\ WaitInv
  BY <1>3, FS_EmptySet, Zenon DEF CountInv, QuotaHeldByInit, CountMatches, WaitInv
<1> QED
  BY <1>1, <1>2, <1>4, Zenon DEF RunnerInv

\* A caller's addWrappedTask preserves the invariant: only a container that was
\* never submitted enters the queue.
LEMMA AddTaskInv ==
  ASSUME NEW c \in Container, RunnerInv, AddTask(c)
  PROVE  RunnerInv'
<1> USE RunnerAssumption DEF RunnerInv, AddTask, AddWrappedTask, QueueFull
<1>0. inQueue \in Seq(Container) /\ Len(inQueue) \in Nat
  BY LenProperties, Zenon DEF RunnerTypeOK
<1>1. /\ inQueue' \in Seq(Container)
      /\ Len(inQueue') = Len(inQueue) + 1
      /\ \A i \in 1 .. Len(inQueue) : inQueue'[i] = inQueue[i]
      /\ inQueue'[Len(inQueue) + 1] = c
  BY <1>0
<1>2. phase' \in [Container -> Phases] /\ \A i \in 1 .. Len(inQueue) : inQueue[i] \in Container
  BY <1>0 DEF RunnerTypeOK, Phases
<1>3. RunnerTypeOK'
  BY <1>0, <1>1, <1>2 DEF RunnerTypeOK
<1>4. EntryOwned'
  BY DEF EntryOwned, RunnerTypeOK, InMap
<1>5. QueueInv'
  <2>1. \A i \in 1 .. Len(inQueue) : inQueue[i] # c /\ phase'[inQueue[i]] = "queued"
    BY <1>2, Zenon DEF QueueInv, RunnerTypeOK
  <2>2. phase'[c] = "queued"
    BY Zenon DEF RunnerTypeOK
  <2>3. \A i \in 1 .. Len(inQueue') : i \in 1 .. Len(inQueue) \/ i = Len(inQueue) + 1
    BY <1>0, <1>1
  <2>4. \A i \in 1 .. Len(inQueue') : phase'[inQueue'[i]] = "queued"
    BY <1>1, <2>1, <2>2, <2>3, Zenon
  <2>5. ASSUME NEW i \in 1 .. Len(inQueue'), NEW j \in 1 .. Len(inQueue'),
               inQueue'[i] = inQueue'[j]
        PROVE  i = j
    BY <1>1, <2>1, <2>3, <2>5 DEF QueueInv
  <2>6. ASSUME runPC' = "acquire"
        PROVE  /\ current' \in Container
               /\ phase'[current'] = "queued"
               /\ \A i \in 1 .. Len(inQueue') : inQueue'[i] # current'
    <3>1. current \in Container /\ current # c /\ phase[current] = "queued"
      BY <2>6, Zenon DEF QueueInv
    <3>2. phase'[current] = "queued"
      BY <3>1, Zenon DEF RunnerTypeOK
    <3>3. \A i \in 1 .. Len(inQueue') : inQueue'[i] # current
      BY <1>1, <2>3, <2>6, <3>1, Zenon DEF QueueInv
    <3> QED
      BY <3>1, <3>2, <3>3, Zenon
  <2> QED
    BY <2>4, <2>5, <2>6, Zenon DEF QueueInv
<1>6. StatusInv'
  <2>1. status' = status /\ phase[c] = "new" /\ phase'[c] = "queued"
        /\ \A x \in Container \ {c} : phase'[x] = phase[x]
    BY Zenon DEF RunnerTypeOK
  <2> QED
    BY <2>1, Zenon DEF StatusInv
<1>7. /\ At({"init"})' = At({"init"}) /\ At(Unfinished)' = At(Unfinished)
      /\ At(Waited)' = At(Waited)
  <2>1. /\ phase[c] \notin Waited \cup Unfinished \cup {"init"}
        /\ phase'[c] \notin Waited \cup Unfinished \cup {"init"}
        /\ \A x \in Container \ {c} : phase'[x] = phase[x]
    BY Zenon DEF RunnerTypeOK, Waited, Unfinished, InMap
  <2> QED
    BY <2>1, Zenon DEF At
<1>8. CountInv' /\ StopInv' /\ WaitInv'
  BY <1>7, Zenon DEF CountInv, QuotaHeldByInit, CountMatches, StopInv, WaitInv
<1> QED
  BY <1>3, <1>4, <1>5, <1>6, <1>8, Zenon


\* The step every goroutine action takes: container c moves from one phase of
\* its life to another and nothing of the queue changes.
LEMMA QueueUntouched ==
  ASSUME NEW c \in Container, NEW p \in Phases, RunnerTypeOK, QueueInv,
         phase[c] # "queued",
         phase' = [phase EXCEPT ![c] = p],
         UNCHANGED <<inQueue, runPC, current>>
  PROVE  QueueInv'
<1>1. \A i \in 1 .. Len(inQueue) : inQueue[i] \in Container
  BY DEF RunnerTypeOK
<1>2. \A x \in Container : phase[x] = "queued" => phase'[x] = "queued"
  BY Zenon DEF RunnerTypeOK
<1> QED
  BY <1>1, <1>2, Zenon DEF QueueInv

\* Each step of a goroutine preserves the invariant.
LEMMA GoroutineInv ==
  ASSUME NEW c \in Container, RunnerInv, Goroutine(c)
  PROVE  RunnerInv'
<1> USE RunnerAssumption DEF RunnerInv
<1>w. WaitInv' /\ wg' \in Nat
  BY GoroutineWait, Zenon
<1>0. /\ phase \in [Container -> Phases] /\ status \in [Container -> {"Submitted", "Running", "Closing"}]
      /\ sema \in 0 .. InitConcurrency /\ taskCount \in Nat
      /\ tasks \in [Task -> Container \cup {NoContainer}] /\ TaskOf[c] \in Task
  BY Zenon DEF RunnerTypeOK
<1>1. ASSUME TaskInitialized(c) \/ TaskInitFailed(c) PROVE RunnerInv'
  <2>1. /\ phase[c] = "init" /\ sema' = sema - 1 /\ phase'[c] \in {"loop", "close"}
        /\ phase' = [phase EXCEPT ![c] = phase'[c]] /\ phase'[c] \in Phases
        /\ UNCHANGED <<inQueue, runPC, current, ctxDone, tasks, canceled, taskCount, cancelledTasks>>
    BY <1>0, <1>1, Zenon DEF TaskInitialized, TaskInitFailed, Phases
  <2>2. /\ sema > 0 /\ IsFiniteSet(At(Unfinished))'
        /\ Cardinality(At({"init"}))' = sema - 1 /\ Cardinality(At(Unfinished))' = taskCount
    BY <1>0, <2>1, CountMove, Zenon DEF Unfinished, InMap
  <2>3. RunnerTypeOK'
    BY <1>w, <1>0, <1>1, <2>1, <2>2 DEF RunnerTypeOK, TaskInitialized, TaskInitFailed
  <2>4. EntryOwned'
    BY <1>0, <2>1 DEF EntryOwned, InMap
  <2>5. QueueInv'
    BY <2>1, QueueUntouched, Zenon
  <2>6. StatusInv'
    BY <1>0, <1>1, Zenon DEF StatusInv, TaskInitialized, TaskInitFailed
  <2>7. CountInv'
    BY <2>1, <2>2, Zenon DEF CountInv, QuotaHeldByInit, CountMatches
  <2>8. StopInv'
    BY <1>0, <2>1, Zenon DEF StopInv, At, Unfinished, InMap
  <2> QED
    BY <1>w, <2>3, <2>4, <2>5, <2>6, <2>7, <2>8, Zenon
<1>2. ASSUME EventLoopReturn(c) \/ TaskClose(c) PROVE RunnerInv'
  <2>1. /\ phase[c] \in {"loop", "close"} /\ phase'[c] \in {"close", "stopped"}
        /\ phase' = [phase EXCEPT ![c] = phase'[c]] /\ phase'[c] \in Phases
        /\ UNCHANGED <<inQueue, runPC, current, ctxDone, sema, tasks, canceled, taskCount, cancelledTasks>>
    BY <1>0, <1>2, Zenon DEF EventLoopReturn, TaskClose, Phases
  <2>2. /\ IsFiniteSet(At(Unfinished))'
        /\ Cardinality(At({"init"}))' = sema /\ Cardinality(At(Unfinished))' = taskCount
    BY <1>0, <2>1, CountMove, Zenon DEF Unfinished, InMap
  <2>3. RunnerTypeOK'
    BY <1>w, <1>0, <1>2, <2>1, <2>2 DEF RunnerTypeOK, EventLoopReturn, TaskClose
  <2>4. EntryOwned'
    BY <1>0, <2>1 DEF EntryOwned, InMap
  <2>5. QueueInv'
    BY <2>1, QueueUntouched, Zenon
  <2>6. StatusInv'
    BY <1>0, <1>2, Zenon DEF StatusInv, EventLoopReturn, TaskClose
  <2>7. CountInv'
    BY <2>1, <2>2, Zenon DEF CountInv, QuotaHeldByInit, CountMatches
  <2>8. StopInv'
    BY <1>0, <2>1, Zenon DEF StopInv, At, Unfinished, InMap
  <2> QED
    BY <1>w, <2>3, <2>4, <2>5, <2>6, <2>7, <2>8, Zenon
<1>3. ASSUME TaskDelete(c) PROVE RunnerInv'
  <2>1. /\ phase[c] = "stopped" /\ phase' = [phase EXCEPT ![c] = "deleted"]
        /\ UNCHANGED <<inQueue, runPC, current, ctxDone, sema, canceled, taskCount, status, cancelledTasks>>
    BY <1>3, Zenon DEF TaskDelete
  <2>2. /\ IsFiniteSet(At(Unfinished))'
        /\ Cardinality(At({"init"}))' = sema /\ Cardinality(At(Unfinished))' = taskCount
    <3>1. /\ {"stopped", "deleted"} \subseteq Unfinished /\ "deleted" \in Phases
          /\ phase[c] # "init" /\ "deleted" # "init"
      BY <2>1, Zenon DEF Unfinished, InMap, Phases
    <3> QED
      BY <1>0, <2>1, <3>1, CountMove, Zenon
  <2>3. RunnerTypeOK'
    BY <1>w, <1>0, <1>3, <2>1 DEF RunnerTypeOK, TaskDelete, Phases
  <2>4. EntryOwned'
    BY <1>0, <1>3, <2>1 DEF EntryOwned, InMap, TaskDelete
  <2>5. QueueInv'
    BY <2>1, QueueUntouched, Zenon DEF Phases
  <2>6. StatusInv'
    BY <1>0, <2>1, Zenon DEF StatusInv
  <2>7. CountInv'
    BY <2>1, <2>2, Zenon DEF CountInv, QuotaHeldByInit, CountMatches
  <2>8. StopInv'
    BY <1>0, <2>1, Zenon DEF StopInv, At, Unfinished, InMap
  <2> QED
    BY <1>w, <2>3, <2>4, <2>5, <2>6, <2>7, <2>8, Zenon
<1>4. ASSUME TaskCountDec(c) PROVE RunnerInv'
  <2>1. /\ phase[c] = "deleted" /\ phase' = [phase EXCEPT ![c] = "uncounted"] /\ taskCount' = taskCount - 1
        /\ UNCHANGED <<inQueue, runPC, current, ctxDone, sema, tasks, canceled, status, cancelledTasks>>
    BY <1>4, Zenon DEF TaskCountDec
  <2>2. /\ taskCount > 0 /\ IsFiniteSet(At(Unfinished))'
        /\ Cardinality(At({"init"}))' = sema /\ Cardinality(At(Unfinished))' = taskCount - 1
    <3>1. /\ "deleted" \in Unfinished /\ "uncounted" \notin Unfinished /\ "uncounted" \in Phases
          /\ phase[c] # "init" /\ "uncounted" # "init"
      BY <2>1, Zenon DEF Unfinished, InMap, Phases
    <3> QED
      BY <1>0, <2>1, <3>1, CountMove, Zenon
  <2>3. RunnerTypeOK'
    BY <1>w, <1>0, <2>1, <2>2 DEF RunnerTypeOK, Phases
  <2>4. EntryOwned'
    BY <1>0, <2>1 DEF EntryOwned, InMap
  <2>5. QueueInv'
    BY <2>1, QueueUntouched, Zenon DEF Phases
  <2>6. StatusInv'
    BY <1>0, <2>1, Zenon DEF StatusInv
  <2>7. CountInv'
    BY <2>1, <2>2, Zenon DEF CountInv, QuotaHeldByInit, CountMatches
  <2>8. StopInv'
    BY <1>0, <2>1, Zenon DEF StopInv, At, Unfinished, InMap
  <2> QED
    BY <1>w, <2>3, <2>4, <2>5, <2>6, <2>7, <2>8, Zenon
<1>5. ASSUME TaskExit(c) PROVE RunnerInv'
  <2>1. /\ phase[c] = "uncounted" /\ phase' = [phase EXCEPT ![c] = "exited"]
        /\ UNCHANGED <<inQueue, runPC, current, ctxDone, sema, tasks, canceled, taskCount,
                       status, cancelledTasks>>
    BY <1>5, Zenon DEF TaskExit
  <2>2. /\ IsFiniteSet(At(Unfinished))'
        /\ Cardinality(At({"init"}))' = sema /\ Cardinality(At(Unfinished))' = taskCount
    <3>1. /\ "uncounted" \notin Unfinished /\ "exited" \notin Unfinished /\ "exited" \in Phases
          /\ phase[c] # "init" /\ "exited" # "init"
      BY <2>1, Zenon DEF Unfinished, InMap, Phases
    <3> QED
      BY <1>0, <2>1, <3>1, CountMove, Zenon
  <2>3. RunnerTypeOK'
    BY <1>w, <1>0, <2>1 DEF RunnerTypeOK, Phases
  <2>4. EntryOwned'
    BY <1>0, <2>1 DEF EntryOwned, InMap
  <2>5. QueueInv'
    BY <2>1, QueueUntouched, Zenon DEF Phases
  <2>6. StatusInv'
    BY <1>0, <2>1, Zenon DEF StatusInv
  <2>7. CountInv'
    BY <2>1, <2>2, Zenon DEF CountInv, QuotaHeldByInit, CountMatches
  <2>8. StopInv'
    BY <2>1, Zenon DEF StopInv
  <2> QED
    BY <1>w, <2>3, <2>4, <2>5, <2>6, <2>7, <2>8, Zenon
<1> QED
  BY <1>1, <1>2, <1>3, <1>4, <1>5, Zenon DEF Goroutine

\* Each step of Run preserves the invariant.
LEMMA RunLoopInv ==
  ASSUME RunnerInv, RunLoop
  PROVE  RunnerInv'
<1> USE RunnerAssumption DEF RunnerInv
<1>w. WaitInv' /\ wg' \in Nat
  BY RunLoopWait, Zenon
<1>0. /\ phase \in [Container -> Phases] /\ sema \in 0 .. InitConcurrency /\ taskCount \in Nat
      /\ tasks \in [Task -> Container \cup {NoContainer}]
      /\ inQueue \in Seq(Container) /\ Len(inQueue) \in Nat
      /\ \A i \in 1 .. Len(inQueue) : inQueue[i] \in Container
  BY LenProperties DEF RunnerTypeOK
<1>1. ASSUME RunReceive PROVE RunnerInv'
  <2> USE <1>1 DEF RunReceive
  <2>1. /\ current' = inQueue[1] /\ inQueue' \in Seq(Container) /\ 1 \in 1 .. Len(inQueue)
        /\ Len(inQueue') = Len(inQueue) - 1
        /\ \A i \in 1 .. Len(inQueue') : inQueue'[i] = inQueue[i + 1] /\ i + 1 \in 1 .. Len(inQueue)
    BY <1>0, HeadTailProperties, EmptySeq
  <2>2. RunnerTypeOK'
    BY <1>w, <1>0, <2>1 DEF RunnerTypeOK
  <2>3. QueueInv'
    <3>1. \A i \in 1 .. Len(inQueue') : phase[inQueue'[i]] = "queued" /\ inQueue'[i] # inQueue[1]
      BY <1>0, <2>1 DEF QueueInv
    <3>2. \A i, j \in 1 .. Len(inQueue') : inQueue'[i] = inQueue'[j] => i = j
      BY <1>0, <2>1 DEF QueueInv
    <3> QED
      BY <1>0, <2>1, <3>1, <3>2 DEF QueueInv
  <2>4. EntryOwned' /\ StatusInv' /\ StopInv'
    BY Zenon DEF EntryOwned, StatusInv, StopInv, At
  <2>5. CountInv'
    BY Zenon DEF CountInv, QuotaHeldByInit, CountMatches, At
  <2> QED
    BY <1>w, <2>2, <2>3, <2>4, <2>5, Zenon
<1>2. ASSUME OnNewTask PROVE RunnerInv'
  <2>0. /\ current \in Container /\ phase[current] = "queued" /\ TaskOf[current] \in Task
        /\ \A i \in 1 .. Len(inQueue) : inQueue[i] # current
        /\ runPC' = "select" /\ current' = NoContainer /\ runPC = "acquire"
        /\ UNCHANGED <<inQueue, ctxDone, canceled, status, cancelledTasks>>
        /\ phase'[current] \in {"dropped", "init"} /\ phase' = [phase EXCEPT ![current] = phase'[current]]
        /\ phase'[current] \in Phases
    BY <1>0, <1>2, Zenon DEF QueueInv, OnNewTask, StartGoroutine, Refuse, OnNewTaskEnds,
           RunnerTypeOK, Phases
  <2>1. QueueInv'
    BY <1>0, <2>0 DEF QueueInv
  <2>2. StatusInv' /\ StopInv'
    BY <1>0, <2>0, Zenon DEF StatusInv, StopInv
  <2>3. CASE phase'[current] = "init"
    <3>1. /\ sema < InitConcurrency /\ sema' = sema + 1 /\ taskCount' = taskCount + 1
          /\ tasks[TaskOf[current]] = NoContainer
          /\ tasks' = [tasks EXCEPT ![TaskOf[current]] = current]
      BY <1>0, <1>2, <2>0, <2>3, Zenon DEF OnNewTask, StartGoroutine, Refuse,
             OnNewTaskEnds
    <3>2. /\ IsFiniteSet(At(Unfinished))'
          /\ Cardinality(At({"init"}))' = sema + 1 /\ Cardinality(At(Unfinished))' = taskCount + 1
      BY <1>0, <2>0, <2>3, CountMove, Zenon DEF Unfinished, InMap
    <3>3. RunnerTypeOK'
      <4>1. sema' \in 0 .. InitConcurrency /\ taskCount' \in Nat
        BY <1>0, <3>1
      <4>2. phase' \in [Container -> Phases]
        BY <1>0, <2>0, Zenon
      <4>3. tasks' \in [Task -> Container \cup {NoContainer}]
        BY <1>0, <2>0, <3>1
      <4> QED
        BY <1>w, <2>0, <4>1, <4>2, <4>3, Zenon DEF RunnerTypeOK
    <3>4. EntryOwned'
      BY <1>0, <2>0, <2>3, <3>1 DEF EntryOwned, InMap
    <3>5. CountInv'
      BY <3>1, <3>2, Zenon DEF CountInv, QuotaHeldByInit, CountMatches
    <3> QED
      BY <1>w, <2>1, <2>2, <3>3, <3>4, <3>5, Zenon
  <2>4. CASE phase'[current] = "dropped"
    <3>1. UNCHANGED <<sema, tasks, taskCount>>
      BY <1>0, <1>2, <2>0, <2>4, Zenon DEF OnNewTask, StartGoroutine, Refuse,
             OnNewTaskEnds
    <3>2. /\ IsFiniteSet(At(Unfinished))'
          /\ Cardinality(At({"init"}))' = sema /\ Cardinality(At(Unfinished))' = taskCount
      BY <1>0, <2>0, <2>4, CountMove, Zenon DEF Unfinished, InMap
    <3>3. RunnerTypeOK'
      BY <1>w, <1>0, <2>0, <3>1 DEF RunnerTypeOK
    <3>4. EntryOwned'
      BY <1>0, <2>0, <2>4, <3>1 DEF EntryOwned, InMap
    <3>5. CountInv'
      BY <3>1, <3>2, Zenon DEF CountInv, QuotaHeldByInit, CountMatches
    <3> QED
      BY <1>w, <2>1, <2>2, <3>3, <3>4, <3>5, Zenon
  <2> QED
    BY <2>0, <2>3, <2>4, Zenon
<1>3. ASSUME OnNewTaskTimeout PROVE RunnerInv'
  <2>0. /\ current \in Container /\ phase[current] = "queued"
        /\ \A i \in 1 .. Len(inQueue) : inQueue[i] # current
        /\ runPC' = "select" /\ current' = NoContainer
        /\ phase' = [phase EXCEPT ![current] = "dropped"] /\ "dropped" \in Phases
        /\ UNCHANGED <<inQueue, ctxDone, sema, tasks, canceled, taskCount, status, cancelledTasks>>
    BY <1>3, Zenon DEF QueueInv, OnNewTaskTimeout, Refuse, OnNewTaskEnds, Phases
  <2>1. RunnerTypeOK'
    BY <1>w, <1>0, <2>0, Zenon DEF RunnerTypeOK
  <2>2. EntryOwned'
    BY <1>0, <2>0 DEF EntryOwned, InMap
  <2>3. QueueInv'
    BY <1>0, <2>0, Zenon DEF QueueInv
  <2>4. StatusInv' /\ StopInv'
    BY <1>0, <2>0, Zenon DEF StatusInv, StopInv
  <2>5. /\ IsFiniteSet(At(Unfinished))'
        /\ Cardinality(At({"init"}))' = sema /\ Cardinality(At(Unfinished))' = taskCount
    <3>1. /\ phase[current] \notin Unfinished /\ "dropped" \notin Unfinished
          /\ phase[current] # "init" /\ "dropped" # "init"
      BY <2>0, Zenon DEF Unfinished, InMap
    <3> QED
      BY <1>0, <2>0, <3>1, CountMove, Zenon
  <2>6. CountInv'
    BY <2>0, <2>5, Zenon DEF CountInv, QuotaHeldByInit, CountMatches
  <2> QED
    BY <1>w, <2>1, <2>2, <2>3, <2>4, <2>6, Zenon
<1>4. ASSUME CancelAll \/ RunReturn PROVE RunnerInv'
  <2>0. /\ UNCHANGED <<inQueue, current, ctxDone, sema, tasks, taskCount, phase, status>>
        /\ runPC' \in {"wait", "returned"}
    BY <1>4, Zenon DEF CancelAll, RunReturn
  <2>1. canceled' \in BOOLEAN /\ ctxDone' \in BOOLEAN
    BY <1>4, Zenon DEF CancelAll, RunReturn, RunnerTypeOK
  <2>2. cancelledTasks' \subseteq Container
    BY <1>4, Zenon DEF CancelAll, RunReturn, RunnerTypeOK
  <2>3. RunnerTypeOK'
    BY <1>w, <2>0, <2>1, <2>2, Zenon DEF RunnerTypeOK
  <2>4. EntryOwned' /\ QueueInv' /\ StatusInv'
    BY <2>0 DEF EntryOwned, QueueInv, StatusInv
  <2>5. CountInv'
    BY <2>0, Zenon DEF CountInv, QuotaHeldByInit, CountMatches, At
  <2>6. StopInv'
    BY <1>4, <2>0, Zenon DEF StopInv, CancelAll, RunReturn, At
  <2> QED
    BY <1>w, <2>3, <2>4, <2>5, <2>6, Zenon
<1> QED
  BY <1>1, <1>2, <1>3, <1>4, Zenon DEF RunLoop

\* Every step the runner takes by itself preserves the invariant.
LEMMA RunnerStepInv ==
  ASSUME RunnerInv, RunnerStep
  PROVE  RunnerInv'
<1>1. ASSUME CancelContext PROVE RunnerInv'
  <2>0. UNCHANGED <<inQueue, runPC, current, sema, tasks, canceled, taskCount, wg, phase, status, cancelledTasks>>
    BY <1>1, Zenon DEF CancelContext
  <2>1. ctxDone' \in BOOLEAN
    BY <1>1, Zenon DEF CancelContext
  <2>2. RunnerTypeOK'
    BY <2>0, <2>1, Zenon DEF RunnerInv, RunnerTypeOK
  <2>3. EntryOwned' /\ QueueInv' /\ StatusInv' /\ StopInv'
    BY <2>0 DEF RunnerInv, EntryOwned, QueueInv, StatusInv, StopInv, At
  <2>4. CountInv' /\ WaitInv'
    BY <2>0, Zenon DEF RunnerInv, CountInv, QuotaHeldByInit, CountMatches, WaitInv, At
  <2> QED
    BY <2>2, <2>3, <2>4, Zenon DEF RunnerInv
<1> QED
  BY <1>1, RunLoopInv, GoroutineInv, Zenon DEF RunnerStep

\* The invariant speaks of the runner's variables only.
LEMMA RunnerStutter ==
  ASSUME RunnerInv, UNCHANGED runnerVars
  PROVE  RunnerInv'
<1> USE DEF RunnerInv, runnerVars
<1>1. RunnerTypeOK'
  BY Zenon DEF RunnerTypeOK
<1>2. EntryOwned' /\ QueueInv' /\ StatusInv' /\ StopInv'
  BY DEF EntryOwned, QueueInv, StatusInv, StopInv, At
<1>3. CountInv' /\ WaitInv'
  BY Zenon DEF CountInv, QuotaHeldByInit, CountMatches, WaitInv, At
<1> QED
  BY <1>1, <1>2, <1>3, Zenon

\* The inductive invariant holds in every behaviour of the runner.
THEOREM RunnerInvariant == RunnerSpec => []RunnerInv
<1>1. RunnerInv /\ [RunnerNext]_runnerVars => RunnerInv'
  BY RunnerStepInv, AddTaskInv, RunnerStutter, Zenon DEF RunnerNext
<1> QED
  BY <1>1, RunnerInitInv, PTL DEF RunnerSpec

\* One goroutine per map entry and one map entry per goroutine: LoadAndDelete
\* always finds the deleter's own entry.
THEOREM RunnerEntryOwned == RunnerSpec => []EntryOwned
BY RunnerInvariant, PTL DEF RunnerInv

\* The semaphore is held by the tasks in Init and by nothing else.
THEOREM RunnerQuota == RunnerSpec => []QuotaHeldByInit
BY RunnerInvariant, PTL DEF RunnerInv, CountInv

\* TaskCount counts the goroutines that have not finished.
THEOREM RunnerCount == RunnerSpec => []CountMatches
BY RunnerInvariant, PTL DEF RunnerInv, CountInv

\* OnInitialized and OnStopped never panic.
THEOREM RunnerStatus == RunnerSpec => []StatusInPhase
<1>1. RunnerInv => StatusInPhase
  BY Zenon DEF RunnerInv, StatusInv, StatusInPhase
<1> QED
  BY <1>1, RunnerInvariant, PTL

\* Once Run has returned no goroutine is left, no entry of the map, no unit of
\* the semaphore and nothing that counts as a task.
THEOREM RunnerQuiet == RunnerSpec => []QuietAfterRun
<1>1. RunnerInv => QuietAfterRun
  <2> SUFFICES ASSUME RunnerInv, runPC = "returned" PROVE QuietAfterRun
    BY Zenon DEF QuietAfterRun
  <2>1. canceled /\ At(Waited) = {}
    BY Zenon DEF RunnerInv, StopInv, WaitInv
  <2>2. At(Unfinished) = {} /\ At({"init"}) = {} /\ \A c \in Container : phase[c] \notin InMap
    BY <2>1, Zenon DEF At, Waited, Unfinished, InMap
  <2>3. \A t \in Task : tasks[t] = NoContainer
    <3>1. tasks \in [Task -> Container \cup {NoContainer}] /\ EntryOwned
      BY Zenon DEF RunnerInv, RunnerTypeOK
    <3>2. \A t \in Task : tasks[t] \in Container \cup {NoContainer}
      BY <3>1, Zenon
    <3> QED
      BY <2>2, <3>1, <3>2, Zenon DEF EntryOwned
  <2>4. sema = 0 /\ taskCount = 0
    BY <2>2, FS_EmptySet, Zenon DEF RunnerInv, CountInv, QuotaHeldByInit, CountMatches
  <2> QED
    BY <2>1, <2>3, <2>4, Zenon DEF QuietAfterRun
<1> QED
  BY <1>1, RunnerInvariant, PTL

-----------------------------------------------------------------------------
(* The dispatch.  The inductive invariant is the runner's, the agreement of *)
(* the committer's two maps, and what the calls and replies on the wire say *)
(* about each request and each dispatcher.                                  *)

\* How far a request has come, read off the calls and replies that bear its ID.
RequestInv ==
  \A r \in Container :
    /\ owner[r] = NoDispatch =>
         /\ \A m \in Methods : <<m, r>> \notin calls
         /\ \A m \in Methods, code \in Codes : <<m, r, code>> \notin replies
    /\ r \in pendingRequests =>
         /\ <<"pre", r, "OK">> \in replies
         /\ \A code \in Codes : <<"confirm", r, code>> \notin replies
    /\ <<"pre", r>> \in calls =>
         /\ \A code \in Codes : <<"pre", r, code>> \notin replies
         /\ \A code \in Codes : <<"confirm", r, code>> \notin replies
         /\ <<"confirm", r>> \notin calls
    /\ <<"confirm", r>> \in calls =>
         \A code \in Codes : <<"confirm", r, code>> \notin replies
    /\ phase[r] # "new" <=> <<"confirm", r, "OK">> \in replies
    /\ \A c1, c2 \in Codes :
         <<"confirm", r, c1>> \in replies /\ <<"confirm", r, c2>> \in replies
           => c1 = c2

\* A request whose confirmation has been sent is the current one of its owner,
\* whose timer runs; and what an ended call has seen was really answered.
Sent(r) == <<"confirm", r>> \in calls
             \/ \E code \in Codes : <<"confirm", r, code>> \in replies

OwnerInv ==
  /\ \A r \in Container : Sent(r) =>
       /\ owner[r] \in timer
       /\ requestID[owner[r]] = r
       /\ dpc[owner[r]] \in {"confirm", "aborted", "success", "undetermined",
                             "crashed"}
  /\ \A d \in Dispatch :
       /\ requestID[d] # NoContainer => owner[requestID[d]] = d
       /\ dpc[d] \in {"pre", "timer", "confirm", "aborted", "success"} =>
            requestID[d] # NoContainer
       /\ dpc[d] = "timer" => <<"pre", requestID[d], "OK">> \in replies
       /\ dpc[d] = "aborted" =>
            \E code \in {"Aborted", "NotFound"} :
              <<"confirm", requestID[d], code>> \in replies
       /\ dpc[d] = "success" => <<"confirm", requestID[d], "OK">> \in replies

DispatchInv ==
  /\ RunnerInv
  /\ CommitterTypeOK
  /\ DispatchTypeOK
  /\ MapsAgree
  /\ RequestInv
  /\ OwnerInv

-----------------------------------------------------------------------------
\* The runner alone never makes a container "new" or takes it out of "new":
\* only addWrappedTask does.
LEMMA RunnerKeepsNew ==
  ASSUME RunnerInv, RunnerStep
  PROVE  \A r \in Container : phase'[r] = "new" <=> phase[r] = "new"
<1>0. phase \in [Container -> Phases]
  BY Zenon DEF RunnerInv, RunnerTypeOK
<1>1. ASSUME RunLoop PROVE \A r \in Container : phase'[r] = "new" <=> phase[r] = "new"
  <2>1. runPC = "acquire" => phase[current] = "queued"
    BY Zenon DEF RunnerInv, QueueInv
  <2> QED
    BY <1>0, <1>1, <2>1, Zenon DEF RunLoop, RunReceive, OnNewTask, StartGoroutine,
       Refuse, OnNewTaskEnds, OnNewTaskTimeout, CancelAll, RunReturn
<1>2. ASSUME NEW c \in Container, Goroutine(c)
      PROVE  \A r \in Container : phase'[r] = "new" <=> phase[r] = "new"
  BY <1>0, <1>2, Zenon DEF Goroutine, TaskInitialized, TaskInitFailed,
         EventLoopReturn,
     TaskClose, TaskDelete, TaskCountDec, TaskExit
<1> QED
  BY <1>1, <1>2, Zenon DEF RunnerStep, CancelContext

\* The invariant holds when nothing has been dispatched yet.
LEMMA DispatchInitInv == Init => DispatchInv
<1> SUFFICES ASSUME Init PROVE DispatchInv
  BY Zenon
<1> USE DispatchAssumption, RunnerAssumption DEF Init
<1>1. RunnerInv
  BY RunnerInitInv, Zenon
<1>2. CommitterTypeOK /\ MapsAgree
  BY Zenon DEF CommitterInit, CommitterTypeOK, MapsAgree
<1>3. DispatchTypeOK
  BY Zenon DEF DispatchTypeOK, DispatchStates
<1>4. RequestInv
  BY Zenon DEF RequestInv, CommitterInit, RunnerInit
<1>5. OwnerInv
  BY Zenon DEF OwnerInv, Sent
<1> QED
  BY <1>1, <1>2, <1>3, <1>4, <1>5, Zenon DEF DispatchInv

-----------------------------------------------------------------------------
\* Removing any set of pending requests keeps the two maps in agreement.
LEMMA RemoveAgrees ==
  ASSUME NEW S \in SUBSET pendingRequests, CommitterTypeOK, MapsAgree, RemoveRequests(S)
  PROVE  CommitterTypeOK' /\ MapsAgree'
<1> USE RunnerAssumption DEF CommitterTypeOK, RemoveRequests
<1>1. CommitterTypeOK'
  BY Zenon
<1>2. ASSUME NEW t \in Task, requestsByTaskID'[t] # NoContainer
      PROVE  requestsByTaskID'[t] \in pendingRequests' /\ TaskOf[requestsByTaskID'[t]] = t
  <2>1. requestsByTaskID'[t] = requestsByTaskID[t] /\ ~ \E r \in S : TaskOf[r] = t
    BY <1>2, Zenon
  <2>2. requestsByTaskID[t] \in pendingRequests /\ TaskOf[requestsByTaskID[t]] = t
    BY <1>2, <2>1, Zenon DEF MapsAgree
  <2> QED
    BY <2>1, <2>2, Zenon
<1>3. ASSUME NEW t \in Task, NEW r \in pendingRequests', TaskOf[r] = t
      PROVE  requestsByTaskID'[t] = r
  <2>1. r \in pendingRequests /\ r \notin S /\ requestsByTaskID[t] = r
    BY <1>3, Zenon DEF MapsAgree
  <2>2. ~ \E x \in S : TaskOf[x] = t
    BY <1>3, <2>1 DEF MapsAgree
  <2> QED
    BY <2>1, <2>2, Zenon
<1> QED
  BY <1>1, <1>2, <1>3, Zenon DEF MapsAgree

\* Overwriting the request of a task keeps the two maps in agreement.
LEMMA PreDispatchAgrees ==
  ASSUME NEW r \in Container, CommitterTypeOK, MapsAgree, PreDispatchTask(r)
  PROVE  CommitterTypeOK' /\ MapsAgree'
<1> USE RunnerAssumption DEF CommitterTypeOK, PreDispatchTask
<1>1. CommitterTypeOK'
  BY Zenon
<1>2. ASSUME NEW t \in Task, requestsByTaskID'[t] # NoContainer
      PROVE  requestsByTaskID'[t] \in pendingRequests' /\ TaskOf[requestsByTaskID'[t]] = t
  <2>1. CASE t = TaskOf[r]
    BY <2>1, Zenon
  <2>2. CASE t # TaskOf[r]
    <3>1. requestsByTaskID'[t] = requestsByTaskID[t]
      BY <2>2, Zenon
    <3>2. requestsByTaskID[t] \in pendingRequests /\ TaskOf[requestsByTaskID[t]] = t
      BY <1>2, <3>1, Zenon DEF MapsAgree
    <3>3. requestsByTaskID[t] # requestsByTaskID[TaskOf[r]]
      BY <1>2, <2>2, <3>1, <3>2, Zenon DEF MapsAgree
    <3> QED
      BY <3>1, <3>2, <3>3, Zenon
  <2> QED
    BY <2>1, <2>2, Zenon
<1>3. ASSUME NEW t \in Task, NEW x \in pendingRequests', TaskOf[x] = t
      PROVE  requestsByTaskID'[t] = x
  <2>1. CASE x = r
    BY <1>3, <2>1, Zenon
  <2>2. CASE x # r
    <3>1. x \in pendingRequests /\ x # requestsByTaskID[TaskOf[r]] /\ requestsByTaskID[t] = x
      BY <1>3, <2>2, Zenon DEF MapsAgree
    <3> QED
      BY <1>3, <2>2, <3>1, Zenon
  <2> QED
    BY <2>1, <2>2, Zenon
<1> QED
  BY <1>1, <1>2, <1>3, Zenon DEF MapsAgree

-----------------------------------------------------------------------------
\* The dispatcher's own steps leave the executor alone.
LEMMA ExecutorUntouched ==
  ASSUME DispatchInv, UNCHANGED <<runnerVars, committerVars>>
  PROVE  RunnerInv' /\ CommitterTypeOK' /\ MapsAgree'
<1>1. RunnerInv'
  BY RunnerStutter, Zenon DEF DispatchInv
<1> QED
  BY <1>1, Zenon DEF DispatchInv, committerVars, CommitterTypeOK, MapsAgree

\* Each step of a dispatcher preserves the invariant.
LEMMA DispatcherInv ==
  ASSUME NEW d \in Dispatch, DispatchInv, Dispatcher(d)
  PROVE  DispatchInv'
<1> USE DispatchAssumption, RunnerAssumption
<1>0. DispatchTypeOK /\ RequestInv /\ OwnerInv
  BY Zenon DEF DispatchInv
<1>1. ASSUME NEW r \in Container, SendPreDispatch(d, r) PROVE DispatchInv'
  <2> USE <1>1 DEF SendPreDispatch
  <2>1. RunnerInv' /\ CommitterTypeOK' /\ MapsAgree'
    BY ExecutorUntouched, Zenon
  <2>2. DispatchTypeOK'
    BY <1>0 DEF DispatchTypeOK, DispatchStates, Methods
  <2>3. ASSUME NEW m \in Methods, NEW x \in Container, <<m, x>> \in calls', <<m, x>> \notin calls
        PROVE  m = "pre" /\ x = r
    BY <2>3, Zenon
  <2>4. /\ \A m \in Methods : <<m, r>> \notin calls
        /\ \A m \in Methods, code \in Codes : <<m, r, code>> \notin replies
    BY <1>0, Zenon DEF RequestInv
  <2>5. UNCHANGED <<phase, pendingRequests, replies, timer>>
    BY Zenon DEF runnerVars, committerVars
  <2>6. RequestInv'
    <3> SUFFICES ASSUME NEW x \in Container PROVE RequestInv!(x)'
      BY Zenon DEF RequestInv
    <3>1. CASE x = r
      BY <1>0, <2>3, <2>4, <2>5, <3>1, Zenon DEF RequestInv, DispatchTypeOK, Methods,
             Codes
    <3>2. CASE x # r
      BY <1>0, <2>3, <2>5, <3>2, Zenon DEF RequestInv, DispatchTypeOK, Methods, Codes
    <3> QED
      BY <3>1, <3>2, Zenon
  <2>7. \A x \in Container : Sent(x)' <=> Sent(x)
    BY <2>3, <2>5, Zenon DEF Sent, Methods
  <2>8. \A x \in Container : Sent(x) => x # r /\ owner[x] # d
    BY <1>0, <2>4, Zenon DEF Sent, Methods, OwnerInv
  <2>9. OwnerInv'
    <3>1. /\ owner'[r] = d /\ requestID'[d] = r /\ dpc'[d] = "pre"
          /\ \A x \in Container \ {r} : owner'[x] = owner[x]
          /\ \A c \in Dispatch \ {d} : requestID'[c] = requestID[c] /\ dpc'[c] = dpc[c]
      BY <1>0, Zenon DEF DispatchTypeOK
    <3>2. ASSUME NEW x \in Container, Sent(x)'
          PROVE  /\ owner'[x] \in timer' /\ requestID'[owner'[x]] = x
                 /\ dpc'[owner'[x]] \in {"confirm", "aborted", "success", "undetermined",
                                        "crashed"}
      <4>1. Sent(x) /\ x # r /\ owner[x] # d /\ owner'[x] = owner[x]
        BY <2>7, <2>8, <3>1, <3>2, Zenon
      <4>2. /\ owner[x] \in timer /\ requestID[owner[x]] = x
            /\ dpc[owner[x]] \in {"confirm", "aborted", "success", "undetermined",
                                  "crashed"}
        BY <1>0, <4>1, Zenon DEF OwnerInv
      <4>3. owner[x] \in Dispatch
        BY <1>0, <4>2, Zenon DEF DispatchTypeOK
      <4> QED
        BY <2>5, <3>1, <4>1, <4>2, <4>3, ZenonT(40)
    <3>3. ASSUME NEW c \in Dispatch
          PROVE  OwnerInv!2!(c)'
      <4>1. CASE c = d
        <5>1. requestID'[c] = r /\ owner'[r] = c /\ dpc'[c] = "pre" /\ r # NoContainer
          BY <3>1, <4>1, Zenon
        <5> HIDE <1>1
        <5> QED
          BY <5>1, Zenon
      <4>2. CASE c # d
        <5>1. requestID[c] # r
          <6>1. r # NoContainer /\ owner[r] # c
            BY <1>1, Zenon
          <6> QED
            BY <1>0, <6>1, ZenonT(40) DEF OwnerInv
        <5> QED
          <6>0. requestID[c] # NoContainer => requestID[c] \in Container \ {r}
            <7> HIDE <1>1 DEF SendPreDispatch
            <7> QED
              BY <1>0, <5>1, Zenon DEF DispatchTypeOK
          <6>1. /\ requestID'[c] = requestID[c] /\ dpc'[c] = dpc[c] /\ replies' = replies
                /\ requestID[c] # NoContainer =>
                     owner'[requestID[c]] = owner[requestID[c]]
            <7> HIDE <1>1 DEF SendPreDispatch
            <7> QED
              BY <2>5, <3>1, <4>2, <6>0, Zenon
          <6>2. OwnerInv!2!(c)
            BY <1>0, Zenon DEF OwnerInv
          <6> HIDE <1>1 DEF SendPreDispatch
          <6> QED
            BY <6>1, <6>2, Zenon
      <4> QED
        BY <4>1, <4>2, Zenon
    <3> QED
      BY <3>2, <3>3, Zenon DEF OwnerInv
  <2> QED
    BY <2>1, <2>2, <2>6, <2>9, Zenon DEF DispatchInv
<1>2. ASSUME SendConfirm(d) PROVE DispatchInv'
  <2> USE <1>2 DEF SendConfirm
  <2> DEFINE r == requestID[d]
  <2>1. RunnerInv' /\ CommitterTypeOK' /\ MapsAgree'
    BY ExecutorUntouched, Zenon
  <2>2. r \in Container /\ owner[r] = d /\ <<"pre", r, "OK">> \in replies /\ ~Sent(r)
    BY <1>0, Zenon DEF OwnerInv, DispatchTypeOK
  <2>3. DispatchTypeOK'
    BY <1>0, <2>2 DEF DispatchTypeOK, DispatchStates, Methods
  <2>4. \A m \in Methods, x \in Container : <<m, x>> \in calls' <=> <<m, x>> \in calls \/ (m = "confirm" /\ x = r)
    BY Zenon
  <2>5. UNCHANGED <<phase, pendingRequests, replies, owner, requestID>>
    BY Zenon DEF runnerVars, committerVars
  <2>6. \A code \in Codes : <<"confirm", r, code>> \notin replies
    BY <2>2, Zenon DEF Sent
  <2>7. <<"pre", r>> \notin calls
    BY <1>0, <2>2, Zenon DEF RequestInv, Codes
  <2>8. RequestInv'
    <3> SUFFICES ASSUME NEW x \in Container PROVE RequestInv!(x)'
      BY Zenon DEF RequestInv
    <3>1. CASE x = r
      BY <1>0, <2>2, <2>4, <2>5, <2>6, <2>7, <3>1, Zenon DEF RequestInv, Methods,
             Codes
    <3>2. CASE x # r
      BY <1>0, <2>4, <2>5, <3>2, Zenon DEF RequestInv, Methods, Codes
    <3> QED
      BY <3>1, <3>2, Zenon
  <2>9. \A x \in Container : Sent(x)' <=> Sent(x) \/ x = r
    BY <2>4, <2>5, Zenon DEF Sent, Methods
  <2>10. \A x \in Container : Sent(x) => owner[x] # d
    BY <1>0, Zenon DEF OwnerInv
  <2>11. OwnerInv'
    BY <1>0, <2>2, <2>5, <2>9, <2>10, SMTT(60) DEF OwnerInv, DispatchTypeOK
  <2> QED
    BY <2>1, <2>3, <2>8, <2>11, Zenon DEF DispatchInv
<1>3. ASSUME \/ PreDispatchReply(d) \/ PreDispatchError(d) \/ PreDispatchGiveUp(d)
             \/ ConfirmReply(d) \/ ConfirmError(d) \/ DispatcherCrash(d)
      PROVE  DispatchInv'
  <2>1. UNCHANGED <<runnerVars, committerVars, requestID, owner, timer, calls, replies>>
    BY <1>3, Zenon DEF PreDispatchReply, PreDispatchError, PreDispatchGiveUp,
           ConfirmReply, ConfirmError, DispatcherCrash
  <2>2. RunnerInv' /\ CommitterTypeOK' /\ MapsAgree'
    BY <2>1, ExecutorUntouched, Zenon
  <2>3. RequestInv'
    BY <1>0, <2>1, Zenon DEF RequestInv, runnerVars, committerVars
  <2>4. /\ dpc' = [dpc EXCEPT ![d] = dpc'[d]]
        /\ \/ dpc[d] = "pre" /\ dpc'[d] = "timer" /\ <<"pre", requestID[d], "OK">> \in replies
           \/ dpc[d] \in {"start", "backoff", "pre"} /\ dpc'[d] \in {"preFailed", "backoff"}
           \/ dpc[d] = "confirm" /\ dpc'[d] = "success" /\ <<"confirm", requestID[d], "OK">> \in replies
           \/ /\ dpc[d] = "confirm" /\ dpc'[d] = "aborted"
              /\ \E code \in {"Aborted", "NotFound"} : <<"confirm", requestID[d], code>> \in replies
           \/ dpc[d] = "confirm" /\ dpc'[d] = "undetermined"
           \/ dpc'[d] = "crashed"
    BY <1>0, <1>3, Zenon DEF PreDispatchReply, PreDispatchError, PreDispatchGiveUp,
           ConfirmReply, ConfirmError,
       DispatcherCrash, DispatchTypeOK, Codes
  <2>5. DispatchTypeOK'
    BY <1>0, <2>1, <2>4, Zenon DEF DispatchTypeOK, DispatchStates, Ended
  <2>6. \A x \in Container : Sent(x)' <=> Sent(x)
    BY <2>1, Zenon DEF Sent
  <2>7. ASSUME NEW x \in Container, Sent(x)
        PROVE  /\ owner[x] \in timer /\ requestID[owner[x]] = x
               /\ dpc'[owner[x]] \in {"confirm", "aborted", "success", "undetermined", "crashed"}
    <3>1. /\ owner[x] \in timer /\ requestID[owner[x]] = x
          /\ dpc[owner[x]] \in {"confirm", "aborted", "success", "undetermined", "crashed"}
      BY <1>0, <2>7, Zenon DEF OwnerInv
    <3> QED
      BY <1>0, <2>4, <3>1, Zenon DEF DispatchTypeOK
  <2>8. ASSUME NEW e \in Dispatch
        PROVE  /\ requestID[e] # NoContainer => owner[requestID[e]] = e
               /\ dpc'[e] \in {"pre", "timer", "confirm", "aborted", "success"} => requestID[e] # NoContainer
               /\ dpc'[e] = "timer" => <<"pre", requestID[e], "OK">> \in replies
               /\ dpc'[e] = "aborted" =>
                    \E code \in {"Aborted", "NotFound"} : <<"confirm", requestID[e], code>> \in replies
               /\ dpc'[e] = "success" => <<"confirm", requestID[e], "OK">> \in replies
    <3>1. CASE e = d
      BY <1>0, <2>4, <3>1, Zenon DEF OwnerInv
    <3>2. CASE e # d
      BY <1>0, <2>4, <3>2, ZenonT(40) DEF OwnerInv, DispatchTypeOK
    <3> QED
      BY <3>1, <3>2, Zenon
  <2>9. OwnerInv'
    BY <2>1, <2>6, <2>7, <2>8, Zenon DEF OwnerInv
  <2> QED
    BY <2>2, <2>3, <2>5, <2>9, Zenon DEF DispatchInv
<1> QED
  BY <1>1, <1>2, <1>3, Zenon DEF Dispatcher

-----------------------------------------------------------------------------
\* What a handler's answer does to the wire, whatever it does to the executor:
\* the dispatchers' half of the invariant survives.
LEMMA AnswerOwner ==
  ASSUME NEW m \in Methods, NEW r \in Container, NEW code \in Codes,
         DispatchTypeOK, OwnerInv, Answer(m, r, code)
  PROVE  DispatchTypeOK' /\ OwnerInv'
<1> USE DEF Answer
<1>1. DispatchTypeOK'
  BY DEF DispatchTypeOK
<1>2. \A x \in Container : Sent(x)' => Sent(x)
  BY Zenon DEF Sent, Codes
<1>3. OwnerInv'
  BY <1>2, Zenon DEF OwnerInv
<1> QED
  BY <1>1, <1>3, Zenon

\* Each step of the executor preserves the invariant.
LEMMA ExecutorInv ==
  ASSUME DispatchInv, Executor
  PROVE  DispatchInv'
<1> USE DispatchAssumption, RunnerAssumption
<1>0. /\ DispatchTypeOK /\ RequestInv /\ OwnerInv /\ RunnerInv /\ CommitterTypeOK /\ MapsAgree
      /\ phase \in [Container -> Phases]
  BY Zenon DEF DispatchInv, RunnerInv, RunnerTypeOK
<1>1. ASSUME NEW r \in Container, HandlePreDispatch(r) PROVE DispatchInv'
  <2>1. PICK code \in {"OK", "Aborted"} :
          /\ Answer("pre", r, code)
          /\ code = "OK" => PreDispatchTask(r)
          /\ code = "Aborted" => UNCHANGED <<runnerVars, committerVars>>
    BY <1>1, Zenon DEF HandlePreDispatch
  <2>2. code \in Codes /\ "pre" \in Methods
    BY Zenon DEF Codes, Methods
  <2>3. DispatchTypeOK' /\ OwnerInv'
    BY <1>0, <2>1, <2>2, AnswerOwner, Zenon
  <2>4. RunnerInv' /\ UNCHANGED phase
    BY <1>0, <2>1, RunnerStutter, Zenon DEF PreDispatchTask, runnerVars
  <2>5. CommitterTypeOK' /\ MapsAgree'
    <3>1. CASE code = "OK"
      BY <1>0, <2>1, <3>1, PreDispatchAgrees, Zenon
    <3>2. CASE code = "Aborted"
      BY <2>1, <3>2, ExecutorUntouched, Zenon
    <3> QED
      BY <3>1, <3>2, Zenon
  <2>6. /\ \A x \in Container : x \in pendingRequests' => x \in pendingRequests \/ (x = r /\ code = "OK")
        /\ <<"pre", r>> \in calls /\ calls' = calls \ {<<"pre", r>>}
        /\ replies' = replies \cup {<<"pre", r, code>>} /\ UNCHANGED owner
    BY <2>1, Zenon DEF Answer, PreDispatchTask, committerVars
  <2>7. RequestInv'
    <3> SUFFICES ASSUME NEW x \in Container PROVE RequestInv!(x)'
      BY Zenon DEF RequestInv
    <3>1. CASE x = r
      BY <1>0, <2>2, <2>4, <2>6, <3>1, Zenon DEF RequestInv, Methods, Codes
    <3>2. CASE x # r
      BY <1>0, <2>2, <2>4, <2>6, <3>2, Zenon DEF RequestInv, Methods, Codes
    <3> QED
      BY <3>1, <3>2, Zenon
  <2> QED
    BY <2>3, <2>4, <2>5, <2>7, Zenon DEF DispatchInv
<1>2. ASSUME NEW r \in Container, HandleConfirm(r) PROVE DispatchInv'
  <2>1. PICK code \in Codes :
          /\ Answer("confirm", r, code)
          /\ \/ code = "NotFound" /\ ConfirmNotFound(r)
             \/ code = "Aborted" /\ ConfirmRefused(r)
             \/ code = "OK" /\ ConfirmAccepted(r)
    BY <1>2, Zenon DEF HandleConfirm, Codes
  <2>2. "confirm" \in Methods
    BY Zenon DEF Methods
  <2>3. DispatchTypeOK' /\ OwnerInv'
    BY <1>0, <2>1, <2>2, AnswerOwner, Zenon
  <2>4. /\ <<"confirm", r>> \in calls /\ calls' = calls \ {<<"confirm", r>>}
        /\ replies' = replies \cup {<<"confirm", r, code>>} /\ UNCHANGED owner
    BY <2>1, Zenon DEF Answer
  <2>5. /\ phase[r] = "new" /\ <<"pre", r>> \notin calls
        /\ \A c \in Codes : <<"confirm", r, c>> \notin replies
    BY <1>0, <2>4, Zenon DEF RequestInv, Codes
  <2>6. /\ RunnerInv'
        /\ \A x \in Container : x # r => (phase'[x] = "new" <=> phase[x] = "new")
        /\ phase'[r] # "new" <=> code = "OK"
    <3>1. CASE code = "OK"
      <4>1. AddTask(r)
        BY <2>1, <2>5, <3>1, Zenon DEF ConfirmAccepted, AddTask
      <4> QED
        BY <1>0, <2>5, <3>1, <4>1, AddTaskInv, Zenon DEF AddTask, AddWrappedTask
    <3>2. CASE code # "OK"
      <4>1. UNCHANGED runnerVars
        BY <2>1, <3>2, Zenon DEF ConfirmNotFound, ConfirmRefused
      <4> QED
        BY <1>0, <2>5, <3>2, <4>1, RunnerStutter, Zenon DEF runnerVars
    <3> QED
      BY <3>1, <3>2, Zenon
  <2>7. CommitterTypeOK' /\ MapsAgree' /\ pendingRequests' = pendingRequests \ {r}
    <3>1. CASE r \in pendingRequests
      <4>1. RemoveRequests({r})
        BY <2>1, <3>1, Zenon DEF ConfirmNotFound, ConfirmRefused, ConfirmAccepted
      <4>2. {r} \in SUBSET pendingRequests
        BY <3>1, Zenon
      <4>3. CommitterTypeOK' /\ MapsAgree'
        BY <1>0, <4>1, <4>2, RemoveAgrees, Zenon
      <4> QED
        BY <4>1, <4>3, Zenon DEF RemoveRequests
    <3>2. CASE r \notin pendingRequests
      <4>1. UNCHANGED <<runnerVars, committerVars>>
        BY <2>1, <3>2, Zenon DEF ConfirmNotFound, ConfirmRefused, ConfirmAccepted
      <4> QED
        BY <3>2, <4>1, ExecutorUntouched, Zenon DEF committerVars
    <3> QED
      BY <3>1, <3>2, Zenon
  <2>8. RequestInv'
    <3> SUFFICES ASSUME NEW x \in Container PROVE RequestInv!(x)'
      BY Zenon DEF RequestInv
    <3>1. CASE x = r
      BY <1>0, <2>4, <2>5, <2>6, <2>7, <3>1, Zenon DEF RequestInv, Methods, Codes
    <3>2. CASE x # r
      BY <1>0, <2>4, <2>6, <2>7, <3>2, Zenon DEF RequestInv, Methods, Codes
    <3> QED
      BY <3>1, <3>2, Zenon
  <2> QED
    BY <2>3, <2>6, <2>7, <2>8, Zenon DEF DispatchInv
<1>3. ASSUME CheckTTLOnce /\ UNCHANGED dispatchVars PROVE DispatchInv'
  <2>1. PICK S \in SUBSET pendingRequests : RemoveRequests(S)
    BY <1>3, Zenon DEF CheckTTLOnce
  <2>2. CommitterTypeOK' /\ MapsAgree'
    BY <1>0, <2>1, RemoveAgrees, Zenon
  <2>6. pendingRequests' \subseteq pendingRequests
    BY <2>1, Zenon DEF RemoveRequests
  <2>3. RunnerInv' /\ UNCHANGED phase
    BY <1>0, <1>3, RunnerStutter, Zenon DEF CheckTTLOnce, runnerVars
  <2>4. DispatchTypeOK' /\ OwnerInv'
    BY <1>0, <1>3, Zenon DEF dispatchVars, DispatchTypeOK, OwnerInv, Sent
  <2>5. RequestInv'
    BY <1>0, <1>3, <2>6, <2>3, Zenon DEF RequestInv, dispatchVars
  <2> QED
    BY <2>2, <2>3, <2>4, <2>5, Zenon DEF DispatchInv
<1>4. ASSUME RunnerStep, UNCHANGED <<committerVars, dispatchVars>> PROVE DispatchInv'
  <2>1. RunnerInv' /\ \A r \in Container : phase'[r] = "new" <=> phase[r] = "new"
    BY <1>0, <1>4, RunnerStepInv, RunnerKeepsNew, Zenon
  <2>2. CommitterTypeOK' /\ MapsAgree' /\ DispatchTypeOK' /\ OwnerInv'
    BY <1>0, <1>4, ZenonT(40) DEF committerVars, dispatchVars, CommitterTypeOK, MapsAgree,
           DispatchTypeOK, OwnerInv, Sent
  <2>3. RequestInv'
    BY <1>0, <1>4, <2>1, Zenon DEF RequestInv, committerVars, dispatchVars
  <2> QED
    BY <2>1, <2>2, <2>3, Zenon DEF DispatchInv
<1> QED
  BY <1>1, <1>2, <1>3, <1>4, Zenon DEF Executor

-----------------------------------------------------------------------------
\* The inductive invariant holds in every behaviour of the composition.
THEOREM DispatchInvariant == Spec => []DispatchInv
<1>1. ASSUME DispatchInv, UNCHANGED vars PROVE DispatchInv'
  <2>1. RunnerInv' /\ CommitterTypeOK' /\ MapsAgree'
    BY <1>1, ExecutorUntouched, Zenon DEF vars
  <2>2. DispatchTypeOK' /\ OwnerInv' /\ RequestInv'
    BY <1>1, Zenon DEF DispatchInv, vars, runnerVars, committerVars, dispatchVars,
           DispatchTypeOK, OwnerInv, Sent, RequestInv
  <2> QED
    BY <2>1, <2>2, Zenon DEF DispatchInv
<1>2. DispatchInv /\ [Next]_vars => DispatchInv'
  BY <1>1, DispatcherInv, ExecutorInv, Zenon DEF Next
<1> QED
  BY <1>2, DispatchInitInv, PTL DEF Spec

\* Every variable keeps its type; in particular the runner's queue and its
\* semaphore never exceed their capacity.
THEOREM DispatchTypeCorrect == Spec => []TypeOK
BY DispatchInvariant, PTL DEF DispatchInv, RunnerInv, TypeOK

\* The committer's two maps always agree, so removeRequestByID never panics.
THEOREM CommitterMapsAgree == Spec => []MapsAgree
BY DispatchInvariant, PTL DEF DispatchInv

\* Confirming a pending request cannot launch its container again.
THEOREM CommitterPendingNotQueued == Spec => []PendingNotQueued
<1>1. DispatchInv => PendingNotQueued
  BY Zenon DEF DispatchInv, CommitterTypeOK, RequestInv, PendingNotQueued, Codes
<1> QED
  BY <1>1, DispatchInvariant, PTL

\* abortWorker is called only when the worker never was and never will be in
\* the runner, over any number of retries, dispatchers and delayed calls.
THEOREM AbortIsFinal == Spec => []AbortedNeverRuns
<1>1. ASSUME DispatchInv, NEW d \in Dispatch, dpc[d] = "aborted", NEW r \in Container,
             owner[r] = d, phase[r] # "new"
      PROVE  FALSE
  <2>1. <<"confirm", r, "OK">> \in replies /\ Sent(r)
    BY <1>1, Zenon DEF DispatchInv, RequestInv, Sent, Codes
  <2>2. requestID[d] = r
    BY <1>1, <2>1, Zenon DEF DispatchInv, OwnerInv
  <2>3. PICK code \in {"Aborted", "NotFound"} : <<"confirm", r, code>> \in replies
    BY <1>1, <2>2, Zenon DEF DispatchInv, OwnerInv
  <2> QED
    BY <1>1, <2>1, <2>3, Zenon DEF DispatchInv, RequestInv, Codes
<1>2. DispatchInv => AbortedNeverRuns
  BY <1>1, Zenon DEF AbortedNeverRuns, Accepted
<1> QED
  BY <1>2, DispatchInvariant, PTL

\* What reached the runner is the current request of a dispatcher whose timer
\* has been started.
LEMMA AcceptedIsCurrent ==
  ASSUME DispatchInv, NEW d \in Dispatch, NEW r \in Accepted(d)
  PROVE  /\ d \in timer /\ requestID[d] = r
         /\ dpc[d] \in {"confirm", "aborted", "success", "undetermined", "crashed"}
<1>1. r \in Container /\ owner[r] = d /\ phase[r] # "new"
  BY Zenon DEF Accepted
<1>2. Sent(r)
  BY <1>1, Zenon DEF DispatchInv, RequestInv, Sent, Codes
<1> QED
  BY <1>1, <1>2, Zenon DEF DispatchInv, OwnerInv

\* A failed pre-dispatch never leads to a running worker.
THEOREM PreFailureIsFinal == Spec => []PreFailedNeverRuns
<1>1. DispatchInv => PreFailedNeverRuns
  BY AcceptedIsCurrent, Zenon DEF PreFailedNeverRuns
<1> QED
  BY <1>1, DispatchInvariant, PTL

\* The worker's timer is started before the worker can be launched.
THEOREM TimerFirst == Spec => []TimerBeforeLaunch
<1>1. DispatchInv => TimerBeforeLaunch
  BY AcceptedIsCurrent, Zenon DEF TimerBeforeLaunch
<1> QED
  BY <1>1, DispatchInvariant, PTL

\* One DispatchTask launches at most one container.
THEOREM SingleLaunch == Spec => []AtMostOneLaunch
<1>1. DispatchInv => AtMostOneLaunch
  BY AcceptedIsCurrent, Zenon DEF AtMostOneLaunch
<1> QED
  BY <1>1, DispatchInvariant, PTL

\* A DispatchTask that returns after both replies has launched its worker.
THEOREM SuccessMeansLaunched == Spec => []SuccessIsAccepted
<1>1. ASSUME DispatchInv, NEW d \in Dispatch, dpc[d] = "success"
      PROVE  phase[requestID[d]] # "new"
  <2>1. requestID[d] \in Container /\ <<"confirm", requestID[d], "OK">> \in replies
    BY <1>1, Zenon DEF DispatchInv, DispatchTypeOK, OwnerInv
  <2> QED
    BY <1>1, <2>1, Zenon DEF DispatchInv, RequestInv
<1>2. DispatchInv => SuccessIsAccepted
  BY <1>1, Zenon DEF SuccessIsAccepted
<1> QED
  BY <1>2, DispatchInvariant, PTL

\* PreDispatchTask never meets a request ID it already holds.
THEOREM RequestsAreFresh == Spec => []NoDuplicateRequest
<1>1. DispatchInv => NoDuplicateRequest
  BY Zenon DEF DispatchInv, RequestInv, NoDuplicateRequest, Codes
<1> QED
  BY <1>1, DispatchInvariant, PTL

-----------------------------------------------------------------------------
(* The dispatch implements DispatchContract.                                *)

\* The timer of a call runs from the moment its confirmation is sent.
TimerInv ==
  \A d \in Dispatch :
    /\ d \in timer =>
         dpc[d] \in {"confirm", "aborted", "success", "undetermined", "crashed"}
    /\ dpc[d] \in {"confirm", "aborted", "success", "undetermined"} => d \in timer

\* What a step of a dispatcher does to its own call.
Moves(d, from, to) ==
  /\ dpc[d] \in from
  /\ dpc' = [dpc EXCEPT ![d] = to]
  /\ timer' = IF to = "confirm" THEN timer \cup {d} ELSE timer
  /\ UNCHANGED phase

\* The steps of a dispatcher, told apart by what its caller sees of them.
DispatcherMoves(d) ==
  \/ /\ \E x \in {"pre", "backoff", "timer"} :
          Moves(d, {"start", "pre", "backoff"}, x)
     /\ \/ UNCHANGED owner
        \/ \E r \in Container : /\ owner[r] = NoDispatch
                                /\ owner' = [owner EXCEPT ![r] = d]
  \/ Moves(d, {"start", "pre", "backoff"}, "preFailed") /\ UNCHANGED owner
  \/ Moves(d, {"timer"}, "confirm") /\ UNCHANGED owner
  \/ /\ Moves(d, {"confirm"}, "aborted") /\ UNCHANGED owner
     /\ \E code \in {"Aborted", "NotFound"} :
          <<"confirm", requestID[d], code>> \in replies
  \/ \E x \in {"success", "undetermined"} :
       Moves(d, {"confirm"}, x) /\ UNCHANGED owner
  \/ Moves(d, {"start", "pre", "backoff", "timer", "confirm"}, "crashed")
       /\ UNCHANGED owner

\* Every step of a dispatcher is of that form.
LEMMA DispatcherCases ==
  ASSUME NEW d \in Dispatch, DispatchTypeOK, Dispatcher(d)
  PROVE  DispatcherMoves(d)
<1>0. dpc[d] \in DispatchStates
  BY Zenon DEF DispatchTypeOK
<1>1. ASSUME NEW r \in Container, SendPreDispatch(d, r) PROVE DispatcherMoves(d)
  <2>1. Moves(d, {"start", "pre", "backoff"}, "pre")
    BY <1>1, Zenon DEF SendPreDispatch, Moves, runnerVars
  <2> QED
    BY <1>1, <2>1, Zenon DEF SendPreDispatch, DispatcherMoves
<1>2. ASSUME PreDispatchReply(d) PROVE DispatcherMoves(d)
  <2>1. \/ Moves(d, {"start", "pre", "backoff"}, "timer")
        \/ Moves(d, {"start", "pre", "backoff"}, "preFailed")
    BY <1>2, Zenon DEF PreDispatchReply, Moves, runnerVars
  <2>2. UNCHANGED owner
    BY <1>2, Zenon DEF PreDispatchReply
  <2> QED
    BY <2>1, <2>2, Zenon DEF DispatcherMoves
<1>3. ASSUME PreDispatchError(d) \/ PreDispatchGiveUp(d) PROVE DispatcherMoves(d)
  <2>1. \/ Moves(d, {"start", "pre", "backoff"}, "backoff")
        \/ Moves(d, {"start", "pre", "backoff"}, "preFailed")
    BY <1>3, Zenon DEF PreDispatchError, PreDispatchGiveUp, Moves, runnerVars
  <2>2. UNCHANGED owner
    BY <1>3, Zenon DEF PreDispatchError, PreDispatchGiveUp
  <2> QED
    BY <2>1, <2>2, Zenon DEF DispatcherMoves
<1>4. ASSUME SendConfirm(d) PROVE DispatcherMoves(d)
  BY <1>4, Zenon DEF SendConfirm, DispatcherMoves, Moves, runnerVars
<1>5. ASSUME ConfirmReply(d) PROVE DispatcherMoves(d)
  <2>1. PICK code \in Codes :
          /\ <<"confirm", requestID[d], code>> \in replies
          /\ dpc' = [dpc EXCEPT ![d] = IF code = "OK" THEN "success" ELSE "aborted"]
    BY <1>5, Zenon DEF ConfirmReply
  <2>2. dpc[d] = "confirm" /\ UNCHANGED <<owner, timer, phase>>
    BY <1>5, Zenon DEF ConfirmReply, runnerVars
  <2>3. CASE code = "OK"
    <3>1. Moves(d, {"confirm"}, "success")
      BY <2>1, <2>2, <2>3, Zenon DEF Moves
    <3> QED
      BY <2>2, <3>1, Zenon DEF DispatcherMoves
  <2>4. CASE code # "OK"
    <3>1. Moves(d, {"confirm"}, "aborted")
      BY <2>1, <2>2, <2>4, Zenon DEF Moves
    <3>2. code \in {"Aborted", "NotFound"}
      BY <2>4, Zenon DEF Codes
    <3> QED
      BY <2>1, <2>2, <3>1, <3>2, Zenon DEF DispatcherMoves
  <2> QED
    BY <2>3, <2>4, Zenon
<1>6. ASSUME ConfirmError(d) PROVE DispatcherMoves(d)
  <2>1. Moves(d, {"confirm"}, "undetermined") /\ UNCHANGED owner
    BY <1>6, Zenon DEF ConfirmError, Moves, runnerVars
  <2> QED
    BY <2>1, Zenon DEF DispatcherMoves
<1>7. ASSUME DispatcherCrash(d) PROVE DispatcherMoves(d)
  <2>1. dpc[d] \in {"start", "pre", "backoff", "timer", "confirm"}
    BY <1>0, <1>7, Zenon DEF DispatcherCrash, DispatchStates
  <2>2. Moves(d, {"start", "pre", "backoff", "timer", "confirm"}, "crashed")
          /\ UNCHANGED owner
    BY <1>7, <2>1, Zenon DEF DispatcherCrash, Moves, runnerVars
  <2> QED
    BY <2>2, Zenon DEF DispatcherMoves
<1> QED
  BY <1>1, <1>2, <1>3, <1>4, <1>5, <1>6, <1>7, Zenon DEF Dispatcher

\* What the executor does leaves the dispatchers alone.
LEMMA ExecutorLeavesCalls ==
  ASSUME Executor
  PROVE  UNCHANGED <<dpc, timer, owner>>
BY Zenon DEF Executor, HandlePreDispatch, HandleConfirm, Answer, dispatchVars

\* TimerInv is preserved by every step.
LEMMA TimerInvStep ==
  ASSUME DispatchTypeOK, TimerInv, [Next]_vars
  PROVE  TimerInv'
<1>1. ASSUME UNCHANGED <<dpc, timer>> PROVE TimerInv'
  BY <1>1, Zenon DEF TimerInv
<1>2. ASSUME NEW d \in Dispatch, NEW from, NEW to, Moves(d, from, to),
             from \subseteq {"start", "pre", "backoff", "timer", "confirm"},
             \/ to \in {"pre", "backoff", "timer", "preFailed"} /\ "confirm" \notin from
             \/ to = "confirm"
             \/ to \in {"aborted", "success", "undetermined"} /\ from = {"confirm"}
             \/ to = "crashed"
      PROVE  TimerInv'
  <2> SUFFICES ASSUME NEW x \in Dispatch PROVE TimerInv!(x)'
    BY Zenon DEF TimerInv
  <2>1. CASE x # d
    <3>1. dpc'[x] = dpc[x] /\ (x \in timer' <=> x \in timer)
      BY <1>2, <2>1, Zenon DEF Moves, DispatchTypeOK
    <3> QED
      BY <3>1, Zenon DEF TimerInv
  <2>2. CASE x = d
    <3>1. dpc'[x] = to /\ dpc[x] \in from
      BY <1>2, <2>2, Zenon DEF Moves, DispatchTypeOK
    <3>2. x \in timer' <=> (x \in timer \/ to = "confirm")
      BY <1>2, <2>2, Zenon DEF Moves
    <3>3. dpc[x] \in {"start", "pre", "backoff", "timer"} => x \notin timer
      BY Zenon DEF TimerInv
    <3>4. dpc[x] = "confirm" => x \in timer
      BY Zenon DEF TimerInv
    <3> QED
      BY <1>2, <3>1, <3>2, <3>3, <3>4, Zenon
  <2> QED
    BY <2>1, <2>2, Zenon
<1>3. ASSUME NEW d \in Dispatch, Dispatcher(d) PROVE TimerInv'
  <2>1. DispatcherMoves(d)
    BY <1>3, DispatcherCases, Zenon
  <2> QED
    BY <1>2, <2>1, Zenon DEF DispatcherMoves
<1> QED
  BY <1>1, <1>3, ExecutorLeavesCalls, Zenon DEF Next, vars, dispatchVars

\* A step that takes no container out of "new", and gives only a fresh request
\* ID to a call, changes nothing in what has been launched.
LEMMA LaunchedSame ==
  ASSUME DispatchInv, NEW d,
         \A r \in Container : phase'[r] = "new" <=> phase[r] = "new",
         \/ UNCHANGED owner
         \/ \E r \in Container : /\ owner[r] = NoDispatch
                                 /\ owner' = [owner EXCEPT ![r] = d]
  PROVE  UNCHANGED Launched
<1>1. owner \in [Container -> Dispatch \cup {NoDispatch}]
  BY Zenon DEF DispatchInv, DispatchTypeOK
<1>2. \A r \in Container : owner[r] = NoDispatch => phase[r] = "new"
  BY Zenon DEF DispatchInv, RequestInv, Methods, Codes
<1>3. \A x \in Dispatch, r \in Container :
        owner'[r] = x /\ phase'[r] # "new" <=> owner[r] = x /\ phase[r] # "new"
  BY <1>1, <1>2, Zenon
<1>4. \A x \in Dispatch : Accepted(x)' = Accepted(x)
  BY <1>3, Zenon DEF Accepted
<1> QED
  BY <1>4, Zenon DEF Launched

\* A step of a dispatcher changes only its own call in its caller's eyes.
LEMMA CallsSeenMove ==
  ASSUME DispatchTypeOK, NEW d \in Dispatch, NEW from, NEW to, Moves(d, from, to)
  PROVE  CallsSeen' = [CallsSeen EXCEPT ![d] = CallOf(d)'] /\ dpc'[d] = to
<1>1. dpc'[d] = to
  BY Zenon DEF Moves, DispatchTypeOK
<1>2. ASSUME NEW x \in Dispatch, x # d PROVE CallOf(x)' = CallOf(x)
  <2>1. dpc'[x] = dpc[x] /\ (x \in timer' <=> x \in timer)
    BY <1>2, Zenon DEF Moves, DispatchTypeOK
  <2> QED
    BY <2>1, Zenon DEF CallOf
<1>3. CallsSeen' = [CallsSeen EXCEPT ![d] = CallOf(d)']
  BY <1>2, Zenon DEF CallsSeen
<1> QED
  BY <1>1, <1>3, Zenon

\* What moves no dispatcher changes nothing in its caller's eyes.
LEMMA CallsSeenSame ==
  ASSUME UNCHANGED <<dpc, timer>>
  PROVE  UNCHANGED CallsSeen
<1>1. ASSUME NEW d \in Dispatch PROVE CallOf(d)' = CallOf(d)
  BY Zenon DEF CallOf
<1> QED
  BY <1>1, Zenon DEF CallsSeen

\* Each step of a dispatcher is a step of its call in DispatchContract, or none.
LEMMA DispatcherContract ==
  ASSUME DispatchInv, TimerInv, NEW d \in Dispatch, Dispatcher(d)
  PROVE  Contract!ContractNext \/ UNCHANGED <<CallsSeen, Launched>>
<1>0. DispatchTypeOK /\ DispatcherMoves(d)
  BY DispatcherCases, Zenon DEF DispatchInv
<1>1. /\ CallsSeen \in [Dispatch -> Contract!CallStates]
      /\ CallsSeen[d] = CallOf(d)
  BY Zenon DEF CallsSeen, CallOf, Contract!CallStates
<1>2. UNCHANGED Launched
  BY <1>0, LaunchedSame, Zenon DEF DispatcherMoves, Moves
<1>3. dpc[d] \in {"start", "pre", "backoff", "timer"} =>
        d \notin timer /\ CallOf(d) = "dispatching"
  <2>1. ASSUME dpc[d] \in {"start", "pre", "backoff", "timer"} PROVE d \notin timer
    BY <2>1, Zenon DEF TimerInv
  <2> QED
    BY <2>1, Zenon DEF CallOf, Ended
<1>4. dpc[d] = "confirm" => d \in timer /\ CallOf(d) = "confirming"
  BY Zenon DEF TimerInv, CallOf
<1>5. ASSUME NEW from, NEW to, Moves(d, from, to)
      PROVE  CallsSeen' = [CallsSeen EXCEPT ![d] = CallOf(d)'] /\ dpc'[d] = to
  BY <1>0, <1>5, CallsSeenMove, Zenon
<1>6. ASSUME NEW x \in {"pre", "backoff", "timer"},
             Moves(d, {"start", "pre", "backoff"}, x)
      PROVE  UNCHANGED CallsSeen
  <2>1. d \notin timer'
    BY <1>3, <1>6, Zenon DEF Moves
  <2>2. CallOf(d)' = "dispatching"
    BY <1>5, <1>6, <2>1, Zenon DEF CallOf, Ended
  <2> QED
    BY <1>1, <1>3, <1>5, <1>6, <2>2, Zenon DEF Moves
<1>7. ASSUME Moves(d, {"start", "pre", "backoff"}, "preFailed")
      PROVE  Contract!PreDispatchFails(d)
  <2>1. CallOf(d)' = "failed" /\ CallOf(d) = "dispatching"
    BY <1>3, <1>5, <1>7, Zenon DEF Moves, CallOf, Ended
  <2> QED
    BY <1>1, <1>2, <1>5, <1>7, <2>1, Zenon
    DEF Contract!PreDispatchFails, Contract!Move
<1>8. ASSUME Moves(d, {"timer"}, "confirm") PROVE Contract!TimerStarts(d)
  <2>1. CallOf(d)' = "confirming" /\ CallOf(d) = "dispatching"
    BY <1>3, <1>5, <1>8, Zenon DEF Moves, CallOf
  <2> QED
    BY <1>1, <1>2, <1>5, <1>8, <2>1, Zenon DEF Contract!TimerStarts, Contract!Move
<1>9. ASSUME Moves(d, {"confirm"}, "aborted"),
             \E code \in {"Aborted", "NotFound"} :
               <<"confirm", requestID[d], code>> \in replies
      PROVE  Contract!Aborts(d)
  <2>1. CallOf(d)' = "failed" /\ CallOf(d) = "confirming"
    BY <1>4, <1>5, <1>9, Zenon DEF Moves, CallOf
  <2>2. ASSUME NEW r \in Accepted(d) PROVE FALSE
    <3>1. r \in Container /\ phase[r] # "new" /\ requestID[d] = r
      BY AcceptedIsCurrent, Zenon DEF Accepted
    <3> QED
      BY <1>9, <3>1, Zenon DEF DispatchInv, RequestInv, Codes
  <2>3. d \notin Launched
    BY <2>2, Zenon DEF Launched
  <2> QED
    BY <1>1, <1>2, <1>5, <1>9, <2>1, <2>3, Zenon DEF Contract!Aborts, Contract!Move
<1>10. ASSUME NEW x \in {"success", "undetermined"}, Moves(d, {"confirm"}, x)
       PROVE  Contract!Returns(d)
  <2>1. CallOf(d)' = "dispatched" /\ CallOf(d) = "confirming"
    BY <1>4, <1>5, <1>10, Zenon DEF Moves, CallOf
  <2> QED
    BY <1>1, <1>2, <1>5, <1>10, <2>1, Zenon DEF Contract!Returns, Contract!Move
<1>11. ASSUME Moves(d, {"start", "pre", "backoff", "timer", "confirm"}, "crashed")
       PROVE  Contract!CallersDie({d})
  <2>1. \/ CallOf(d) = "dispatching" /\ CallOf(d)' = "failed"
        \/ CallOf(d) = "confirming" /\ CallOf(d)' = "lost"
    <3>1. timer' = timer /\ dpc'[d] = "crashed"
      BY <1>5, <1>11, Zenon DEF Moves
    <3>2. dpc[d] \in {"start", "pre", "backoff", "timer"} \/ dpc[d] = "confirm"
      BY <1>11, Zenon DEF Moves
    <3>3. d \notin timer => CallOf(d)' = "failed"
      BY <3>1, Zenon DEF CallOf, Ended
    <3>4. d \in timer => CallOf(d)' = "lost"
      BY <3>1, Zenon DEF CallOf
    <3> QED
      BY <1>3, <1>4, <3>2, <3>3, <3>4, Zenon
  <2>2. CallsSeen' = [x \in Dispatch |->
          CASE x \in {d} /\ CallsSeen[x] = "dispatching" -> "failed"
            [] x \in {d} /\ CallsSeen[x] = "confirming"  -> "lost"
            [] OTHER -> CallsSeen[x]]
    BY <1>1, <1>5, <1>11, <2>1, Zenon
  <2> QED
    BY <1>2, <2>2, Zenon DEF Contract!CallersDie
<1> QED
  BY <1>0, <1>2, <1>6, <1>7, <1>8, <1>9, <1>10, <1>11, Zenon
  DEF DispatcherMoves, Contract!ContractNext

\* The executor launches what a confirmed request stands for, and does nothing
\* else that DispatchContract speaks of.
LEMMA ExecutorContract ==
  ASSUME DispatchInv, Executor
  PROVE  Contract!ContractNext \/ UNCHANGED <<CallsSeen, Launched>>
<1>0. UNCHANGED <<dpc, timer, owner>>
  BY ExecutorLeavesCalls, Zenon
<1>1. UNCHANGED CallsSeen
  BY <1>0, CallsSeenSame, Zenon
<1>2. ASSUME \A r \in Container : phase'[r] = "new" <=> phase[r] = "new"
      PROVE  UNCHANGED Launched
  BY <1>0, <1>2, LaunchedSame, Zenon
<1>3. ASSUME UNCHANGED runnerVars PROVE UNCHANGED Launched
  BY <1>2, <1>3, Zenon DEF runnerVars
<1>4. ASSUME RunnerStep PROVE UNCHANGED Launched
  BY <1>2, <1>4, RunnerKeepsNew, Zenon DEF DispatchInv
<1>5. ASSUME NEW r \in Container, Answer("confirm", r, "OK"), ConfirmAccepted(r)
      PROVE  \E d \in Dispatch : Contract!Launches(d)
  <2>1. /\ <<"confirm", r>> \in calls
        /\ \A code \in Codes : <<"confirm", r, code>> \notin replies
    BY <1>5, Zenon DEF Answer, DispatchInv, RequestInv
  <2>2. phase[r] = "new" /\ owner[r] # NoDispatch
    BY <2>1, Zenon DEF DispatchInv, RequestInv, Methods, Codes
  <2>3. phase \in [Container -> Phases] /\ phase' = [phase EXCEPT ![r] = "queued"]
    BY <1>5, Zenon DEF ConfirmAccepted, AddWrappedTask, DispatchInv, RunnerInv,
       RunnerTypeOK
  <2>4. PICK d \in Dispatch : owner[r] = d
    BY <2>2, Zenon DEF DispatchInv, DispatchTypeOK
  <2>5. /\ d \in timer /\ requestID[d] = r
        /\ dpc[d] \in {"confirm", "success", "undetermined", "crashed"}
    <3>1. Sent(r)
      BY <2>1, Zenon DEF Sent
    <3>2. /\ d \in timer /\ requestID[d] = r
          /\ dpc[d] \in {"confirm", "aborted", "success", "undetermined", "crashed"}
      BY <2>4, <3>1, Zenon DEF DispatchInv, OwnerInv
    <3>3. dpc[d] # "aborted"
      BY <2>1, <2>4, <3>2, Zenon DEF DispatchInv, OwnerInv, Codes
    <3> QED
      BY <3>2, <3>3, Zenon
  <2>6. CallsSeen[d] \in {"confirming", "dispatched", "lost"}
    BY <2>4, <2>5, Zenon DEF CallsSeen, CallOf
  <2>7. d \notin Launched
    <3>1. ASSUME NEW x \in Accepted(d) PROVE FALSE
      BY <2>2, <2>4, <2>5, <3>1, AcceptedIsCurrent, Zenon DEF Accepted
    <3> QED
      BY <3>1, Zenon DEF Launched
  <2>8. Launched' = Launched \cup {d}
    <3>1. ASSUME NEW x \in Dispatch, x # d PROVE Accepted(x)' = Accepted(x)
      BY <1>0, <2>3, <2>4, <3>1, Zenon DEF Accepted
    <3>2. r \in Accepted(d)'
      BY <1>0, <2>3, <2>4, Zenon DEF Accepted
    <3>3. ASSUME NEW x \in Dispatch, x # d PROVE  x \in Launched' <=> x \in Launched
      BY <3>1, <3>3, Zenon DEF Launched
    <3>5. d \in Launched'
      BY <2>4, <3>2, Zenon DEF Launched
    <3>4. Launched \subseteq Dispatch /\ Launched' \subseteq Dispatch
      BY Zenon DEF Launched
    <3> QED
      BY <2>4, <3>3, <3>4, <3>5, Zenon
  <2> QED
    BY <1>1, <2>4, <2>6, <2>7, <2>8, Zenon DEF Contract!Launches
<1>6. ASSUME NEW r \in Container, HandleConfirm(r)
      PROVE  (\E d \in Dispatch : Contract!Launches(d)) \/ UNCHANGED Launched
  BY <1>3, <1>5, <1>6, Zenon DEF HandleConfirm, ConfirmNotFound, ConfirmRefused
<1>7. ASSUME NEW r \in Container, HandlePreDispatch(r) PROVE UNCHANGED Launched
  BY <1>3, <1>7, Zenon DEF HandlePreDispatch, PreDispatchTask
<1> QED
  BY <1>1, <1>3, <1>4, <1>6, <1>7, Zenon
  DEF Executor, CheckTTLOnce, Contract!ContractNext

\* Nothing is dispatched and nothing launched at the start.
LEMMA ContractStarts == Init => Contract!ContractInit /\ TimerInv
<1> SUFFICES ASSUME Init PROVE Contract!ContractInit /\ TimerInv
  BY Zenon
<1>1. CallsSeen = [d \in Dispatch |-> "dispatching"]
  <2>1. \A d \in Dispatch : CallOf(d) = "dispatching"
    BY Zenon DEF Init, CallOf, Ended
  <2> QED
    BY <2>1, Zenon DEF CallsSeen
<1>2. Launched = {}
  BY DispatchAssumption, Zenon DEF Init, Launched, Accepted
<1>3. TimerInv
  BY Zenon DEF Init, TimerInv
<1> QED
  BY <1>1, <1>2, <1>3, Zenon DEF Contract!ContractInit

\* The dispatchers, the wire, the committer and the runner implement
\* DispatchContract, for any number of concurrent calls, retries, delayed and
\* lost messages and crashes of dispatchers.
THEOREM ImplementsDispatch == Spec => DispatchKept
<1>1. DispatchInv /\ TimerInv /\ [Next]_vars => TimerInv'
  BY TimerInvStep, Zenon DEF DispatchInv
<1>2. DispatchInv /\ TimerInv /\ [Next]_vars =>
        [Contract!ContractNext]_<<CallsSeen, Launched>>
  <2>1. ASSUME UNCHANGED vars PROVE UNCHANGED <<CallsSeen, Launched>>
    <3>1. UNCHANGED <<dpc, timer, owner, phase>>
      BY <2>1, Zenon DEF vars, runnerVars, dispatchVars
    <3>2. UNCHANGED Launched
      BY <3>1, Zenon DEF Launched, Accepted
    <3> QED
      BY <3>1, <3>2, CallsSeenSame, Zenon
  <2> QED
    BY <2>1, DispatcherContract, ExecutorContract, Zenon DEF Next
<1> QED
  BY <1>1, <1>2, ContractStarts, DispatchInvariant, PTL
  DEF Spec, DispatchKept, Contract!ContractSpec, Contract!contractVars
=============================================================================
