------------------------- MODULE RunLifecycleProofs -------------------------
(***************************************************************************)
(* Machine-checked proofs about the runs of the WebUI, for any number of   *)
(* runs, worker threads, requests and failures.                            *)
(***************************************************************************)
EXTENDS RunLifecycle, TLAPS

(* The first of a non-empty sequence and its remainder.                    *)
LEMMA SequenceParts ==
  ASSUME NEW S, NEW s \in Seq(S), s # <<>>
  PROVE  Head(s) \in S /\ Tail(s) \in Seq(S)
  OBVIOUS

(* A sequence of length zero is the empty one.                             *)
LEMMA EmptyLength ==
  ASSUME NEW S, NEW u \in Seq(S)
  PROVE  Len(u) = 0 <=> u = <<>>
  OBVIOUS

(* The remainder has the same last element, unless there is none.          *)
LEMMA LastOfTail ==
  ASSUME NEW S, NEW s \in Seq(S), s # <<>>
  PROVE  /\ Len(s) = 1 => Tail(s) = <<>> /\ Head(s) = s[1]
         /\ Len(s) # 1 => /\ Tail(s) # <<>> /\ Len(Tail(s)) = Len(s) - 1
                          /\ Tail(s)[Len(s) - 1] = s[Len(s)]
<1>1. Len(s) \in Nat \ {0} /\ Len(Tail(s)) = Len(s) - 1 /\ Tail(s) \in Seq(S) /\ Head(s) = s[1]
  OBVIOUS
<1>2. \A i \in 1 .. Len(s) - 1 : Tail(s)[i] = s[i + 1]
  OBVIOUS
<1>3. Len(s) # 1 => Tail(s)[Len(s) - 1] = s[Len(s)]
  <2>1. Len(s) # 1 => Tail(s)[Len(s) - 1] = s[(Len(s) - 1) + 1]  BY <1>1, <1>2
  <2>2. (Len(s) - 1) + 1 = Len(s)  BY <1>1
  <2> QED BY <2>1, <2>2
<1>4. Len(s) = 1 => Len(Tail(s)) = 0  BY <1>1
<1>5. Len(Tail(s)) = 0 <=> Tail(s) = <<>>  BY <1>1, EmptyLength, Zenon
<1>6. Len(s) # 1 => Len(Tail(s)) # 0  BY <1>1
<1> QED BY <1>1, <1>3, <1>4, <1>5, <1>6

(* Two sequences of one set, joined.                                        *)
LEMMA Concatenated ==
  ASSUME NEW S, NEW s \in Seq(S), NEW u \in Seq(S)
  PROVE  s \o u \in Seq(S)
  OBVIOUS

(* A handler that is not idle works for one run.                            *)
LEMMA HandlerShape ==
  ASSUME TypeOK
  PROVE  \/ handler = Idle /\ handler.does = "nothing" /\ handler.run = Nothing
            /\ handler.todo = <<>> /\ handler.open = FALSE
         \/ /\ handler.does \in {"create", "record"} /\ handler.run \in RunIds
            /\ handler.todo \in Seq(OpsOf(handler.run)) /\ handler.open \in BOOLEAN
            /\ handler \in [does : {"create", "record"}, run : {handler.run},
                            todo : Seq(OpsOf(handler.run)), open : BOOLEAN]
  BY DEF TypeOK, Idle

(* Its next write is one for that run.                                     *)
LEMMA NextOp ==
  ASSUME TypeOK, handler.todo # <<>>
  PROVE  /\ handler # Idle /\ handler.does \in {"create", "record"} /\ handler.run \in RunIds
         /\ Op \in OpsOf(handler.run) /\ Op.run = handler.run /\ Op.file \in Files
         /\ Tail(handler.todo) \in Seq(OpsOf(handler.run))
<1>1. handler # Idle /\ handler.does \in {"create", "record"} /\ handler.run \in RunIds
        /\ handler.todo \in Seq(OpsOf(handler.run))
  <2>1. handler # Idle
    BY DEF Idle
  <2> QED BY <2>1, HandlerShape, Zenon
<1>2. Op \in OpsOf(handler.run) /\ Tail(handler.todo) \in Seq(OpsOf(handler.run))
  BY <1>1, SequenceParts DEF Op
<1> QED BY <1>1, <1>2 DEF OpsOf, Files

(* The writes a task records, and those of a new run.                      *)
LEMMA EndedOp ==
  ASSUME TypeOK, NEW r \in RunIds, NEW status \in TerminalStatuses
  PROVE  Ended(r, status) \in OpsOf(r)
  BY DEF Ended, Update, OpsOf, Metas, Meta, SourceOf, Readable, TypeOK, Files, Directories

(* ... the result ...                                                      *)
LEMMA ResultOp ==
  ASSUME NEW r \in RunIds, NEW artifact \in Schemas \cup {Nothing}
  PROVE  Result(r, artifact) \in OpsOf(r)
  BY DEF Result, Write, OpsOf, Results

(* ... and those that seed a run.                                          *)
LEMMA SeedOps ==
  ASSUME NEW r \in RunIds, NEW source \in RunIds \cup {Nothing}
  PROVE  /\ SeedWrites(r) \in Seq(OpsOf(r))
         /\ Enriched(r, source) \in Seq(OpsOf(r))
         /\ \A schema \in Schemas : ChildWrites(r, source, schema) \in Seq(OpsOf(r))
<1> DEFINE O == OpsOf(r)
<1>1. Write(r, "meta", Meta("running", Nothing)) \in O /\ Write(r, "inputs", "given") \in O
  BY DEF Write, Meta, OpsOf, Metas
<1>2. Update(r, Meta("running", source)) \in O
  BY DEF Update, Meta, OpsOf, Metas
<1>3. \A schema \in Schemas : Write(r, "schema", schema) \in O
  BY DEF Write, OpsOf
<1> HIDE DEF O
<1> QED BY <1>1, <1>2, <1>3 DEF SeedWrites, Enriched, ChildWrites, O

(* The value of a write belongs into its file.                             *)
LEMMA OpValue ==
  ASSUME NEW r \in RunIds, NEW op \in OpsOf(r)
  PROVE  /\ op.file = "meta" => op.value \in Metas
         /\ op.file = "inputs" => op.value = "given"
         /\ op.file = "schema" => op.value \in Schemas
         /\ op.file = "result" => op.value \in Results
  BY DEF OpsOf

(* What a file may hold.                                                   *)
Belongs(v, f) ==
  \/ v \in Missing
  \/ f = "meta" /\ v \in Metas
  \/ f = "inputs" /\ v = "given"
  \/ f = "schema" /\ v \in Schemas
  \/ f = "result" /\ v \in Results

(* Writing one file of one run.                                            *)
LEMMA FileWrite ==
  ASSUME TypeOK, NEW r \in RunIds, NEW f \in Files, NEW v, Belongs(v, f),
         disk' = [disk EXCEPT ![r][f] = v]
  PROVE  /\ disk' \in [RunIds -> Directories]
         /\ \A q \in RunIds : q # r => disk'[q] = disk[q]
         /\ \A g \in Files : g # f => disk'[r][g] = disk[r][g]
         /\ disk'[r][f] = v
  BY DEF TypeOK, Directories, Files, Belongs

(* What filling the open file of a handler may change.                     *)
LEMMA FillsFile ==
  ASSUME TypeOK, HandlerInv, LoopFills
  PROVE  /\ disk' \in [RunIds -> Directories]
         /\ \A q \in RunIds : q # handler.run => disk'[q] = disk[q]
         /\ \A g \in Files : g # Op.file => disk'[handler.run][g] = disk[handler.run][g]
<1>1. PICK c \in Filled(disk[Op.run][Op.file], Op.value) :
        disk' = [disk EXCEPT ![Op.run][Op.file] = c]
  BY DEF LoopFills
<1>2. handler.run \in RunIds /\ Op \in OpsOf(handler.run) /\ Op.run = handler.run
        /\ Op.file \in Files
  BY NextOp DEF LoopFills, HandlerInv
<1>3. c \in Missing \/ c = Op.value
  BY <1>1 DEF Filled, Missing
<1>4. /\ Op.file = "meta" => Op.value \in Metas
      /\ Op.file = "inputs" => Op.value = "given"
      /\ Op.file = "schema" => Op.value \in Schemas
      /\ Op.file = "result" => Op.value \in Results
  BY <1>2, OpValue
<1> DEFINE f == Op.file
<1>5. Belongs(c, f)
  BY <1>2, <1>3, <1>4 DEF Files, Belongs
<1>6. disk' = [disk EXCEPT ![handler.run][f] = c]
  BY <1>1, <1>2
<1> HIDE DEF f
<1>7. f \in Files
  BY <1>2 DEF f
<1>8. /\ disk' \in [RunIds -> Directories]
      /\ \A q \in RunIds : q # handler.run => disk'[q] = disk[q]
      /\ \A g \in Files : g # f => disk'[handler.run][g] = disk[handler.run][g]
  BY <1>2, <1>5, <1>6, <1>7 DEF TypeOK, Directories, Files, Belongs
<1> QED BY <1>8 DEF f

(* What a thread knows stays so as long as no task that is over comes back, *)
(* no run it may know of is created or generated, and none is reviewed.    *)
LEMMA FitsStays ==
  ASSUME TypeOK, NEW thread \in ThreadStates, Fits(thread),
         \A r \in RunIds : tasks[r] = "done" => tasks'[r] = "done",
         created \in Nat, created' \in Nat, created <= created',
         handler'.does = "create" =>
           \/ handler.does = "create" /\ handler'.run = handler.run
           \/ handler'.run \in Nat /\ handler'.run > created,
         overwritten => overwritten',
         \A r \in RunIds : \/ Live(r)' => Live(r)
                           \/ handler.does = "create" /\ r = handler.run,
         \A r \in RunIds : reviewed[r] = Nothing => reviewed'[r] = Nothing
  PROVE  Fits(thread)'
<1>1. thread.run \in RunIds \cup {Nothing}
  BY DEF ThreadStates
<1>2. (thread.does \in Wiping => thread.value \in RunIds /\ tasks[thread.value] = "done")'
  BY DEF Fits
<1>3. /\ thread.does \in {"save", "fill"} => thread.value \in Schemas
      /\ thread.does \notin {"nothing", "look", "look run", "look task"} => thread.run # Nothing
  BY DEF Fits
<1>4. ASSUME thread.run # Nothing
      PROVE  /\ (thread.run <= created)'
             /\ (handler.does = "create" => thread.run # handler.run)'
             /\ (thread.does \in {"list", "remove"} => overwritten \/ ~ Live(thread.run))'
             /\ (thread.does = "remove" => reviewed[thread.run] = Nothing)'
  <2>1. thread.run \in RunIds /\ thread.run \in Nat /\ thread.run <= created
    <3>1. thread.run \in RunIds
      BY <1>1, <1>4
    <3>2. thread.run <= created
      BY <1>4 DEF Fits
    <3> QED BY <3>1, <3>2 DEF RunIds
  <2>2. handler.does = "create" => thread.run # handler.run
    BY <1>4 DEF Fits
  <2>3. (handler.does = "create" => thread.run # handler.run)'
    BY <2>1, <2>2
  <2>4. (thread.does \in {"list", "remove"} => overwritten \/ ~ Live(thread.run))'
    BY <1>4, <2>1, <2>2 DEF Fits
  <2>5. (thread.does = "remove" => reviewed[thread.run] = Nothing)'
    BY <1>4, <2>1 DEF Fits
  <2> QED BY <2>1, <2>3, <2>4, <2>5
<1> QED BY <1>2, <1>3, <1>4 DEF Fits

(* The invariant holds when the server first starts.                       *)
LEMMA InitInv == Init => WorkInv
<1> SUFFICES ASSUME Init PROVE WorkInv
  OBVIOUS
<1> USE LifecycleAssumption DEF Init, RunIds, Idle, Free, Files
<1>1. TypeOK
  <2>1. disk \in [RunIds -> Directories]
    BY DEF NoDirectory, Missing, Directories
  <2>2. jobs \in [RunIds -> [mode : Modes, schema : Schemas \cup {Nothing}]]
    BY DEF NoJob, Modes
  <2>3. threads \in [Threads -> ThreadStates]
    BY DEF ThreadStates
  <2>4. tasks = [r \in RunIds |-> "none"] /\ handler = Idle
    OBVIOUS
  <2>5. reviewed \in [RunIds -> Schemas \cup {Nothing}] /\ overwritten \in BOOLEAN
    OBVIOUS
  <2>6. /\ created \in 0 .. MaxRuns /\ requests \in 0 .. MaxRequests /\ failures \in 0 .. MaxFailures
        /\ activeRun = Nothing /\ managed = Nothing /\ cutShort = {} /\ contested = {}
    OBVIOUS
  <2> HIDE DEF Init, RunIds, Idle, Free, Files
  <2> QED BY <2>1, <2>2, <2>3, <2>4, <2>5, <2>6 DEF TypeOK
<1>2. ManagerInv /\ HandlerInv /\ FutureInv
  BY DEF ManagerInv, HandlerInv, FutureInv, Live
<1>3. ReviewInv /\ ThreadsInv
  BY DEF ReviewInv, ThreadsInv, Fits, Wiping
<1> QED BY <1>1, <1>2, <1>3 DEF WorkInv

-----------------------------------------------------------------------------
(* The event loop.                                                         *)

(* The files the event loop writes, and the end of a handler.              *)
LEMMA FileInv ==
  ASSUME WorkInv, LoopOpens \/ LoopFills \/ LoopFails \/ Starts \/ Recorded
  PROVE  WorkInv'
<1> USE LifecycleAssumption DEF WorkInv, TypeOK, RunIds, manager, bounds, history, Files, Idle
<1>1. CASE LoopOpens
  <2>1. TypeOK'
    <3>1. handler' \in [does : {"create", "record"}, run : {handler.run},
                       todo : Seq(OpsOf(handler.run)), open : BOOLEAN]
      BY <1>1, NextOp, HandlerShape DEF LoopOpens
    <3>2. disk' \in [RunIds -> Directories]
      BY <1>1, NextOp, FileWrite DEF LoopOpens, Missing, Belongs
    <3>3. reviewed' \in [RunIds -> Schemas \cup {Nothing}]
      BY <1>1, NextOp DEF LoopOpens
    <3> QED BY <1>1, <3>1, <3>2, <3>3, NextOp DEF LoopOpens
  <2>2. ManagerInv'
    BY <1>1, NextOp, HandlerShape DEF ManagerInv, HandlerInv, Live, LoopOpens, CanOpen,
       HasDirectory, Missing
  <2>3. HandlerInv'
    BY <1>1, NextOp, HandlerShape DEF HandlerInv, FutureInv, LoopOpens, CanOpen,
       HasDirectory, Missing
  <2>4. FutureInv'
    BY <1>1, NextOp, HandlerShape DEF FutureInv, HandlerInv, LoopOpens, CanOpen,
       HasDirectory, Missing
  <2>5. ReviewInv'
    BY <1>1, NextOp, HandlerShape DEF ReviewInv, FutureInv, HandlerInv, Op, LoopOpens,
       CanOpen, HasDirectory, Missing
  <2>6. ThreadsInv'
    BY <1>1, NextOp, HandlerShape DEF ThreadsInv, Fits, HandlerInv, FutureInv,
       ManagerInv, Live, Wiping, ThreadStates, LoopOpens, CanOpen, HasDirectory, Missing
  <2> QED BY <2>1, <2>2, <2>3, <2>4, <2>5, <2>6 DEF WorkInv
<1>2. CASE LoopFills
  <2>1. TypeOK'
    <3>1. handler' \in [does : {"create", "record"}, run : {handler.run},
                       todo : Seq(OpsOf(handler.run)), open : BOOLEAN]
      BY <1>2, NextOp, HandlerShape DEF LoopFills, HandlerInv
    <3>2. disk' \in [RunIds -> Directories]
      BY <1>2, FillsFile
    <3> QED BY <1>2, <3>1, <3>2, NextOp DEF LoopFills, HandlerInv
  <2>2. ManagerInv'
    BY <1>2, NextOp, OpValue, HandlerShape DEF ManagerInv, HandlerInv, Live, LoopFills,
       Filled, Missing
  <2>3. HandlerInv'
    BY <1>2, NextOp, OpValue, HandlerShape DEF HandlerInv, FutureInv, LoopFills, Filled,
       Missing
  <2>4. FutureInv'
    BY <1>2, NextOp, OpValue, HandlerShape DEF FutureInv, HandlerInv, LoopFills, Filled,
       Missing
  <2>5. ReviewInv'
    <3>1. ~ handler'.open
      BY <1>2, NextOp, HandlerShape DEF LoopFills, HandlerInv
    <3>2. \A r \in RunIds : \/ disk'[r].schema = disk[r].schema
                            \/ r = handler.run /\ Op.file = "schema"
      <4>1. /\ \A q \in RunIds : q # handler.run => disk'[q] = disk[q]
            /\ \A g \in Files : g # Op.file => disk'[handler.run][g] = disk[handler.run][g]
        BY <1>2, FillsFile
      <4>2. "schema" # Op.file => disk'[handler.run].schema = disk[handler.run].schema
        BY <4>1
      <4> SUFFICES ASSUME NEW r \in RunIds
                   PROVE  \/ disk'[r].schema = disk[r].schema
                          \/ r = handler.run /\ Op.file = "schema"
        OBVIOUS
      <4>3. CASE r = handler.run
        BY <4>2, <4>3
      <4>4. CASE r # handler.run
        <5>1. disk'[r] = disk[r]
          BY <4>1, <4>4
        <5> QED BY <5>1
      <4> QED BY <4>3, <4>4
    <3> QED BY <1>2, <3>1, <3>2 DEF LoopFills, ReviewInv
  <2>6. ThreadsInv'
    BY <1>2, NextOp, OpValue, HandlerShape DEF ThreadsInv, Fits, HandlerInv, FutureInv,
       ManagerInv, Live, Wiping, ThreadStates, LoopFills, Filled, Missing
  <2> QED BY <2>1, <2>2, <2>3, <2>4, <2>5, <2>6 DEF WorkInv
<1>3. CASE LoopFails
  <2>1. TypeOK'
    <3>1. jobs' \in [RunIds -> [mode : Modes, schema : Schemas \cup {Nothing}]]
      BY <1>3, NextOp DEF LoopFails, NoJob, Modes
    <3>2. tasks' \in [RunIds -> {"none", "generating", "cancelling", "recording", "draining",
                                 "done"}]
      BY <1>3, NextOp DEF LoopFails, AfterFailure
    <3>3. cutShort' \subseteq RunIds
      BY <1>3, NextOp DEF LoopFails
    <3>4. handler' = Idle /\ failures' \in 0 .. MaxFailures
      BY <1>3 DEF LoopFails
    <3> QED BY <1>3, <3>1, <3>2, <3>3, <3>4 DEF LoopFails
  <2>2. ManagerInv'
    BY <1>3, NextOp DEF ManagerInv, HandlerInv, Live, LoopFails, AfterFailure, NoJob,
       Modes
  <2>3. HandlerInv'
    BY <1>3, NextOp DEF HandlerInv, FutureInv, LoopFails, AfterFailure, NoJob, Modes
  <2>4. FutureInv'
    BY <1>3, NextOp DEF FutureInv, HandlerInv, LoopFails, AfterFailure, NoJob, Modes
  <2>5. ReviewInv'
    BY <1>3, NextOp DEF ReviewInv, FutureInv, HandlerInv, Op, LoopFails, AfterFailure,
       NoJob, Modes
  <2>6. ThreadsInv'
    <3> SUFFICES ASSUME NEW t \in Threads PROVE Fits(threads[t])'
      BY DEF ThreadsInv
    <3>1. threads[t] \in ThreadStates /\ Fits(threads[t]) /\ threads'[t] = threads[t]
      BY <1>3 DEF ThreadsInv, LoopFails
    <3>2. \A r \in RunIds : tasks[r] = "done" => tasks'[r] = "done"
      BY <1>3, NextOp DEF LoopFails, AfterFailure, HandlerInv
    <3>3. \A r \in RunIds : Live(r)' => Live(r) \/ (handler.does = "create" /\ r = handler.run)
      BY <1>3, NextOp DEF LoopFails, AfterFailure, HandlerInv, Live
    <3>4. handler'.does = "nothing" /\ UNCHANGED <<created, overwritten, reviewed>>
      BY <1>3 DEF LoopFails
    <3> QED BY <3>1, <3>2, <3>3, <3>4, FitsStays
  <2> QED BY <2>1, <2>2, <2>3, <2>4, <2>5, <2>6 DEF WorkInv
<1>4. CASE Starts
  <2>1. TypeOK'
    BY <1>4, HandlerShape DEF Starts, MayStart, ActiveRun, TaskIsOver
  <2>2. ManagerInv'
    BY <1>4, HandlerShape DEF ManagerInv, HandlerInv, Live, Starts, MayStart, ActiveRun,
       TaskIsOver
  <2>3. HandlerInv'
    BY <1>4, HandlerShape DEF HandlerInv, FutureInv, Starts, MayStart, ActiveRun,
       TaskIsOver
  <2>4. FutureInv'
    BY <1>4, HandlerShape DEF FutureInv, HandlerInv, Starts, MayStart, ActiveRun,
       TaskIsOver
  <2>5. ReviewInv'
    BY <1>4, HandlerShape DEF ReviewInv, FutureInv, HandlerInv, Op, Starts, MayStart,
       ActiveRun, TaskIsOver
  <2>6. ThreadsInv'
    <3> SUFFICES ASSUME NEW t \in Threads PROVE Fits(threads[t])'
      BY DEF ThreadsInv
    <3>1. threads[t] \in ThreadStates /\ Fits(threads[t]) /\ threads'[t] = threads[t]
      BY <1>4 DEF ThreadsInv, Starts
    <3>2. \A r \in RunIds : tasks[r] = "done" => tasks'[r] = "done"
      BY <1>4, HandlerShape DEF Starts, HandlerInv
    <3>3. \A r \in RunIds : Live(r)' => Live(r) \/ (handler.does = "create" /\ r = handler.run)
      BY <1>4, HandlerShape DEF Starts, HandlerInv, Live
    <3>4. handler'.does = "nothing" /\ UNCHANGED <<created, overwritten, reviewed>>
      BY <1>4 DEF Starts
    <3> QED BY <3>1, <3>2, <3>3, <3>4, FitsStays
  <2> QED BY <2>1, <2>2, <2>3, <2>4, <2>5, <2>6 DEF WorkInv
<1>5. CASE Recorded
  <2>1. TypeOK'
    BY <1>5, HandlerShape DEF Recorded
  <2>2. ManagerInv'
    BY <1>5, HandlerShape DEF ManagerInv, HandlerInv, Live, Recorded
  <2>3. HandlerInv'
    BY <1>5, HandlerShape DEF HandlerInv, FutureInv, Recorded
  <2>4. FutureInv'
    BY <1>5, HandlerShape DEF FutureInv, HandlerInv, Recorded
  <2>5. ReviewInv'
    BY <1>5, HandlerShape DEF ReviewInv, FutureInv, HandlerInv, Op, Recorded
  <2>6. ThreadsInv'
    BY <1>5, HandlerShape DEF ThreadsInv, Fits, HandlerInv, FutureInv, ManagerInv, Live,
       Wiping, ThreadStates, Recorded
  <2> QED BY <2>1, <2>2, <2>3, <2>4, <2>5, <2>6 DEF WorkInv
<1> QED BY <1>1, <1>2, <1>3, <1>4, <1>5

(* A task that records its end: only its own task and the handler change.   *)
LEMMA RecordsInv ==
  ASSUME WorkInv, NEW r \in RunIds, handler = Idle, tasks[r] \in {"generating", "cancelling"},
         NEW writes \in Seq(OpsOf(r)), Records(r, writes)
  PROVE  WorkInv'
<1> USE LifecycleAssumption DEF WorkInv, TypeOK, RunIds, manager, bounds, history, Files, Idle,
        Records
<1>0. r <= created
  BY DEF FutureInv
<1>1. TypeOK'
  BY DEF NoJob, Modes
<1>2. ManagerInv'
  BY <1>0 DEF ManagerInv, HandlerInv, Live
<1>3. HandlerInv'
  BY <1>0 DEF HandlerInv, FutureInv
<1>4. FutureInv'
  BY <1>0 DEF FutureInv, HandlerInv
<1>5. ReviewInv'
  BY <1>0 DEF ReviewInv, FutureInv, HandlerInv, Op
<1>6. ThreadsInv'
  BY <1>0 DEF ThreadsInv, Fits, HandlerInv, FutureInv, ManagerInv, Live, Wiping,
     ThreadStates
<1> QED BY <1>1, <1>2, <1>3, <1>4, <1>5, <1>6 DEF WorkInv

(* The tasks of the runs.                                                  *)
LEMMA TaskInv ==
  ASSUME WorkInv, NEW r \in RunIds,
         \/ TaskEnds(r) \/ GenerationFails(r) \/ GenerationRaises(r) \/ GenerationIsCancelled(r)
         \/ \E schema \in Schemas : GenerationSucceeds(r, schema)
  PROVE  WorkInv'
<1> USE LifecycleAssumption DEF WorkInv, TypeOK, RunIds, manager, bounds, history, Files, Idle
<1>1. CASE TaskEnds(r)
  <2>1. TypeOK'
    BY <1>1 DEF TaskEnds
  <2>2. ManagerInv'
    BY <1>1 DEF ManagerInv, HandlerInv, Live, TaskEnds
  <2>3. HandlerInv'
    BY <1>1 DEF HandlerInv, FutureInv, TaskEnds
  <2>4. FutureInv'
    BY <1>1 DEF FutureInv, HandlerInv, TaskEnds
  <2>5. ReviewInv'
    BY <1>1 DEF ReviewInv, FutureInv, HandlerInv, Op, TaskEnds
  <2>6. ThreadsInv'
    BY <1>1 DEF ThreadsInv, Fits, HandlerInv, FutureInv, ManagerInv, Live, Wiping,
       ThreadStates, TaskEnds
  <2> QED BY <2>1, <2>2, <2>3, <2>4, <2>5, <2>6 DEF WorkInv
<1>a. {"success", "failed", "cancelled"} = TerminalStatuses
  BY DEF TerminalStatuses
<1>2. CASE GenerationFails(r)
  <2>1. <<Result(r, Nothing), Ended(r, "failed")>> \in Seq(OpsOf(r))
    BY <1>a, EndedOp, ResultOp
  <2> QED BY <1>2, <2>1, RecordsInv DEF GenerationFails
<1>3. CASE GenerationRaises(r)
  <2>1. <<Ended(r, "failed")>> \in Seq(OpsOf(r))
    BY <1>a, EndedOp
  <2> QED BY <1>3, <2>1, RecordsInv DEF GenerationRaises
<1>4. CASE GenerationIsCancelled(r)
  <2>1. WhenCancelled(r) \in Seq(OpsOf(r))
    BY <1>a, EndedOp DEF WhenCancelled
  <2> QED BY <1>4, <2>1, RecordsInv DEF GenerationIsCancelled
<1>5. ASSUME NEW schema \in Schemas, GenerationSucceeds(r, schema) PROVE WorkInv'
  <2>1. Succeeds(r, schema) \in Seq(OpsOf(r))
    <3>1. Write(r, "schema", schema) \in OpsOf(r)
      BY DEF Write, OpsOf
    <3> QED BY <3>1, EndedOp, ResultOp DEF Succeeds, TerminalStatuses
  <2> QED BY <1>5, <2>1, RecordsInv DEF GenerationSucceeds
<1> QED BY <1>1, <1>2, <1>3, <1>4, <1>5

(* A new run.                                                              *)
LEMMA CreatesInv ==
  ASSUME WorkInv, handler = Idle, MayStart, ReadsActiveRun, NEW mode \in Modes,
         NEW schema \in Schemas \cup {Nothing}, NEW writes \in Seq(OpsOf(created + 1)),
         Creates(mode, schema, writes), UNCHANGED <<tasks, threads, bounds, history>>
  PROVE  WorkInv'
<1> USE LifecycleAssumption DEF WorkInv, TypeOK, RunIds, manager, bounds, history, Files, Idle,
        Creates, ReadsActiveRun, ActiveRun, TaskIsOver
<1>0. created + 1 \in RunIds
  OBVIOUS
<1>1. TypeOK'
  BY <1>0 DEF Missing, Directories
<1>2. ManagerInv'
  BY <1>0 DEF ManagerInv, HandlerInv, Live
<1>3. HandlerInv'
  BY <1>0 DEF HandlerInv, FutureInv
<1>4. FutureInv'
  BY <1>0 DEF FutureInv, HandlerInv
<1>5. ReviewInv'
  BY <1>0 DEF ReviewInv, FutureInv, HandlerInv, Op
<1>6. ThreadsInv'
  <2> SUFFICES ASSUME NEW t \in Threads PROVE Fits(threads[t])'
    BY DEF ThreadsInv
  <2>1. threads[t] \in ThreadStates /\ Fits(threads[t]) /\ threads'[t] = threads[t]
    BY DEF ThreadsInv
  <2> QED BY <2>1, FitsStays DEF Live
<1> QED BY <1>1, <1>2, <1>3, <1>4, <1>5, <1>6 DEF WorkInv

(* The requests the event loop answers, and a restart.                     *)
LEMMA RequestInv ==
  ASSUME WorkInv,
         \/ LooksOnLoop \/ Restart
         \/ \E mode \in {"propose", "full"} : CreateRun(mode)
         \/ \E r \in RunIds : Rerun(r) \/ CancelRun(r)
  PROVE  WorkInv'
<1> USE LifecycleAssumption DEF WorkInv, TypeOK, RunIds, manager, bounds, history, Files, Idle
<1>1. CASE LooksOnLoop
  <2>1. TypeOK'
    BY <1>1 DEF LooksOnLoop, ReadsActiveRun, ActiveRun, TaskIsOver
  <2>2. ManagerInv'
    BY <1>1 DEF ManagerInv, HandlerInv, Live, LooksOnLoop, ReadsActiveRun, ActiveRun,
       TaskIsOver
  <2>3. HandlerInv'
    BY <1>1 DEF HandlerInv, FutureInv, LooksOnLoop, ReadsActiveRun, ActiveRun,
       TaskIsOver
  <2>4. FutureInv'
    BY <1>1 DEF FutureInv, HandlerInv, LooksOnLoop, ReadsActiveRun, ActiveRun,
       TaskIsOver
  <2>5. ReviewInv'
    BY <1>1 DEF ReviewInv, FutureInv, HandlerInv, Op, LooksOnLoop, ReadsActiveRun,
       ActiveRun, TaskIsOver
  <2>6. ThreadsInv'
    BY <1>1 DEF ThreadsInv, Fits, HandlerInv, FutureInv, ManagerInv, Live, Wiping,
       ThreadStates, LooksOnLoop, ReadsActiveRun, ActiveRun, TaskIsOver
  <2> QED BY <2>1, <2>2, <2>3, <2>4, <2>5, <2>6 DEF WorkInv
<1>2. CASE Restart
  <2>1. TypeOK'
    <3>1. jobs' \in [RunIds -> [mode : Modes, schema : Schemas \cup {Nothing}]]
      BY <1>2 DEF Restart, NoJob, Modes
    <3>2. threads' \in [Threads -> ThreadStates]
      BY <1>2 DEF Restart, Free, ThreadStates
    <3>3. cutShort' \subseteq RunIds
      BY <1>2 DEF Restart
    <3> QED BY <1>2, <3>1, <3>2, <3>3 DEF Restart
  <2>2. ManagerInv'
    BY <1>2 DEF ManagerInv, HandlerInv, Live, Restart, NoJob, Modes, Free, ThreadStates
  <2>3. HandlerInv'
    BY <1>2 DEF HandlerInv, FutureInv, Restart, NoJob, Modes, Free, ThreadStates
  <2>4. FutureInv'
    BY <1>2 DEF FutureInv, HandlerInv, Restart, NoJob, Modes, Free, ThreadStates
  <2>5. ReviewInv'
    BY <1>2 DEF ReviewInv, FutureInv, HandlerInv, Op, Restart, NoJob, Modes, Free,
       ThreadStates
  <2>6. ThreadsInv'
    BY <1>2 DEF ThreadsInv, Fits, HandlerInv, FutureInv, ManagerInv, Live, Wiping,
       ThreadStates, Restart, NoJob, Modes, Free
  <2> QED BY <2>1, <2>2, <2>3, <2>4, <2>5, <2>6 DEF WorkInv
<1>3. ASSUME NEW mode \in {"propose", "full"}, CreateRun(mode) PROVE WorkInv'
  <2>1. created + 1 \in RunIds
    BY <1>3 DEF CreateRun, Creates
  <2> DEFINE w == SeedWrites(created + 1) \o Enriched(created + 1, Nothing)
  <2>2. w \in Seq(OpsOf(created + 1))
    BY <2>1, SeedOps, Concatenated
  <2>3. Creates(mode, Nothing, w) /\ MayStart /\ ReadsActiveRun /\ handler = Idle
          /\ UNCHANGED <<tasks, threads, bounds, history>>
    BY <1>3 DEF CreateRun
  <2> HIDE DEF w
  <2>4. mode \in Modes
    BY DEF Modes
  <2> QED BY <2>2, <2>3, <2>4, CreatesInv
<1>4. ASSUME NEW r \in RunIds, Rerun(r) PROVE WorkInv'
  <2> DEFINE s == SchemaForRerun(r)
  <2>1. created + 1 \in RunIds
    BY <1>4 DEF Rerun, Creates
  <2>2. s \in Schemas
    BY <1>4 DEF Rerun, SchemaForRerun, Readable, Missing, Results, Directories
  <2> HIDE DEF s
  <2>3. ChildWrites(created + 1, r, s) \o Enriched(created + 1, r) \in Seq(OpsOf(created + 1))
    BY <2>1, <2>2, SeedOps, Concatenated
  <2> QED BY <1>4, <2>2, <2>3, CreatesInv DEF Rerun, Modes, s
<1>5. ASSUME NEW r \in RunIds, CancelRun(r) PROVE WorkInv'
  <2>1. TypeOK'
    BY <1>5 DEF CancelRun, ActiveRun, TaskIsOver
  <2>2. ManagerInv'
    BY <1>5 DEF ManagerInv, HandlerInv, Live, CancelRun, ActiveRun, TaskIsOver
  <2>3. HandlerInv'
    BY <1>5 DEF HandlerInv, FutureInv, CancelRun, ActiveRun, TaskIsOver
  <2>4. FutureInv'
    BY <1>5 DEF FutureInv, HandlerInv, CancelRun, ActiveRun, TaskIsOver
  <2>5. ReviewInv'
    BY <1>5 DEF ReviewInv, FutureInv, HandlerInv, Op, CancelRun, ActiveRun, TaskIsOver
  <2>6. ThreadsInv'
    BY <1>5 DEF ThreadsInv, Fits, HandlerInv, FutureInv, ManagerInv, Live, Wiping,
       ThreadStates, CancelRun, ActiveRun, TaskIsOver
  <2> QED BY <2>1, <2>2, <2>3, <2>4, <2>5, <2>6 DEF WorkInv
<1> QED BY <1>1, <1>2, <1>3, <1>4, <1>5

-----------------------------------------------------------------------------
(* The worker threads.                                                     *)

(* A thread that moves on, knowing what its next step needs, disturbs none. *)
LEMMA ThreadMoves ==
  ASSUME TypeOK, ThreadsInv, NEW t \in Threads, NEW s \in ThreadStates, Steps(t, s), Fits(s)',
         \A v \in ThreadStates : Fits(v) /\ (\E u \in Threads \ {t} : v = threads[u]) => Fits(v)'
  PROVE  threads' \in [Threads -> ThreadStates] /\ ThreadsInv'
<1>1. threads \in [Threads -> ThreadStates] /\ threads' = [threads EXCEPT ![t] = s]
  BY DEF TypeOK, Steps
<1>2. ASSUME NEW u \in Threads PROVE Fits(threads[u])'
  <2>1. CASE u = t
    <3>1. threads'[u] = s
      BY <1>1, <2>1
    <3> QED BY <3>1 DEF Fits
  <2>2. CASE u # t
    <3>1. threads'[u] = threads[u] /\ threads[u] \in ThreadStates /\ Fits(threads[u])
      BY <1>1, <2>2 DEF ThreadsInv
    <3>2. ASSUME NEW v, v = threads[u] PROVE Fits(v)'
      BY <2>2, <3>1, <3>2
    <3> QED BY <3>1, <3>2 DEF Fits
  <2> QED BY <2>1, <2>2
<1> QED BY <1>1, <1>2 DEF ThreadsInv

(* The steps that change nothing but the thread disturb nothing else.       *)
LEMMA FitsQuiet ==
  ASSUME TypeOK, UNCHANGED <<created, tasks, handler>>, overwritten => overwritten',
         \A r \in RunIds : reviewed[r] = Nothing => reviewed'[r] = Nothing
  PROVE  \A v \in ThreadStates : Fits(v) => Fits(v)'
<1> SUFFICES ASSUME NEW v \in ThreadStates, Fits(v) PROVE Fits(v)'
  OBVIOUS
<1>1. created \in Nat /\ \A r \in RunIds : Live(r)' => Live(r)
  BY DEF TypeOK, Live
<1> QED BY <1>1, FitsStays

(* A step of a thread that touches no file and no field keeps WorkInv.         *)
LEMMA RestQuiet ==
  ASSUME WorkInv, threads' \in [Threads -> ThreadStates], ThreadsInv',
         UNCHANGED <<disk, created, manager, tasks, jobs, handler, failures, history>>,
         requests' \in 0 .. MaxRequests
  PROVE  WorkInv'
<1> USE DEF WorkInv, manager, history
<1>1. TypeOK'
  BY DEF TypeOK
<1>2. ManagerInv' /\ HandlerInv' /\ FutureInv'
  BY DEF ManagerInv, HandlerInv, FutureInv, Live
<1>3. ReviewInv'
  BY DEF ReviewInv, Op
<1> QED BY <1>1, <1>2, <1>3

(* The steps of a thread, and the requests it takes.                        *)
LEMMA ThreadInv ==
  ASSUME WorkInv, NEW t \in Threads,
         \/ ThreadStep(t) \/ Look(t)
         \/ \E r \in RunIds :
              DeleteRun(t, r) \/ \E schema \in Schemas : SaveSchema(t, r, schema)
  PROVE  WorkInv'
<1> USE LifecycleAssumption DEF WorkInv, TypeOK, RunIds, manager, bounds, history, Files
<1>t. threads[t] \in ThreadStates /\ Fits(threads[t])
  BY DEF ThreadsInv
<1>1. CASE FindsNoEndedTask(t)
  <2>1. ASSUME NEW s, s = AfterActive(t, activeRun)
        PROVE  s \in ThreadStates /\ Fits(s)'
    BY <1>t, <1>1, <2>1 DEF FindsNoEndedTask, AfterActive, ManagerInv, Fits,
       ThreadStates, Wiping, Live, HandlerInv, Free
  <2>2. \A v \in ThreadStates : Fits(v) /\ (\E u \in Threads \ {t} : v = threads[u]) => Fits(v)'
    BY <1>1, FitsQuiet DEF FindsNoEndedTask
  <2>3. threads' \in [Threads -> ThreadStates] /\ ThreadsInv'
    BY <1>1, <2>1, <2>2, ThreadMoves DEF FindsNoEndedTask
  <2> QED BY <1>1, <2>3, RestQuiet DEF FindsNoEndedTask, WorkInv, TypeOK
<1>2. CASE FindsEndedTask(t)
  <2>1. ASSUME NEW s, s = [threads[t] EXCEPT !.does = IF @ = "look" THEN "look run" ELSE "check run",
                                      !.value = managed]
        PROVE  s \in ThreadStates /\ Fits(s)'
    BY <1>t, <1>2, <2>1 DEF FindsEndedTask, TaskIsOver, Fits, ThreadStates, Wiping,
       Live, HandlerInv
  <2>2. \A v \in ThreadStates : Fits(v) /\ (\E u \in Threads \ {t} : v = threads[u]) => Fits(v)'
    BY <1>2, FitsQuiet DEF FindsEndedTask
  <2>3. threads' \in [Threads -> ThreadStates] /\ ThreadsInv'
    BY <1>2, <2>1, <2>2, ThreadMoves DEF FindsEndedTask
  <2> QED BY <1>2, <2>3, RestQuiet DEF FindsEndedTask, WorkInv, TypeOK
<1>3. CASE WipesRun(t)
  <2>1. ASSUME NEW s, s = [threads[t] EXCEPT !.does =
                              IF @ = "look run" THEN "look task" ELSE "check task"]
        PROVE  s \in ThreadStates /\ Fits(s)'
    BY <1>t, <1>3, <2>1 DEF WipesRun, Overwrites, Fits, Wiping, ThreadStates, Live,
       HandlerInv
  <2>2. \A v \in ThreadStates : Fits(v) /\ (\E u \in Threads \ {t} : v = threads[u]) => Fits(v)'
    BY <1>3, FitsQuiet DEF WipesRun
  <2>3. threads' \in [Threads -> ThreadStates] /\ ThreadsInv'
    BY <1>3, <2>1, <2>2, ThreadMoves DEF WipesRun
  <2>4. TypeOK'
    BY <1>t, <1>3, <2>3 DEF WipesRun, Overwrites, Fits, Wiping
  <2>5. ManagerInv'
    BY <1>t, <1>3, <2>3 DEF ManagerInv, HandlerInv, Live, WipesRun, Overwrites, Fits,
       Wiping
  <2>6. HandlerInv'
    BY <1>t, <1>3, <2>3 DEF HandlerInv, FutureInv, WipesRun, Overwrites, Fits, Wiping
  <2>7. FutureInv'
    BY <1>t, <1>3, <2>3 DEF FutureInv, HandlerInv, WipesRun, Overwrites, Fits, Wiping
  <2>8. ReviewInv'
    BY <1>t, <1>3, <2>3 DEF ReviewInv, FutureInv, HandlerInv, Op, WipesRun, Overwrites,
       Fits, Wiping
  <2> QED BY <2>3, <2>4, <2>5, <2>6, <2>7, <2>8 DEF WorkInv
<1>4. CASE WipesTask(t)
  <2>1. ASSUME NEW s, s = AfterActive(t, activeRun)
        PROVE  s \in ThreadStates /\ Fits(s)'
    BY <1>t, <1>4, <2>1 DEF WipesTask, AfterActive, Overwrites, ManagerInv, Fits,
       Wiping, ThreadStates, Live, HandlerInv, Free
  <2>2. \A v \in ThreadStates : Fits(v) /\ (\E u \in Threads \ {t} : v = threads[u]) => Fits(v)'
    BY <1>4, FitsQuiet DEF WipesTask
  <2>3. threads' \in [Threads -> ThreadStates] /\ ThreadsInv'
    BY <1>4, <2>1, <2>2, ThreadMoves DEF WipesTask
  <2>4. TypeOK'
    BY <1>t, <1>4, <2>3 DEF WipesTask, AfterActive, Overwrites, ManagerInv, Fits, Wiping
  <2>5. ManagerInv'
    BY <1>t, <1>4, <2>3 DEF ManagerInv, HandlerInv, Live, WipesTask, AfterActive,
       Overwrites, Fits, Wiping
  <2>6. HandlerInv'
    BY <1>t, <1>4, <2>3 DEF HandlerInv, FutureInv, WipesTask, AfterActive, Overwrites,
       ManagerInv, Fits, Wiping
  <2>7. FutureInv'
    BY <1>t, <1>4, <2>3 DEF FutureInv, HandlerInv, WipesTask, AfterActive, Overwrites,
       ManagerInv, Fits, Wiping
  <2>8. ReviewInv'
    BY <1>t, <1>4, <2>3 DEF ReviewInv, FutureInv, HandlerInv, Op, WipesTask,
       AfterActive, Overwrites, ManagerInv, Fits, Wiping
  <2> QED BY <2>3, <2>4, <2>5, <2>6, <2>7, <2>8 DEF WorkInv
<1>5. CASE Lists(t)
  <2>1. ASSUME NEW s, s = IF HasDirectory(threads[t].run)
                           THEN [threads[t] EXCEPT !.does = "remove",
                                  !.left = {f \in Files : disk[threads[t].run][f] # Absent}]
                           ELSE Free
        PROVE  s \in ThreadStates /\ Fits(s)'
    BY <1>t, <1>5, <2>1 DEF Lists, Fits, ThreadStates, Wiping, Live, HandlerInv, Free
  <2>2. \A v \in ThreadStates : Fits(v) /\ (\E u \in Threads \ {t} : v = threads[u]) => Fits(v)'
    BY <1>5, FitsQuiet DEF Lists, Fits
  <2>3. threads' \in [Threads -> ThreadStates] /\ ThreadsInv'
    BY <1>5, <2>1, <2>2, ThreadMoves DEF Lists
  <2>4. TypeOK'
    BY <1>t, <1>5, <2>3 DEF Lists
  <2>5. ManagerInv'
    BY <1>t, <1>5, <2>3 DEF ManagerInv, HandlerInv, Live, Lists
  <2>6. HandlerInv'
    BY <1>t, <1>5, <2>3 DEF HandlerInv, FutureInv, Lists
  <2>7. FutureInv'
    BY <1>t, <1>5, <2>3 DEF FutureInv, HandlerInv, Lists
  <2>8. ReviewInv'
    BY <1>t, <1>5, <2>3 DEF ReviewInv, FutureInv, HandlerInv, Op, Lists
  <2> QED BY <2>3, <2>4, <2>5, <2>6, <2>7, <2>8 DEF WorkInv
<1>6. CASE RemovesDirectory(t)
  <2>1. ASSUME NEW s, s = Free
        PROVE  s \in ThreadStates /\ Fits(s)'
    BY <1>t, <1>6, <2>1 DEF RemovesDirectory, NoDirectory, Missing, Directories, Fits,
       ThreadStates, Wiping, Live, HandlerInv, Free
  <2>2. \A v \in ThreadStates : Fits(v) /\ (\E u \in Threads \ {t} : v = threads[u]) => Fits(v)'
    BY <1>6, FitsQuiet DEF RemovesDirectory
  <2>3. threads' \in [Threads -> ThreadStates] /\ ThreadsInv'
    BY <1>6, <2>1, <2>2, ThreadMoves DEF RemovesDirectory
  <2>4. TypeOK'
    <3>0. threads[t].run \in RunIds
      BY <1>t, <1>6 DEF RemovesDirectory, Fits, ThreadStates
    <3>1. NoDirectory \in Directories
      BY DEF NoDirectory, Directories, Missing
    <3>2. disk' \in [RunIds -> Directories]
      BY <1>6, <3>0, <3>1 DEF RemovesDirectory
    <3>3. contested' \subseteq RunIds
      BY <1>6, <3>0 DEF RemovesDirectory
    <3> QED BY <1>6, <2>3, <3>2, <3>3 DEF RemovesDirectory
  <2>5. ManagerInv'
    BY <1>t, <1>6, <2>3 DEF ManagerInv, HandlerInv, Live, RemovesDirectory, NoDirectory,
       Missing, Directories, Fits
  <2>6. HandlerInv'
    BY <1>t, <1>6, <2>3 DEF HandlerInv, FutureInv, RemovesDirectory, NoDirectory,
       Missing, Directories, Fits
  <2>7. FutureInv'
    BY <1>t, <1>6, <2>3 DEF FutureInv, HandlerInv, RemovesDirectory, NoDirectory,
       Missing, Directories, Fits
  <2>8. ReviewInv'
    BY <1>t, <1>6, <2>3 DEF ReviewInv, FutureInv, HandlerInv, Op, RemovesDirectory,
       NoDirectory, Missing, Directories, Fits
  <2> QED BY <2>3, <2>4, <2>5, <2>6, <2>7, <2>8 DEF WorkInv
<1>7. ASSUME NEW f \in Files, Removes(t, f) PROVE WorkInv'
  <2>1. ASSUME NEW s, s \in {Free, [threads[t] EXCEPT !.left = @ \ {f}]}
        PROVE  s \in ThreadStates /\ Fits(s)'
    <3>0. UNCHANGED <<created, tasks, handler, reviewed, overwritten>>
      BY <1>7 DEF Removes
    <3>1. CASE s = Free
      BY <3>0, <3>1 DEF Free, ThreadStates, Fits, Wiping
    <3>2. CASE s = [threads[t] EXCEPT !.left = @ \ {f}]
      <4>1. s \in ThreadStates /\ s.does = threads[t].does /\ s.run = threads[t].run
              /\ s.value = threads[t].value
        BY <1>t, <3>2 DEF ThreadStates
      <4> QED BY <1>t, <3>0, <4>1 DEF Fits, Live
    <3> QED BY <2>1, <3>1, <3>2
  <2>2. \A v \in ThreadStates : Fits(v) /\ (\E u \in Threads \ {t} : v = threads[u]) => Fits(v)'
    BY <1>7, FitsQuiet DEF Removes
  <2>3. threads' \in [Threads -> ThreadStates] /\ ThreadsInv'
    BY <1>7, <2>1, <2>2, ThreadMoves DEF Removes
  <2>4. TypeOK'
    <3>0. threads[t].run \in RunIds
      BY <1>t, <1>7 DEF Removes, Fits, ThreadStates
    <3>1. disk' \in [RunIds -> Directories]
      BY <1>7, <3>0, FileWrite DEF Removes, Belongs, Missing
    <3>2. contested' \subseteq RunIds
      BY <1>7, <3>0 DEF Removes
    <3> QED BY <1>7, <2>3, <3>1, <3>2 DEF Removes
  <2>5. ManagerInv'
    BY <1>t, <1>7, <2>3 DEF ManagerInv, HandlerInv, Live, Removes, Missing, Directories,
       Fits
  <2>6. HandlerInv'
    BY <1>t, <1>7, <2>3 DEF HandlerInv, FutureInv, Removes, Missing, Directories, Fits
  <2>7. FutureInv'
    BY <1>t, <1>7, <2>3 DEF FutureInv, HandlerInv, Removes, Missing, Directories, Fits
  <2>8. ReviewInv'
    BY <1>t, <1>7, <2>3 DEF ReviewInv, FutureInv, HandlerInv, Op, Removes, Missing,
       Directories, Fits
  <2> QED BY <2>3, <2>4, <2>5, <2>6, <2>7, <2>8 DEF WorkInv
<1>8. CASE SaveOpens(t)
  <2>1. ASSUME NEW s, s = IF HasDirectory(threads[t].run)
                           THEN [threads[t] EXCEPT !.does = "fill"] ELSE Free
        PROVE  s \in ThreadStates /\ Fits(s)'
    BY <1>t, <1>8, <2>1 DEF SaveOpens, HasDirectory, Missing, Directories, Fits,
       ThreadStates, Wiping, Live, HandlerInv, Free
  <2>2. \A v \in ThreadStates : Fits(v) /\ (\E u \in Threads \ {t} : v = threads[u]) => Fits(v)'
    BY <1>8, FitsQuiet DEF SaveOpens, Fits
  <2>3. threads' \in [Threads -> ThreadStates] /\ ThreadsInv'
    BY <1>8, <2>1, <2>2, ThreadMoves DEF SaveOpens
  <2>4. TypeOK'
    <3>0. threads[t].run \in RunIds
      BY <1>t, <1>8 DEF SaveOpens, Fits, ThreadStates
    <3>1. disk' \in [RunIds -> Directories]
      BY <1>8, <3>0, FileWrite DEF SaveOpens, Belongs, Missing
    <3>2. reviewed' \in [RunIds -> Schemas \cup {Nothing}]
      BY <1>8, <3>0 DEF SaveOpens
    <3> QED BY <1>8, <2>3, <3>1, <3>2 DEF SaveOpens
  <2>5. ManagerInv'
    BY <1>t, <1>8, <2>3 DEF ManagerInv, HandlerInv, Live, SaveOpens, HasDirectory,
       Missing, Directories, Fits
  <2>6. HandlerInv'
    BY <1>t, <1>8, <2>3 DEF HandlerInv, FutureInv, SaveOpens, HasDirectory, Missing,
       Directories, Fits
  <2>7. FutureInv'
    BY <1>t, <1>8, <2>3 DEF FutureInv, HandlerInv, SaveOpens, HasDirectory, Missing,
       Directories, Fits
  <2>8. ReviewInv'
    BY <1>t, <1>8, <2>3 DEF ReviewInv, FutureInv, HandlerInv, Op, SaveOpens,
       HasDirectory, Missing, Directories, Fits
  <2> QED BY <2>3, <2>4, <2>5, <2>6, <2>7, <2>8 DEF WorkInv
<1>9. CASE SaveFills(t)
  <2>1. ASSUME NEW s, s = Free
        PROVE  s \in ThreadStates /\ Fits(s)'
    BY <1>t, <1>9, <2>1 DEF SaveFills, Filled, Missing, Directories, OtherWriters, Fits,
       ThreadStates, Wiping, Live, HandlerInv, Free
  <2>2. \A v \in ThreadStates : Fits(v) /\ (\E u \in Threads \ {t} : v = threads[u]) => Fits(v)'
    <3> SUFFICES ASSUME NEW v \in ThreadStates, Fits(v), NEW u \in Threads \ {t}, v = threads[u]
                 PROVE  Fits(v)'
      OBVIOUS
    <3>1. UNCHANGED <<created, tasks, handler, overwritten>>
      BY <1>9 DEF SaveFills
    <3>2. v.does = "remove" /\ v.run # Nothing => reviewed'[v.run] = Nothing
      BY <1>9 DEF SaveFills, OtherWriters, Fits, ThreadStates
    <3> QED BY <3>1, <3>2 DEF Fits, Live
  <2>3. threads' \in [Threads -> ThreadStates] /\ ThreadsInv'
    BY <1>9, <2>1, <2>2, ThreadMoves DEF SaveFills
  <2>4. TypeOK'
    <3>0. threads[t].run \in RunIds /\ threads[t].value \in Schemas
      BY <1>t, <1>9 DEF SaveFills, Fits, ThreadStates
    <3>1. PICK c \in Filled(disk[threads[t].run].schema, threads[t].value) :
            /\ disk' = [disk EXCEPT ![threads[t].run].schema = c]
            /\ reviewed' = [reviewed EXCEPT ![threads[t].run] =
                              IF disk[threads[t].run].schema = Torn /\ ~ OtherWriters(t)
                              THEN threads[t].value ELSE Nothing]
      BY <1>9 DEF SaveFills
    <3>2. c \in Missing \cup Schemas
      BY <3>0, <3>1 DEF Filled, Missing
    <3>3. disk' \in [RunIds -> Directories]
      BY <3>0, <3>1, <3>2, FileWrite DEF Belongs
    <3>4. reviewed' \in [RunIds -> Schemas \cup {Nothing}]
      BY <3>0, <3>1
    <3> QED BY <1>9, <2>3, <3>3, <3>4 DEF SaveFills
  <2>5. ManagerInv'
    BY <1>t, <1>9, <2>3 DEF ManagerInv, HandlerInv, Live, SaveFills, Filled, Missing,
       Directories, OtherWriters, Fits
  <2>6. HandlerInv'
    BY <1>t, <1>9, <2>3 DEF HandlerInv, FutureInv, SaveFills, Filled, Missing,
       Directories, OtherWriters, Fits
  <2>7. FutureInv'
    BY <1>t, <1>9, <2>3 DEF FutureInv, HandlerInv, SaveFills, Filled, Missing,
       Directories, OtherWriters, Fits
  <2>8. ReviewInv'
    BY <1>t, <1>9, <2>3 DEF ReviewInv, FutureInv, HandlerInv, Op, SaveFills, Filled,
       Missing, Directories, OtherWriters, Fits
  <2> QED BY <2>3, <2>4, <2>5, <2>6, <2>7, <2>8 DEF WorkInv
<1>10. CASE Look(t)
  <2>1. ASSUME NEW s, s = [Free EXCEPT !.does = "look"]
        PROVE  s \in ThreadStates /\ Fits(s)'
    BY <1>t, <1>10, <2>1 DEF Look, Serves, Fits, ThreadStates, Wiping, Live, HandlerInv,
       Free
  <2>2. \A v \in ThreadStates : Fits(v) /\ (\E u \in Threads \ {t} : v = threads[u]) => Fits(v)'
    BY <1>10, FitsQuiet DEF Look, Serves
  <2>3. threads' \in [Threads -> ThreadStates] /\ ThreadsInv'
    BY <1>10, <2>1, <2>2, ThreadMoves DEF Look, Serves, Steps
  <2> QED BY <1>10, <2>3, RestQuiet DEF Look, Serves, WorkInv, TypeOK
<1>11. ASSUME NEW r \in RunIds, DeleteRun(t, r) PROVE WorkInv'
  <2>1. ASSUME NEW s, s = [Free EXCEPT !.does = "check", !.run = r]
        PROVE  s \in ThreadStates /\ Fits(s)'
    <3>1. r <= created /\ handler.run # r
      <4>1. disk[r] # NoDirectory /\ handler.run # r
        BY <1>11 DEF DeleteRun, Known, HasDirectory
      <4>2. ~ r > created
        BY <4>1, <1>11 DEF FutureInv
      <4>3. r \in Nat /\ created \in Nat
        BY <1>11
      <4> QED BY <4>1, <4>2, <4>3
    <3>2. UNCHANGED <<created, tasks, handler, reviewed, overwritten>>
      BY <1>11 DEF DeleteRun, Serves
    <3>3. s \in ThreadStates
      BY <2>1 DEF ThreadStates, Free
    <3>4. Fits(s)'
      BY <2>1, <3>1, <3>2 DEF Fits, Free, Wiping
    <3> QED BY <3>3, <3>4
  <2>2. \A v \in ThreadStates : Fits(v) /\ (\E u \in Threads \ {t} : v = threads[u]) => Fits(v)'
    BY <1>11, FitsQuiet DEF DeleteRun, Serves
  <2>3. threads' \in [Threads -> ThreadStates] /\ ThreadsInv'
    BY <1>11, <2>1, <2>2, ThreadMoves DEF DeleteRun, Serves, Steps
  <2>4. UNCHANGED <<disk, created, manager, tasks, jobs, handler, failures, history>>
    BY <1>11 DEF DeleteRun, Serves
  <2>5. requests' \in 0 .. MaxRequests
    <3>1. requests < MaxRequests /\ requests' = requests + 1
      BY <1>11 DEF DeleteRun, Serves
    <3>2. requests \in 0 .. MaxRequests /\ MaxRequests \in Nat
      OBVIOUS
    <3> QED BY ONLY <3>1, <3>2
  <2> QED BY <2>3, <2>4, <2>5, RestQuiet
<1>12. ASSUME NEW r \in RunIds, NEW schema \in Schemas, SaveSchema(t, r, schema) PROVE WorkInv'
  <2>1. ASSUME NEW s, s = [Free EXCEPT !.does = "save", !.run = r, !.value = schema]
        PROVE  s \in ThreadStates /\ Fits(s)'
    <3>1. r <= created /\ handler.run # r
      <4>1. disk[r] # NoDirectory /\ handler.run # r
        BY <1>12 DEF SaveSchema, Known, HasDirectory
      <4>2. ~ r > created
        BY <4>1, <1>12 DEF FutureInv
      <4>3. r \in Nat /\ created \in Nat
        BY <1>12
      <4> QED BY <4>1, <4>2, <4>3
    <3>2. UNCHANGED <<created, tasks, handler, reviewed, overwritten>>
      BY <1>12 DEF SaveSchema, Serves
    <3>3. s \in ThreadStates
      BY <2>1 DEF ThreadStates, Free
    <3>4. Fits(s)'
      BY <2>1, <3>1, <3>2 DEF Fits, Free, Wiping
    <3> QED BY <3>3, <3>4
  <2>2. \A v \in ThreadStates : Fits(v) /\ (\E u \in Threads \ {t} : v = threads[u]) => Fits(v)'
    BY <1>12, FitsQuiet DEF SaveSchema, Serves
  <2>3. threads' \in [Threads -> ThreadStates] /\ ThreadsInv'
    BY <1>12, <2>1, <2>2, ThreadMoves DEF SaveSchema, Serves, Steps
  <2>4. UNCHANGED <<disk, created, manager, tasks, jobs, handler, failures, history>>
    BY <1>12 DEF SaveSchema, Serves
  <2>5. requests' \in 0 .. MaxRequests
    <3>1. requests < MaxRequests /\ requests' = requests + 1
      BY <1>12 DEF SaveSchema, Serves
    <3>2. requests \in 0 .. MaxRequests /\ MaxRequests \in Nat
      OBVIOUS
    <3> QED BY ONLY <3>1, <3>2
  <2> QED BY <2>3, <2>4, <2>5, RestQuiet
<1> QED BY <1>1, <1>2, <1>3, <1>4, <1>5, <1>6, <1>7, <1>8, <1>9, <1>10, <1>11, <1>12
        DEF ThreadStep

-----------------------------------------------------------------------------
(* Every run at rest is settled.                                           *)

(* A run that must be settled, or about to be; and one that is.            *)
Owed(r) == HasDirectory(r) /\ r \notin cutShort \cup contested /\ ~ BeingRemoved(r)
Owes(r) ==
  \/ tasks[r] \in {"generating", "cancelling"}
  \/ handler.run = r /\ handler.does = "create"
  \/ handler.run = r /\ handler.does = "record" /\ StoresTheStatus(r)
  \/ handler.run # r /\ Settled(r)

LEMMA SettledNow ==
  SettledInv <=> /\ handler.does = "create" => activeRun = Nothing
                 /\ \A r \in RunIds : Owed(r) => Owes(r)
  BY DEF SettledInv, Owed, Owes

LEMMA SettledThen ==
  SettledInv' <=> /\ handler'.does = "create" => activeRun' = Nothing
                  /\ \A r \in RunIds : Owed(r)' => Owes(r)'
  BY DEF SettledInv, Owed, Owes

(* Removals start and end, but nothing owed to a run is created by a step   *)
(* that leaves its directory, its task and its handler alone.              *)
LEMMA OwesStays ==
  ASSUME NEW r \in RunIds, SettledInv, Owed(r)' => Owed(r),
         disk'[r].meta = disk[r].meta,
         UNCHANGED handler,
         tasks[r] \in {"generating", "cancelling"} => tasks'[r] \in {"generating", "cancelling"}
  PROVE  Owed(r)' => Owes(r)'
<1>1. Settled(r) => Settled(r)'  BY DEF Settled, Readable
<1>2. StoresTheStatus(r) => StoresTheStatus(r)'  BY <1>1 DEF StoresTheStatus
<1> QED BY <1>1, <1>2, SettledNow DEF Owes

(* So does a step of the loop for another run, or none.                    *)
LEMMA OwesElsewhere ==
  ASSUME NEW r \in RunIds, SettledInv, Owed(r)' => Owed(r),
         disk'[r].meta = disk[r].meta,
         handler.run # r, handler'.run # r,
         tasks[r] \in {"generating", "cancelling"} => tasks'[r] \in {"generating", "cancelling"}
  PROVE  Owed(r)' => Owes(r)'
<1>1. Settled(r) => Settled(r)'  BY DEF Settled, Readable
<1> QED BY <1>1, SettledNow DEF Owes

LEMMA SettledCreates ==
  ASSUME WorkInv, SettledInv, handler = Idle, MayStart, ReadsActiveRun,
         NEW mode, NEW schema, NEW writes, Creates(mode, schema, writes),
         UNCHANGED <<tasks, threads, history>>
  PROVE  SettledInv'
<1>1. handler.run = Nothing /\ Nothing \notin RunIds
  BY LifecycleAssumption DEF Idle, RunIds
<1>2. created + 1 \in RunIds /\ handler'.run = created + 1 /\ handler'.does = "create"
  BY LifecycleAssumption DEF Creates, RunIds, WorkInv, TypeOK
<1>3. activeRun' = Nothing  BY DEF ReadsActiveRun, MayStart
<1>4. ASSUME NEW r \in RunIds, r # created + 1 PROVE Owed(r)' => Owes(r)'
  <2>1. disk'[r] = disk[r]
    BY <1>4 DEF Creates, WorkInv, TypeOK
  <2>2. Owed(r)' => Owed(r)  BY <2>1 DEF Owed, HasDirectory, BeingRemoved, history
  <2> QED BY <1>1, <1>2, <1>4, <2>1, <2>2, OwesElsewhere
<1>5. ASSUME NEW r \in RunIds, r = created + 1 PROVE Owes(r)'
  BY <1>2, <1>5 DEF Owes
<1> QED BY <1>3, <1>4, <1>5, SettledThen

LEMMA SettledRecords ==
  ASSUME WorkInv, SettledInv, NEW r \in RunIds, handler = Idle,
         NEW writes, writes # <<>>, writes \in Seq(OpsOf(r)),
         writes[Len(writes)].file = "meta",
         writes[Len(writes)].value.status \in TerminalStatuses,
         Records(r, writes)
  PROVE  SettledInv'
<1>1. handler.run = Nothing /\ Nothing \notin RunIds
  BY LifecycleAssumption DEF Idle, RunIds
<1>2. handler' = [does |-> "record", run |-> r, todo |-> writes, open |-> FALSE]
  BY DEF Records
<1>3. Owes(r)'  BY <1>2 DEF Owes, StoresTheStatus
<1>4. ASSUME NEW q \in RunIds, q # r PROVE Owed(q)' => Owes(q)'
  <2>1. disk'[q] = disk[q] /\ tasks'[q] = tasks[q]
    BY <1>4 DEF Records, WorkInv, TypeOK
  <2>2. Owed(q)' => Owed(q)  BY <2>1 DEF Owed, HasDirectory, BeingRemoved, history, Records
  <2> QED BY <1>1, <1>2, <1>4, <2>1, <2>2, OwesElsewhere
<1> QED BY <1>2, <1>3, <1>4, SettledThen

(* The ends of a task, each with its last write.                           *)
LEMMA SettledTask ==
  ASSUME WorkInv, SettledInv, NEW r \in RunIds,
         \/ TaskEnds(r) \/ GenerationFails(r) \/ GenerationRaises(r) \/ GenerationIsCancelled(r)
         \/ \E schema \in Schemas : GenerationSucceeds(r, schema)
  PROVE  SettledInv'
<1>t. TypeOK  BY DEF WorkInv
<1>1. CASE TaskEnds(r)
  <2>1. handler = Idle /\ handler.run = Nothing /\ Nothing \notin RunIds /\ handler.does = "nothing"
    BY <1>1, LifecycleAssumption DEF TaskEnds, Idle, RunIds
  <2>2. ASSUME NEW q \in RunIds PROVE Owed(q)' => Owes(q)'
    <3>1. disk' = disk /\ handler' = handler
          /\ (tasks[q] \in {"generating", "cancelling"} => tasks'[q] = tasks[q])
      BY <1>1, <1>t DEF TaskEnds, TypeOK
    <3>2. Owed(q)' => Owed(q)
      BY <1>1, <3>1 DEF Owed, HasDirectory, BeingRemoved, history, TaskEnds
    <3> QED BY <3>1, <3>2, OwesStays
  <2> QED BY <1>1, <2>1, <2>2, SettledThen DEF TaskEnds
<1> DEFINE Status(status) == Ended(r, status)
<1>2. \A status \in TerminalStatuses :
        /\ Ended(r, status) \in OpsOf(r)
        /\ Ended(r, status).file = "meta" /\ Ended(r, status).value.status = status
  BY <1>t, EndedOp DEF Ended, Update, Meta
<1>3. {"success", "failed", "cancelled"} \subseteq TerminalStatuses  BY DEF TerminalStatuses
<1>4. CASE GenerationFails(r)
  <2> DEFINE a == Result(r, Nothing)
             b == Ended(r, "failed")
  <2>1. a \in OpsOf(r) /\ b \in OpsOf(r) /\ b.file = "meta" /\ b.value.status \in TerminalStatuses
    BY <1>2, <1>3, ResultOp
  <2>2. handler = Idle /\ Records(r, <<a, b>>)  BY <1>4 DEF GenerationFails
  <2> HIDE DEF a, b
  <2>3. <<a, b>> \in Seq(OpsOf(r)) /\ <<a, b>> # <<>> /\ <<a, b>>[Len(<<a, b>>)] = b
    BY <2>1
  <2> QED BY <2>1, <2>2, <2>3, SettledRecords
<1>5. CASE GenerationRaises(r) \/ GenerationIsCancelled(r)
  <2>1. PICK status \in TerminalStatuses : handler = Idle /\ Records(r, <<Ended(r, status)>>)
    BY <1>3, <1>5 DEF GenerationRaises, GenerationIsCancelled, WhenCancelled
  <2> DEFINE b == Ended(r, status)
  <2>2. b \in OpsOf(r) /\ b.file = "meta" /\ b.value.status \in TerminalStatuses  BY <1>2
  <2>3. Records(r, <<b>>)  BY <2>1
  <2> HIDE DEF b
  <2>4. <<b>> \in Seq(OpsOf(r)) /\ <<b>> # <<>> /\ <<b>>[Len(<<b>>)] = b  BY <2>2
  <2> QED BY <2>1, <2>2, <2>3, <2>4, SettledRecords
<1>6. ASSUME NEW schema \in Schemas, GenerationSucceeds(r, schema) PROVE SettledInv'
  <2> DEFINE a == Result(r, Nothing)
             c == Result(r, schema)
             d == Write(r, "schema", schema)
             b == Ended(r, "success")
  <2>1. /\ a \in OpsOf(r) /\ b \in OpsOf(r) /\ c \in OpsOf(r) /\ d \in OpsOf(r)
        /\ b.file = "meta" /\ b.value.status \in TerminalStatuses
    BY <1>2, <1>3, ResultOp DEF Write, OpsOf
  <2>2. handler = Idle /\ (Records(r, <<a, d, b>>) \/ Records(r, <<c, b>>))
    BY <1>6 DEF GenerationSucceeds, Succeeds
  <2> HIDE DEF a, b, c, d
  <2>3. <<a, d, b>> \in Seq(OpsOf(r)) /\ <<a, d, b>> # <<>> /\ <<a, d, b>>[Len(<<a, d, b>>)] = b
    BY <2>1
  <2>4. <<c, b>> \in Seq(OpsOf(r)) /\ <<c, b>> # <<>> /\ <<c, b>>[Len(<<c, b>>)] = b
    BY <2>1
  <2>5. CASE Records(r, <<a, d, b>>)  BY <2>1, <2>2, <2>3, <2>5, SettledRecords
  <2>6. CASE Records(r, <<c, b>>)  BY <2>1, <2>2, <2>4, <2>6, SettledRecords
  <2> QED BY <2>2, <2>5, <2>6
<1> QED BY <1>1, <1>4, <1>5, <1>6

LEMMA SettledOpens ==
  ASSUME WorkInv, SettledInv, LoopOpens
  PROVE  SettledInv'
<1> DEFINE h == handler.run
           f == Op.file
<1>1. TypeOK /\ HandlerInv  BY DEF WorkInv
<1>2. /\ h \in RunIds /\ Op.run = h /\ f \in Files /\ handler.does \in {"create", "record"}
      /\ handler.todo # <<>> /\ handler.todo \in Seq(OpsOf(h))
  BY <1>1, NextOp, HandlerShape, LifecycleAssumption DEF LoopOpens, Idle
<1>3. disk' = [disk EXCEPT ![h][f] = Torn]  BY <1>2 DEF LoopOpens
<1>4. /\ \A q \in RunIds : q # h => disk'[q] = disk[q]
      /\ disk'[h][f] = Torn
  <2>1. Belongs(Torn, f)  BY DEF Belongs, Missing
  <2> HIDE DEF h, f
  <2> QED BY <1>1, <1>2, <1>3, <2>1 DEF TypeOK, Directories, Files, Belongs
<1>5. /\ handler'.does = handler.does /\ handler'.run = handler.run
      /\ handler'.todo = handler.todo
      /\ UNCHANGED <<activeRun, tasks, threads, cutShort, contested>>
  BY <1>1, HandlerShape DEF LoopOpens, manager
<1>6. ASSUME NEW q \in RunIds, q # h PROVE Owed(q)' => Owes(q)'
  <2>1. Owed(q)' => Owed(q)  BY <1>4, <1>5, <1>6 DEF Owed, HasDirectory, BeingRemoved
  <2> QED BY <1>4, <1>5, <1>6, <2>1, OwesElsewhere
<1>7. ASSUME NEW q \in RunIds, q = h PROVE Owed(q)' => Owes(q)'
  <2>1. CASE handler.does = "create"  BY <1>5, <1>7, <2>1 DEF Owes
  <2>2. CASE handler.does = "record"
    <3>1. Owed(q)' => Owed(q)
      BY <1>2, <1>5, <1>7 DEF Owed, HasDirectory, BeingRemoved, LoopOpens, CanOpen
    <3>2. Owed(q) => StoresTheStatus(q)
      BY <1>1, <1>7, <2>2, SettledNow DEF Owes, HandlerInv
    <3>3. StoresTheStatus(q) => StoresTheStatus(q)'
      <4> SUFFICES ASSUME StoresTheStatus(q) PROVE StoresTheStatus(q)'  OBVIOUS
      <4>1. /\ handler.todo[Len(handler.todo)].file = "meta"
            /\ handler.todo[Len(handler.todo)].value.status \in TerminalStatuses
        BY <1>2 DEF StoresTheStatus
      <4>2. Len(handler.todo) = 1 => f = "meta"  BY <1>2, <4>1 DEF Op
      <4> QED BY <1>2, <1>4, <1>5, <1>7, <4>1, <4>2 DEF StoresTheStatus
    <3> QED BY <1>5, <1>7, <2>2, <3>1, <3>2, <3>3 DEF Owes
  <2> QED BY <1>2, <2>1, <2>2
<1>8. handler'.does = "create" => activeRun' = Nothing  BY <1>5, SettledNow
<1> QED BY <1>6, <1>7, <1>8, SettledThen

(* The last write of a record is the status, unless the file was removed.   *)
LEMMA SettledFills ==
  ASSUME WorkInv, SettledInv, LoopFills
  PROVE  SettledInv'
<1> DEFINE h == handler.run
           f == Op.file
           todo == handler.todo
<1>1. TypeOK /\ HandlerInv  BY DEF WorkInv
<1>2. /\ h \in RunIds /\ Op.run = h /\ f \in Files /\ handler.does \in {"create", "record"}
      /\ todo # <<>> /\ todo \in Seq(OpsOf(h)) /\ handler.open /\ Op \in OpsOf(h)
  BY <1>1, NextOp, HandlerShape, LifecycleAssumption DEF LoopFills, HandlerInv, Idle
<1>3. PICK c \in Filled(disk[h][f], Op.value) : disk' = [disk EXCEPT ![h][f] = c]
  BY <1>2 DEF LoopFills
<1>4. /\ \A q \in RunIds : q # h => disk'[q] = disk[q]
      /\ disk'[h][f] = c
  <2>1. Belongs(c, f)
    <3>1. c \in Missing \/ c = Op.value  BY <1>3 DEF Filled, Missing
    <3> QED BY <1>2, <3>1, OpValue DEF Files, Belongs
  <2> HIDE DEF h, f
  <2> QED BY <1>1, <1>2, <1>3, <2>1 DEF TypeOK, Directories, Files, Belongs
<1>5. /\ handler'.does = handler.does /\ handler'.run = handler.run
      /\ handler'.todo = Tail(todo) /\ handler'.open = FALSE
      /\ UNCHANGED <<activeRun, tasks, threads, cutShort, contested>>
  BY <1>1, <1>2, HandlerShape DEF LoopFills, manager, history, Idle
<1>6. ASSUME NEW q \in RunIds, q # h PROVE Owed(q)' => Owes(q)'
  <2>1. Owed(q)' => Owed(q)  BY <1>4, <1>5, <1>6 DEF Owed, HasDirectory, BeingRemoved
  <2> QED BY <1>4, <1>5, <1>6, <2>1, OwesElsewhere
<1>7. ASSUME NEW q \in RunIds, q = h PROVE Owed(q)' => Owes(q)'
  <2>1. CASE handler.does = "create"  BY <1>5, <1>7, <2>1 DEF Owes
  <2>2. CASE handler.does = "record"
    <3>1. Owed(q)' => Owed(q)
      <4>1. ~ HasDirectory(q) => ~ HasDirectory(q)'
        <5> SUFFICES ASSUME disk[h] = NoDirectory PROVE disk'[q] = NoDirectory
          BY <1>7 DEF HasDirectory, NoDirectory
        <5>1. disk[h][f] = Gone  BY <1>2 DEF NoDirectory
        <5>2. c = Gone  BY <1>3, <5>1, LifecycleAssumption DEF Filled
        <5>3. disk' = disk
          <6> HIDE DEF h, f
          <6>1. [disk[h] EXCEPT ![f] = Gone] = disk[h]
            BY <1>2, <5>1 DEF NoDirectory
          <6> QED BY <1>1, <1>2, <1>3, <5>1, <5>2, <6>1 DEF TypeOK
        <5> QED BY <1>7, <5>3
      <4> QED BY <1>5, <4>1 DEF Owed, BeingRemoved
    <3>2. Owed(q) => StoresTheStatus(q)
      BY <1>1, <1>7, <2>2, SettledNow DEF Owes, HandlerInv
    <3>3. StoresTheStatus(q) => StoresTheStatus(q)'
      <4> SUFFICES ASSUME StoresTheStatus(q) PROVE StoresTheStatus(q)'  OBVIOUS
      <4>1. /\ todo[Len(todo)].file = "meta"
            /\ todo[Len(todo)].value.status \in TerminalStatuses
            /\ Len(todo) = 1 => disk[q].meta = Torn
        BY <1>2 DEF StoresTheStatus
      <4>2. CASE Len(todo) = 1
        <5>1. f = "meta" /\ Op = todo[1] /\ handler'.todo = <<>>
          BY <1>2, <1>5, <4>1, <4>2, LastOfTail DEF Op
        <5>2. c = Op.value
          BY <1>3, <1>7, <4>1, <4>2, <5>1, LifecycleAssumption DEF Filled
        <5>3. Op.value \in Metas /\ Op.value.status \in TerminalStatuses
          BY <1>2, <4>1, <4>2, <5>1, OpValue
        <5>4. disk'[q].meta = Op.value  BY <1>4, <1>7, <5>1, <5>2
        <5>5. Settled(q)'  BY <5>3, <5>4, ContentAssumption DEF Settled, Readable
        <5> QED BY <5>1, <5>5 DEF StoresTheStatus
      <4>3. CASE Len(todo) # 1
        <5>1. Tail(todo) # <<>> /\ Len(Tail(todo)) = Len(todo) - 1
              /\ Tail(todo)[Len(todo) - 1] = todo[Len(todo)]
          BY <1>2, <4>3, LastOfTail
        <5> QED BY <1>5, <4>1, <5>1 DEF StoresTheStatus
      <4> QED BY <4>2, <4>3
    <3> QED BY <1>5, <1>7, <2>2, <3>1, <3>2, <3>3 DEF Owes
  <2> QED BY <1>2, <2>1, <2>2
<1>8. handler'.does = "create" => activeRun' = Nothing  BY <1>5, SettledNow
<1> QED BY <1>6, <1>7, <1>8, SettledThen

(* A failed write is one of the exceptions.                                *)
LEMMA SettledFails ==
  ASSUME WorkInv, SettledInv, LoopFails
  PROVE  SettledInv'
<1> DEFINE h == handler.run
<1>1. TypeOK /\ HandlerInv  BY DEF WorkInv
<1>2. h \in RunIds  BY <1>1, NextOp DEF LoopFails
<1>3. handler'.run = Nothing /\ handler'.does = "nothing" /\ Nothing \notin RunIds
  BY LifecycleAssumption DEF LoopFails, Idle, RunIds
<1>4. ASSUME NEW q \in RunIds PROVE Owed(q)' => Owes(q)'
  <2>1. CASE q = h
    <3>1. q \in cutShort'  BY <2>1 DEF LoopFails
    <3> QED BY <3>1 DEF Owed
  <2>2. CASE q # h
    <3>1. disk' = disk /\ tasks'[q] = tasks[q] /\ threads' = threads
          /\ cutShort \subseteq cutShort' /\ contested' = contested
      BY <1>1, <1>2, <2>2 DEF LoopFails, AfterFailure, TypeOK
    <3>2. Owed(q)' => Owed(q)  BY <3>1 DEF Owed, HasDirectory, BeingRemoved
    <3> QED BY <1>3, <2>2, <3>1, <3>2, OwesElsewhere
  <2> QED BY <2>1, <2>2
<1> QED BY <1>3, <1>4, SettledThen

(* A run that has been created starts: no other run has, meanwhile.         *)
LEMMA SettledStarts ==
  ASSUME WorkInv, SettledInv, Starts
  PROVE  SettledInv'
<1> DEFINE h == handler.run
<1>1. TypeOK  BY DEF WorkInv
<1>2. h \in RunIds  BY <1>1, HandlerShape DEF Starts
<1>3. handler'.run = Nothing /\ handler'.does = "nothing" /\ Nothing \notin RunIds
  BY LifecycleAssumption DEF Starts, Idle, RunIds
<1>4. activeRun = Nothing  BY SettledNow DEF Starts
<1>5. MayStart  BY <1>4 DEF MayStart, ActiveRun
<1>6. tasks' = [tasks EXCEPT ![h] = "generating"]  BY <1>5 DEF Starts
<1>7. ASSUME NEW q \in RunIds PROVE Owed(q)' => Owes(q)'
  <2>1. CASE q = h
    <3>1. tasks'[q] = "generating"  BY <1>1, <1>6, <2>1 DEF TypeOK
    <3> QED BY <3>1 DEF Owes
  <2>2. CASE q # h
    <3>1. disk' = disk /\ tasks'[q] = tasks[q] /\ threads' = threads
          /\ cutShort' = cutShort /\ contested' = contested
      BY <1>1, <1>6, <2>2 DEF Starts, TypeOK, history
    <3>2. Owed(q)' => Owed(q)  BY <3>1 DEF Owed, HasDirectory, BeingRemoved
    <3> QED BY <1>3, <2>2, <3>1, <3>2, OwesElsewhere
  <2> QED BY <2>1, <2>2
<1> QED BY <1>3, <1>7, SettledThen

(* A run whose end is recorded is settled.                                 *)
LEMMA SettledRecorded ==
  ASSUME WorkInv, SettledInv, Recorded
  PROVE  SettledInv'
<1> DEFINE h == handler.run
<1>1. TypeOK /\ HandlerInv  BY DEF WorkInv
<1>2. h \in RunIds /\ tasks[h] = "recording"  BY <1>1, HandlerShape DEF Recorded, HandlerInv
<1>3. handler'.run = Nothing /\ handler'.does = "nothing" /\ Nothing \notin RunIds
  BY LifecycleAssumption DEF Recorded, Idle, RunIds
<1>4. disk' = disk /\ threads' = threads /\ cutShort' = cutShort /\ contested' = contested
  BY DEF Recorded, history
<1>5. ASSUME NEW q \in RunIds PROVE Owed(q)' => Owes(q)'
  <2>1. Owed(q)' => Owed(q)  BY <1>4 DEF Owed, HasDirectory, BeingRemoved
  <2>2. CASE q = h
    <3>1. Owed(q) => StoresTheStatus(q)
      BY <1>2, <2>2, SettledNow DEF Owes, Recorded
    <3>2. StoresTheStatus(q) => Settled(q)  BY DEF StoresTheStatus, Recorded
    <3>3. Settled(q) => Settled(q)'  BY <1>4 DEF Settled, Readable
    <3> QED BY <1>3, <2>1, <3>1, <3>2, <3>3 DEF Owes
  <2>3. CASE q # h
    <3>1. tasks'[q] = tasks[q]  BY <1>1, <2>3 DEF Recorded, TypeOK
    <3> QED BY <1>3, <1>4, <2>1, <2>3, <3>1, OwesElsewhere
  <2> QED BY <2>2, <2>3
<1> QED BY <1>3, <1>5, SettledThen

(* A crash spares the runs that nobody was working on.                      *)
LEMMA SettledRestart ==
  ASSUME WorkInv, SettledInv, Restart
  PROVE  SettledInv'
<1>1. handler'.run = Nothing /\ handler'.does = "nothing" /\ Nothing \notin RunIds
  BY LifecycleAssumption DEF Restart, Idle, RunIds
<1>2. ASSUME NEW q \in RunIds PROVE Owed(q)' => Owes(q)'
  <2> SUFFICES ASSUME Owed(q)' PROVE Settled(q)'
    BY <1>1 DEF Owes
  <2>1. disk' = disk /\ contested' = contested /\ cutShort \subseteq cutShort'
    BY DEF Restart
  <2>2. ~ Live(q) /\ handler.run # q /\ \A t \in Threads : threads[t].run # q
    BY DEF Restart, Owed
  <2>3. Owed(q)  BY <2>1, <2>2 DEF Owed, HasDirectory, BeingRemoved
  <2>4. Settled(q)  BY <2>2, <2>3, SettledNow DEF Owes, Live
  <2> QED BY <2>1, <2>4 DEF Settled, Readable
<1> QED BY <1>1, <1>2, SettledThen

(* The other requests served by the loop.                                  *)
LEMMA SettledRequest ==
  ASSUME WorkInv, SettledInv,
         \/ LooksOnLoop
         \/ \E r \in RunIds : Rerun(r) \/ CancelRun(r)
         \/ \E mode \in {"propose", "full"} : CreateRun(mode)
  PROVE  SettledInv'
<1>t. TypeOK  BY DEF WorkInv
<1>1. ASSUME handler = Idle, handler' = handler, disk' = disk, threads' = threads,
             UNCHANGED history,
             \A q \in RunIds : tasks[q] = "generating" => tasks'[q] \in {"generating", "cancelling"},
             \A q \in RunIds : tasks[q] = "cancelling" => tasks'[q] = "cancelling"
      PROVE  SettledInv'
  <2>1. ASSUME NEW q \in RunIds PROVE Owed(q)' => Owes(q)'
    <3>1. Owed(q)' => Owed(q)  BY <1>1 DEF Owed, HasDirectory, BeingRemoved, history
    <3> QED BY <1>1, <3>1, OwesStays
  <2>2. handler'.does = "nothing"  BY <1>1 DEF Idle
  <2> QED BY <2>1, <2>2, SettledThen
<1>2. CASE LooksOnLoop
  BY <1>1, <1>2 DEF LooksOnLoop
<1>3. CASE \E r \in RunIds : CancelRun(r)
  <2>1. /\ \A q \in RunIds : tasks[q] = "generating" => tasks'[q] \in {"generating", "cancelling"}
        /\ \A q \in RunIds : tasks[q] = "cancelling" => tasks'[q] = "cancelling"
    BY <1>t, <1>3 DEF CancelRun, TypeOK
  <2> QED BY <1>1, <1>3, <2>1 DEF CancelRun
<1>4. ASSUME NEW mode, CreateRun(mode) PROVE SettledInv'
  BY <1>4, SettledCreates DEF CreateRun
<1>5. ASSUME NEW r \in RunIds, Rerun(r) PROVE SettledInv'
  BY <1>5, SettledCreates DEF Rerun
<1> QED BY <1>2, <1>3, <1>4, <1>5

(* What a worker thread does to a run it does not remove.                  *)
LEMMA SettledBeside ==
  ASSUME SettledInv, UNCHANGED <<handler, tasks>>, activeRun' \in {activeRun, Nothing},
         \A q \in RunIds : Owed(q)' => Owed(q) /\ disk'[q].meta = disk[q].meta
  PROVE  SettledInv'
<1>1. ASSUME NEW q \in RunIds PROVE Owed(q)' => Owes(q)'
  BY OwesStays
<1>2. handler'.does = "create" => activeRun' = Nothing  BY SettledNow
<1> QED BY <1>1, <1>2, SettledThen

(* Only the thread that removes a directory can stop doing so.             *)
LEMMA StillRemoved ==
  ASSUME NEW t \in Threads, NEW q \in RunIds, NEW s, TypeOK,
         threads' = [threads EXCEPT ![t] = s],
         BeingRemoved(q),
         threads[t].does = "remove" => \/ threads[t].run # q
                                       \/ s.run = q /\ s.does = "remove"
  PROVE  BeingRemoved(q)'
<1>1. PICK u \in Threads : threads[u].run = q /\ threads[u].does = "remove"
  BY DEF BeingRemoved
<1>2. CASE u = t
  BY <1>1, <1>2 DEF BeingRemoved, TypeOK
<1>3. CASE u # t
  <2>1. threads'[u] = threads[u]  BY <1>3 DEF TypeOK
  <2> QED BY <1>1, <2>1 DEF BeingRemoved
<1> QED BY <1>2, <1>3

(* The steps of a worker thread: a directory it removes is gone in the end, *)
(* unless the removal fails.                                               *)
LEMMA SettledThread ==
  ASSUME WorkInv, SettledInv, NEW t \in Threads,
         \/ ThreadStep(t) \/ Look(t)
         \/ \E r \in RunIds :
              DeleteRun(t, r) \/ \E schema \in Schemas : SaveSchema(t, r, schema)
  PROVE  SettledInv'
<1> DEFINE r == threads[t].run
<1>t. TypeOK /\ Fits(threads[t]) /\ threads[t] \in ThreadStates
  BY DEF WorkInv, ThreadsInv, TypeOK
<1>r. threads[t].does \in {"list", "remove", "save", "fill"} => r \in RunIds
  BY <1>t DEF Fits, ThreadStates
<1>1. ASSUME NEW s, Steps(t, s), threads[t].does # "remove", disk' = disk,
             UNCHANGED <<handler, tasks, cutShort, contested>>, activeRun' \in {activeRun, Nothing}
      PROVE  SettledInv'
  <2>1. ASSUME NEW q \in RunIds PROVE Owed(q)' => Owed(q)
    <3>1. BeingRemoved(q) => BeingRemoved(q)'
      BY <1>t, <1>1, StillRemoved DEF Steps
    <3> QED BY <1>1, <3>1 DEF Owed, HasDirectory
  <2> QED BY <1>1, <2>1, SettledBeside
<1>2. ASSUME NEW s, Serves(t, s) PROVE SettledInv'
  <2>1. threads[t].does # "remove"  BY <1>2 DEF Serves, Free
  <2> QED BY <1>1, <1>2, <2>1 DEF Serves, Steps, manager, history
<1>3. CASE \/ FindsNoEndedTask(t) \/ FindsEndedTask(t) \/ WipesRun(t) \/ WipesTask(t)
           \/ Lists(t)
  BY <1>1, <1>3 DEF FindsNoEndedTask, FindsEndedTask, WipesRun, WipesTask, Lists,
     manager, history
<1>4. ASSUME NEW file \in Files, Removes(t, file) PROVE SettledInv'
  <2> DEFINE goesOn == [threads[t] EXCEPT !.left = @ \ {file}]
  <2>1. PICK s \in {Free, goesOn} : Steps(t, s)  BY <1>4 DEF Removes
  <2>2. ASSUME NEW q \in RunIds, q # r, Owed(q)'
        PROVE  Owed(q) /\ disk'[q].meta = disk[q].meta
    <3>1. disk'[q] = disk[q]  BY <1>t, <1>4, <2>2 DEF Removes, TypeOK
    <3>2. BeingRemoved(q) => BeingRemoved(q)'
      BY <1>t, <2>1, <2>2, StillRemoved DEF Steps
    <3>3. cutShort' = cutShort /\ contested \subseteq contested'  BY <1>4 DEF Removes
    <3> QED BY <2>2, <3>1, <3>2, <3>3 DEF Owed, HasDirectory
  <2>3. ASSUME NEW q \in RunIds, q = r PROVE ~ Owed(q)'
    <3>1. CASE q \in contested'  BY <3>1 DEF Owed
    <3>2. CASE Steps(t, goesOn)
      <4>1. threads'[t].run = q /\ threads'[t].does = "remove"
        BY <1>t, <1>4, <2>3, <3>2 DEF Steps, TypeOK, ThreadStates, Removes
      <4> QED BY <4>1 DEF Owed, BeingRemoved
    <3> QED BY <1>4, <2>3, <3>1, <3>2 DEF Removes
  <2>4. UNCHANGED <<handler, tasks, activeRun>>  BY <1>4 DEF Removes, manager
  <2> QED BY <2>2, <2>3, <2>4, SettledBeside
<1>5. CASE RemovesDirectory(t)
  <2>1. Steps(t, Free)  BY <1>5 DEF RemovesDirectory
  <2>2. ASSUME NEW q \in RunIds, q # r, Owed(q)'
        PROVE  Owed(q) /\ disk'[q].meta = disk[q].meta
    <3>1. disk'[q] = disk[q]  BY <1>t, <1>5, <2>2 DEF RemovesDirectory, TypeOK
    <3>2. BeingRemoved(q) => BeingRemoved(q)'
      BY <1>t, <2>1, <2>2, StillRemoved DEF Steps
    <3>3. cutShort' = cutShort /\ contested \subseteq contested'  BY <1>5 DEF RemovesDirectory
    <3> QED BY <2>2, <3>1, <3>2, <3>3 DEF Owed, HasDirectory
  <2>3. ASSUME NEW q \in RunIds, q = r PROVE ~ Owed(q)'
    <3>1. CASE q \in contested'  BY <3>1 DEF Owed
    <3>2. CASE \A f \in Files : disk[r][f] = Absent
      <4>1. disk'[q] = NoDirectory  BY <1>t, <1>5, <2>3, <3>2 DEF RemovesDirectory, TypeOK
      <4> QED BY <4>1 DEF Owed, HasDirectory
    <3>3. CASE ~ HasDirectory(r) /\ disk' = disk
      BY <2>3, <3>3 DEF Owed, HasDirectory
    <3> QED BY <1>5, <2>3, <3>1, <3>2, <3>3 DEF RemovesDirectory
  <2>4. UNCHANGED <<handler, tasks, activeRun>>  BY <1>5 DEF RemovesDirectory, manager
  <2> QED BY <2>2, <2>3, <2>4, SettledBeside
<1>6. CASE SaveOpens(t)
  <2>1. CASE disk' = disk
    <3>1. PICK s : Steps(t, s)  BY <1>6 DEF SaveOpens
    <3> QED BY <1>1, <1>6, <2>1, <3>1 DEF SaveOpens, manager
  <2>2. CASE HasDirectory(r) /\ disk' = [disk EXCEPT ![r].schema = Torn]
    <3>1. \A q \in RunIds : /\ HasDirectory(q)' => HasDirectory(q)
                            /\ disk'[q].meta = disk[q].meta
      BY <1>t, <2>2 DEF HasDirectory, TypeOK, Directories
    <3>2. PICK s : Steps(t, s)  BY <1>6 DEF SaveOpens
    <3>3. \A q \in RunIds : BeingRemoved(q) => BeingRemoved(q)'
      BY <1>t, <1>6, <3>2, StillRemoved DEF Steps, SaveOpens
    <3>4. UNCHANGED <<handler, tasks, activeRun, cutShort, contested>>
      BY <1>6 DEF SaveOpens, manager
    <3> QED BY <3>1, <3>3, <3>4, SettledBeside DEF Owed
  <2> QED BY <1>6, <2>1, <2>2 DEF SaveOpens
<1>7. CASE SaveFills(t)
  <2>1. PICK c \in Filled(disk[r].schema, threads[t].value) :
          disk' = [disk EXCEPT ![r].schema = c]
    BY <1>7 DEF SaveFills
  <2>2. \A q \in RunIds : disk'[q].meta = disk[q].meta
    BY <1>t, <2>1 DEF TypeOK, Directories
  <2>3. ASSUME NEW q \in RunIds, ~ HasDirectory(q) PROVE ~ HasDirectory(q)'
    <3>1. CASE q # r
      BY <1>t, <2>1, <2>3, <3>1 DEF HasDirectory, TypeOK
    <3>2. CASE q = r
      <4>1. disk[q] = NoDirectory /\ disk[q].schema = Gone
        BY <2>3 DEF HasDirectory, NoDirectory, Files
      <4>2. c = Gone  BY <2>1, <3>2, <4>1, LifecycleAssumption DEF Filled
      <4>3. disk'[q] = [disk[q] EXCEPT !.schema = Gone]
        BY <1>t, <2>1, <3>2, <4>2 DEF TypeOK
      <4>4. [NoDirectory EXCEPT !.schema = Gone] = NoDirectory
        BY DEF NoDirectory, Files
      <4> QED BY <4>1, <4>3, <4>4 DEF HasDirectory
    <3> QED BY <3>1, <3>2
  <2>4. Steps(t, Free) /\ threads[t].does # "remove"  BY <1>7 DEF SaveFills
  <2>5. \A q \in RunIds : BeingRemoved(q) => BeingRemoved(q)'
    BY <1>t, <2>4, StillRemoved DEF Steps
  <2>6. UNCHANGED <<handler, tasks, activeRun, cutShort, contested>>
    BY <1>7 DEF SaveFills, manager
  <2> QED BY <2>2, <2>3, <2>5, <2>6, SettledBeside DEF Owed
<1> QED BY <1>2, <1>3, <1>4, <1>5, <1>6, <1>7
        DEF ThreadStep, Look, DeleteRun, SaveSchema

-----------------------------------------------------------------------------
(* What follows.                                                           *)

(* The invariant is inductive.                                             *)
LEMMA WorkStep == WorkInv /\ [Next]_vars => WorkInv'
<1>1. WorkInv /\ UNCHANGED vars => WorkInv'
  <2> SUFFICES ASSUME WorkInv, UNCHANGED vars PROVE WorkInv'
    OBVIOUS
  <2>1. threads' \in [Threads -> ThreadStates] /\ ThreadsInv'
    BY DEF vars, history, WorkInv, TypeOK, ThreadsInv, Fits, Live
  <2> QED BY <2>1, RestQuiet DEF vars, bounds, WorkInv, TypeOK
<1> QED BY <1>1, FileInv, TaskInv, RequestInv, ThreadInv DEF Next, LoopStep

(* What is owed to the runs is inductive beside it: every step settles the  *)
(* run it was working on, or leaves somebody who will.                     *)
LEMMA SettledStep == WorkInv /\ SettledInv /\ [Next]_vars => SettledInv'
<1>1. SettledInv /\ UNCHANGED vars => SettledInv'
  <2> SUFFICES ASSUME SettledInv, UNCHANGED vars PROVE SettledInv'
    OBVIOUS
  <2>1. \A q \in RunIds : Owed(q)' => Owed(q) /\ disk'[q].meta = disk[q].meta
    BY DEF vars, history, Owed, HasDirectory, BeingRemoved
  <2> QED BY <2>1, SettledBeside DEF vars, manager
<1> QED BY <1>1, SettledOpens, SettledFills, SettledFails, SettledStarts, SettledRecorded,
           SettledTask, SettledRequest, SettledRestart, SettledThread
        DEF Next, LoopStep

(* Nothing is owed to a run that has no directory.                          *)
LEMMA InitSettled == Init => SettledInv
  BY DEF Init, SettledInv, HasDirectory, Idle

(* The invariant behind the safety properties of the runs' lifecycle holds  *)
(* of the store, the manager, the loop and the worker threads throughout.  *)
THEOREM Invariant == Spec => []IInv
<1>1. Init => IInv
  BY InitInv, InitSettled DEF IInv
<1>2. IInv /\ [Next]_vars => IInv'
  BY WorkStep, SettledStep DEF IInv
<1> QED BY <1>1, <1>2, PTL DEF Spec

(* A directory at rest says how its run ended, whatever branch _execute     *)
(* took, unless a crash, a failed write or a half-failed deletion cut it    *)
(* short.                                                                  *)
THEOREM RunsSettled == Spec => []RunsAtRestAreSettled
<1>1. IInv => RunsAtRestAreSettled
  <2> SUFFICES ASSUME IInv, NEW r \in RunIds, AtRest(r), r \notin cutShort \cup contested
               PROVE  Settled(r)
    BY DEF RunsAtRestAreSettled, Settled
  <2>1. Owed(r)  BY DEF AtRest, Owed, BeingRemoved
  <2>2. Owes(r)  BY <2>1, SettledNow DEF IInv
  <2> QED BY <2>2 DEF AtRest, Owes, Live
<1> QED BY <1>1, Invariant, PTL

(* One generation runs at a time, unless a worker thread has wiped out the  *)
(* entry of a run started meanwhile (RunManager.active_run).               *)
THEOREM OneGenerationAtATime == Spec => []OneGenerationUnlessOverwritten
<1>1. IInv => OneGenerationUnlessOverwritten
  BY DEF IInv, WorkInv, ManagerInv, OneGenerationUnlessOverwritten
<1> QED BY <1>1, Invariant, PTL

(* A run that is being generated keeps its directory (delete_run).         *)
THEOREM LiveRunsKeepTheirFiles == Spec => []LiveRunsAreNotDeleted
<1>1. IInv => LiveRunsAreNotDeleted
  BY LifecycleAssumption
     DEF IInv, WorkInv, ThreadsInv, Fits, LiveRunsAreNotDeleted, RunIds
<1> QED BY <1>1, Invariant, PTL

(* Whatever a finished run recorded stays, except in a deletion.            *)
Keeps(r, f) ==
  \/ disk'[r][f] = disk[r][f]
  \/ /\ disk'[r][f] \in {Absent, Gone}
     /\ \E t \in Threads : threads[t].run = r /\ threads[t].does = "remove"

(* A handler writes to its own run only, and a new run has a new place.     *)
LEMMA LoopKeeps ==
  ASSUME WorkInv, NEW r \in RunIds, HasDirectory(r), handler.run # r,
         \/ LoopOpens \/ LoopFills
         \/ \E mode \in {"propose", "full"} : CreateRun(mode)
         \/ \E q \in RunIds : Rerun(q)
  PROVE  \A f \in Files : disk'[r][f] = disk[r][f]
<1>t. TypeOK /\ HandlerInv /\ FutureInv
  BY DEF WorkInv
<1>d. disk \in [RunIds -> Directories] /\ created \in Nat
  BY <1>t DEF TypeOK
<1>1. CASE LoopOpens
  <2>1. Op.run # r
    BY <1>1, <1>t, NextOp DEF LoopOpens
  <2> QED BY <1>1, <1>d, <2>1 DEF LoopOpens
<1>2. CASE LoopFills
  BY <1>2, <1>t, FillsFile
<1>3. ASSUME \E mode, schema, writes : Creates(mode, schema, writes)
      PROVE  \A f \in Files : disk'[r][f] = disk[r][f]
  <2>1. ~ r > created
    BY <1>t DEF FutureInv, HasDirectory
  <2>2. r # created + 1
    BY <1>d, <2>1 DEF RunIds
  <2> QED BY <1>3, <1>d, <2>2 DEF Creates
<1> QED BY <1>1, <1>2, <1>3 DEF CreateRun, Rerun, Modes

(* A save writes the schema, and a deletion removes.                        *)
LEMMA ThreadKeeps ==
  ASSUME WorkInv, NEW t \in Threads, ThreadStep(t), NEW r \in RunIds, NEW f \in Files \ {"schema"}
  PROVE  Keeps(r, f)
<1>t. disk \in [RunIds -> Directories]
  BY DEF WorkInv, TypeOK
<1>d. \A q \in RunIds : DOMAIN disk[q] = Files
  BY <1>t DEF Directories, Files
<1>1. CASE \/ FindsNoEndedTask(t) \/ FindsEndedTask(t) \/ WipesRun(t) \/ WipesTask(t)
           \/ Lists(t)
  BY <1>1 DEF FindsNoEndedTask, FindsEndedTask, WipesRun, WipesTask, Lists, Keeps
<1>2. CASE RemovesDirectory(t)
  <2>1. CASE threads[t].run = r
    BY <1>2, <1>t, <2>1 DEF RemovesDirectory, Keeps, NoDirectory
  <2>2. CASE threads[t].run # r
    BY <1>2, <1>t, <2>2 DEF RemovesDirectory, Keeps
  <2> QED BY <2>1, <2>2
<1>3. ASSUME NEW g \in Files, Removes(t, g) PROVE Keeps(r, f)
  <2>1. CASE threads[t].run = r /\ g = f
    BY <1>3, <1>t, <1>d, <2>1 DEF Removes, Keeps
  <2>2. CASE threads[t].run # r \/ g # f
    BY <1>3, <1>t, <1>d, <2>2 DEF Removes, Keeps
  <2> QED BY <2>1, <2>2
<1>4. ASSUME NEW c, disk' = [disk EXCEPT ![threads[t].run].schema = c] PROVE Keeps(r, f)
  BY <1>4, <1>t, <1>d DEF Keeps
<1>5. CASE SaveOpens(t)
  <2>1. UNCHANGED disk => Keeps(r, f)
    BY DEF Keeps
  <2> QED BY <1>4, <1>5, <2>1 DEF SaveOpens
<1>6. CASE SaveFills(t)
  BY <1>4, <1>6 DEF SaveFills
<1> QED BY <1>1, <1>2, <1>3, <1>5, <1>6 DEF ThreadStep

(* A finished run is never written again, only deleted.                     *)
THEOREM FinishedKept == Spec => FinishedRunsAreKept
<1> DEFINE A == \A r \in RunIds : ~ Live(r) /\ HasDirectory(r) /\ handler.run # r =>
                  \A f \in Files \ {"schema"} : Keeps(r, f)
<1>1. WorkInv /\ [Next]_vars => A
  <2> SUFFICES ASSUME WorkInv, [Next]_vars, NEW r \in RunIds, HasDirectory(r), handler.run # r,
                      NEW f \in Files \ {"schema"}
               PROVE  Keeps(r, f)
    OBVIOUS
  <2>1. CASE \/ LoopOpens \/ LoopFills
             \/ \E mode \in {"propose", "full"} : CreateRun(mode)
             \/ \E q \in RunIds : Rerun(q)
    BY <2>1, LoopKeeps DEF Keeps
  <2>2. CASE \E t \in Threads : ThreadStep(t)
    BY <2>2, ThreadKeeps
  <2>3. CASE UNCHANGED disk
    BY <2>3 DEF Keeps
  <2>4. ASSUME \/ LoopFails \/ Starts \/ Recorded \/ LooksOnLoop \/ Restart
               \/ \E q \in RunIds : CancelRun(q)
               \/ \E q \in RunIds :
                    \/ TaskEnds(q) \/ GenerationFails(q) \/ GenerationRaises(q)
                    \/ GenerationIsCancelled(q)
                    \/ \E schema \in Schemas : GenerationSucceeds(q, schema)
               \/ \E t \in Threads :
                    \/ Look(t)
                    \/ \E q \in RunIds :
                         DeleteRun(t, q) \/ \E schema \in Schemas : SaveSchema(t, q, schema)
        PROVE  UNCHANGED disk
    BY <2>4 DEF LoopFails, Starts, Recorded, LooksOnLoop, Restart, CancelRun, TaskEnds,
       GenerationFails, GenerationRaises, GenerationIsCancelled, GenerationSucceeds, Records,
       Look, DeleteRun, SaveSchema, Serves
  <2> QED BY <2>1, <2>2, <2>3, <2>4 DEF Next, LoopStep, vars
<1>2. A => [\A r \in RunIds : ~ Live(r) /\ HasDirectory(r) /\ handler.run # r =>
              \A f \in Files \ {"schema"} :
                \/ disk'[r][f] = disk[r][f]
                \/ disk'[r][f] \in {Absent, Gone}
                   /\ \E t \in Threads : threads[t].run = r /\ threads[t].does = "remove"]_vars
  BY DEF Keeps
<1>3. IInv => WorkInv  BY DEF IInv
<1> HIDE DEF A
<1> QED BY <1>1, <1>2, <1>3, Invariant, PTL DEF Spec, FinishedRunsAreKept

(* A rerun starts from the schema whose save was answered (rerun_run).      *)
THEOREM RerunsReviewed == Spec => RerunsUseTheReviewedSchema
<1>1. WorkInv => [\A r \in RunIds : Rerun(r) /\ reviewed[r] # Nothing
                 => jobs'[created'].schema = reviewed[r]]_vars
  <2> SUFFICES ASSUME WorkInv, NEW r \in RunIds, Rerun(r), reviewed[r] # Nothing
               PROVE  jobs'[created'].schema = reviewed[r]
    OBVIOUS
  <2>1. disk[r].schema = reviewed[r] /\ reviewed[r] \in Schemas
    BY DEF WorkInv, TypeOK, ReviewInv
  <2>2. SchemaForRerun(r) = reviewed[r]
    BY <2>1, LifecycleAssumption DEF SchemaForRerun, Readable, Missing
  <2>3. created + 1 \in RunIds /\ jobs \in [RunIds -> [mode : Modes, schema : Schemas \cup {Nothing}]]
    BY LifecycleAssumption DEF WorkInv, TypeOK, RunIds, Rerun, Creates
  <2> QED BY <2>2, <2>3 DEF Rerun, Creates
<1>2. IInv => WorkInv  BY DEF IInv
<1> QED BY <1>1, <1>2, Invariant, PTL DEF RerunsUseTheReviewedSchema
=============================================================================
