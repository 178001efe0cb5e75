---------------------------- MODULE RunLifecycle ----------------------------
(***************************************************************************)
(* The runs of the WebUI (webui/app.py, webui/store.py): creating a run,   *)
(* rerunning it from a stored schema, cancelling, saving a reviewed        *)
(* schema, deleting, and the manager that lets one generation run at a     *)
(* time.  The events of one run are RunEvents, its generation is Workflow. *)
(*                                                                         *)
(* Two kinds of actors touch the files and the manager's fields.  The      *)
(* event loop runs one asynchronous handler or one piece of a task at a    *)
(* time.  The endpoints written with "def" run in worker threads beside    *)
(* it.  A file is rewritten in place, in two steps: it is truncated, then  *)
(* filled.  The reads of one handler are one step: a deletion removes      *)
(* files in any order, so what a read spread over time could see, a single *)
(* one can see as well.  config.json, which no handler reads to decide     *)
(* anything, is part of "inputs".  An id is a run's creation time, which no client   *)
(* can name before the handler that creates it has returned.               *)
(***************************************************************************)
EXTENDS Naturals, Sequences, FiniteSets

CONSTANTS
  Threads,      \* worker threads of the synchronous endpoints
  Schemas,      \* valid schemas
  Nothing,      \* no schema, no run, no value
  Absent, Torn, \* a file that is not there, or does not parse
  Gone,         \* a file whose whole directory is not there
  MaxRuns,      \* bound: runs ever created
  MaxRequests,  \* bound: requests served by worker threads
  MaxFailures   \* bound: file operations that fail, and times the server is killed

ASSUME LifecycleAssumption ==
  /\ MaxRuns \in Nat /\ MaxRequests \in Nat /\ MaxFailures \in Nat
  /\ Nothing \notin (1 .. MaxRuns) \cup Schemas
  /\ {Absent, Torn, Gone} \cap (Schemas \cup {"given"}) = {}
  /\ Absent # Torn /\ Absent # Gone /\ Torn # Gone

RunIds == 1 .. MaxRuns
Modes == {"propose", "full", "schema_rerun"}
TerminalStatuses == {"success", "failed", "cancelled"}
Files == {"meta", "inputs", "schema", "result"}

NoDirectory == [f \in Files |-> Gone]

VARIABLES
  disk,        \* data/runs: the files of each run's directory
  created,     \* ids handed out so far
  activeRun,   \* RunManager._active_run
  managed,     \* the run whose task RunManager._task is
  tasks,       \* the task of each run's _execute
  jobs,        \* what each run's task was asked to do
  handler,     \* what the event loop is in the middle of
  threads,     \* what each worker thread is doing
  requests, failures,
  \* for the properties
  cutShort,    \* runs whose files a crash or a failed write left as they were
  contested,   \* runs whose deletion failed half way
  reviewed,    \* the schema saved for a run that nobody has touched since
  overwritten  \* a thread has wiped out the entry of a run started meanwhile

manager == <<activeRun, managed>>
bounds == <<requests, failures>>
history == <<cutShort, contested, reviewed, overwritten>>
vars == <<disk, created, manager, tasks, jobs, handler, threads, bounds, history>>

Missing == {Absent, Torn, Gone}
Metas == [status : TerminalStatuses \cup {"running"}, source : RunIds \cup {Nothing}]
Results == [artifact : Schemas \cup {Nothing}]

(* A file that parses is not one that is missing.                          *)
ASSUME ContentAssumption == Missing \cap (Metas \cup Results) = {}

Meta(status, source) == [status |-> status, source |-> source]
HasDirectory(r) == disk[r] # NoDirectory
(* read_json answers None for a file that is absent or does not parse.      *)
Readable(r, file) == disk[r][file] \notin Missing

Live(r) == tasks[r] \in {"generating", "cancelling", "recording", "draining"}
TaskIsOver == managed # Nothing /\ tasks[managed] = "done"

(* A write to come; an update of the metadata reads the file first.         *)
Write(r, file, value) == [run |-> r, file |-> file, value |-> value, merges |-> FALSE]
Update(r, value) == [run |-> r, file |-> "meta", value |-> value, merges |-> TRUE]
NoJob == [mode |-> "full", schema |-> Nothing]
Idle == [does |-> "nothing", run |-> Nothing, todo |-> <<>>, open |-> FALSE]
Free == [does |-> "nothing", run |-> Nothing, value |-> Nothing, left |-> {}]

Init ==
  /\ disk = [r \in RunIds |-> NoDirectory]
  /\ created = 0
  /\ activeRun = Nothing /\ managed = Nothing
  /\ tasks = [r \in RunIds |-> "none"]
  /\ jobs = [r \in RunIds |-> NoJob]
  /\ handler = Idle
  /\ threads = [t \in Threads |-> Free]
  /\ requests = 0 /\ failures = 0
  /\ cutShort = {} /\ contested = {}
  /\ reviewed = [r \in RunIds |-> Nothing]
  /\ overwritten = FALSE

-----------------------------------------------------------------------------
(* The manager.                                                            *)

(* The property active_run, read on the event loop: a task that is done is  *)
(* forgotten on the way.                                                   *)
ActiveRun == IF TaskIsOver THEN Nothing ELSE activeRun
ReadsActiveRun ==
  /\ activeRun' = ActiveRun
  /\ managed' = IF TaskIsOver THEN Nothing ELSE managed

(* Mutation used by the runs: nobody asks whether a run is active.         *)
MayStart_Unchecked == TRUE
MayStart == ActiveRun = Nothing

(* A client can name a run once its creation is over.                       *)
Known(r) == HasDirectory(r) /\ handler.run # r

-----------------------------------------------------------------------------
(* The event loop: handlers.                                               *)

(* RunStore.create, with the updates its callers add.                       *)
SeedWrites(r) ==
  <<Write(r, "meta", Meta("running", Nothing)), Write(r, "inputs", "given")>>
ChildWrites(r, source, schema) ==
  SeedWrites(r) \o <<Write(r, "schema", schema), Update(r, Meta("running", source))>>
(* Mutation used by the runs: a child's update is made to its source.      *)
Enriched_AtSource(r, source) ==
  <<Update(IF source = Nothing THEN r ELSE source, Meta("running", source))>>
Enriched(r, source) == <<Update(r, Meta("running", source))>>

Creates(mode, schema, writes) ==
  /\ created < MaxRuns
  /\ created' = created + 1
  /\ disk' = [disk EXCEPT ![created + 1] = [f \in Files |-> Absent]]
  /\ jobs' = [jobs EXCEPT ![created + 1] = [mode |-> mode, schema |-> schema]]
  /\ handler' = [does |-> "create", run |-> created + 1, todo |-> writes, open |-> FALSE]

(* POST /api/runs                                                          *)
CreateRun(mode) ==
  /\ handler = Idle
  /\ MayStart
  /\ ReadsActiveRun
  /\ Creates(mode, Nothing, SeedWrites(created + 1) \o Enriched(created + 1, Nothing))
  /\ UNCHANGED <<tasks, threads, bounds, history>>

(* The saved schema comes first, then the one of a finished artifact.       *)
(* Mutation used by the runs: the other way round.                         *)
SchemaForRerun_ArtifactFirst(r) ==
  IF Readable(r, "result") /\ disk[r].result.artifact # Nothing THEN disk[r].result.artifact
  ELSE IF Readable(r, "schema") THEN disk[r].schema
  ELSE Nothing
SchemaForRerun(r) ==
  IF Readable(r, "schema") THEN disk[r].schema
  ELSE IF Readable(r, "result") THEN disk[r].result.artifact
  ELSE Nothing

(* POST /api/runs/{run_id}/rerun and /generate.  Every refusal leaves       *)
(* things as they were.                                                    *)
Rerun(r) ==
  /\ handler = Idle
  /\ Known(r)
  /\ Readable(r, "meta")
  /\ MayStart
  /\ ReadsActiveRun
  /\ disk[r].meta.status \in TerminalStatuses
  /\ SchemaForRerun(r) # Nothing
  /\ Readable(r, "inputs")
  /\ Creates("schema_rerun", SchemaForRerun(r),
             ChildWrites(created + 1, r, SchemaForRerun(r)) \o Enriched(created + 1, r))
  /\ UNCHANGED <<tasks, threads, bounds, history>>

(* POST /api/runs/{run_id}/cancel, and RunManager.cancel.  A task that is   *)
(* draining ends at once, and skips what is left of its finally.           *)
CancelRun(r) ==
  /\ handler = Idle
  /\ Known(r)
  /\ Readable(r, "meta")
  /\ ActiveRun = r
  /\ managed # Nothing
  /\ tasks[managed] \in {"generating", "draining"}
  /\ tasks' = [tasks EXCEPT ![managed] = IF @ = "generating" THEN "cancelling" ELSE "done"]
  /\ UNCHANGED <<disk, created, manager, jobs, handler, threads, bounds, history>>

(* Any handler that reads active_run and then refuses.                      *)
LooksOnLoop ==
  /\ handler = Idle
  /\ ReadsActiveRun
  /\ UNCHANGED <<disk, created, tasks, jobs, handler, threads, bounds, history>>

-----------------------------------------------------------------------------
(* The event loop: one run's task.                                         *)

SourceOf(r) == IF Readable(r, "meta") THEN disk[r].meta.source ELSE Nothing
Ended(r, status) == Update(r, Meta(status, SourceOf(r)))

Records(r, writes) ==
  /\ tasks' = [tasks EXCEPT ![r] = "recording"]
  /\ handler' = [does |-> "record", run |-> r, todo |-> writes, open |-> FALSE]
  /\ jobs' = [jobs EXCEPT ![r] = NoJob]
  /\ UNCHANGED <<disk, created, manager, threads, bounds, history>>

Result(r, artifact) == Write(r, "result", [artifact |-> artifact])
Succeeds(r, schema) ==
  IF jobs[r].mode = "propose"
  THEN <<Result(r, Nothing), Write(r, "schema", schema), Ended(r, "success")>>
  ELSE <<Result(r, schema), Ended(r, "success")>>

(* The service returns a result, raises, or is cancelled.                   *)
GenerationSucceeds(r, schema) ==
  /\ handler = Idle
  /\ tasks[r] = "generating"
  /\ jobs[r].mode = "schema_rerun" => schema = jobs[r].schema
  /\ Records(r, Succeeds(r, schema))

GenerationFails(r) ==
  /\ handler = Idle
  /\ tasks[r] = "generating"
  /\ Records(r, <<Result(r, Nothing), Ended(r, "failed")>>)

GenerationRaises(r) ==
  /\ handler = Idle
  /\ tasks[r] \in {"generating", "cancelling"}
  /\ Records(r, <<Ended(r, "failed")>>)

(* Mutation used by the runs: a cancelled run's status is not stored.      *)
WhenCancelled_Silent(r) == <<>>
WhenCancelled(r) == <<Ended(r, "cancelled")>>
GenerationIsCancelled(r) ==
  /\ handler = Idle
  /\ tasks[r] = "cancelling"
  /\ Records(r, WhenCancelled(r))

(* The end of _execute's finally, unless the pump has failed.               *)
TaskEnds(r) ==
  /\ handler = Idle
  /\ tasks[r] = "draining"
  /\ tasks' = [tasks EXCEPT ![r] = "done"]
  /\ \/ /\ activeRun' = Nothing
        /\ UNCHANGED failures
     \/ /\ failures < MaxFailures
        /\ failures' = failures + 1
        /\ UNCHANGED activeRun
  /\ UNCHANGED <<disk, created, managed, jobs, handler, threads, requests, history>>

-----------------------------------------------------------------------------
(* The event loop: files.                                                  *)

Op == Head(handler.todo)
CanOpen == HasDirectory(Op.run) /\ (Op.merges => Readable(Op.run, "meta"))

(* write_text truncates the file.                                          *)
LoopOpens ==
  /\ handler.todo # <<>> /\ ~ handler.open
  /\ CanOpen
  /\ disk' = [disk EXCEPT ![Op.run][Op.file] = Torn]
  /\ reviewed' = IF Op.file = "schema" THEN [reviewed EXCEPT ![Op.run] = Nothing] ELSE reviewed
  /\ handler' = [handler EXCEPT !.open = TRUE]
  /\ UNCHANGED <<created, manager, tasks, jobs, threads, bounds, cutShort, contested, overwritten>>

(* ... and fills it.  A file removed meanwhile stays removed; one that      *)
(* another writer has filled may come out as a mix of both.                *)
Filled(content, value) ==
  CASE content \in {Absent, Gone} -> {content}
    [] content = Torn -> {value}
    [] OTHER -> {value, Torn}

LoopFills ==
  /\ handler.open
  /\ \E c \in Filled(disk[Op.run][Op.file], Op.value) :
       disk' = [disk EXCEPT ![Op.run][Op.file] = c]
  /\ handler' = [handler EXCEPT !.todo = Tail(@), !.open = FALSE]
  /\ UNCHANGED <<created, manager, tasks, jobs, threads, bounds, history>>

(* A handler that raises answers 500; a task goes on to its finally.        *)
(* Mutation used by the runs: a task that raises never gets there.         *)
AfterFailure_Stuck == UNCHANGED tasks
AfterFailure ==
  tasks' = IF handler.does = "record" THEN [tasks EXCEPT ![handler.run] = "draining"] ELSE tasks

LoopFails ==
  /\ handler.todo # <<>>
  /\ \/ /\ ~ handler.open
        /\ ~ CanOpen
        /\ UNCHANGED failures
     \/ /\ failures < MaxFailures
        /\ failures' = failures + 1
  /\ AfterFailure
  /\ handler' = Idle
  /\ jobs' = [jobs EXCEPT ![handler.run] = NoJob]
  /\ cutShort' = cutShort \cup {handler.run}
  /\ UNCHANGED <<disk, created, manager, threads, requests,
                 contested, reviewed, overwritten>>

(* RunManager.start; it looks at active_run once more.                      *)
Starts ==
  /\ handler.does = "create" /\ handler.todo = <<>>
  /\ IF MayStart
     THEN /\ activeRun' = handler.run
          /\ managed' = handler.run
          /\ tasks' = [tasks EXCEPT ![handler.run] = "generating"]
     ELSE UNCHANGED <<manager, tasks>>
  /\ handler' = Idle
  /\ UNCHANGED <<disk, created, jobs, threads, bounds, history>>

Recorded ==
  /\ handler.does = "record" /\ handler.todo = <<>>
  /\ tasks' = [tasks EXCEPT ![handler.run] = "draining"]
  /\ handler' = Idle
  /\ UNCHANGED <<disk, created, manager, jobs, threads, bounds, history>>

-----------------------------------------------------------------------------
(* Worker threads.                                                         *)

Serves(t, step) ==
  /\ threads[t] = Free
  /\ requests < MaxRequests
  /\ requests' = requests + 1
  /\ threads' = [threads EXCEPT ![t] = step]
  /\ UNCHANGED <<disk, created, manager, tasks, jobs, handler, failures, history>>

Steps(t, step) == threads' = [threads EXCEPT ![t] = step]

(* GET /api/runs and /api/runs/{run_id} read active_run last.               *)
Look(t) == Serves(t, [Free EXCEPT !.does = "look"])

(* DELETE /api/runs/{run_id}                                               *)
DeleteRun(t, r) ==
  /\ Known(r) /\ Readable(r, "meta")
  /\ Serves(t, [Free EXCEPT !.does = "check", !.run = r])

(* PUT /api/runs/{run_id}/schema: nothing asks whether the run is over.     *)
SaveSchema(t, r, schema) ==
  /\ Known(r) /\ Readable(r, "meta")
  /\ Serves(t, [Free EXCEPT !.does = "save", !.run = r, !.value = schema])

(* The property active_run in a thread: the task is found done, then the    *)
(* two fields are wiped one after the other, whatever is in them by then.  *)
AfterActive(t, run) ==
  IF threads[t].does \in {"look", "look task"} \/ run = threads[t].run THEN Free
  ELSE [threads[t] EXCEPT !.does = "list"]

FindsNoEndedTask(t) ==
  /\ threads[t].does \in {"look", "check"}
  /\ ~ TaskIsOver
  /\ Steps(t, AfterActive(t, activeRun))
  /\ UNCHANGED <<disk, created, manager, tasks, jobs, handler, bounds, history>>

FindsEndedTask(t) ==
  /\ threads[t].does \in {"look", "check"}
  /\ TaskIsOver
  /\ Steps(t, [threads[t] EXCEPT !.does = IF @ = "look" THEN "look run" ELSE "check run",
                                 !.value = managed])
  /\ UNCHANGED <<disk, created, manager, tasks, jobs, handler, bounds, history>>

Overwrites(t) == managed \notin {Nothing, threads[t].value}

WipesRun(t) ==
  /\ threads[t].does \in {"look run", "check run"}
  /\ activeRun' = Nothing
  /\ overwritten' = (overwritten \/ Overwrites(t))
  /\ Steps(t, [threads[t] EXCEPT !.does = IF @ = "look run" THEN "look task" ELSE "check task"])
  /\ UNCHANGED <<disk, created, managed, tasks, jobs, handler, bounds, cutShort, contested, reviewed>>

WipesTask(t) ==
  /\ threads[t].does \in {"look task", "check task"}
  /\ managed' = Nothing
  /\ overwritten' = (overwritten \/ Overwrites(t))
  /\ Steps(t, AfterActive(t, activeRun))
  /\ UNCHANGED <<disk, created, activeRun, tasks, jobs, handler, bounds, cutShort, contested, reviewed>>

(* shutil.rmtree lists the directory, removes what it listed, and then the  *)
(* directory, if it is empty.  A file removed by another may stop it.       *)
Lists(t) ==
  /\ threads[t].does = "list"
  /\ Steps(t, IF HasDirectory(threads[t].run)
              THEN [threads[t] EXCEPT !.does = "remove",
                      !.left = {f \in Files : disk[threads[t].run][f] # Absent}]
              ELSE Free)
  /\ reviewed' = [reviewed EXCEPT ![threads[t].run] = Nothing]
  /\ UNCHANGED <<disk, created, manager, tasks, jobs, handler, bounds, cutShort, contested, overwritten>>

Removes(t, file) ==
  /\ threads[t].does = "remove"
  /\ file \in threads[t].left
  /\ LET goesOn == [threads[t] EXCEPT !.left = @ \ {file}]
     IN  IF disk[threads[t].run][file] \in {Absent, Gone}
         THEN /\ UNCHANGED disk
              /\ \/ Steps(t, Free) /\ contested' = contested \cup {threads[t].run}
                 \/ Steps(t, goesOn) /\ UNCHANGED contested
         ELSE /\ disk' = [disk EXCEPT ![threads[t].run][file] = Absent]
              /\ Steps(t, goesOn) /\ UNCHANGED contested
  /\ UNCHANGED <<created, manager, tasks, jobs, handler, bounds, cutShort, reviewed, overwritten>>

RemovesDirectory(t) ==
  /\ threads[t].does = "remove" /\ threads[t].left = {}
  /\ LET r == threads[t].run
         empty == \A f \in Files : disk[r][f] = Absent
     IN  /\ disk' = IF empty THEN [disk EXCEPT ![r] = NoDirectory] ELSE disk
         /\ contested' = IF empty \/ ~ HasDirectory(r) THEN contested ELSE contested \cup {r}
  /\ Steps(t, Free)
  /\ UNCHANGED <<created, manager, tasks, jobs, handler, bounds, cutShort, reviewed, overwritten>>

(* write_schema in a thread.                                               *)
SaveOpens(t) ==
  /\ threads[t].does = "save"
  /\ IF HasDirectory(threads[t].run)
     THEN /\ disk' = [disk EXCEPT ![threads[t].run].schema = Torn]
          /\ Steps(t, [threads[t] EXCEPT !.does = "fill"])
     ELSE Steps(t, Free) /\ UNCHANGED disk
  /\ reviewed' = [reviewed EXCEPT ![threads[t].run] = Nothing]
  /\ UNCHANGED <<created, manager, tasks, jobs, handler, bounds, cutShort, contested, overwritten>>

OtherWriters(t) ==
  \/ handler.run = threads[t].run
  \/ \E u \in Threads \ {t} :
       threads[u].run = threads[t].run /\ threads[u].does \in {"fill", "list", "remove"}

SaveFills(t) ==
  /\ threads[t].does = "fill"
  /\ LET r == threads[t].run
     IN  \E c \in Filled(disk[r].schema, threads[t].value) :
           /\ disk' = [disk EXCEPT ![r].schema = c]
           /\ reviewed' = [reviewed EXCEPT ![r] =
                             IF disk[r].schema = Torn /\ ~ OtherWriters(t)
                             THEN threads[t].value ELSE Nothing]
  /\ Steps(t, Free)
  /\ UNCHANGED <<created, manager, tasks, jobs, handler, bounds, cutShort, contested, overwritten>>

-----------------------------------------------------------------------------

(* The server is killed and started again: the files are all that is left. *)
Restart ==
  /\ failures < MaxFailures
  /\ failures' = failures + 1
  /\ cutShort' = cutShort \cup {r \in RunIds : Live(r) \/ handler.run = r
                                                \/ \E t \in Threads : threads[t].run = r}
  /\ activeRun' = Nothing /\ managed' = Nothing
  /\ tasks' = [r \in RunIds |-> "none"]
  /\ handler' = Idle
  /\ threads' = [t \in Threads |-> Free]
  /\ jobs' = [r \in RunIds |-> NoJob]
  /\ UNCHANGED <<disk, created, requests, contested, reviewed, overwritten>>

LoopStep ==
  \/ LoopOpens \/ LoopFills \/ LoopFails \/ Starts \/ Recorded
  \/ \E r \in RunIds :
       \/ TaskEnds(r) \/ GenerationFails(r) \/ GenerationRaises(r) \/ GenerationIsCancelled(r)
       \/ \E schema \in Schemas : GenerationSucceeds(r, schema)

ThreadStep(t) ==
  \/ FindsNoEndedTask(t) \/ FindsEndedTask(t) \/ WipesRun(t) \/ WipesTask(t)
  \/ Lists(t) \/ RemovesDirectory(t) \/ \E f \in Files : Removes(t, f)
  \/ SaveOpens(t) \/ SaveFills(t)

Next ==
  \/ LoopStep \/ LooksOnLoop \/ Restart
  \/ \E mode \in {"propose", "full"} : CreateRun(mode)
  \/ \E r \in RunIds : Rerun(r) \/ CancelRun(r)
  \/ \E t \in Threads :
       \/ ThreadStep(t) \/ Look(t)
       \/ \E r \in RunIds :
            DeleteRun(t, r) \/ \E schema \in Schemas : SaveSchema(t, r, schema)

Spec == Init /\ [][Next]_vars

(* Handlers run to their end, and the service answers (Workflow).           *)
FairSpec == Spec /\ WF_vars(LoopStep)

-----------------------------------------------------------------------------

(* The writes that may be left to make for a run.                          *)
OpsOf(r) ==
  [run : {r}, file : {"meta"}, value : Metas, merges : BOOLEAN]
    \cup [run : {r}, file : {"inputs"}, value : {"given"}, merges : {FALSE}]
    \cup [run : {r}, file : {"schema"}, value : Schemas, merges : {FALSE}]
    \cup [run : {r}, file : {"result"}, value : Results, merges : {FALSE}]

Wiping == {"look run", "look task", "check run", "check task"}
ThreadStates ==
  [does : {"nothing", "look", "check", "list", "remove", "save", "fill"} \cup Wiping,
   run : RunIds \cup {Nothing}, value : Schemas \cup RunIds \cup {Nothing},
   left : SUBSET Files]

Directories ==
  [meta : Missing \cup Metas, inputs : Missing \cup {"given"},
   schema : Missing \cup Schemas, result : Missing \cup Results]

(* Every variable has its type.                                            *)
TypeOK ==
  /\ disk \in [RunIds -> Directories]
  /\ created \in 0 .. MaxRuns
  /\ activeRun \in RunIds \cup {Nothing} /\ managed \in RunIds \cup {Nothing}
  /\ tasks \in [RunIds -> {"none", "generating", "cancelling", "recording", "draining", "done"}]
  /\ jobs \in [RunIds -> [mode : Modes, schema : Schemas \cup {Nothing}]]
  /\ \/ handler = Idle
     \/ \E r \in RunIds : handler \in [does : {"create", "record"}, run : {r},
                                       todo : Seq(OpsOf(r)), open : BOOLEAN]
  /\ threads \in [Threads -> ThreadStates]
  /\ requests \in 0 .. MaxRequests /\ failures \in 0 .. MaxFailures
  /\ cutShort \subseteq RunIds /\ contested \subseteq RunIds
  /\ reviewed \in [RunIds -> Schemas \cup {Nothing}]
  /\ overwritten \in BOOLEAN

(* One generation runs at a time, unless a worker thread that had seen the  *)
(* last one done wiped the entry of the next (active_run, read by           *)
(* list_runs, read_run and delete_run beside the loop).                     *)
OneGenerationUnlessOverwritten ==
  overwritten \/ \A r, q \in RunIds : Live(r) /\ Live(q) => r = q

(* README: only one generation runs at a time.                              *)
OneGeneration == \A r, q \in RunIds : Live(r) /\ Live(q) => r = q

(* Nobody works on a run.                                                  *)
AtRest(r) == HasDirectory(r) /\ ~ Live(r) /\ handler.run # r /\ \A t \in Threads : threads[t].run # r

(* A directory at rest says how its run ended, and on the whole: no branch  *)
(* of _execute forgets the status, or stores it after the run counts as     *)
(* over.  The exceptions are what a crash, a failed write and a deletion    *)
(* that met a save leave behind.                                            *)
RunsAtRestAreSettled ==
  \A r \in RunIds :
    AtRest(r) /\ r \notin cutShort \cup contested
      => Readable(r, "meta") /\ disk[r].meta.status \in TerminalStatuses

(* A run that is being generated keeps its directory: delete_run cannot     *)
(* have judged it inactive before it was.                                  *)
LiveRunsAreNotDeleted ==
  overwritten \/ \A r \in RunIds, t \in Threads :
                   Live(r) /\ threads[t].run = r => threads[t].does \notin {"list", "remove"}

(* The inductive invariant behind the safety properties.  A run that is     *)
(* being generated is the manager's, unless a thread has overwritten that. *)
ManagerInv == ~ overwritten => \A r \in RunIds : Live(r) => managed = r /\ activeRun = r

(* A run that is being created has no task yet, one that records its end    *)
(* still has; a handler that has opened a file has something to write.     *)
HandlerInv ==
  /\ handler.does = "create" => tasks[handler.run] = "none"
  /\ handler.does = "record" => tasks[handler.run] = "recording"
  /\ handler.does # "nothing" => handler.run <= created
  /\ handler.open => handler.todo # <<>>

(* Nothing is known of a run before it is created.                          *)
FutureInv ==
  \A r \in RunIds :
    r > created => disk[r] = NoDirectory /\ tasks[r] = "none" /\ reviewed[r] = Nothing

(* A saved schema is in its file, while nobody works on that.              *)
ReviewInv ==
  /\ \A r \in RunIds : reviewed[r] # Nothing => disk[r].schema = reviewed[r]
  /\ handler.open /\ Op.file = "schema" => reviewed[handler.run] = Nothing

(* What a worker thread has seen is still so when it acts on it: the task   *)
(* is over, the run is not being created, nor, when it is being deleted,   *)
(* generated or counted as reviewed.                                       *)
Fits(thread) ==
  /\ thread.does \in Wiping => thread.value \in RunIds /\ tasks[thread.value] = "done"
  /\ thread.does \in {"save", "fill"} => thread.value \in Schemas
  /\ thread.does \notin {"nothing", "look", "look run", "look task"} => thread.run # Nothing
  /\ thread.run # Nothing =>
       /\ thread.run <= created
       /\ handler.does = "create" => thread.run # handler.run
       /\ thread.does \in {"list", "remove"} => overwritten \/ ~ Live(thread.run)
       /\ thread.does = "remove" => reviewed[thread.run] = Nothing
ThreadsInv == \A t \in Threads : Fits(threads[t])

WorkInv == TypeOK /\ ManagerInv /\ HandlerInv /\ FutureInv /\ ReviewInv /\ ThreadsInv

(* Whatever is in the middle of a run will settle it: its task will record  *)
(* an end, or the loop is recording one, whose last write is the status.   *)
(* What is removed half way is gone in the end, or contested.              *)
Settled(r) == Readable(r, "meta") /\ disk[r].meta.status \in TerminalStatuses
BeingRemoved(r) == \E t \in Threads : threads[t].run = r /\ threads[t].does = "remove"
StoresTheStatus(r) ==
  LET todo == handler.todo
  IN  IF todo = <<>> THEN Settled(r)
      ELSE /\ todo[Len(todo)].file = "meta"
           /\ todo[Len(todo)].value.status \in TerminalStatuses
           /\ handler.open /\ Len(todo) = 1 => disk[r].meta = Torn
SettledInv ==
  /\ handler.does = "create" => activeRun = Nothing
  /\ \A r \in RunIds :
       HasDirectory(r) /\ r \notin cutShort \cup contested /\ ~ BeingRemoved(r) =>
         \/ tasks[r] \in {"generating", "cancelling"}
         \/ handler.run = r /\ handler.does = "create"
         \/ handler.run = r /\ handler.does = "record" /\ StoresTheStatus(r)
         \/ handler.run # r /\ Settled(r)

IInv == WorkInv /\ SettledInv

(* What a finished run recorded is never written again, by a rerun of it or *)
(* anything else; only a deletion takes it away.                           *)
FinishedRunsAreKept ==
  [][\A r \in RunIds : ~ Live(r) /\ HasDirectory(r) /\ handler.run # r =>
       \A f \in Files \ {"schema"} :
         \/ disk'[r][f] = disk[r][f]
         \/ disk'[r][f] \in {Absent, Gone}
            /\ \E t \in Threads : threads[t].run = r /\ threads[t].does = "remove"]_vars

(* A rerun starts from the schema whose save was answered, not from the     *)
(* artifact's, as long as nobody is rewriting or deleting it.               *)
RerunsUseTheReviewedSchema ==
  [][\A r \in RunIds : Rerun(r) /\ reviewed[r] # Nothing
        => jobs'[created'].schema = reviewed[r]]_vars

(* Every generation ends, whatever fails on the way, and the manager is     *)
(* free for the next one, also when _execute's finally was cut short.      *)
RunsEndAndFreeTheManager ==
  /\ \A r \in RunIds : Live(r) ~> ~ Live(r)
  /\ (ActiveRun # Nothing /\ ~ overwritten) ~> (ActiveRun = Nothing \/ overwritten)
=============================================================================
