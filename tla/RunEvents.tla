----------------------------- MODULE RunEvents -----------------------------
(***************************************************************************)
(* The events of one WebUI run (webui/app.py, webui/store.py): the task    *)
(* that runs the generation, the pump that numbers, stores and publishes   *)
(* its events, the event streams that replay the stored transcript and     *)
(* then follow the run, and the pages that read them (static/app.js,       *)
(* static/agent-timeline.js).                                              *)
(*                                                                         *)
(* Only structural events appear, so a queue is the FIFO that              *)
(* ProgressQueue shows it to be.  Server code runs on one event loop: a    *)
(* step is what runs between two awaits.  A run's directory is new when    *)
(* the run starts, so its numbering starts at nothing and no terminal      *)
(* event it replays is older than its start.                               *)
(***************************************************************************)
EXTENDS Naturals, Sequences, FiniteSets, SequencesExt, FiniteSetsExt

CONSTANTS
  Pages,        \* browser pages
  MaxEvents,    \* bound: progress events of the run
  MaxDrops,     \* bound: connections lost on the way
  MaxRestarts,  \* bound: times the server is killed and started again
  MaxCancels    \* bound: cancellation requests

ASSUME EventsAssumption ==
  /\ MaxEvents \in Nat /\ MaxDrops \in Nat /\ MaxRestarts \in Nat /\ MaxCancels \in Nat

VARIABLES
  meta,        \* status in meta.json
  log,         \* events.jsonl
  task,        \* the task of _execute
  cancelling,  \* a cancellation is on its way into the generation
  pump,        \* the task of _pump
  inbox,       \* the pump's queue
  inboxClosed,
  sequence,    \* _sequences[run_id], 0 when there is none
  places,      \* where each page is
  screen,      \* what each page knows
  stream,      \* the server's side of each page's event stream
  emitted, drops, restarts, cancels

serverVars == <<meta, log, task, cancelling, pump, inbox, inboxClosed, sequence>>
pageVars == <<places, screen, stream>>
bounds == <<emitted, drops, restarts, cancels>>
vars == <<serverVars, pageVars, bounds>>

Terminal == "run.finished"
TerminalStatuses == {"success", "failed", "cancelled"}
Tasks == {"generating", "draining", "done", "gone"}

(* "meta" and "events": a detail request is read file by file in a worker  *)
(* thread.  "replaying" and "following": an event stream is open.          *)
(* "waiting": EventSource will connect again.                              *)
PagePlaces == {"closed", "meta", "events", "connecting", "replaying", "following",
               "waiting", "over"}
Streaming == {"replaying", "following"}

Event(n, type) == [sequence |-> n, type |-> type]
Events == [sequence : Nat \ {0}, type : {"progress", Terminal}]
Sequences_of(events) == {e.sequence : e \in ToSet(events)}
HasTerminal(events) == \E e \in ToSet(events) : e.type = Terminal
Highest(numbers) == Max(numbers \cup {0})

(* state.eventTracker, the status shown, EventSource's last event id and    *)
(* its URL's after_sequence, and whether the page was told of the end.     *)
NewScreen == [seen |-> {}, status |-> "running", after |-> 0, lastId |-> 0,
              told |-> FALSE, refreshing |-> FALSE]
(* What is left to replay, as positions in the transcript, to which events *)
(* are only added, and what the replay has noted.                          *)
NoStream == [replay |-> {}, snapshotEnds |-> FALSE, terminalSeen |-> FALSE, queue |-> <<>>]

Init ==
  /\ meta = "running"
  /\ log = <<>>
  /\ task = "generating"
  /\ cancelling = FALSE
  /\ pump = "running"
  /\ inbox = <<>>
  /\ inboxClosed = FALSE
  /\ sequence = 0
  /\ places = [p \in Pages |-> "closed"]
  /\ screen = [p \in Pages |-> NewScreen]
  /\ stream = [p \in Pages |-> NoStream]
  /\ emitted = 0 /\ drops = 0 /\ restarts = 0 /\ cancels = 0

(* active_run: a task that is done no longer counts.                        *)
IsActive == task \in {"generating", "draining"}

-----------------------------------------------------------------------------
(* RunManager._execute, _pump and cancel.                                  *)

Progress ==
  /\ task = "generating"
  /\ emitted < MaxEvents
  /\ emitted' = emitted + 1
  /\ inbox' = Append(inbox, "progress")
  /\ UNCHANGED <<meta, log, task, cancelling, pump, inboxClosed, sequence, pageVars,
                 drops, restarts, cancels>>

(* One of _execute's three branches, up to its await of the pump.           *)
(* Mutation used by the runs: a failed run keeps its status.                *)
Recorded_NotOnFailure(status) == meta' = IF status = "failed" THEN meta ELSE status
Recorded(status) == meta' = status
Finishes(status) ==
  /\ task = "generating"
  /\ IF cancelling THEN status \in {"cancelled", "failed"} ELSE status # "cancelled"
  /\ Recorded(status)
  /\ inbox' = Append(inbox, Terminal)
  /\ inboxClosed' = TRUE
  /\ task' = "draining"
  /\ UNCHANGED <<log, cancelling, pump, sequence, pageVars, bounds>>

(* Mutation used by the runs: numbers start at zero.                        *)
Numbered_FromZero(types) ==
  [i \in DOMAIN types |-> Event(sequence + i - 1, types[i])]
Numbered(types) == [i \in DOMAIN types |-> Event(sequence + i, types[i])]

(* Mutation used by the runs: a stream listens only once it has replayed.   *)
Subscribed_AfterReplay(p) == places[p] = "following"
Subscribed(p) == places[p] \in Streaming

(* The pump does not suspend while its queue has items.                     *)
PumpRuns ==
  /\ pump = "running"
  /\ inbox # <<>> \/ inboxClosed
  /\ log' = log \o Numbered(inbox)
  /\ stream' = [p \in Pages |->
                  IF Subscribed(p)
                  THEN [stream[p] EXCEPT !.queue = @ \o Numbered(inbox)] ELSE stream[p]]
  /\ sequence' = sequence + Len(inbox)
  /\ inbox' = <<>>
  /\ pump' = IF inboxClosed THEN "ended" ELSE "running"
  /\ UNCHANGED <<meta, task, cancelling, inboxClosed, places, screen, bounds>>

TaskEnds ==
  /\ task = "draining"
  /\ pump = "ended"
  /\ task' = "done"
  /\ sequence' = 0
  /\ UNCHANGED <<meta, log, cancelling, pump, inbox, inboxClosed, pageVars, bounds>>

(* While the task awaits the pump, the pump is what a cancellation cancels: *)
(* what is left in its queue is lost.  Either way the rest of _execute's   *)
(* finally is skipped, so the numbering is not forgotten.                  *)
Cancel ==
  /\ IsActive
  /\ cancels < MaxCancels
  /\ cancels' = cancels + 1
  /\ \/ /\ task = "generating"
        /\ cancelling' = TRUE
        /\ UNCHANGED <<task, pump, inbox, sequence>>
     \/ /\ task = "draining"
        /\ task' = "done"
        /\ pump' = IF pump = "running" THEN "cut" ELSE pump
        /\ inbox' = <<>>
        /\ UNCHANGED <<cancelling, sequence>>
  /\ UNCHANGED <<meta, log, inboxClosed, pageVars, emitted, drops, restarts>>

(* The server is killed and started again: the files are all that is left. *)
(* A detail request fails, and the page has to be opened again.            *)
Restart ==
  /\ restarts < MaxRestarts
  /\ restarts' = restarts + 1
  /\ task' = "gone"
  /\ pump' = "cut"
  /\ inbox' = <<>>
  /\ sequence' = 0
  /\ places' = [p \in Pages |->
                  CASE places[p] \in Streaming -> "waiting"
                    [] places[p] \in {"meta", "events"} -> "closed"
                    [] OTHER -> places[p]]
  /\ stream' = [p \in Pages |-> NoStream]
  /\ UNCHANGED <<meta, log, cancelling, inboxClosed, screen, emitted, drops, cancels>>

-----------------------------------------------------------------------------
(* A page.                                                                 *)

(* openRun, whose detail request reads the files one after the other.      *)
Open(p) ==
  /\ places[p] = "closed"
  /\ places' = [places EXCEPT ![p] = "meta"]
  /\ screen' = [screen EXCEPT ![p] = NewScreen]
  /\ UNCHANGED <<serverVars, stream, bounds>>

DetailMeta(p) ==
  /\ places[p] = "meta"
  /\ screen' = [screen EXCEPT ![p].status = meta]
  /\ places' = [places EXCEPT ![p] = "events"]
  /\ UNCHANGED <<serverVars, stream, bounds>>

(* The tracker starts over with the events read; a run that was running    *)
(* when its status was read is streamed from the highest of them.          *)
DetailEvents(p) ==
  /\ places[p] = "events"
  /\ screen' = [screen EXCEPT ![p].seen = Sequences_of(log),
                              ![p].after = Highest(Sequences_of(log)),
                              ![p].lastId = 0,
                              ![p].told = @ \/ HasTerminal(log)]
  /\ places' = [places EXCEPT ![p] =
                  IF screen[p].status = "running" /\ ~ screen[p].refreshing
                  THEN "connecting" ELSE "over"]
  /\ UNCHANGED <<serverVars, stream, bounds>>

(* onmessage: a number already seen is passed over; the terminal event      *)
(* closes the stream and refreshes the page.                               *)
Accepts(p, e) == e.sequence \notin screen[p].seen
Ends(p, e) == Accepts(p, e) /\ e.type = Terminal
Shown(p, e) ==
  [screen[p] EXCEPT !.seen = @ \cup {e.sequence},
                    !.lastId = e.sequence,
                    !.told = @ \/ Ends(p, e),
                    !.refreshing = @ \/ Ends(p, e)]

(* A frame reaches the page, which goes on, or is done with the stream.     *)
Delivers(p, e, next, rest) ==
  /\ screen' = [screen EXCEPT ![p] = Shown(p, e)]
  /\ places' = [places EXCEPT ![p] = IF Ends(p, e) THEN "meta" ELSE next]
  /\ stream' = [stream EXCEPT ![p] =
                  IF Ends(p, e) \/ next \notin Streaming THEN NoStream ELSE rest]

StreamEnds(p) ==
  /\ places' = [places EXCEPT ![p] = "waiting"]
  /\ stream' = [stream EXCEPT ![p] = NoStream]
  /\ UNCHANGED screen

(* stream_events, up to its first await: what it has stored by now is the   *)
(* replay, what is published from now on is queued.                        *)
LastEventId(p) == Max({screen[p].after, screen[p].lastId})
(* Mutation used by the runs: the event after the last one is skipped too.  *)
Skipped_OffByOne(p, e) == e.sequence <= LastEventId(p) + 1
Skipped(p, e) == e.sequence <= LastEventId(p)
Snapshot(p) ==
  [replay |-> {i \in DOMAIN log : ~ Skipped(p, log[i])},
   snapshotEnds |-> HasTerminal(log),
   terminalSeen |-> \E e \in ToSet(log) : e.type = Terminal /\ Skipped(p, e),
   queue |-> <<>>]

(* After the replay.  A run that is over without a terminal event in the    *)
(* snapshot gets one here, numbered by _number, which has forgotten the    *)
(* run's numbering if the run has ended, or the server was restarted.      *)
AfterReplay(p, s) ==
  \/ /\ ~ s.terminalSeen /\ IsActive
     /\ places' = [places EXCEPT ![p] = "following"]
     /\ stream' = [stream EXCEPT ![p] = s]
     /\ UNCHANGED <<screen, log, sequence>>
  \/ /\ s.terminalSeen \/ (~ IsActive /\ s.snapshotEnds)
     /\ StreamEnds(p)
     /\ UNCHANGED <<log, sequence>>
  \/ /\ ~ s.terminalSeen /\ ~ IsActive /\ ~ s.snapshotEnds
     /\ sequence' = sequence + 1
     /\ log' = Append(log, Event(sequence + 1, Terminal))
     /\ IF sequence + 1 > LastEventId(p)
          THEN Delivers(p, Event(sequence + 1, Terminal), "waiting", NoStream)
          ELSE StreamEnds(p)

Connect(p) ==
  /\ places[p] \in {"connecting", "waiting"}
  /\ LET s == Snapshot(p)
     IN  \/ /\ s.replay = {}
            /\ AfterReplay(p, s)
         \/ /\ s.replay # {}
            /\ places' = [places EXCEPT ![p] = "replaying"]
            /\ stream' = [stream EXCEPT ![p] = s]
            /\ UNCHANGED <<screen, log, sequence>>
  /\ UNCHANGED <<meta, task, cancelling, pump, inbox, inboxClosed, bounds>>

Replays(p) ==
  /\ places[p] = "replaying"
  /\ \E i \in stream[p].replay :
       /\ \A j \in stream[p].replay : i <= j
       /\ Delivers(p, log[i], "replaying",
                   [stream[p] EXCEPT !.replay = @ \ {i},
                                     !.terminalSeen = @ \/ log[i].type = Terminal])
  /\ UNCHANGED <<serverVars, bounds>>

ReplayIsOver(p) ==
  /\ places[p] = "replaying"
  /\ stream[p].replay = {}
  /\ AfterReplay(p, stream[p])
  /\ UNCHANGED <<meta, task, cancelling, pump, inbox, inboxClosed, bounds>>

Follows(p) ==
  /\ places[p] = "following"
  /\ stream[p].queue # <<>>
  /\ LET e == Head(stream[p].queue)
     IN  Delivers(p, e, IF e.type = Terminal THEN "waiting" ELSE "following",
                  [stream[p] EXCEPT !.queue = Tail(@)])
  /\ UNCHANGED <<serverVars, bounds>>

(* The connection breaks; frames on the way are lost.                      *)
ConnectionLost(p) ==
  /\ places[p] \in Streaming
  /\ drops < MaxDrops
  /\ drops' = drops + 1
  /\ StreamEnds(p)
  /\ UNCHANGED <<serverVars, emitted, restarts, cancels>>

-----------------------------------------------------------------------------

ServerStep == PumpRuns \/ TaskEnds \/ \E status \in TerminalStatuses : Finishes(status)
PageStep(p) ==
  DetailMeta(p) \/ DetailEvents(p) \/ Connect(p) \/ Replays(p) \/ ReplayIsOver(p) \/ Follows(p)

Next ==
  \/ ServerStep \/ Progress \/ Cancel \/ Restart
  \/ \E p \in Pages : Open(p) \/ PageStep(p) \/ ConnectionLost(p)

Spec == Init /\ [][Next]_vars

(* The generation answers (Workflow), the event loop runs what is ready,    *)
(* and an open page keeps its stream or connects again.                    *)
FairSpec == Spec /\ WF_vars(ServerStep) /\ \A p \in Pages : WF_vars(PageStep(p))

-----------------------------------------------------------------------------

(* Every variable has its type.                                            *)
TypeOK ==
  /\ meta \in TerminalStatuses \cup {"running"}
  /\ log \in Seq(Events)
  /\ task \in Tasks
  /\ cancelling \in BOOLEAN
  /\ pump \in {"running", "ended", "cut"}
  /\ inbox \in Seq({"progress", Terminal})
  /\ inboxClosed \in BOOLEAN
  /\ sequence \in Nat
  /\ places \in [Pages -> PagePlaces]
  /\ screen \in [Pages -> [seen : SUBSET (Nat \ {0}), status : TerminalStatuses \cup {"running"},
                           after : Nat, lastId : Nat, told : BOOLEAN, refreshing : BOOLEAN]]
  /\ stream \in [Pages -> [replay : SUBSET (Nat \ {0}), snapshotEnds : BOOLEAN,
                           terminalSeen : BOOLEAN, queue : Seq(Events)]]
  /\ restarts \in Nat /\ cancels \in Nat

(* A page has every event up to the last it was shown, whatever is          *)
(* published while a stream replays, however often it connects again and    *)
(* whatever terminal event is made up for it.  (A page that has been told   *)
(* of the end may lack some until it has read the transcript once more.)   *)
PagesHaveNoHoles ==
  \A p \in Pages : places[p] \notin {"closed", "meta", "events"}
                    => screen[p].seen = 1 .. Cardinality(screen[p].seen)

(* A page that was told of the end shows how the run ended: the status is   *)
(* stored before the terminal event is published (_execute), unless the    *)
(* server was killed before there was any status.                          *)
ToldPagesShowTheEnd ==
  \A p \in Pages : places[p] = "over" /\ screen[p].told
                     => screen[p].status # "running" \/ restarts > 0

-----------------------------------------------------------------------------
(* The inductive invariant behind the two.                                 *)

(* The numbers of the transcript leave none out, each after the one before *)
(* it; while the pump runs, the next event gets the next number.           *)
LogInv ==
  /\ \E n \in 0 .. Len(log) : Sequences_of(log) = 1 .. n /\ sequence <= n
                     /\ (pump = "running" => sequence = n)
  /\ \A i \in DOMAIN log :
       log[i].sequence = 1 \/ \E j \in 1 .. i - 1 : log[j].sequence + 1 = log[i].sequence
  /\ pump = "running" => IsActive

(* Once a terminal event is anywhere, or a page was told of one, the status *)
(* says how the run ended, or the server has been killed.                  *)
Settled == meta # "running" \/ restarts > 0
Closes(p) == places[p] = "over" \/ (places[p] = "events" /\ screen[p].refreshing)
EndOk(p) ==
  /\ HasTerminal(stream[p].queue) => Settled
  /\ screen[p].refreshing => Settled
  /\ Closes(p) => screen[p].status # "running" \/ restarts > 0
EndInv ==
  /\ task # "generating" \/ inboxClosed => Settled
  /\ \A i \in DOMAIN inbox : inbox[i] = Terminal => inboxClosed
  /\ HasTerminal(log) => Settled
  /\ \A p \in Pages : EndOk(p)

(* A run's end is on its way to the transcript from the moment it is        *)
(* recorded, and gets there unless a cancellation or a restart cuts the    *)
(* pump off (_execute's await of the pump).                                *)
HasEnd(types) == \E i \in DOMAIN types : types[i] = Terminal
EndIsOnItsWay ==
  /\ pump = "running" /\ inboxClosed => HasEnd(inbox)
  /\ pump = "ended" => HasTerminal(log)
  /\ pump = "cut" => cancels > 0 \/ restarts > 0
  /\ task = "draining" => inboxClosed

(* What a page has seen is all up to some event.  What its stream has for   *)
(* it comes in order, and while the pump runs, is all that is missing.     *)
Shows(p) == places[p] \notin {"closed", "meta", "events"}
Follower(p, n) == n = 1 \/ n - 1 \in screen[p].seen
Pending(p, n) ==
  \/ \E i \in stream[p].replay : log[i].sequence = n
  \/ \E i \in DOMAIN stream[p].queue : stream[p].queue[i].sequence = n
InOrder(p) ==
  /\ stream[p].replay \subseteq DOMAIN log
  /\ \A i \in stream[p].replay :
       \/ Follower(p, log[i].sequence)
       \/ \E j \in stream[p].replay : j < i /\ log[j].sequence + 1 = log[i].sequence
  /\ \A i \in DOMAIN stream[p].queue :
       \/ Follower(p, stream[p].queue[i].sequence)
       \/ \E j \in stream[p].replay : log[j].sequence + 1 = stream[p].queue[i].sequence
       \/ \E j \in 1 .. i - 1 :
            stream[p].queue[j].sequence + 1 = stream[p].queue[i].sequence
  /\ pump = "running" => \A n \in 1 .. sequence : n \in screen[p].seen \/ Pending(p, n)
PageOk(p) ==
  /\ Shows(p) =>
       /\ IsFiniteSet(screen[p].seen)
       /\ screen[p].seen = 1 .. Cardinality(screen[p].seen)
       /\ LastEventId(p) \in screen[p].seen \cup {0}
  /\ places[p] \in Streaming => InOrder(p)
  /\ places[p] = "following" => stream[p].replay = {}
  /\ places[p] \notin Streaming => stream[p].queue = <<>>
PageInv == \A p \in Pages : PageOk(p)

IInv == TypeOK /\ LogInv /\ EndInv /\ EndIsOnItsWay /\ PageInv

-----------------------------------------------------------------------------

(* Every open page learns that the run is over, however it reconnects,      *)
(* unless the terminal event was cut off by a cancellation or a restart.   *)
CutOff == pump = "cut"
PagesAreTold ==
  \A p \in Pages : places[p] # "closed"
                    ~> (screen[p].told \/ screen[p].status # "running" \/ CutOff)

-----------------------------------------------------------------------------
(* What the repository says and the code does not do.                      *)

(* README.md: the order of a transcript can be rebuilt from its numbers.    *)
TranscriptIsInOrder ==
  \A i, j \in DOMAIN log : i < j => log[i].sequence < log[j].sequence

(* app.py: the pump stores events "until the run ends".                    *)
RunsEndIsStored == task = "done" => HasTerminal(log)

(* README.md: a page that lost its connection goes on from Last-Event-ID,   *)
(* so a page that stays open learns how the run ended after a restart too. *)
RestartIsSurvived ==
  \A p \in Pages : places[p] \in Streaming ~> (screen[p].told \/ places[p] = "closed")
=============================================================================
