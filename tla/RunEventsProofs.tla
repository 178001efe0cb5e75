-------------------------- MODULE RunEventsProofs ---------------------------
(***************************************************************************)
(* Machine-checked proofs about the events of a WebUI run, for any number  *)
(* of pages, events, lost connections, restarts and cancellations.         *)
(***************************************************************************)
EXTENDS RunEvents, FiniteSetTheorems, TLAPS

(* A stretch of numbers from one.                                          *)
LEMMA Stretch ==
  ASSUME NEW k \in Nat
  PROVE  IsFiniteSet(1 .. k) /\ Cardinality(1 .. k) = k
  BY FS_Interval

(* It grows by the number that follows, or by one it has.                   *)
LEMMA StretchGrows ==
  ASSUME NEW S, IsFiniteSet(S), S = 1 .. Cardinality(S), NEW n \in Nat \ {0},
         n = 1 \/ n - 1 \in S
  PROVE  IsFiniteSet(S \cup {n}) /\ S \cup {n} = 1 .. Cardinality(S \cup {n})
<1> DEFINE c == Cardinality(S)
<1>1. c \in Nat
  BY FS_CardinalityType
<1> HIDE DEF c
<1>2. S = 1 .. c
  BY DEF c
<1>3. CASE n \in S
  <2>1. S \cup {n} = S
    BY <1>3
  <2> QED BY <2>1
<1>4. CASE n \notin S
  <2>1. n = c + 1
    BY <1>1, <1>2, <1>4
  <2>2. S \cup {n} = 1 .. c + 1
    BY <1>1, <1>2, <2>1
  <2>3. c + 1 \in Nat
    BY <1>1
  <2>4. IsFiniteSet(1 .. c + 1) /\ Cardinality(1 .. c + 1) = c + 1
    BY <2>3, Stretch
  <2> QED BY <2>2, <2>4
<1> QED BY <1>3, <1>4

(* The greater of two numbers, and the greatest of a stretch.               *)
LEMMA Greater ==
  ASSUME NEW a \in Nat, NEW b \in Nat
  PROVE  Max({a, b}) = IF a >= b THEN a ELSE b
  BY DEF Max

LEMMA Greatest ==
  ASSUME NEW k \in Nat
  PROVE  Highest(1 .. k) = k
<1>1. k \in (1 .. k) \cup {0} /\ \A m \in (1 .. k) \cup {0} : k >= m
  OBVIOUS
<1>2. \A x \in (1 .. k) \cup {0} : (\A m \in (1 .. k) \cup {0} : x >= m) => x = k
  BY <1>1
<1> QED BY <1>1, <1>2 DEF Highest, Max

(* Two sequences, joined.                                                  *)
LEMMA Joined ==
  ASSUME NEW S, NEW s \in Seq(S), NEW u \in Seq(S)
  PROVE  /\ s \o u \in Seq(S) /\ Len(s \o u) = Len(s) + Len(u)
         /\ DOMAIN s = 1 .. Len(s) /\ DOMAIN u = 1 .. Len(u)
         /\ DOMAIN (s \o u) = 1 .. Len(s) + Len(u)
         /\ Len(s) \in Nat /\ Len(u) \in Nat
         /\ \A i \in 1 .. Len(s) : (s \o u)[i] = s[i]
         /\ \A i \in 1 .. Len(u) : (s \o u)[Len(s) + i] = u[i]
         /\ \A i \in DOMAIN (s \o u) :
              i \in 1 .. Len(s) \/ \E j \in 1 .. Len(u) : i = Len(s) + j
<1>1. /\ s \o u \in Seq(S) /\ Len(s \o u) = Len(s) + Len(u)
      /\ Len(s) \in Nat /\ Len(u) \in Nat
      /\ DOMAIN s = 1 .. Len(s) /\ DOMAIN u = 1 .. Len(u)
  OBVIOUS
<1>2. DOMAIN (s \o u) = 1 .. Len(s) + Len(u)
  BY <1>1
<1>3. \A i \in 1 .. Len(s) : (s \o u)[i] = s[i]
  OBVIOUS
<1>4. \A i \in 1 .. Len(u) : (s \o u)[Len(s) + i] = u[i]
  OBVIOUS
<1>5. \A i \in DOMAIN (s \o u) : i \in 1 .. Len(s) \/ \E j \in 1 .. Len(u) : i = Len(s) + j
  <2> SUFFICES ASSUME NEW i \in DOMAIN (s \o u), i \notin 1 .. Len(s)
               PROVE  \E j \in 1 .. Len(u) : i = Len(s) + j
    OBVIOUS
  <2>1. i - Len(s) \in 1 .. Len(u) /\ i = Len(s) + (i - Len(s))
    BY <1>1, <1>2
  <2> QED BY <2>1
<1> QED BY <1>1, <1>2, <1>3, <1>4, <1>5

(* What the pump publishes.                                                *)
LEMMA NumberedIs ==
  ASSUME TypeOK
  PROVE  /\ Numbered(inbox) \in Seq(Events) /\ Len(Numbered(inbox)) = Len(inbox)
         /\ Len(inbox) \in Nat
         /\ \A i \in 1 .. Len(inbox) : Numbered(inbox)[i] = Event(sequence + i, inbox[i])
<1>1. inbox \in Seq({"progress", Terminal}) /\ sequence \in Nat
  BY DEF TypeOK
<1>2. Len(inbox) \in Nat /\ DOMAIN inbox = 1 .. Len(inbox)
        /\ \A i \in 1 .. Len(inbox) : inbox[i] \in {"progress", Terminal}
  BY <1>1
<1>3. \A i \in 1 .. Len(inbox) : Event(sequence + i, inbox[i]) \in Events
  BY <1>1, <1>2 DEF Event, Events
<1>4. Numbered(inbox) \in [1 .. Len(inbox) -> Events]
  BY <1>2, <1>3 DEF Numbered
<1>5. \A i \in 1 .. Len(inbox) : Numbered(inbox)[i] = Event(sequence + i, inbox[i])
  BY <1>2 DEF Numbered
<1> QED BY <1>2, <1>4, <1>5

-----------------------------------------------------------------------------
(* The transcript.                                                         *)

(* Events numbered from the counter on are added at its end.                *)
Adds(new) ==
  /\ new \in Seq(Events)
  /\ \A i \in 1 .. Len(new) : new[i].sequence = sequence + i
  /\ log' = log \o new
  /\ sequence' = sequence + Len(new)

(* Every number up to the counter is in the transcript.                     *)
LEMMA LogHas ==
  ASSUME TypeOK, LogInv
  PROVE  \A n \in 1 .. sequence : \E i \in DOMAIN log : log[i].sequence = n
<1> SUFFICES ASSUME NEW n \in 1 .. sequence
             PROVE  \E i \in DOMAIN log : log[i].sequence = n
  OBVIOUS
<1>1. sequence \in Nat
  BY DEF TypeOK
<1>2. n \in Sequences_of(log)
  BY <1>1 DEF LogInv
<1> QED BY <1>2 DEF Sequences_of, ToSet

LEMMA LogGrows ==
  ASSUME TypeOK, LogInv, NEW new, Adds(new),
         pump' = "running" => pump = "running" /\ IsActive'
  PROVE  LogInv'
<1>t. log \in Seq(Events) /\ new \in Seq(Events) /\ sequence \in Nat
  BY DEF TypeOK, Adds
<1>j. /\ log' \in Seq(Events) /\ Len(log') = Len(log) + Len(new)
      /\ DOMAIN log = 1 .. Len(log) /\ DOMAIN log' = 1 .. Len(log) + Len(new)
      /\ Len(log) \in Nat /\ Len(new) \in Nat
      /\ \A i \in 1 .. Len(log) : log'[i] = log[i]
      /\ \A i \in 1 .. Len(new) : log'[Len(log) + i] = new[i]
      /\ \A i \in DOMAIN log' :
           i \in 1 .. Len(log) \/ \E j \in 1 .. Len(new) : i = Len(log) + j
  BY <1>t, Joined DEF Adds
<1>n. \A i \in 1 .. Len(new) : log'[Len(log) + i].sequence = sequence + i
  BY <1>j DEF Adds
<1>1. PICK n \in 0 .. Len(log) : /\ Sequences_of(log) = 1 .. n /\ sequence <= n
                                 /\ pump = "running" => sequence = n
  BY DEF LogInv
<1>2. \E m \in 0 .. Len(log') : /\ Sequences_of(log') = 1 .. m /\ sequence' <= m
                                /\ pump' = "running" => sequence' = m
  <2> DEFINE m == IF n >= sequence + Len(new) THEN n ELSE sequence + Len(new)
  <2>1. m \in 0 .. Len(log') /\ n <= m /\ sequence + Len(new) <= m
    BY <1>t, <1>j, <1>1
  <2>2. \A x \in Sequences_of(log') : x \in 1 .. m
    <3> SUFFICES ASSUME NEW i \in DOMAIN log' PROVE log'[i].sequence \in 1 .. m
      BY DEF Sequences_of, ToSet
    <3>1. CASE i \in 1 .. Len(log)
      <4>1. log[i].sequence \in Sequences_of(log)
        BY <1>j, <3>1 DEF Sequences_of, ToSet
      <4>2. log[i].sequence \in 1 .. n
        BY <1>1, <4>1
      <4> QED BY <1>j, <1>1, <2>1, <3>1, <4>2
    <3>2. CASE \E j \in 1 .. Len(new) : i = Len(log) + j
      BY <1>t, <1>j, <1>n, <1>1, <2>1, <3>2
    <3> QED BY <1>j, <3>1, <3>2
  <2>3. \A x \in 1 .. m : x \in Sequences_of(log')
    <3> SUFFICES ASSUME NEW x \in 1 .. m PROVE \E i \in DOMAIN log' : log'[i].sequence = x
      BY DEF Sequences_of, ToSet
    <3>1. CASE x <= n
      <4>1. x \in Sequences_of(log)
        BY <1>1, <2>1, <3>1
      <4>2. PICK i \in DOMAIN log : log[i].sequence = x
        BY <4>1 DEF Sequences_of, ToSet
      <4>3. i \in DOMAIN log' /\ log'[i] = log[i]
        BY <1>j
      <4> QED BY <4>2, <4>3
    <3>2. CASE x > n
      <4>1. x - sequence \in 1 .. Len(new)
        BY <1>t, <1>j, <1>1, <2>1, <3>2
      <4>2. /\ Len(log) + (x - sequence) \in DOMAIN log'
            /\ log'[Len(log) + (x - sequence)].sequence = x
        BY <1>t, <1>j, <1>n, <4>1
      <4> QED BY <4>2
    <3> QED BY <1>1, <2>1, <3>1, <3>2
  <2>4. pump' = "running" => sequence' = m
    BY <1>t, <1>j, <1>1 DEF Adds
  <2>5. sequence' <= m
    BY <2>1 DEF Adds
  <2>6. Sequences_of(log') = 1 .. m
    BY <2>2, <2>3
  <2> HIDE DEF m
  <2> QED BY <2>1, <2>4, <2>5, <2>6
<1>3. ASSUME NEW i \in DOMAIN log'
      PROVE  \/ log'[i].sequence = 1
             \/ \E j \in 1 .. i - 1 : log'[j].sequence + 1 = log'[i].sequence
  <2>1. CASE i \in 1 .. Len(log)
    <3>1. log[i].sequence = 1 \/ \E j \in 1 .. i - 1 : log[j].sequence + 1 = log[i].sequence
      BY <1>j, <2>1 DEF LogInv
    <3> QED BY <1>j, <2>1, <3>1
  <2>2. ASSUME NEW k \in 1 .. Len(new), i = Len(log) + k
        PROVE  \/ log'[i].sequence = 1
               \/ \E j \in 1 .. i - 1 : log'[j].sequence + 1 = log'[i].sequence
    <3>0. log'[i].sequence = sequence + k
      BY <1>n, <2>2
    <3>1. CASE k > 1
      <4>1. k - 1 \in 1 .. Len(new)
        BY <1>j, <3>1
      <4>2. Len(log) + (k - 1) \in 1 .. i - 1
        BY <1>j, <2>2, <3>1
      <4>3. log'[Len(log) + (k - 1)].sequence = sequence + (k - 1)
        BY <1>n, <4>1
      <4>4. sequence + (k - 1) + 1 = sequence + k
        BY <1>t, <1>j
      <4> QED BY <3>0, <4>2, <4>3, <4>4
    <3>2. CASE k = 1 /\ sequence > 0
      <4>1. PICK j \in DOMAIN log : log[j].sequence = sequence
        BY <1>t, <3>2, LogHas
      <4>2. j \in 1 .. i - 1 /\ log'[j] = log[j]
        BY <1>j, <2>2, <4>1
      <4> QED BY <1>t, <3>0, <3>2, <4>1, <4>2
    <3>3. CASE k = 1 /\ sequence = 0
      BY <3>0, <3>3
    <3> QED BY <1>t, <1>j, <3>1, <3>2, <3>3
  <2> QED BY <1>j, <2>1, <2>2
<1> QED BY <1>2, <1>3 DEF LogInv, Adds

(* An untouched transcript stays in order as the server goes on.            *)
LEMMA LogRests ==
  ASSUME TypeOK, LogInv, UNCHANGED log, sequence' \in Nat,
         \/ sequence' = sequence /\ (pump' = "running" => pump = "running")
         \/ sequence' = 0 /\ pump' # "running",
         pump' = "running" => IsActive'
  PROVE  LogInv'
<1>1. PICK n \in 0 .. Len(log) : /\ Sequences_of(log) = 1 .. n /\ sequence <= n
                                 /\ pump = "running" => sequence = n
  BY DEF LogInv
<1>2. n \in 0 .. Len(log') /\ Sequences_of(log') = 1 .. n
  BY <1>1
<1>3. sequence' <= n /\ (pump' = "running" => sequence' = n)
  BY <1>1 DEF TypeOK
<1>4. \A i \in DOMAIN log' :
        log'[i].sequence = 1 \/ \E j \in 1 .. i - 1 : log'[j].sequence + 1 = log'[i].sequence
  BY DEF LogInv
<1> QED BY <1>2, <1>3, <1>4 DEF LogInv

-----------------------------------------------------------------------------
(* Types.                                                                  *)

Screens == [seen : SUBSET (Nat \ {0}), status : TerminalStatuses \cup {"running"},
            after : Nat, lastId : Nat, told : BOOLEAN, refreshing : BOOLEAN]
Streams == [replay : SUBSET (Nat \ {0}), snapshotEnds : BOOLEAN,
            terminalSeen : BOOLEAN, queue : Seq(Events)]

LEMMA PageTypes ==
  ASSUME TypeOK, NEW p \in Pages
  PROVE  /\ screen[p] \in Screens /\ stream[p] \in Streams /\ places[p] \in PagePlaces
         /\ LastEventId(p) \in Nat
         /\ LastEventId(p) = IF screen[p].after >= screen[p].lastId
                               THEN screen[p].after ELSE screen[p].lastId
<1>1. screen[p] \in Screens /\ stream[p] \in Streams /\ places[p] \in PagePlaces
  BY DEF TypeOK, Screens, Streams
<1>2. screen[p].after \in Nat /\ screen[p].lastId \in Nat
  BY <1>1 DEF Screens
<1> QED BY <1>1, <1>2, Greater DEF LastEventId

LEMMA SequencesTyped ==
  ASSUME NEW events \in Seq(Events)
  PROVE  /\ \A i \in DOMAIN events : events[i] \in Events
         /\ Sequences_of(events) \subseteq Nat \ {0}
<1>1. \A i \in DOMAIN events : events[i] \in Events
  OBVIOUS
<1> QED BY <1>1 DEF Sequences_of, ToSet, Events

LEMMA SnapshotTyped ==
  ASSUME TypeOK, NEW p \in Pages
  PROVE  Snapshot(p) \in Streams
<1>1. {i \in DOMAIN log : ~ Skipped(p, log[i])} \in SUBSET (Nat \ {0})
  BY DEF TypeOK
<1>2. <<>> \in Seq(Events) /\ HasTerminal(log) \in BOOLEAN
        /\ (\E e \in ToSet(log) : e.type = Terminal /\ Skipped(p, e)) \in BOOLEAN
  BY DEF HasTerminal
<1> QED BY <1>1, <1>2 DEF Snapshot, Streams

LEMMA NoStreamTyped == NoStream \in Streams
<1>1. <<>> \in Seq(Events)
  OBVIOUS
<1> QED BY <1>1 DEF NoStream, Streams

LEMMA ShownTyped ==
  ASSUME TypeOK, NEW p \in Pages, NEW e \in Events
  PROVE  /\ Shown(p, e) \in Screens
         /\ Shown(p, e).seen = screen[p].seen \cup {e.sequence}
         /\ Shown(p, e).lastId = e.sequence
         /\ Shown(p, e).after = screen[p].after
         /\ Shown(p, e).status = screen[p].status
         /\ Shown(p, e).refreshing = (screen[p].refreshing \/ Ends(p, e))
<1>1. screen[p] \in Screens
  BY PageTypes
<1>2. e.sequence \in Nat \ {0}
  BY DEF Events
<1>3. Ends(p, e) \in BOOLEAN
  BY DEF Ends, Accepts
<1>4. screen[p].told \in BOOLEAN /\ screen[p].refreshing \in BOOLEAN
  BY <1>1 DEF Screens
<1>5. (screen[p].told \/ Ends(p, e)) \in BOOLEAN
       /\ (screen[p].refreshing \/ Ends(p, e)) \in BOOLEAN
  BY <1>3, <1>4
<1> QED BY <1>1, <1>2, <1>5 DEF Shown, Screens

LEMMA PagesTyped ==
  ASSUME TypeOK, NEW p \in Pages, NEW place \in PagePlaces, NEW sc \in Screens, NEW st \in Streams,
         places' = places \/ places' = [places EXCEPT ![p] = place],
         screen' = screen \/ screen' = [screen EXCEPT ![p] = sc],
         stream' = stream \/ stream' = [stream EXCEPT ![p] = st]
  PROVE  /\ places' \in [Pages -> PagePlaces] /\ screen' \in [Pages -> Screens]
         /\ stream' \in [Pages -> Streams]
<1>1. /\ places \in [Pages -> PagePlaces] /\ screen \in [Pages -> Screens]
      /\ stream \in [Pages -> Streams]
  BY DEF TypeOK, Screens, Streams
<1> QED BY <1>1

LEMMA DeliversTyped ==
  ASSUME TypeOK, NEW p \in Pages, NEW e \in Events, NEW next \in PagePlaces, NEW rest \in Streams,
         Delivers(p, e, next, rest)
  PROVE  /\ places' \in [Pages -> PagePlaces] /\ screen' \in [Pages -> Screens]
         /\ stream' \in [Pages -> Streams]
<1> DEFINE place == IF Ends(p, e) THEN "meta" ELSE next
           st == IF Ends(p, e) \/ next \notin Streaming THEN NoStream ELSE rest
<1>1. place \in PagePlaces
  BY DEF PagePlaces
<1>2. st \in Streams
  BY NoStreamTyped
<1>3. Shown(p, e) \in Screens
  BY ShownTyped
<1>4. /\ places' = [places EXCEPT ![p] = place] /\ screen' = [screen EXCEPT ![p] = Shown(p, e)]
      /\ stream' = [stream EXCEPT ![p] = st]
  BY DEF Delivers
<1> HIDE DEF place, st
<1> QED BY <1>1, <1>2, <1>3, <1>4, PagesTyped

LEMMA StreamEndsTyped ==
  ASSUME TypeOK, NEW p \in Pages, StreamEnds(p)
  PROVE  /\ places' \in [Pages -> PagePlaces] /\ screen' \in [Pages -> Screens]
         /\ stream' \in [Pages -> Streams]
<1>1. "waiting" \in PagePlaces /\ screen[p] \in Screens
  BY PageTypes DEF PagePlaces
<1> QED BY <1>1, NoStreamTyped, PagesTyped DEF StreamEnds

(* The event made up after a replay is the next of the numbering.           *)
LEMMA MadeUp ==
  ASSUME TypeOK
  PROVE  /\ Event(sequence + 1, Terminal) \in Events
         /\ Event(sequence + 1, Terminal).sequence = sequence + 1
         /\ Event(sequence + 1, Terminal).type = Terminal
         /\ log \o <<Event(sequence + 1, Terminal)>> = Append(log, Event(sequence + 1, Terminal))
         /\ Append(log, Event(sequence + 1, Terminal)) \in Seq(Events)
<1>1. log \in Seq(Events) /\ sequence \in Nat
  BY DEF TypeOK
<1>2. Event(sequence + 1, Terminal) \in Events
  BY <1>1 DEF Event, Events
<1> QED BY <1>1, <1>2 DEF Event

LEMMA AfterReplayTyped ==
  ASSUME TypeOK, NEW p \in Pages, NEW s \in Streams, AfterReplay(p, s)
  PROVE  /\ places' \in [Pages -> PagePlaces] /\ screen' \in [Pages -> Screens]
         /\ stream' \in [Pages -> Streams] /\ log' \in Seq(Events) /\ sequence' \in Nat
<1>t. log \in Seq(Events) /\ sequence \in Nat /\ screen[p] \in Screens
  BY PageTypes DEF TypeOK
<1>p. "following" \in PagePlaces /\ "waiting" \in PagePlaces
  BY DEF PagePlaces
<1>1. CASE /\ places' = [places EXCEPT ![p] = "following"]
           /\ stream' = [stream EXCEPT ![p] = s]
           /\ UNCHANGED <<screen, log, sequence>>
  BY <1>1, <1>t, <1>p, PagesTyped
<1>2. CASE StreamEnds(p) /\ UNCHANGED <<log, sequence>>
  BY <1>2, <1>t, StreamEndsTyped
<1>3. CASE /\ sequence' = sequence + 1
           /\ log' = Append(log, Event(sequence + 1, Terminal))
           /\ \/ Delivers(p, Event(sequence + 1, Terminal), "waiting", NoStream)
              \/ StreamEnds(p)
  <2>1. sequence' \in Nat /\ log' \in Seq(Events)
    BY <1>t, <1>3, MadeUp
  <2>2. CASE Delivers(p, Event(sequence + 1, Terminal), "waiting", NoStream)
    BY <1>p, <2>1, <2>2, MadeUp, NoStreamTyped, DeliversTyped
  <2>3. CASE StreamEnds(p)
    BY <2>1, <2>3, StreamEndsTyped
  <2> QED BY <1>3, <2>2, <2>3
<1> QED BY <1>1, <1>2, <1>3 DEF AfterReplay

LEMMA TypesKept ==
  ASSUME TypeOK, LogInv, PageInv, [Next]_vars
  PROVE  TypeOK'
<1> USE EventsAssumption
<1>t. /\ log \in Seq(Events) /\ sequence \in Nat /\ inbox \in Seq({"progress", Terminal})
      /\ screen \in [Pages -> Screens] /\ stream \in [Pages -> Streams]
      /\ places \in [Pages -> PagePlaces]
  BY DEF TypeOK, Screens, Streams
<1>p. ASSUME places' \in [Pages -> PagePlaces], screen' \in [Pages -> Screens],
             stream' \in [Pages -> Streams], log' \in Seq(Events), sequence' \in Nat,
             UNCHANGED <<meta, task, cancelling, pump, inbox, inboxClosed, restarts, cancels>>
      PROVE  TypeOK'
  BY <1>p DEF TypeOK, Screens, Streams
<1>1. CASE UNCHANGED vars
  BY <1>1, <1>t, <1>p DEF vars, serverVars, pageVars, bounds
<1>2. CASE Progress
  <2>1. inbox' \in Seq({"progress", Terminal})
    BY <1>2, <1>t DEF Progress
  <2> QED BY <1>2, <2>1 DEF Progress, pageVars, TypeOK
<1>3. ASSUME NEW status \in TerminalStatuses, Finishes(status)
      PROVE  TypeOK'
  <2>1. inbox' \in Seq({"progress", Terminal})
    BY <1>3, <1>t DEF Finishes
  <2> QED BY <1>3, <2>1 DEF Finishes, Recorded, pageVars, bounds, TypeOK, Tasks
<1>4. CASE PumpRuns
  <2>1. log' \in Seq(Events) /\ sequence' \in Nat /\ inbox' \in Seq({"progress", Terminal})
    BY <1>4, <1>t, NumberedIs, Joined DEF PumpRuns
  <2>2. \A p \in Pages : [stream[p] EXCEPT !.queue = @ \o Numbered(inbox)] \in Streams
    <3> SUFFICES ASSUME NEW p \in Pages
                 PROVE  [stream[p] EXCEPT !.queue = @ \o Numbered(inbox)] \in Streams
      OBVIOUS
    <3>1. stream[p] \in Streams /\ stream[p].queue \in Seq(Events)
      BY <1>t DEF Streams
    <3>2. stream[p].queue \o Numbered(inbox) \in Seq(Events)
      BY <3>1, NumberedIs, Joined
    <3> QED BY <3>1, <3>2 DEF Streams
  <2>3. stream' \in [Pages -> Streams]
    BY <1>4, <1>t, <2>2 DEF PumpRuns
  <2> QED BY <1>4, <2>1, <2>3 DEF PumpRuns, bounds, TypeOK, Streams
<1>5. CASE TaskEnds
  BY <1>5 DEF TaskEnds, pageVars, bounds, TypeOK, Tasks
<1>6. CASE Cancel
  <2>1. inbox' \in Seq({"progress", Terminal})
    <3>1. <<>> \in Seq({"progress", Terminal})
      OBVIOUS
    <3> QED BY <1>6, <1>t, <3>1 DEF Cancel
  <2>2. cancels' \in Nat
    BY <1>6 DEF Cancel, TypeOK
  <2> QED BY <1>6, <2>1, <2>2 DEF Cancel, pageVars, TypeOK, Tasks
<1>7. CASE Restart
  <2>1. stream' \in [Pages -> Streams] /\ inbox' \in Seq({"progress", Terminal})
    BY <1>7, NoStreamTyped DEF Restart
  <2>2. places' \in [Pages -> PagePlaces]
    BY <1>7, <1>t DEF Restart, PagePlaces
  <2>3. restarts' \in Nat
    BY <1>7 DEF Restart, TypeOK
  <2> QED BY <1>7, <2>1, <2>2, <2>3 DEF Restart, TypeOK, Streams, Tasks
<1>8. ASSUME NEW p \in Pages, Open(p)
      PROVE  TypeOK'
  <2>1. "meta" \in PagePlaces /\ NewScreen \in Screens /\ stream[p] \in Streams
    BY <1>t DEF PagePlaces, NewScreen, Screens
  <2> QED BY <1>8, <1>t, <1>p, <2>1, PagesTyped DEF Open, serverVars, bounds
<1>9. ASSUME NEW p \in Pages, DetailMeta(p)
      PROVE  TypeOK'
  <2>1. "events" \in PagePlaces /\ [screen[p] EXCEPT !.status = meta] \in Screens
          /\ stream[p] \in Streams
    BY <1>t DEF PagePlaces, TypeOK, Screens
  <2>2. screen' = [screen EXCEPT ![p] = [screen[p] EXCEPT !.status = meta]]
    BY <1>9 DEF DetailMeta
  <2> QED BY <1>9, <1>t, <1>p, <2>1, <2>2, PagesTyped DEF DetailMeta, serverVars, bounds
<1>10. ASSUME NEW p \in Pages, DetailEvents(p)
       PROVE  TypeOK'
  <2> DEFINE sc == [screen[p] EXCEPT !.seen = Sequences_of(log),
                                     !.after = Highest(Sequences_of(log)),
                                     !.lastId = 0,
                                     !.told = @ \/ HasTerminal(log)]
             place == IF screen[p].status = "running" /\ ~ screen[p].refreshing
                        THEN "connecting" ELSE "over"
  <2>1. place \in PagePlaces /\ stream[p] \in Streams
    BY <1>t DEF PagePlaces
  <2>2. Highest(Sequences_of(log)) \in Nat
    <3>1. PICK n \in 0 .. Len(log) : Sequences_of(log) = 1 .. n
      BY DEF LogInv
    <3>2. n \in Nat
      BY <1>t
    <3> QED BY <3>1, <3>2, Greatest
  <2>3. sc \in Screens
    <3>1. Sequences_of(log) \in SUBSET (Nat \ {0})
      BY <1>t, SequencesTyped
    <3>2. screen[p] \in Screens /\ (screen[p].told \/ HasTerminal(log)) \in BOOLEAN
      BY <1>t DEF Screens, HasTerminal
    <3> QED BY <2>2, <3>1, <3>2 DEF Screens
  <2>4. screen' = [screen EXCEPT ![p] = sc] /\ places' = [places EXCEPT ![p] = place]
    BY <1>10 DEF DetailEvents
  <2> HIDE DEF sc, place
  <2> QED BY <1>10, <1>t, <1>p, <2>1, <2>3, <2>4, PagesTyped DEF DetailEvents, serverVars, bounds
<1>11. ASSUME NEW p \in Pages, Connect(p)
       PROVE  TypeOK'
  <2>1. CASE AfterReplay(p, Snapshot(p))
    BY <1>11, <1>p, <2>1, SnapshotTyped, AfterReplayTyped DEF Connect, bounds
  <2>2. CASE /\ places' = [places EXCEPT ![p] = "replaying"]
             /\ stream' = [stream EXCEPT ![p] = Snapshot(p)]
             /\ UNCHANGED <<screen, log, sequence>>
    <3>1. "replaying" \in PagePlaces /\ screen[p] \in Screens
      BY <1>t DEF PagePlaces
    <3> QED BY <1>11, <1>t, <1>p, <2>2, <3>1, SnapshotTyped, PagesTyped DEF Connect, bounds
  <2> QED BY <1>11, <2>1, <2>2 DEF Connect
<1>12. ASSUME NEW p \in Pages, Replays(p)
       PROVE  TypeOK'
  <2>0. stream[p].replay \subseteq DOMAIN log
    BY <1>12 DEF Replays, Streaming, PageInv, PageOk, InOrder
  <2>1. PICK i \in stream[p].replay :
          Delivers(p, log[i], "replaying",
                   [stream[p] EXCEPT !.replay = @ \ {i},
                                     !.terminalSeen = @ \/ log[i].type = Terminal])
    BY <1>12 DEF Replays
  <2>2. log[i] \in Events
    BY <2>0, <1>t
  <2>3. [stream[p] EXCEPT !.replay = @ \ {i},
                          !.terminalSeen = @ \/ log[i].type = Terminal] \in Streams
    <3>1. stream[p] \in Streams /\ (stream[p].terminalSeen \/ log[i].type = Terminal) \in BOOLEAN
      BY <1>t DEF Streams
    <3> QED BY <3>1 DEF Streams
  <2>4. "replaying" \in PagePlaces
    BY DEF PagePlaces
  <2> QED BY <1>12, <1>t, <1>p, <2>1, <2>2, <2>3, <2>4, DeliversTyped DEF Replays, serverVars, bounds
<1>13. ASSUME NEW p \in Pages, ReplayIsOver(p)
       PROVE  TypeOK'
  BY <1>13, <1>t, <1>p, AfterReplayTyped DEF ReplayIsOver, bounds
<1>14. ASSUME NEW p \in Pages, Follows(p)
       PROVE  TypeOK'
  <2> DEFINE e == Head(stream[p].queue)
             rest == [stream[p] EXCEPT !.queue = Tail(@)]
             next == IF e.type = Terminal THEN "waiting" ELSE "following"
  <2>1. stream[p] \in Streams /\ stream[p].queue \in Seq(Events) /\ stream[p].queue # <<>>
    BY <1>14, <1>t DEF Streams, Follows
  <2>2. e \in Events /\ Tail(stream[p].queue) \in Seq(Events)
    BY <2>1
  <2>3. rest \in Streams
    BY <2>1, <2>2 DEF Streams
  <2>4. next \in PagePlaces
    BY DEF PagePlaces
  <2>5. Delivers(p, e, next, rest)
    BY <1>14 DEF Follows
  <2> HIDE DEF e, rest, next
  <2> QED BY <1>14, <1>t, <1>p, <2>2, <2>3, <2>4, <2>5, DeliversTyped DEF Follows, serverVars, bounds
<1>15. ASSUME NEW p \in Pages, ConnectionLost(p)
       PROVE  TypeOK'
  BY <1>15, <1>t, <1>p, StreamEndsTyped DEF ConnectionLost, serverVars
<1> QED BY <1>1, <1>2, <1>3, <1>4, <1>5, <1>6, <1>7, <1>8, <1>9, <1>10, <1>11, <1>12, <1>13,
           <1>14, <1>15 DEF Next, ServerStep, PageStep
-----------------------------------------------------------------------------
(* The transcript stays in order.                                          *)

LEMMA MadeUpAdds ==
  ASSUME TypeOK, sequence' = sequence + 1,
         log' = Append(log, Event(sequence + 1, Terminal))
  PROVE  Adds(<<Event(sequence + 1, Terminal)>>)
<1> DEFINE e == Event(sequence + 1, Terminal)
<1>1. <<e>> \in Seq(Events) /\ Len(<<e>>) = 1 /\ <<e>>[1] = e
  BY MadeUp
<1>2. \A i \in 1 .. Len(<<e>>) : <<e>>[i].sequence = sequence + i
  BY <1>1, MadeUp
<1> QED BY <1>1, <1>2, MadeUp DEF Adds

LEMMA PumpAdds ==
  ASSUME TypeOK, PumpRuns
  PROVE  Adds(Numbered(inbox))
<1>1. \A n, type : Event(n, type).sequence = n
  BY DEF Event
<1>2. \A i \in 1 .. Len(inbox) : Numbered(inbox)[i].sequence = sequence + i
  BY <1>1, NumberedIs
<1> QED BY <1>2, NumberedIs DEF Adds, PumpRuns

LEMMA AfterReplayLog ==
  ASSUME TypeOK, LogInv, NEW p \in Pages, NEW s, AfterReplay(p, s), UNCHANGED <<task, pump>>
  PROVE  LogInv'
<1>1. IsActive' = IsActive
  BY DEF IsActive
<1>2. CASE UNCHANGED <<log, sequence>>
  BY <1>1, <1>2, LogRests DEF TypeOK, LogInv
<1>3. CASE /\ sequence' = sequence + 1
           /\ log' = Append(log, Event(sequence + 1, Terminal))
  BY <1>1, <1>3, MadeUpAdds, LogGrows DEF LogInv
<1> QED BY <1>2, <1>3 DEF AfterReplay

LEMMA LogKept ==
  ASSUME TypeOK, LogInv, [Next]_vars
  PROVE  LogInv'
<1>t. sequence \in Nat
  BY DEF TypeOK
<1>1. CASE /\ UNCHANGED <<log, task, pump, sequence>>
  <2>1. IsActive' = IsActive
    BY <1>1 DEF IsActive
  <2> QED BY <1>1, <1>t, <2>1, LogRests DEF LogInv
<1>2. CASE Progress
  BY <1>1, <1>2 DEF Progress
<1>3. ASSUME NEW status \in TerminalStatuses, Finishes(status)
      PROVE  LogInv'
  <2>1. IsActive'
    BY <1>3 DEF Finishes, IsActive
  <2> QED BY <1>3, <1>t, <2>1, LogRests DEF Finishes
<1>4. CASE PumpRuns
  <2>1. pump' = "running" => pump = "running" /\ IsActive'
    BY <1>4 DEF PumpRuns, IsActive, LogInv
  <2> QED BY <1>4, <2>1, PumpAdds, LogGrows
<1>5. CASE TaskEnds
  BY <1>5, LogRests DEF TaskEnds
<1>6. CASE Cancel
  <2>1. pump' = "running" => IsActive' /\ pump = "running"
    BY <1>6 DEF Cancel, IsActive
  <2> QED BY <1>6, <1>t, <2>1, LogRests DEF Cancel
<1>7. CASE Restart
  BY <1>7, LogRests DEF Restart
<1>8. ASSUME NEW p \in Pages, Open(p) \/ DetailMeta(p) \/ DetailEvents(p) \/ Replays(p)
                               \/ Follows(p) \/ ConnectionLost(p)
      PROVE  LogInv'
  BY <1>1, <1>8 DEF Open, DetailMeta, DetailEvents, Replays, Follows, ConnectionLost, serverVars
<1>9. ASSUME NEW p \in Pages, Connect(p)
      PROVE  LogInv'
  BY <1>1, <1>9, AfterReplayLog DEF Connect
<1>10. ASSUME NEW p \in Pages, ReplayIsOver(p)
       PROVE  LogInv'
  BY <1>10, AfterReplayLog DEF ReplayIsOver
<1>11. CASE UNCHANGED vars
  BY <1>1, <1>11 DEF vars, serverVars
<1> QED BY <1>2, <1>3, <1>4, <1>5, <1>6, <1>7, <1>8, <1>9, <1>10, <1>11
        DEF Next, ServerStep, PageStep

-----------------------------------------------------------------------------
(* The end is told of only once it is stored.                              *)

LEMMA SettledStays ==
  ASSUME TypeOK, [Next]_vars, Settled
  PROVE  Settled'
<1>1. CASE UNCHANGED <<meta, restarts>>
  BY <1>1 DEF Settled
<1>2. ASSUME NEW status \in TerminalStatuses, Finishes(status)
      PROVE  Settled'
  BY <1>2 DEF Settled, Finishes, Recorded, TerminalStatuses
<1>3. CASE Restart
  BY <1>3 DEF Restart, Settled, TypeOK
<1>4. CASE Progress \/ PumpRuns \/ TaskEnds \/ Cancel \/ UNCHANGED vars
  BY <1>1, <1>4 DEF Progress, PumpRuns, TaskEnds, Cancel, bounds, vars, serverVars
<1>5. ASSUME NEW p \in Pages, Open(p) \/ DetailMeta(p) \/ DetailEvents(p) \/ Replays(p)
                               \/ Follows(p) \/ ConnectionLost(p) \/ Connect(p) \/ ReplayIsOver(p)
      PROVE  Settled'
  BY <1>1, <1>5 DEF Open, DetailMeta, DetailEvents, Replays, Follows, ConnectionLost, Connect,
                    ReplayIsOver, serverVars, bounds
<1> QED BY <1>2, <1>3, <1>4, <1>5 DEF Next, ServerStep, PageStep

LEMMA TerminalIn ==
  ASSUME NEW events \in Seq(Events)
  PROVE  HasTerminal(events) <=> \E i \in DOMAIN events : events[i].type = Terminal
  BY DEF HasTerminal, ToSet

LEMMA TerminalJoined ==
  ASSUME NEW s \in Seq(Events), NEW u \in Seq(Events), HasTerminal(s \o u)
  PROVE  HasTerminal(s) \/ HasTerminal(u)
<1>1. s \o u \in Seq(Events)
  BY Joined
<1>2. PICK i \in DOMAIN (s \o u) : (s \o u)[i].type = Terminal
  BY <1>1, TerminalIn
<1>3. CASE i \in 1 .. Len(s)
  BY <1>2, <1>3, Joined, TerminalIn
<1>4. CASE \E j \in 1 .. Len(u) : i = Len(s) + j
  BY <1>2, <1>4, Joined, TerminalIn
<1> QED BY <1>3, <1>4, Joined

LEMMA PumpedTerminal ==
  ASSUME TypeOK, EndInv, HasTerminal(Numbered(inbox))
  PROVE  Settled
<1>1. PICK i \in DOMAIN Numbered(inbox) : Numbered(inbox)[i].type = Terminal
  BY NumberedIs, TerminalIn
<1>2. DOMAIN Numbered(inbox) = 1 .. Len(inbox) /\ DOMAIN inbox = 1 .. Len(inbox)
  BY NumberedIs DEF TypeOK
<1>3. inbox[i] = Terminal
  BY <1>1, <1>2, NumberedIs DEF Event
<1> QED BY <1>2, <1>3 DEF EndInv

(* One page's view of the end depends on these alone.                       *)
LEMMA EndOkFrom ==
  ASSUME NEW p \in Pages, EndOk(p), restarts' = restarts, Settled => Settled',
         screen'[p].refreshing => screen[p].refreshing \/ Settled',
         HasTerminal(stream'[p].queue) => HasTerminal(stream[p].queue) \/ Settled',
         \/ places'[p] \notin {"over", "events"}
         \/ places'[p] = places[p] /\ screen'[p] = screen[p]
  PROVE  EndOk(p)'
  BY DEF EndOk, Closes

LEMMA NoStreamNoTerminal == ~ HasTerminal(NoStream.queue)
  BY DEF NoStream, HasTerminal, ToSet

LEMMA DeliversEnd ==
  ASSUME TypeOK, EndInv, NEW p \in Pages, NEW e \in Events, NEW next, NEW rest \in Streams,
         Delivers(p, e, next, rest), next \notin {"over", "events"},
         restarts' = restarts, Settled => Settled',
         e.type = Terminal => Settled,
         HasTerminal(rest.queue) => HasTerminal(stream[p].queue)
  PROVE  \A q \in Pages : EndOk(q)'
<1> SUFFICES ASSUME NEW q \in Pages PROVE EndOk(q)'
  OBVIOUS
<1>t. places \in [Pages -> PagePlaces] /\ DOMAIN screen = Pages /\ DOMAIN stream = Pages
  BY DEF TypeOK
<1>0. EndOk(q)
  BY DEF EndInv
<1>1. CASE q # p
  BY <1>0, <1>1, <1>t, EndOkFrom DEF Delivers
<1>2. CASE q = p
  <2>1. screen'[p].refreshing => screen[p].refreshing \/ Settled'
    BY <1>t, ShownTyped DEF Delivers, Ends
  <2>2. HasTerminal(stream'[p].queue) => HasTerminal(stream[p].queue)
    BY <1>t, NoStreamNoTerminal DEF Delivers
  <2>3. places'[p] \notin {"over", "events"}
    BY <1>t DEF Delivers
  <2> QED BY <1>0, <1>2, <2>1, <2>2, <2>3, EndOkFrom
<1> QED BY <1>1, <1>2

LEMMA StreamEndsEnd ==
  ASSUME TypeOK, EndInv, NEW p \in Pages, StreamEnds(p), restarts' = restarts, Settled => Settled'
  PROVE  \A q \in Pages : EndOk(q)'
<1> SUFFICES ASSUME NEW q \in Pages PROVE EndOk(q)'
  OBVIOUS
<1>t. places \in [Pages -> PagePlaces] /\ DOMAIN screen = Pages /\ DOMAIN stream = Pages
  BY DEF TypeOK
<1>0. EndOk(q)
  BY DEF EndInv
<1> QED BY <1>0, <1>t, NoStreamNoTerminal, EndOkFrom DEF StreamEnds

LEMMA AfterReplayEnd ==
  ASSUME TypeOK, EndInv, NEW p \in Pages, NEW s \in Streams, AfterReplay(p, s),
         HasTerminal(s.queue) => HasTerminal(stream[p].queue),
         UNCHANGED <<meta, task, inbox, inboxClosed, restarts>>
  PROVE  EndInv'
<1>t. /\ places \in [Pages -> PagePlaces] /\ DOMAIN screen = Pages /\ DOMAIN stream = Pages
      /\ log \in Seq(Events)
  BY DEF TypeOK
<1>s. Settled' = Settled
  BY DEF Settled
<1>1. CASE /\ places' = [places EXCEPT ![p] = "following"]
           /\ stream' = [stream EXCEPT ![p] = s]
           /\ UNCHANGED <<screen, log, sequence>>
  <2>1. ASSUME NEW q \in Pages PROVE EndOk(q)'
    <3>1. EndOk(q)
      BY DEF EndInv
    <3> QED BY <1>t, <1>s, <1>1, <3>1, EndOkFrom
  <2> QED BY <1>1, <1>s, <2>1 DEF EndInv
<1>2. CASE StreamEnds(p) /\ UNCHANGED <<log, sequence>>
  <2>1. \A q \in Pages : EndOk(q)'
    BY <1>2, <1>s, StreamEndsEnd
  <2> QED BY <1>2, <1>s, <2>1 DEF EndInv
<1>3. CASE /\ ~ IsActive
           /\ log' = Append(log, Event(sequence + 1, Terminal))
           /\ \/ Delivers(p, Event(sequence + 1, Terminal), "waiting", NoStream)
              \/ StreamEnds(p)
  <2>1. Settled
    BY <1>3 DEF EndInv, IsActive
  <2>2. \A q \in Pages : EndOk(q)'
    BY <1>3, <1>s, <2>1, StreamEndsEnd, DeliversEnd, MadeUp, NoStreamTyped, NoStreamNoTerminal
  <2> QED BY <1>3, <1>s, <2>1, <2>2 DEF EndInv
<1> QED BY <1>1, <1>2, <1>3 DEF AfterReplay

LEMMA EndKept ==
  ASSUME TypeOK, LogInv, EndInv, PageInv, [Next]_vars
  PROVE  EndInv'
<1>t. /\ places \in [Pages -> PagePlaces] /\ screen \in [Pages -> Screens]
      /\ stream \in [Pages -> Streams] /\ log \in Seq(Events)
      /\ inbox \in Seq({"progress", Terminal}) /\ restarts \in Nat
  BY DEF TypeOK, Screens, Streams
<1>s. Settled => Settled'
  BY SettledStays
<1>o. \A q \in Pages : EndOk(q)
  BY DEF EndInv
<1>1. ASSUME UNCHANGED <<pageVars, restarts>>
      PROVE  \A q \in Pages : EndOk(q)'
  <2> SUFFICES ASSUME NEW q \in Pages PROVE EndOk(q)'
    OBVIOUS
  <2> QED BY <1>1, <1>s, <1>o, EndOkFrom DEF pageVars
<1>2. CASE UNCHANGED vars
  <2>1. Settled' = Settled
    BY <1>2 DEF Settled, vars, serverVars, bounds
  <2>2. \A q \in Pages : EndOk(q)'
    BY <1>1, <1>2 DEF vars, bounds
  <2> QED BY <1>2, <2>1, <2>2 DEF EndInv, vars, serverVars
<1>3. CASE Progress
  <2>1. \A i \in DOMAIN inbox' : inbox'[i] = Terminal => inboxClosed'
    <3> SUFFICES ASSUME NEW i \in DOMAIN inbox', inbox'[i] = Terminal PROVE inboxClosed'
      OBVIOUS
    <3>1. i \in DOMAIN inbox /\ inbox[i] = Terminal
      BY <1>3, <1>t DEF Progress, Terminal
    <3> QED BY <1>3, <3>1 DEF Progress, EndInv
  <2>2. \A q \in Pages : EndOk(q)'
    BY <1>1, <1>3 DEF Progress
  <2> QED BY <1>3, <1>s, <2>1, <2>2 DEF EndInv, Progress
<1>4. ASSUME NEW status \in TerminalStatuses, Finishes(status)
      PROVE  EndInv'
  <2>1. \A q \in Pages : EndOk(q)'
    BY <1>1, <1>4 DEF Finishes, bounds
  <2>2. Settled'
    BY <1>4 DEF Finishes, Settled, Recorded, TerminalStatuses
  <2> QED BY <1>4, <2>1, <2>2 DEF Finishes, EndInv
<1>5. CASE PumpRuns
  <2>1. HasTerminal(log') => Settled'
    BY <1>5, <1>s, <1>t, NumberedIs, TerminalJoined, PumpedTerminal DEF EndInv, PumpRuns
  <2>2. \A q \in Pages : EndOk(q)'
    <3> SUFFICES ASSUME NEW q \in Pages PROVE EndOk(q)'
      OBVIOUS
    <3>1. HasTerminal(stream'[q].queue) => HasTerminal(stream[q].queue) \/ Settled'
      <4>1. stream[q].queue \in Seq(Events)
        BY <1>t DEF Streams
      <4>2. stream'[q].queue = stream[q].queue
              \/ stream'[q].queue = stream[q].queue \o Numbered(inbox)
        BY <1>5, <1>t DEF PumpRuns, Streams
      <4> QED BY <1>s, <4>1, <4>2, NumberedIs, TerminalJoined, PumpedTerminal
    <3> QED BY <1>5, <1>s, <1>o, <3>1, EndOkFrom DEF PumpRuns, bounds
  <2> QED BY <1>5, <1>s, <2>1, <2>2 DEF EndInv, PumpRuns
<1>6. CASE TaskEnds
  <2>1. \A q \in Pages : EndOk(q)'
    BY <1>1, <1>6 DEF TaskEnds, bounds
  <2>2. Settled'
    BY <1>6, <1>s DEF EndInv, TaskEnds
  <2> QED BY <1>6, <2>1, <2>2 DEF EndInv, TaskEnds
<1>7. CASE Cancel
  <2>1. \A q \in Pages : EndOk(q)'
    BY <1>1, <1>7 DEF Cancel
  <2> QED BY <1>7, <1>s, <2>1 DEF EndInv, Cancel
<1>8. CASE Restart
  <2>1. restarts' > 0 /\ Settled'
    BY <1>8, <1>t DEF Restart, Settled
  <2>2. \A q \in Pages : EndOk(q)'
    BY <2>1 DEF EndOk
  <2> QED BY <1>8, <2>1, <2>2 DEF EndInv, Restart
<1>9. ASSUME NEW p \in Pages, Open(p)
      PROVE  EndInv'
  <2>1. \A q \in Pages : EndOk(q)'
    <3> SUFFICES ASSUME NEW q \in Pages PROVE EndOk(q)'
      OBVIOUS
    <3>1. screen'[q].refreshing => screen[q].refreshing
      BY <1>9, <1>t DEF Open, NewScreen
    <3>2. places'[q] = "meta" \/ (places'[q] = places[q] /\ screen'[q] = screen[q])
      BY <1>9, <1>t DEF Open
    <3> QED BY <1>9, <1>s, <1>o, <3>1, <3>2, EndOkFrom DEF Open, bounds
  <2> QED BY <1>9, <1>s, <2>1 DEF EndInv, Open, serverVars
<1>10. ASSUME NEW p \in Pages, DetailMeta(p)
       PROVE  EndInv'
  <2>1. \A q \in Pages : EndOk(q)'
    <3> SUFFICES ASSUME NEW q \in Pages PROVE EndOk(q)'
      OBVIOUS
    <3>1. CASE q # p
      BY <1>10, <1>s, <1>o, <1>t, <3>1, EndOkFrom DEF DetailMeta, bounds
    <3>2. CASE q = p
      <4>1. /\ screen'[p].refreshing = screen[p].refreshing /\ screen'[p].status = meta
            /\ stream'[p] = stream[p] /\ places'[p] = "events"
        BY <1>10, <1>t DEF DetailMeta, Screens
      <4>2. screen[p].refreshing => meta # "running" \/ restarts > 0
        BY <1>o DEF EndOk, Settled
      <4> QED BY <1>10, <1>s, <1>o, <3>2, <4>1, <4>2 DEF EndOk, Closes, DetailMeta, bounds
    <3> QED BY <3>1, <3>2
  <2> QED BY <1>10, <1>s, <2>1 DEF EndInv, DetailMeta, serverVars
<1>11. ASSUME NEW p \in Pages, DetailEvents(p)
       PROVE  EndInv'
  <2>1. \A q \in Pages : EndOk(q)'
    <3> SUFFICES ASSUME NEW q \in Pages PROVE EndOk(q)'
      OBVIOUS
    <3>1. CASE q # p
      BY <1>11, <1>s, <1>o, <1>t, <3>1, EndOkFrom DEF DetailEvents, bounds
    <3>2. CASE q = p
      <4>1. /\ screen'[p].refreshing = screen[p].refreshing
            /\ screen'[p].status = screen[p].status
            /\ stream'[p] = stream[p]
            /\ places'[p] = IF screen[p].status = "running" /\ ~ screen[p].refreshing
                              THEN "connecting" ELSE "over"
        BY <1>11, <1>t DEF DetailEvents, Screens
      <4>2. screen[p].refreshing => screen[p].status # "running" \/ restarts > 0
        BY <1>11, <1>o DEF EndOk, Closes, DetailEvents
      <4> QED BY <1>11, <1>s, <1>o, <3>2, <4>1, <4>2 DEF EndOk, Closes, DetailEvents, bounds
    <3> QED BY <3>1, <3>2
  <2> QED BY <1>11, <1>s, <2>1 DEF EndInv, DetailEvents, serverVars
<1>12. ASSUME NEW p \in Pages, Connect(p)
       PROVE  EndInv'
  <2>q. ~ HasTerminal(Snapshot(p).queue) /\ Snapshot(p) \in Streams
    BY SnapshotTyped DEF Snapshot, HasTerminal, ToSet
  <2>1. CASE AfterReplay(p, Snapshot(p))
    BY <1>12, <2>1, <2>q, AfterReplayEnd DEF Connect, bounds
  <2>2. CASE /\ places' = [places EXCEPT ![p] = "replaying"]
             /\ stream' = [stream EXCEPT ![p] = Snapshot(p)]
             /\ UNCHANGED <<screen, log, sequence>>
    <3>1. \A q \in Pages : EndOk(q)'
      <4> SUFFICES ASSUME NEW q \in Pages PROVE EndOk(q)'
        OBVIOUS
      <4> QED BY <1>12, <1>s, <1>o, <1>t, <2>2, <2>q, EndOkFrom DEF Connect, bounds
    <3> QED BY <1>12, <1>s, <2>2, <3>1 DEF EndInv, Connect
  <2> QED BY <1>12, <2>1, <2>2 DEF Connect
<1>13. ASSUME NEW p \in Pages, Replays(p)
       PROVE  EndInv'
  <2>0. stream[p].replay \subseteq DOMAIN log
    BY <1>13 DEF Replays, Streaming, PageInv, PageOk, InOrder
  <2>1. PICK i \in stream[p].replay :
          Delivers(p, log[i], "replaying",
                   [stream[p] EXCEPT !.replay = @ \ {i},
                                     !.terminalSeen = @ \/ log[i].type = Terminal])
    BY <1>13 DEF Replays
  <2> DEFINE rest == [stream[p] EXCEPT !.replay = @ \ {i},
                                       !.terminalSeen = @ \/ log[i].type = Terminal]
  <2>2. log[i] \in Events
    BY <2>0, <1>t
  <2>3. rest \in Streams /\ rest.queue = stream[p].queue
    <3>1. stream[p] \in Streams /\ (stream[p].terminalSeen \/ log[i].type = Terminal) \in BOOLEAN
      BY <1>t DEF Streams
    <3> QED BY <3>1 DEF Streams
  <2>4. log[i].type = Terminal => Settled
    BY <1>t, <2>0, TerminalIn DEF EndInv
  <2>5. Delivers(p, log[i], "replaying", rest) /\ restarts' = restarts
    BY <1>13, <2>1 DEF Replays, bounds
  <2> HIDE DEF rest
  <2>6. \A q \in Pages : EndOk(q)'
    BY <1>s, <2>2, <2>3, <2>4, <2>5, DeliversEnd
  <2> QED BY <1>13, <1>s, <2>6 DEF EndInv, Replays, serverVars
<1>14. ASSUME NEW p \in Pages, ReplayIsOver(p)
       PROVE  EndInv'
  BY <1>14, <1>t, AfterReplayEnd DEF ReplayIsOver, bounds
<1>15. ASSUME NEW p \in Pages, Follows(p)
       PROVE  EndInv'
  <2> DEFINE e == Head(stream[p].queue)
             rest == [stream[p] EXCEPT !.queue = Tail(@)]
             next == IF e.type = Terminal THEN "waiting" ELSE "following"
  <2>1. stream[p] \in Streams /\ stream[p].queue \in Seq(Events) /\ stream[p].queue # <<>>
    BY <1>15, <1>t DEF Streams, Follows
  <2>2. e \in Events /\ Tail(stream[p].queue) \in Seq(Events)
    BY <2>1
  <2>3. rest \in Streams /\ rest.queue = Tail(stream[p].queue)
    BY <2>1, <2>2 DEF Streams
  <2>4. next \notin {"over", "events"}
    OBVIOUS
  <2>5. Delivers(p, e, next, rest) /\ restarts' = restarts
    BY <1>15 DEF Follows, bounds
  <2>6. e.type = Terminal => Settled
    <3>1. 1 \in DOMAIN stream[p].queue /\ e = stream[p].queue[1]
      BY <2>1
    <3> QED BY <1>o, <2>1, <3>1, TerminalIn DEF EndOk
  <2>7. HasTerminal(rest.queue) => HasTerminal(stream[p].queue)
    <3> SUFFICES ASSUME NEW i \in DOMAIN Tail(stream[p].queue),
                        Tail(stream[p].queue)[i].type = Terminal
                 PROVE  HasTerminal(stream[p].queue)
      BY <2>2, <2>3, TerminalIn
    <3>1. i + 1 \in DOMAIN stream[p].queue /\ Tail(stream[p].queue)[i] = stream[p].queue[i + 1]
      BY <2>1
    <3> QED BY <2>1, <3>1, TerminalIn
  <2> HIDE DEF e, rest, next
  <2>8. \A q \in Pages : EndOk(q)'
    BY <1>s, <2>2, <2>3, <2>4, <2>5, <2>6, <2>7, DeliversEnd
  <2> QED BY <1>15, <1>s, <2>8 DEF EndInv, Follows, serverVars
<1>16. ASSUME NEW p \in Pages, ConnectionLost(p)
       PROVE  EndInv'
  <2>1. \A q \in Pages : EndOk(q)'
    BY <1>16, <1>s, StreamEndsEnd DEF ConnectionLost
  <2> QED BY <1>16, <1>s, <2>1 DEF EndInv, ConnectionLost, serverVars
<1> QED BY <1>2, <1>3, <1>4, <1>5, <1>6, <1>7, <1>8, <1>9, <1>10, <1>11, <1>12, <1>13,
           <1>14, <1>15, <1>16 DEF Next, ServerStep, PageStep

(* A transcript that grows keeps its terminal event.                        *)
LEMMA TerminalStays ==
  ASSUME NEW s \in Seq(Events), NEW u \in Seq(Events)
  PROVE  HasTerminal(s) \/ HasTerminal(u) => HasTerminal(s \o u)
<1>1. s \o u \in Seq(Events)
  BY Joined
<1>2. ASSUME NEW i \in DOMAIN s, s[i].type = Terminal PROVE HasTerminal(s \o u)
  <2>1. i \in DOMAIN (s \o u) /\ (s \o u)[i] = s[i]
    BY Joined
  <2> QED BY <1>1, <1>2, <2>1, TerminalIn
<1>3. ASSUME NEW i \in DOMAIN u, u[i].type = Terminal PROVE HasTerminal(s \o u)
  <2>1. Len(s) + i \in DOMAIN (s \o u) /\ (s \o u)[Len(s) + i] = u[i]
    BY Joined
  <2> QED BY <1>1, <1>3, <2>1, TerminalIn
<1> QED BY <1>2, <1>3, TerminalIn

(* The end of a run is queued when it is recorded, stored when the pump     *)
(* takes it, and lost only when the pump is cut off (RunManager._execute). *)
LEMMA EndArrives ==
  ASSUME TypeOK, EndIsOnItsWay, [Next]_vars
  PROVE  EndIsOnItsWay'
<1>t. /\ log \in Seq(Events) /\ inbox \in Seq({"progress", Terminal})
      /\ restarts \in Nat /\ cancels \in Nat
  BY DEF TypeOK
<1>1. ASSUME UNCHANGED <<task, pump, inbox, inboxClosed, restarts, cancels>>,
             HasTerminal(log) => HasTerminal(log')
      PROVE  EndIsOnItsWay'
  BY <1>1 DEF EndIsOnItsWay
<1>2. CASE UNCHANGED vars
  BY <1>1, <1>2 DEF vars, serverVars, bounds
<1>3. ASSUME NEW p \in Pages, Open(p) \/ DetailMeta(p) \/ DetailEvents(p) \/ Replays(p)
                               \/ Follows(p) \/ ConnectionLost(p)
      PROVE  EndIsOnItsWay'
  BY <1>1, <1>3 DEF Open, DetailMeta, DetailEvents, Replays, Follows, ConnectionLost,
                    serverVars, bounds
<1>4. ASSUME NEW p \in Pages, Connect(p) \/ ReplayIsOver(p)
      PROVE  EndIsOnItsWay'
  <2>1. UNCHANGED <<task, pump, inbox, inboxClosed, restarts, cancels>>
    BY <1>4 DEF Connect, ReplayIsOver, bounds
  <2>2. log' = log \/ log' = Append(log, Event(sequence + 1, Terminal))
    BY <1>4 DEF Connect, ReplayIsOver, AfterReplay
  <2>3. ASSUME log' = Append(log, Event(sequence + 1, Terminal)), NEW i \in DOMAIN log,
               log[i].type = Terminal
        PROVE  HasTerminal(log')
    <3>1. log' \in Seq(Events)
      BY <1>t, <2>3, MadeUp
    <3>2. i \in DOMAIN log' /\ log'[i] = log[i]
      BY <1>t, <2>3
    <3> QED BY <2>3, <3>1, <3>2, TerminalIn
  <2> QED BY <1>1, <1>t, <2>1, <2>2, <2>3, TerminalIn
<1>5. CASE Progress
  <2>1. ASSUME NEW i \in DOMAIN inbox, inbox[i] = Terminal PROVE HasEnd(inbox')
    <3>1. i \in DOMAIN inbox' /\ inbox'[i] = inbox[i]
      BY <1>5, <1>t DEF Progress
    <3> QED BY <2>1, <3>1 DEF HasEnd
  <2> QED BY <1>5, <2>1 DEF Progress, EndIsOnItsWay, HasEnd
<1>6. ASSUME NEW status \in TerminalStatuses, Finishes(status)
      PROVE  EndIsOnItsWay'
  <2>1. HasEnd(inbox')
    <3>1. Len(inbox) + 1 \in DOMAIN inbox' /\ inbox'[Len(inbox) + 1] = Terminal
      BY <1>6, <1>t DEF Finishes
    <3> QED BY <3>1 DEF HasEnd
  <2> QED BY <1>6, <2>1 DEF Finishes, EndIsOnItsWay, bounds
<1>7. CASE PumpRuns
  <2>1. Numbered(inbox) \in Seq(Events) /\ (HasEnd(inbox) => HasTerminal(Numbered(inbox)))
    <3>1. ASSUME NEW i \in DOMAIN inbox, inbox[i] = Terminal PROVE HasTerminal(Numbered(inbox))
      <4>1. i \in 1 .. Len(inbox) /\ i \in DOMAIN Numbered(inbox)
        BY <1>t, NumberedIs
      <4>2. Numbered(inbox)[i].type = Terminal
        <5>1. Numbered(inbox)[i] = Event(sequence + i, Terminal)
          BY <3>1, <4>1, NumberedIs
        <5> QED BY <5>1 DEF Event
      <4> QED BY <4>1, <4>2, NumberedIs, TerminalIn
    <3> QED BY <3>1, NumberedIs DEF HasEnd
  <2>2. HasTerminal(log) \/ HasTerminal(Numbered(inbox)) => HasTerminal(log')
    BY <1>7, <1>t, <2>1, TerminalStays DEF PumpRuns
  <2> QED BY <1>7, <2>1, <2>2 DEF PumpRuns, EndIsOnItsWay, bounds
<1>8. CASE TaskEnds
  BY <1>8 DEF TaskEnds, EndIsOnItsWay, bounds
<1>9. CASE Cancel
  BY <1>9, <1>t DEF Cancel, EndIsOnItsWay
<1>10. CASE Restart
  BY <1>10, <1>t DEF Restart, EndIsOnItsWay
<1> QED BY <1>2, <1>3, <1>4, <1>5, <1>6, <1>7, <1>8, <1>9, <1>10
        DEF Next, ServerStep, PageStep

-----------------------------------------------------------------------------
(* What a page has seen, and what its stream has for it.                   *)

(* A page that is left alone, while the transcript grows and the pump does  *)
(* not publish.                                                            *)
LEMMA StillOk ==
  ASSUME NEW p \in Pages, PageOk(p),
         screen'[p] = screen[p], stream'[p] = stream[p], places'[p] = places[p],
         \A i \in DOMAIN log : i \in DOMAIN log' /\ log'[i] = log[i],
         places[p] \in Streaming /\ pump' = "running"
           => pump = "running" /\ sequence' = sequence
  PROVE  PageOk(p)'
<1>1. places[p] \in Streaming => InOrder(p)'
  <2> SUFFICES ASSUME places[p] \in Streaming PROVE InOrder(p)'
    OBVIOUS
  <2>0. InOrder(p)
    BY DEF PageOk
  <2>1. stream'[p].replay \subseteq DOMAIN log' /\ stream[p].replay \subseteq DOMAIN log
    BY <2>0 DEF InOrder
  <2>2. \A i \in stream[p].replay : log'[i] = log[i]
    BY <2>1
  <2>3. \A i \in stream'[p].replay :
          \/ Follower(p, log[i].sequence)'
          \/ \E j \in stream'[p].replay : j < i /\ log'[j].sequence + 1 = log'[i].sequence
    <3>1. \A i \in stream[p].replay :
            \/ Follower(p, log[i].sequence)
            \/ \E j \in stream[p].replay : j < i /\ log[j].sequence + 1 = log[i].sequence
      BY <2>0 DEF InOrder
    <3> QED BY <2>2, <3>1 DEF Follower
  <2>4. \A i \in DOMAIN stream'[p].queue :
          \/ Follower(p, stream[p].queue[i].sequence)'
          \/ \E j \in stream'[p].replay : log'[j].sequence + 1 = stream'[p].queue[i].sequence
          \/ \E j \in 1 .. i - 1 :
               stream'[p].queue[j].sequence + 1 = stream'[p].queue[i].sequence
    <3>1. \A i \in DOMAIN stream[p].queue :
            \/ Follower(p, stream[p].queue[i].sequence)
            \/ \E j \in stream[p].replay : log[j].sequence + 1 = stream[p].queue[i].sequence
            \/ \E j \in 1 .. i - 1 :
                 stream[p].queue[j].sequence + 1 = stream[p].queue[i].sequence
      BY <2>0 DEF InOrder
    <3> QED BY <2>2, <3>1 DEF Follower
  <2>5. ASSUME pump' = "running", NEW n \in 1 .. sequence'
        PROVE  n \in screen'[p].seen \/ Pending(p, n)'
    <3>1. n \in screen[p].seen \/ Pending(p, n)
      BY <2>0, <2>5 DEF InOrder
    <3>2. Pending(p, n) => Pending(p, n)'
      BY <2>1 DEF Pending
    <3> QED BY <3>1, <3>2
  <2> QED BY <2>1, <2>3, <2>4, <2>5 DEF InOrder
<1>2. LastEventId(p)' = LastEventId(p) /\ Shows(p)' = Shows(p)
  BY DEF LastEventId, Shows
<1> QED BY <1>1, <1>2 DEF PageOk

(* What PageOk says of a page's screen.                                    *)
ScreenOk(p) ==
  /\ IsFiniteSet(screen[p].seen)
  /\ screen[p].seen = 1 .. Cardinality(screen[p].seen)
  /\ LastEventId(p) \in screen[p].seen \cup {0}

LEMMA IdleOk ==
  ASSUME NEW p \in Pages, places'[p] \notin Streaming, stream'[p].queue = <<>>,
         Shows(p)' => ScreenOk(p)'
  PROVE  PageOk(p)'
  BY DEF PageOk, ScreenOk, Streaming

(* A page whose stream is gone.                                            *)
LEMMA StoppedOk ==
  ASSUME NEW p \in Pages, PageOk(p), places'[p] \notin Streaming, stream'[p].queue = <<>>,
         screen'[p] = screen[p], Shows(p)' => Shows(p)
  PROVE  PageOk(p)'
<1>1. Shows(p) => ScreenOk(p)
  BY DEF PageOk, ScreenOk
<1>2. LastEventId(p)' = LastEventId(p)
  BY DEF LastEventId
<1> QED BY <1>1, <1>2, IdleOk DEF ScreenOk

(* A page that is shown the event after one it has seen.                    *)
LEMMA ShownOk ==
  ASSUME TypeOK, TypeOK', NEW p \in Pages, ScreenOk(p), NEW e \in Events,
         Follower(p, e.sequence) \/ e.sequence \in screen[p].seen,
         screen'[p] = Shown(p, e)
  PROVE  ScreenOk(p)'
<1>1. e.sequence \in Nat \ {0}
  BY DEF Events
<1>2. /\ IsFiniteSet(screen'[p].seen)
      /\ screen'[p].seen = 1 .. Cardinality(screen'[p].seen)
  <2>1. screen'[p].seen = screen[p].seen \cup {e.sequence}
    BY ShownTyped
  <2>2. CASE Follower(p, e.sequence)
    <3>1. e.sequence = 1 \/ e.sequence - 1 \in screen[p].seen
      BY <2>2 DEF Follower
    <3>2. IsFiniteSet(screen[p].seen) /\ screen[p].seen = 1 .. Cardinality(screen[p].seen)
      BY DEF ScreenOk
    <3> DEFINE S == screen[p].seen
               n == e.sequence
    <3>3. /\ n \in Nat \ {0} /\ IsFiniteSet(S) /\ S = 1 .. Cardinality(S)
          /\ n = 1 \/ n - 1 \in S
      BY <1>1, <3>1, <3>2
    <3> HIDE DEF S, n
    <3>4. IsFiniteSet(S \cup {n}) /\ S \cup {n} = 1 .. Cardinality(S \cup {n})
      BY <3>3, StretchGrows
    <3>5. screen'[p].seen = S \cup {n}
      BY <2>1 DEF S, n
    <3> QED BY <3>4, <3>5
  <2>3. CASE e.sequence \in screen[p].seen
    <3>1. screen'[p].seen = screen[p].seen
      BY <2>1, <2>3
    <3> QED BY <3>1 DEF ScreenOk
  <2> QED BY <2>2, <2>3
<1>3. LastEventId(p)' \in screen'[p].seen \cup {0}
  <2>1. /\ screen[p] \in Screens
        /\ LastEventId(p) = IF screen[p].after >= screen[p].lastId
                              THEN screen[p].after ELSE screen[p].lastId
    BY PageTypes
  <2>2. screen'[p].after = screen[p].after /\ screen'[p].lastId = e.sequence
          /\ screen'[p].seen = screen[p].seen \cup {e.sequence}
    BY ShownTyped
  <2>3. LastEventId(p)' = IF screen[p].after >= e.sequence THEN screen[p].after ELSE e.sequence
    <3>1. screen[p].after \in Nat /\ e.sequence \in Nat
      BY <1>1, <2>1 DEF Screens
    <3>2. LastEventId(p)' = Max({screen[p].after, e.sequence})
      BY <2>2 DEF LastEventId
    <3> QED BY <3>1, <3>2, Greater
  <2>4. CASE ~ (screen[p].after >= e.sequence)
    BY <2>2, <2>3, <2>4
  <2>5. CASE screen[p].after >= e.sequence
    <3>1. screen[p].after \in Nat /\ screen[p].lastId \in Nat
            /\ screen[p].after <= LastEventId(p)
      BY <2>1 DEF Screens
    <3>2. Cardinality(screen[p].seen) \in Nat
      BY FS_CardinalityType DEF ScreenOk
    <3>3. LastEventId(p) \in 0 .. Cardinality(screen[p].seen)
      BY <3>2 DEF ScreenOk
    <3>4. screen[p].after \in (1 .. Cardinality(screen[p].seen)) \cup {0}
      BY <3>1, <3>2, <3>3
    <3> QED BY <2>2, <2>3, <2>5, <3>4 DEF ScreenOk
  <2> QED BY <2>4, <2>5
<1> QED BY <1>2, <1>3 DEF ScreenOk

(* A frame that ends the stream, or an event that is next for the page.     *)
LEMMA DeliversOk ==
  ASSUME TypeOK, TypeOK', NEW p \in Pages, PageOk(p), Shows(p), NEW e \in Events,
         NEW next, NEW rest, Delivers(p, e, next, rest),
         e.type = Terminal \/ Follower(p, e.sequence),
         next \in Streaming /\ places'[p] = next
           => InOrder(p)' /\ (next = "following" => rest.replay = {})
  PROVE  PageOk(p)'
<1>t. p \in DOMAIN places /\ p \in DOMAIN screen /\ p \in DOMAIN stream
  BY DEF TypeOK
<1>n. NoStream.queue = <<>>
  BY DEF NoStream
<1>1. CASE Ends(p, e)
  <2>1. places'[p] = "meta" /\ stream'[p] = NoStream
    BY <1>1, <1>t DEF Delivers
  <2> QED BY <1>n, <2>1, IdleOk DEF Shows, Streaming
<1>2. CASE ~ Ends(p, e)
  <2>1. places'[p] = next /\ screen'[p] = Shown(p, e)
          /\ stream'[p] = IF next \notin Streaming THEN NoStream ELSE rest
    BY <1>2, <1>t DEF Delivers
  <2>2. Follower(p, e.sequence) \/ e.sequence \in screen[p].seen
    BY <1>2 DEF Ends, Accepts
  <2>3. ScreenOk(p)
    BY DEF PageOk, ScreenOk
  <2>4. ScreenOk(p)'
    BY <2>1, <2>2, <2>3, ShownOk
  <2>5. CASE next \notin Streaming
    BY <1>n, <2>1, <2>4, <2>5, IdleOk
  <2>6. CASE next \in Streaming
    BY <2>1, <2>4, <2>6 DEF PageOk, ScreenOk, Streaming
  <2> QED BY <2>5, <2>6
<1> QED BY <1>1, <1>2

(* A stream that has taken its snapshot.                                   *)
LEMMA SnapshotInOrder ==
  ASSUME TypeOK, LogInv, NEW p \in Pages, ScreenOk(p), stream'[p] = Snapshot(p),
         UNCHANGED <<screen, log, pump, sequence>>
  PROVE  InOrder(p)'
<1>t. /\ log \in Seq(Events) /\ sequence \in Nat /\ LastEventId(p) \in Nat
      /\ \A i \in DOMAIN log : log[i].sequence \in Nat \ {0}
      /\ DOMAIN log = 1 .. Len(log) /\ Len(log) \in Nat
  <2>1. log \in Seq(Events) /\ sequence \in Nat /\ LastEventId(p) \in Nat
    BY PageTypes DEF TypeOK
  <2>2. \A i \in DOMAIN log : log[i] \in Events
    BY <2>1
  <2>3. DOMAIN log = 1 .. Len(log) /\ Len(log) \in Nat
    BY <2>1
  <2> QED BY <2>1, <2>2, <2>3 DEF Events
<1>c. Cardinality(screen[p].seen) \in Nat
  BY FS_CardinalityType DEF ScreenOk
<1>s. \A n \in Nat \ {0} : n <= LastEventId(p) => n \in screen[p].seen
  <2>1. screen[p].seen = 1 .. Cardinality(screen[p].seen)
          /\ LastEventId(p) \in screen[p].seen \cup {0}
    BY DEF ScreenOk
  <2>2. LastEventId(p) <= Cardinality(screen[p].seen)
    BY <1>c, <2>1
  <2>3. \A n \in Nat \ {0} : n <= LastEventId(p) => n \in 1 .. Cardinality(screen[p].seen)
    BY <1>c, <1>t, <2>2
  <2> QED BY <2>1, <2>3
<1>1. /\ stream'[p].replay = {i \in DOMAIN log : ~ (log[i].sequence <= LastEventId(p))}
      /\ stream'[p].queue = <<>>
  BY DEF Snapshot, Skipped
<1>2. \A i \in stream'[p].replay :
        \/ Follower(p, log[i].sequence)'
        \/ \E j \in stream'[p].replay : j < i /\ log'[j].sequence + 1 = log'[i].sequence
  <2> SUFFICES ASSUME NEW i \in stream'[p].replay, ~ Follower(p, log[i].sequence)
               PROVE  \E j \in stream'[p].replay : j < i /\ log[j].sequence + 1 = log[i].sequence
    BY DEF Follower
  <2>0. i \in DOMAIN log /\ log[i].sequence # 1
    BY <1>1 DEF Follower
  <2>1. PICK j \in 1 .. i - 1 : log[j].sequence + 1 = log[i].sequence
    BY <2>0 DEF LogInv
  <2>2. j \in DOMAIN log /\ j < i
    BY <1>t, <2>0
  <2>3. log[j].sequence \in Nat \ {0} /\ log[j].sequence = log[i].sequence - 1
    BY <1>t, <2>0, <2>1, <2>2
  <2>4. log[j].sequence \notin screen[p].seen
    BY <2>3 DEF Follower
  <2>5. ~ (log[j].sequence <= LastEventId(p))
    BY <1>s, <2>3, <2>4
  <2> QED BY <1>1, <2>1, <2>2, <2>5
<1>3. ASSUME pump' = "running", NEW n \in 1 .. sequence
      PROVE  n \in screen'[p].seen \/ Pending(p, n)'
  <2>1. PICK i \in DOMAIN log : log[i].sequence = n
    BY LogHas
  <2>2. CASE n <= LastEventId(p)
    BY <1>s, <1>t, <2>2
  <2>3. CASE ~ (n <= LastEventId(p))
    BY <1>1, <2>1, <2>3 DEF Pending
  <2> QED BY <2>2, <2>3
<1>4. stream'[p].replay \subseteq DOMAIN log' /\ DOMAIN stream'[p].queue = {}
  BY <1>1
<1> QED BY <1>1, <1>2, <1>3, <1>4 DEF InOrder

(* The first event of a replay is next for its page, and what is left to    *)
(* replay stays in order.                                                  *)
LEMMA ReplayedInOrder ==
  ASSUME NEW p \in Pages, TypeOK, InOrder(p), NEW i \in stream[p].replay,
         \A j \in stream[p].replay : i <= j,
         stream'[p].replay = stream[p].replay \ {i}, stream'[p].queue = stream[p].queue,
         screen'[p].seen = screen[p].seen \cup {log[i].sequence},
         UNCHANGED <<log, pump, sequence>>
  PROVE  InOrder(p)'
<1>t. /\ \A j \in DOMAIN log : log[j].sequence \in Nat \ {0}
      /\ stream[p].replay \subseteq DOMAIN log
      /\ stream[p].queue \in Seq(Events)
      /\ \A j \in DOMAIN stream[p].queue : stream[p].queue[j].sequence \in Nat \ {0}
  <2>1. \A j \in DOMAIN log : log[j] \in Events
    BY DEF TypeOK
  <2>2. stream[p].queue \in Seq(Events)
    BY PageTypes DEF Streams
  <2>3. \A j \in DOMAIN stream[p].queue : stream[p].queue[j] \in Events
    BY <2>2
  <2> QED BY <2>1, <2>2, <2>3 DEF Events, InOrder
<1>f. /\ \A n : Follower(p, n) => Follower(p, n)'
      /\ \A n \in Nat \ {0} : log[i].sequence + 1 = n => Follower(p, n)'
  <2>1. \A n \in Nat \ {0} : log[i].sequence + 1 = n => n - 1 = log[i].sequence
    BY <1>t
  <2> QED BY <2>1 DEF Follower
<1>1. \A k \in stream'[p].replay :
        \/ Follower(p, log[k].sequence)'
        \/ \E j \in stream'[p].replay : j < k /\ log'[j].sequence + 1 = log'[k].sequence
  <2> SUFFICES ASSUME NEW k \in stream[p].replay
               PROVE  \/ Follower(p, log[k].sequence)'
                      \/ \E j \in stream'[p].replay : j < k /\ log[j].sequence + 1 = log[k].sequence
    OBVIOUS
  <2>0. log[k].sequence \in Nat \ {0}
    BY <1>t
  <2>1. CASE Follower(p, log[k].sequence)
    BY <1>f, <2>1 DEF Follower
  <2>2. CASE \E j \in stream[p].replay : j < k /\ log[j].sequence + 1 = log[k].sequence
    BY <1>f, <2>0, <2>2 DEF Follower
  <2> QED BY <2>1, <2>2 DEF InOrder
<1>2. \A k \in DOMAIN stream'[p].queue :
        \/ Follower(p, stream[p].queue[k].sequence)'
        \/ \E j \in stream'[p].replay : log'[j].sequence + 1 = stream'[p].queue[k].sequence
        \/ \E j \in 1 .. k - 1 :
             stream'[p].queue[j].sequence + 1 = stream'[p].queue[k].sequence
  <2> SUFFICES ASSUME NEW k \in DOMAIN stream[p].queue
               PROVE  \/ Follower(p, stream[p].queue[k].sequence)'
                      \/ \E j \in stream'[p].replay :
                           log[j].sequence + 1 = stream[p].queue[k].sequence
                      \/ \E j \in 1 .. k - 1 :
                           stream[p].queue[j].sequence + 1 = stream[p].queue[k].sequence
    OBVIOUS
  <2>0. stream[p].queue[k].sequence \in Nat \ {0}
    BY <1>t
  <2>1. CASE Follower(p, stream[p].queue[k].sequence)
    BY <1>f, <2>1 DEF Follower
  <2>2. CASE \E j \in stream[p].replay : log[j].sequence + 1 = stream[p].queue[k].sequence
    BY <1>f, <2>0, <2>2 DEF Follower
  <2> QED BY <2>1, <2>2 DEF InOrder
<1>3. ASSUME pump' = "running", NEW n \in 1 .. sequence
      PROVE  n \in screen'[p].seen \/ Pending(p, n)'
  <2>1. n \in screen[p].seen \/ Pending(p, n)
    BY <1>3 DEF InOrder
  <2> QED BY <2>1 DEF Pending
<1> QED BY <1>t, <1>1, <1>2, <1>3 DEF InOrder

LEMMA FirstIsNext ==
  ASSUME NEW p \in Pages, TypeOK, InOrder(p), NEW i \in stream[p].replay,
         \A j \in stream[p].replay : i <= j
  PROVE  Follower(p, log[i].sequence)
<1>1. \A j \in stream[p].replay : ~ (j < i)
  BY PageTypes DEF Streams
<1> QED BY <1>1 DEF InOrder

(* So is the first event of a queue, once the replay is over.               *)
LEMMA FollowedInOrder ==
  ASSUME NEW p \in Pages, TypeOK, InOrder(p), stream[p].replay = {}, stream[p].queue # <<>>
  PROVE  /\ Follower(p, Head(stream[p].queue).sequence)
         /\ (/\ stream'[p].replay = {} /\ stream'[p].queue = Tail(stream[p].queue)
             /\ screen'[p].seen = screen[p].seen \cup {Head(stream[p].queue).sequence}
             /\ UNCHANGED <<log, pump, sequence>>)
              => InOrder(p)'
<1> DEFINE q == stream[p].queue
<1>t. q \in Seq(Events) /\ q # <<>> /\ Len(q) \in Nat /\ DOMAIN q = 1 .. Len(q)
  BY PageTypes DEF Streams
<1>e. \A k \in DOMAIN q : q[k].sequence \in Nat \ {0}
  <2>1. \A k \in DOMAIN q : q[k] \in Events
    BY <1>t
  <2> QED BY <2>1 DEF Events
<1>h. 1 \in DOMAIN q /\ Head(q) = q[1]
  BY <1>t
<1>tl. /\ DOMAIN Tail(q) = 1 .. Len(q) - 1
       /\ \A k \in 1 .. Len(q) - 1 : Tail(q)[k] = q[k + 1] /\ k + 1 \in DOMAIN q
  BY <1>t
<1>o. \A k \in DOMAIN q :
        \/ Follower(p, q[k].sequence)
        \/ \E j \in 1 .. k - 1 : q[j].sequence + 1 = q[k].sequence
  BY DEF InOrder
<1>1. Follower(p, Head(q).sequence)
  BY <1>h, <1>o
<1>2. ASSUME stream'[p].replay = {}, stream'[p].queue = Tail(q),
             screen'[p].seen = screen[p].seen \cup {Head(q).sequence},
             UNCHANGED <<log, pump, sequence>>
      PROVE  InOrder(p)'
  <2>1. ASSUME NEW k \in DOMAIN stream'[p].queue
        PROVE  \/ q[k + 1].sequence = 1 \/ q[k + 1].sequence - 1 \in screen'[p].seen
               \/ \E j \in 1 .. k - 1 :
                    stream'[p].queue[j].sequence + 1 = stream'[p].queue[k].sequence
    <3>0. k \in 1 .. Len(q) - 1 /\ k + 1 \in DOMAIN q /\ stream'[p].queue[k] = q[k + 1]
      BY <1>2, <1>tl
    <3>1. CASE Follower(p, q[k + 1].sequence)
      BY <1>2, <3>1 DEF Follower
    <3>2. ASSUME NEW j \in 1 .. (k + 1) - 1, q[j].sequence + 1 = q[k + 1].sequence, j = 1
          PROVE  q[k + 1].sequence - 1 \in screen'[p].seen
      <4>1. q[k + 1].sequence - 1 = q[1].sequence
        BY <1>e, <1>h, <3>0, <3>2
      <4> QED BY <1>2, <1>h, <4>1
    <3>3. ASSUME NEW j \in 1 .. (k + 1) - 1, q[j].sequence + 1 = q[k + 1].sequence, j # 1
          PROVE  \E l \in 1 .. k - 1 :
                   stream'[p].queue[l].sequence + 1 = stream'[p].queue[k].sequence
      <4>1. j - 1 \in 1 .. k - 1 /\ j - 1 \in 1 .. Len(q) - 1 /\ (j - 1) + 1 = j
        BY <1>t, <3>0, <3>3
      <4>2. stream'[p].queue[j - 1] = q[j]
        BY <1>2, <1>tl, <4>1
      <4> QED BY <3>0, <3>3, <4>1, <4>2
    <3> QED BY <1>o, <3>0, <3>1, <3>2, <3>3
  <2>2. ASSUME pump = "running", NEW n \in 1 .. sequence
        PROVE  n \in screen'[p].seen \/ Pending(p, n)'
    <3>1. n \in screen[p].seen \/ Pending(p, n)
      BY <2>2 DEF InOrder
    <3>2. ASSUME NEW k \in DOMAIN q, q[k].sequence = n
          PROVE  n \in screen'[p].seen \/ Pending(p, n)'
      <4>1. CASE k = 1
        BY <1>2, <1>h, <3>2, <4>1
      <4>2. CASE k # 1
        <5>1. k - 1 \in 1 .. Len(q) - 1 /\ (k - 1) + 1 = k
          BY <1>t, <4>2
        <5>2. k - 1 \in DOMAIN stream'[p].queue /\ stream'[p].queue[k - 1] = q[k]
          BY <1>2, <1>tl, <5>1
        <5> QED BY <3>2, <5>2 DEF Pending
      <4> QED BY <4>1, <4>2
    <3> QED BY <1>2, <3>1, <3>2 DEF Pending
  <2>3. \A k \in DOMAIN stream'[p].queue :
          \/ Follower(p, stream[p].queue[k].sequence)'
          \/ \E j \in 1 .. k - 1 :
               stream'[p].queue[j].sequence + 1 = stream'[p].queue[k].sequence
    <3> SUFFICES ASSUME NEW k \in DOMAIN stream'[p].queue
                 PROVE  \/ Follower(p, stream[p].queue[k].sequence)'
                        \/ \E j \in 1 .. k - 1 :
                             stream'[p].queue[j].sequence + 1 = stream'[p].queue[k].sequence
      OBVIOUS
    <3>1. stream'[p].queue[k] = q[k + 1]
      BY <1>2, <1>tl
    <3> QED BY <2>1, <3>1 DEF Follower
  <2>4. stream'[p].replay \subseteq DOMAIN log'
    BY <1>2
  <2>5. pump' = "running" => \A n \in 1 .. sequence' : n \in screen'[p].seen \/ Pending(p, n)'
    BY <1>2, <2>2
  <2> HIDE DEF q
  <2> QED BY <1>2, <2>3, <2>4, <2>5 DEF InOrder
<1> QED BY <1>1, <1>2

(* What the pump publishes goes to the end of every open stream.            *)
LEMMA PumpedInOrder ==
  ASSUME NEW p \in Pages, TypeOK, LogInv, PumpRuns, InOrder(p), places[p] \in Streaming
  PROVE  InOrder(p)'
<1> DEFINE q == stream[p].queue
           new == Numbered(inbox)
<1>t. /\ q \in Seq(Events) /\ new \in Seq(Events) /\ sequence \in Nat /\ log \in Seq(Events)
      /\ stream[p] \in Streams /\ Len(inbox) \in Nat
      /\ Len(new) = Len(inbox)
  BY PageTypes, NumberedIs DEF Streams, TypeOK
<1>n. \A k \in 1 .. Len(new) : new[k].sequence = sequence + k
  <2>1. \A n, type : Event(n, type).sequence = n
    BY DEF Event
  <2> QED BY <1>t, <2>1, NumberedIs
<1>s. /\ stream'[p].queue = q \o new /\ stream'[p].replay = stream[p].replay
      /\ screen' = screen /\ log' = log \o new /\ sequence' = sequence + Len(new)
  <2>1. stream'[p] = [stream[p] EXCEPT !.queue = @ \o Numbered(inbox)]
    BY DEF PumpRuns, Subscribed, TypeOK
  <2> QED BY <1>t, <2>1 DEF PumpRuns, Streams
<1> HIDE DEF q, new
<1>q. /\ DOMAIN q = 1 .. Len(q) /\ Len(q) \in Nat /\ Len(new) \in Nat
      /\ DOMAIN stream'[p].queue = 1 .. Len(q) + Len(new)
      /\ \A i \in 1 .. Len(q) : stream'[p].queue[i] = q[i]
      /\ \A k \in 1 .. Len(new) : stream'[p].queue[Len(q) + k] = new[k]
      /\ \A i \in DOMAIN stream'[p].queue :
           i \in 1 .. Len(q) \/ \E k \in 1 .. Len(new) : i = Len(q) + k
  BY <1>t, <1>s, Joined
<1>l. \A i \in DOMAIN log : i \in DOMAIN log' /\ log'[i] = log[i]
  <2>0. log \in Seq(Events) /\ new \in Seq(Events)
    BY <1>t
  <2>1. \A i \in 1 .. Len(log) : (log \o new)[i] = log[i]
    BY <2>0, Joined
  <2>2. DOMAIN log = 1 .. Len(log) /\ DOMAIN (log \o new) = 1 .. Len(log) + Len(new)
          /\ Len(log) \in Nat
    BY <2>0, Joined
  <2> QED BY <1>s, <1>q, <2>1, <2>2
<1>r. stream[p].replay \subseteq DOMAIN log /\ \A i \in stream[p].replay : log'[i] = log[i]
  BY <1>l DEF InOrder
<1>f. \A n : Follower(p, n)' <=> Follower(p, n)
  BY <1>s DEF Follower
<1>h. \A n \in 1 .. sequence : n \in screen[p].seen \/ Pending(p, n)
  BY DEF InOrder, PumpRuns
<1>1. \A i \in stream'[p].replay :
        \/ Follower(p, log[i].sequence)'
        \/ \E j \in stream'[p].replay : j < i /\ log'[j].sequence + 1 = log'[i].sequence
  <2>1. \A i \in stream[p].replay :
          \/ Follower(p, log[i].sequence)
          \/ \E j \in stream[p].replay : j < i /\ log[j].sequence + 1 = log[i].sequence
    BY DEF InOrder
  <2> QED BY <1>r, <1>s, <2>1 DEF Follower
<1>2. ASSUME NEW i \in DOMAIN stream'[p].queue
      PROVE  \/ Follower(p, stream[p].queue[i].sequence)'
             \/ \E j \in stream'[p].replay : log'[j].sequence + 1 = stream'[p].queue[i].sequence
             \/ \E j \in 1 .. i - 1 :
                  stream'[p].queue[j].sequence + 1 = stream'[p].queue[i].sequence
  <2>1. CASE i \in 1 .. Len(q)
    <3>1. \/ Follower(p, q[i].sequence)
          \/ \E j \in stream[p].replay : log[j].sequence + 1 = q[i].sequence
          \/ \E j \in 1 .. i - 1 : q[j].sequence + 1 = q[i].sequence
      BY <1>q, <2>1 DEF InOrder, q
    <3>2. stream'[p].queue[i] = q[i] /\ \A j \in 1 .. i - 1 : stream'[p].queue[j] = q[j]
      BY <1>q, <2>1
    <3>3. CASE Follower(p, q[i].sequence)
      BY <1>s, <3>2, <3>3 DEF Follower
    <3>4. CASE \E j \in stream[p].replay : log[j].sequence + 1 = q[i].sequence
      BY <1>r, <1>s, <3>2, <3>4
    <3>5. CASE \E j \in 1 .. i - 1 : q[j].sequence + 1 = q[i].sequence
      BY <3>2, <3>5
    <3> QED BY <3>1, <3>3, <3>4, <3>5
  <2>2. ASSUME NEW k \in 1 .. Len(new), i = Len(q) + k
        PROVE  \/ Follower(p, stream[p].queue[i].sequence)'
               \/ \E j \in stream'[p].replay : log'[j].sequence + 1 = stream'[p].queue[i].sequence
               \/ \E j \in 1 .. i - 1 :
                    stream'[p].queue[j].sequence + 1 = stream'[p].queue[i].sequence
    <3>0. stream'[p].queue[i].sequence = sequence + k
      BY <1>q, <1>n, <2>2
    <3>1. CASE k > 1
      <4>1. k - 1 \in 1 .. Len(new) /\ Len(q) + (k - 1) \in 1 .. i - 1
        BY <1>q, <2>2, <3>1
      <4>2. stream'[p].queue[Len(q) + (k - 1)].sequence = sequence + (k - 1)
        BY <1>q, <1>n, <4>1
      <4>3. sequence + (k - 1) + 1 = sequence + k
        BY <1>t, <1>q
      <4> QED BY <3>0, <4>1, <4>2, <4>3
    <3>2. CASE k = 1 /\ sequence = 0
      BY <3>0, <3>2 DEF Follower
    <3>3. CASE k = 1 /\ sequence > 0
      <4>0. sequence \in 1 .. sequence /\ (sequence + 1) - 1 = sequence
        BY <1>t, <3>3
      <4>1. CASE sequence \in screen[p].seen
        BY <1>s, <3>0, <3>3, <4>0, <4>1 DEF Follower
      <4>2. CASE \E j \in stream[p].replay : log[j].sequence = sequence
        BY <1>r, <1>s, <3>0, <3>3, <4>2
      <4>3. CASE \E j \in DOMAIN q : q[j].sequence = sequence
        <5>1. PICK j \in DOMAIN q : q[j].sequence = sequence
          BY <4>3
        <5>2. j \in 1 .. i - 1 /\ stream'[p].queue[j] = q[j]
          BY <1>q, <2>2, <3>3, <5>1
        <5> QED BY <3>0, <3>3, <5>1, <5>2
      <4> QED BY <1>h, <4>0, <4>1, <4>2, <4>3 DEF Pending, q
    <3> QED BY <1>t, <1>q, <3>1, <3>2, <3>3
  <2> QED BY <1>q, <2>1, <2>2
<1>3. ASSUME NEW n \in 1 .. sequence'
      PROVE  n \in screen'[p].seen \/ Pending(p, n)'
  <2>1. CASE n <= sequence
    <3>1. n \in screen[p].seen \/ Pending(p, n)
      BY <1>h, <1>t, <1>q, <1>s, <2>1
    <3>2. CASE \E j \in stream[p].replay : log[j].sequence = n
      BY <1>r, <1>s, <3>2 DEF Pending
    <3>3. CASE \E j \in DOMAIN q : q[j].sequence = n
      <4>1. PICK j \in DOMAIN q : q[j].sequence = n
        BY <3>3
      <4>2. j \in DOMAIN stream'[p].queue /\ stream'[p].queue[j] = q[j]
        BY <1>q, <4>1
      <4> QED BY <4>1, <4>2 DEF Pending
    <3> QED BY <1>s, <3>1, <3>2, <3>3 DEF Pending, q
  <2>2. CASE n > sequence
    <3>1. n - sequence \in 1 .. Len(new) /\ sequence + (n - sequence) = n
      BY <1>t, <1>q, <1>s, <2>2
    <3>2. Len(q) + (n - sequence) \in DOMAIN stream'[p].queue
      BY <1>q, <3>1
    <3>3. stream'[p].queue[Len(q) + (n - sequence)].sequence = n
      BY <1>q, <1>n, <3>1
    <3> QED BY <3>2, <3>3 DEF Pending
  <2> QED BY <1>t, <1>q, <1>s, <2>1, <2>2
<1>4. stream'[p].replay \subseteq DOMAIN log'
  BY <1>l, <1>r, <1>s
<1> QED BY <1>1, <1>2, <1>3, <1>4 DEF InOrder

(* A transcript only grows.                                                *)
LEMMA LogStays ==
  ASSUME TypeOK, NEW new \in Seq(Events), log' = log \/ log' = log \o new
  PROVE  \A i \in DOMAIN log : i \in DOMAIN log' /\ log'[i] = log[i]
<1>0. log \in Seq(Events)
  BY DEF TypeOK
<1>1. \A i \in 1 .. Len(log) : (log \o new)[i] = log[i]
  BY <1>0, Joined
<1>2. DOMAIN log = 1 .. Len(log) /\ DOMAIN (log \o new) = 1 .. Len(log) + Len(new)
        /\ Len(log) \in Nat /\ Len(new) \in Nat
  BY <1>0, Joined
<1> QED BY <1>1, <1>2

LEMMA AfterReplayPages ==
  ASSUME TypeOK, TypeOK', LogInv, PageInv, NEW p \in Pages, NEW s \in Streams,
         AfterReplay(p, s), Shows(p), s.replay = {}, UNCHANGED <<task, pump>>,
         stream'[p] = s /\ UNCHANGED <<screen, log, sequence>> => InOrder(p)'
  PROVE  PageInv'
<1> SUFFICES ASSUME NEW q \in Pages PROVE PageOk(q)'
  BY DEF PageInv
<1>t. /\ DOMAIN places = Pages /\ DOMAIN screen = Pages /\ DOMAIN stream = Pages
      /\ sequence \in Nat
  BY DEF TypeOK
<1>o. PageOk(q) /\ PageOk(p)
  BY DEF PageInv
<1>1. CASE q # p
  <2>1. screen'[q] = screen[q] /\ stream'[q] = stream[q] /\ places'[q] = places[q]
    BY <1>1, <1>t DEF AfterReplay, StreamEnds, Delivers
  <2>2. log' = log \/ log' = log \o <<Event(sequence + 1, Terminal)>>
    BY MadeUp DEF AfterReplay
  <2>3. <<Event(sequence + 1, Terminal)>> \in Seq(Events)
    BY MadeUp
  <2>4. \A i \in DOMAIN log : i \in DOMAIN log' /\ log'[i] = log[i]
    BY <2>2, <2>3, LogStays
  <2>5. pump' = "running" => pump = "running" /\ sequence' = sequence
    BY DEF AfterReplay, LogInv
  <2> QED BY <1>o, <2>1, <2>4, <2>5, StillOk
<1>n. NoStream.queue = <<>>
  BY DEF NoStream
<1>2. CASE q = p
  <2>1. CASE /\ places' = [places EXCEPT ![p] = "following"]
             /\ stream' = [stream EXCEPT ![p] = s]
             /\ UNCHANGED <<screen, log, sequence>>
    <3>1. places'[p] = "following" /\ stream'[p] = s /\ screen'[p] = screen[p]
      BY <1>t, <2>1
    <3>2. InOrder(p)' /\ LastEventId(p)' = LastEventId(p)
      BY <2>1, <3>1 DEF LastEventId
    <3> QED BY <1>2, <1>o, <3>1, <3>2 DEF PageOk, Streaming
  <2>2. CASE StreamEnds(p)
    <3>1. places'[p] = "waiting" /\ stream'[p] = NoStream /\ screen'[p] = screen[p]
      BY <1>t, <2>2 DEF StreamEnds
    <3> QED BY <1>2, <1>o, <1>n, <3>1, StoppedOk DEF Streaming
  <2>3. CASE Delivers(p, Event(sequence + 1, Terminal), "waiting", NoStream)
    <3>1. "waiting" \notin Streaming
      BY DEF Streaming
    <3> QED BY <1>2, <1>o, <2>3, <3>1, MadeUp, DeliversOk
  <2> QED BY <2>1, <2>2, <2>3 DEF AfterReplay
<1> QED BY <1>1, <1>2

LEMMA PagesKept ==
  ASSUME TypeOK, TypeOK', LogInv, PageInv, [Next]_vars
  PROVE  PageInv'
<1>t. /\ DOMAIN places = Pages /\ DOMAIN screen = Pages /\ DOMAIN stream = Pages
      /\ \A q \in Pages : screen[q] \in Screens /\ stream[q] \in Streams
      /\ log \in Seq(Events) /\ sequence \in Nat
  BY DEF TypeOK, Screens, Streams
<1>o. \A q \in Pages : PageOk(q)
  BY DEF PageInv
<1>n. NoStream.queue = <<>>
  BY DEF NoStream
<1>1. ASSUME UNCHANGED <<log, pageVars>>, pump' = "running" => pump = "running" /\ sequence' = sequence
      PROVE  PageInv'
  <2> SUFFICES ASSUME NEW q \in Pages PROVE PageOk(q)'
    BY DEF PageInv
  <2> QED BY <1>1, <1>o, StillOk DEF pageVars
<1>2. CASE UNCHANGED vars
  BY <1>1, <1>2 DEF vars, serverVars
<1>3. CASE Progress
  BY <1>1, <1>3 DEF Progress
<1>4. ASSUME NEW status \in TerminalStatuses, Finishes(status)
      PROVE  PageInv'
  BY <1>1, <1>4 DEF Finishes
<1>5. CASE PumpRuns
  <2> SUFFICES ASSUME NEW q \in Pages PROVE PageOk(q)'
    BY DEF PageInv
  <2>1. screen'[q] = screen[q] /\ places'[q] = places[q]
    BY <1>5 DEF PumpRuns
  <2>2. CASE places[q] \notin Streaming
    <3>1. stream'[q] = stream[q]
      BY <1>5, <1>t, <2>2 DEF PumpRuns, Subscribed
    <3>2. \A i \in DOMAIN log : i \in DOMAIN log' /\ log'[i] = log[i]
      BY <1>5, NumberedIs, LogStays DEF PumpRuns
    <3> QED BY <1>o, <2>1, <2>2, <3>1, <3>2, StillOk
  <2>3. CASE places[q] \in Streaming
    <3>1. InOrder(q)'
      BY <1>5, <1>o, <2>3, PumpedInOrder DEF PageOk
    <3>2. stream'[q].replay = stream[q].replay
      BY <1>5, <1>t DEF PumpRuns, Streams
    <3>3. LastEventId(q)' = LastEventId(q)
      BY <2>1 DEF LastEventId
    <3>4. PageOk(q)
      BY <1>o
    <3> QED BY <2>1, <2>3, <3>1, <3>2, <3>3, <3>4 DEF PageOk, Shows
  <2> QED BY <2>2, <2>3
<1>6. CASE TaskEnds
  BY <1>1, <1>6 DEF TaskEnds
<1>7. CASE Cancel
  BY <1>1, <1>7 DEF Cancel
<1>8. CASE Restart
  <2> SUFFICES ASSUME NEW q \in Pages PROVE PageOk(q)'
    BY DEF PageInv
  <2>1. /\ stream'[q] = NoStream /\ screen'[q] = screen[q]
        /\ places'[q] = CASE places[q] \in Streaming -> "waiting"
                          [] places[q] \in {"meta", "events"} -> "closed"
                          [] OTHER -> places[q]
    BY <1>8 DEF Restart
  <2>2. places'[q] \notin Streaming /\ (Shows(q)' => Shows(q))
    BY <2>1 DEF Streaming, Shows
  <2> QED BY <1>o, <1>n, <2>1, <2>2, StoppedOk
<1>9. ASSUME NEW p \in Pages, Open(p)
      PROVE  PageInv'
  <2> SUFFICES ASSUME NEW q \in Pages PROVE PageOk(q)'
    BY DEF PageInv
  <2>1. CASE q # p
    BY <1>9, <1>o, <1>t, <2>1, StillOk DEF Open, serverVars
  <2>2. CASE q = p
    <3>1. stream[p].queue = <<>>
      BY <1>9, <1>o DEF PageOk, Open, Streaming
    <3>2. places'[p] = "meta" /\ stream'[p] = stream[p]
      BY <1>9, <1>t DEF Open
    <3> QED BY <2>2, <3>1, <3>2, IdleOk DEF Streaming, Shows
  <2> QED BY <2>1, <2>2
<1>10. ASSUME NEW p \in Pages, DetailMeta(p)
       PROVE  PageInv'
  <2> SUFFICES ASSUME NEW q \in Pages PROVE PageOk(q)'
    BY DEF PageInv
  <2>1. CASE q # p
    BY <1>10, <1>o, <1>t, <2>1, StillOk DEF DetailMeta, serverVars
  <2>2. CASE q = p
    <3>1. stream[p].queue = <<>>
      BY <1>10, <1>o DEF PageOk, DetailMeta, Streaming
    <3>2. places'[p] = "events" /\ stream'[p] = stream[p]
      BY <1>10, <1>t DEF DetailMeta
    <3> QED BY <2>2, <3>1, <3>2, IdleOk DEF Streaming, Shows
  <2> QED BY <2>1, <2>2
<1>11. ASSUME NEW p \in Pages, DetailEvents(p)
       PROVE  PageInv'
  <2> SUFFICES ASSUME NEW q \in Pages PROVE PageOk(q)'
    BY DEF PageInv
  <2>1. CASE q # p
    BY <1>11, <1>o, <1>t, <2>1, StillOk DEF DetailEvents, serverVars
  <2>2. CASE q = p
    <3>1. stream[p].queue = <<>>
      BY <1>11, <1>o DEF PageOk, DetailEvents, Streaming
    <3>2. places'[p] \in {"connecting", "over"} /\ stream'[p] = stream[p]
      BY <1>11, <1>t DEF DetailEvents
    <3>3. PICK n \in 0 .. Len(log) : Sequences_of(log) = 1 .. n
      BY DEF LogInv
    <3>4. n \in Nat
      BY <1>t
    <3>5. /\ screen'[p].seen = 1 .. n /\ screen'[p].after = n /\ screen'[p].lastId = 0
      <4>1. screen'[p] = [screen[p] EXCEPT !.seen = Sequences_of(log),
                                           !.after = Highest(Sequences_of(log)),
                                           !.lastId = 0,
                                           !.told = @ \/ HasTerminal(log)]
        BY <1>11, <1>t DEF DetailEvents
      <4>2. Highest(Sequences_of(log)) = n
        BY <3>3, <3>4, Greatest
      <4> QED BY <1>t, <3>3, <4>1, <4>2 DEF Screens
    <3>6. LastEventId(p)' = n
      <4>1. LastEventId(p)' = Max({n, 0})
        BY <3>5 DEF LastEventId
      <4> QED BY <3>4, <4>1, Greater
    <3>7. ScreenOk(p)'
      BY <3>4, <3>5, <3>6, Stretch DEF ScreenOk
    <3> QED BY <2>2, <3>1, <3>2, <3>7, IdleOk DEF Streaming
  <2> QED BY <2>1, <2>2
<1>12. ASSUME NEW p \in Pages, Connect(p)
       PROVE  PageInv'
  <2>1. Shows(p)
    BY <1>12 DEF Connect, Shows
  <2>2. ScreenOk(p)
    BY <1>o, <2>1 DEF PageOk, ScreenOk
  <2>3. stream'[p] = Snapshot(p) /\ UNCHANGED <<screen, log, sequence>> => InOrder(p)'
    BY <1>12, <2>2, SnapshotInOrder DEF Connect
  <2>4. CASE Snapshot(p).replay = {} /\ AfterReplay(p, Snapshot(p))
    BY <1>12, <2>1, <2>3, <2>4, SnapshotTyped, AfterReplayPages DEF Connect
  <2>5. CASE /\ places' = [places EXCEPT ![p] = "replaying"]
             /\ stream' = [stream EXCEPT ![p] = Snapshot(p)]
             /\ UNCHANGED <<screen, log, sequence>>
    <3> SUFFICES ASSUME NEW q \in Pages PROVE PageOk(q)'
      BY DEF PageInv
    <3>1. CASE q # p
      BY <1>12, <1>o, <1>t, <2>5, <3>1, StillOk DEF Connect
    <3>2. CASE q = p
      <4>1. places'[p] = "replaying" /\ stream'[p] = Snapshot(p) /\ screen'[p] = screen[p]
        BY <1>t, <2>5
      <4>2. InOrder(p)' /\ LastEventId(p)' = LastEventId(p)
        BY <2>3, <2>5, <4>1 DEF LastEventId
      <4> QED BY <2>2, <3>2, <4>1, <4>2 DEF PageOk, ScreenOk, Streaming
    <3> QED BY <3>1, <3>2
  <2> QED BY <1>12, <2>4, <2>5 DEF Connect
<1>13. ASSUME NEW p \in Pages, Replays(p)
       PROVE  PageInv'
  <2>0. InOrder(p) /\ Shows(p)
    BY <1>13, <1>o DEF Replays, Streaming, PageOk, Shows
  <2>1. PICK i \in stream[p].replay :
          /\ \A j \in stream[p].replay : i <= j
          /\ Delivers(p, log[i], "replaying",
                      [stream[p] EXCEPT !.replay = @ \ {i},
                                        !.terminalSeen = @ \/ log[i].type = Terminal])
    BY <1>13 DEF Replays
  <2> DEFINE rest == [stream[p] EXCEPT !.replay = @ \ {i},
                                       !.terminalSeen = @ \/ log[i].type = Terminal]
  <2>2. i \in DOMAIN log /\ log[i] \in Events
    <3>1. i \in DOMAIN log
      BY <2>0 DEF InOrder
    <3> QED BY <1>t, <3>1
  <2>3. rest.queue = stream[p].queue /\ rest.replay = stream[p].replay \ {i}
    BY <1>t DEF Streams
  <2>4. Delivers(p, log[i], "replaying", rest) /\ UNCHANGED serverVars
    BY <1>13, <2>1 DEF Replays
  <2> HIDE DEF rest
  <2>5. Follower(p, log[i].sequence)
    BY <2>0, <2>1, FirstIsNext
  <2>6. places'[p] = "replaying" => InOrder(p)'
    <3> SUFFICES ASSUME places'[p] = "replaying" PROVE InOrder(p)'
      OBVIOUS
    <3>1. stream'[p] = rest /\ screen'[p] = Shown(p, log[i])
      BY <1>t, <2>4 DEF Delivers, Streaming
    <3>2. screen'[p].seen = screen[p].seen \cup {log[i].sequence}
      BY <2>2, <3>1, ShownTyped
    <3> QED BY <2>0, <2>1, <2>3, <2>4, <3>1, <3>2, ReplayedInOrder DEF serverVars
  <2>7. PageOk(p)'
    <3>1. PageOk(p)
      BY <1>o
    <3> QED BY <2>0, <2>2, <2>4, <2>5, <2>6, <3>1, DeliversOk
  <2>8. ASSUME NEW q \in Pages, q # p
        PROVE  PageOk(q)'
    BY <1>o, <1>t, <2>4, <2>8, StillOk DEF Delivers, serverVars
  <2> QED BY <2>7, <2>8 DEF PageInv
<1>14. ASSUME NEW p \in Pages, ReplayIsOver(p)
       PROVE  PageInv'
  <2>0. PageOk(p)
    BY <1>o
  <2>1. Shows(p) /\ InOrder(p)
    BY <1>14, <2>0 DEF ReplayIsOver, Streaming, PageOk, Shows
  <2>2. stream'[p] = stream[p] /\ UNCHANGED <<screen, log, sequence>> => InOrder(p)'
    BY <1>14, <2>1 DEF ReplayIsOver, InOrder, Follower, Pending
  <2> QED BY <1>14, <1>t, <2>1, <2>2, AfterReplayPages DEF ReplayIsOver
<1>15. ASSUME NEW p \in Pages, Follows(p)
       PROVE  PageInv'
  <2> DEFINE e == Head(stream[p].queue)
             rest == [stream[p] EXCEPT !.queue = Tail(@)]
             next == IF e.type = Terminal THEN "waiting" ELSE "following"
  <2>0. PageOk(p)
    BY <1>o
  <2>1. /\ InOrder(p) /\ Shows(p) /\ stream[p].replay = {}
        /\ stream[p].queue \in Seq(Events) /\ stream[p].queue # <<>>
    BY <1>15, <1>t, <2>0 DEF Follows, Streaming, PageOk, Shows, Streams
  <2>2. e \in Events
    BY <2>1
  <2>3. rest.replay = {} /\ rest.queue = Tail(stream[p].queue)
    BY <1>t, <2>1 DEF Streams
  <2>4. Delivers(p, e, next, rest) /\ UNCHANGED serverVars
    BY <1>15 DEF Follows
  <2>5. Follower(p, e.sequence)
    BY <2>1, FollowedInOrder
  <2>6. ASSUME next \in Streaming, places'[p] = next PROVE InOrder(p)'
    <3>0. next = "following" /\ ~ Ends(p, e)
      BY <1>t, <2>4, <2>6 DEF Delivers, Streaming
    <3>1. stream'[p] = rest /\ screen'[p] = Shown(p, e)
      BY <1>t, <2>4, <3>0 DEF Delivers, Streaming
    <3>2. screen'[p].seen = screen[p].seen \cup {e.sequence}
      BY <2>2, <3>1, ShownTyped
    <3> QED BY <2>1, <2>3, <2>4, <3>1, <3>2, FollowedInOrder DEF serverVars
  <2> HIDE DEF e, rest, next
  <2>7. PageOk(p)'
    BY <2>0, <2>1, <2>2, <2>3, <2>4, <2>5, <2>6, DeliversOk
  <2>8. ASSUME NEW q \in Pages, q # p
        PROVE  PageOk(q)'
    BY <1>o, <1>t, <2>4, <2>8, StillOk DEF Delivers, serverVars
  <2> QED BY <2>7, <2>8 DEF PageInv
<1>16. ASSUME NEW p \in Pages, ConnectionLost(p)
       PROVE  PageInv'
  <2> SUFFICES ASSUME NEW q \in Pages PROVE PageOk(q)'
    BY DEF PageInv
  <2>1. CASE q # p
    BY <1>16, <1>o, <1>t, <2>1, StillOk DEF ConnectionLost, StreamEnds, serverVars
  <2>2. CASE q = p
    <3>1. places'[p] = "waiting" /\ stream'[p] = NoStream /\ screen'[p] = screen[p]
      BY <1>16, <1>t DEF ConnectionLost, StreamEnds
    <3>2. Shows(p)
      BY <1>16 DEF ConnectionLost, Streaming, Shows
    <3> QED BY <1>o, <1>n, <2>2, <3>1, <3>2, StoppedOk DEF Streaming
  <2> QED BY <2>1, <2>2
<1> QED BY <1>2, <1>3, <1>4, <1>5, <1>6, <1>7, <1>8, <1>9, <1>10, <1>11, <1>12, <1>13,
           <1>14, <1>15, <1>16 DEF Next, ServerStep, PageStep

-----------------------------------------------------------------------------
(* The theorems.                                                           *)

LEMMA AtFirst == Init => IInv
<1> SUFFICES ASSUME Init PROVE IInv
  OBVIOUS
<1>1. TypeOK
  <2>1. log \in Seq(Events) /\ inbox \in Seq({"progress", Terminal})
    BY DEF Init
  <2>2. NewScreen \in Screens
    BY DEF NewScreen, Screens
  <2>3. screen \in [Pages -> Screens] /\ stream \in [Pages -> Streams]
    BY <2>2, NoStreamTyped DEF Init
  <2>4. places \in [Pages -> PagePlaces]
    BY DEF Init, PagePlaces
  <2> QED BY <2>1, <2>3, <2>4 DEF Init, TypeOK, Screens, Streams, Tasks
<1>2. LogInv
  <2>1. Sequences_of(log) = 1 .. 0 /\ 0 \in 0 .. Len(log) /\ DOMAIN log = {}
    BY DEF Init, Sequences_of, ToSet
  <2>2. sequence = 0 /\ IsActive
    BY DEF Init, IsActive
  <2>3. \E n \in 0 .. Len(log) : Sequences_of(log) = 1 .. n /\ sequence <= n
                     /\ (pump = "running" => sequence = n)
    BY <2>1, <2>2
  <2> QED BY <2>1, <2>2, <2>3 DEF LogInv
<1>3. EndInv
  <2>1. ~ HasTerminal(log) /\ DOMAIN inbox = {}
    BY DEF Init, HasTerminal, ToSet
  <2>2. \A p \in Pages : EndOk(p)
    BY NoStreamNoTerminal DEF Init, EndOk, NewScreen, Closes
  <2> QED BY <2>1, <2>2 DEF Init, EndInv
<1>4. PageInv
  BY DEF Init, PageInv, PageOk, Shows, Streaming, NoStream
<1>5. EndIsOnItsWay
  BY DEF Init, EndIsOnItsWay
<1> QED BY <1>1, <1>2, <1>3, <1>4, <1>5 DEF IInv

(* The transcript's numbers stay in order, and what every page has seen and *)
(* will be sent fits them, whatever is lost, cancelled or restarted.       *)
THEOREM Invariant == Spec => []IInv
<1>1. IInv /\ [Next]_vars => IInv'
  BY TypesKept, LogKept, EndKept, EndArrives, PagesKept DEF IInv
<1> QED BY <1>1, AtFirst, PTL DEF Spec

(* No page ever misses an event before the last it was shown.               *)
THEOREM NoHoles == Spec => []PagesHaveNoHoles
<1>1. IInv => PagesHaveNoHoles
  BY DEF IInv, PageInv, PageOk, Shows, PagesHaveNoHoles
<1> QED BY <1>1, Invariant, PTL

(* A page that was told of the end shows how the run ended, unless the      *)
(* server was killed before that was stored.                               *)
THEOREM ToldShowTheEnd == Spec => []ToldPagesShowTheEnd
<1>1. IInv => ToldPagesShowTheEnd
  BY DEF IInv, EndInv, EndOk, Closes, ToldPagesShowTheEnd
<1> QED BY <1>1, Invariant, PTL

=============================================================================
