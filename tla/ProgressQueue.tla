--------------------------- MODULE ProgressQueue ---------------------------
(***************************************************************************)
(* _ProgressQueue (webui/app.py): a bounded queue between the code that    *)
(* reports progress and one reader, which joins the deltas of a block      *)
(* while its timer runs, and drops deltas, never structural events, when   *)
(* it is full.                                                             *)
(*                                                                         *)
(* Everything put is numbered: an event by one number, a delta's text by   *)
(* one number for each of its characters.                                  *)
(***************************************************************************)
EXTENDS Naturals, Sequences, FiniteSets, SequencesExt

CONSTANTS
  Keys,           \* what _delta_key tells apart
  MaxItems,       \* MAX_ITEMS
  MaxDeltaChars,  \* MAX_DELTA_CHARS
  MaxText,        \* bound: characters of one delta as it is put
  MaxSent,        \* bound: everything put in a behaviour
  MaxLost         \* bound: nothing is put once so many deltas are lost

ASSUME QueueAssumption ==
  /\ MaxItems \in Nat \ {0}
  /\ MaxDeltaChars \in Nat \ {0}
  /\ MaxText \in Nat /\ MaxSent \in Nat /\ MaxLost \in Nat

VARIABLES
  coalesces,  \* coalesce_window_seconds > 0: the pump's queue, not a listener's
  items,      \* _items
  pending,    \* _pending_delta; its flush timer runs exactly while there is one
  dropped,    \* _dropped_deltas
  closed,     \* _closed
  ready,      \* _ready
  reader,     \* the coroutine in get(): "asking", "waiting" on _ready, "ended"
  given,      \* the text it has been given last
  sent,       \* all that was put, by kind
  lost,       \* deltas dropped so far
  told        \* sum of the dropped_delta_count it has been given

buffers == <<items, pending, dropped>>
vars == <<coalesces, buffers, closed, ready, reader, given, sent, lost, told>>

Item(type, key, text) == [type |-> type, key |-> key, text |-> text, count |-> 0]
NoItem == Item("none", "none", <<>>)
IsDelta(item) == item.type = "delta"

Numbers(n) == [i \in 1 .. n |-> Len(sent) + i]

-----------------------------------------------------------------------------
(* The methods below put_nowait, on the fields they change:                *)
(* q = [items, pending, dropped, lost].                                    *)

Fields == [items |-> items, pending |-> pending, dropped |-> dropped, lost |-> lost]

(* Mutations used by the runs: a queue refuses deltas one item too early,   *)
(* or refuses whatever comes.                                              *)
Refuses_Early(q, item) == Len(q.items) + 1 >= MaxItems /\ IsDelta(item)
Refuses_All(q, item) == Len(q.items) >= MaxItems
Refuses(q, item) == Len(q.items) >= MaxItems /\ IsDelta(item)

Deltas(queued) == {i \in DOMAIN queued : IsDelta(queued[i])}
Oldest(queued) == CHOOSE i \in Deltas(queued) : \A j \in Deltas(queued) : i <= j

(* One turn of _enqueue's loop: the oldest delta goes.                      *)
(* Mutation used by the runs: room is made for the queue as it is.          *)
Crowded_OffByOne(queued) == Len(queued) > MaxItems
Crowded(queued) == Len(queued) >= MaxItems
EvictsOne(q) ==
  IF Crowded(q.items) /\ Deltas(q.items) # {}
  THEN [items |-> RemoveAt(q.items, Oldest(q.items)), pending |-> q.pending,
        dropped |-> q.dropped + 1, lost |-> q.lost + 1]
  ELSE q
Evictions(q) ==
  LET turns[n \in Nat] == IF n = 0 THEN q ELSE EvictsOne(turns[n - 1])
  IN  turns
MakesRoom(q) == Evictions(q)[Len(q.items)]

Counted(q, item) == [item EXCEPT !.count = IF q.dropped > 0 THEN q.dropped ELSE @]
AppendCounted(q, item) ==
  [q EXCEPT !.items = Append(@, Counted(q, item)), !.dropped = 0]

Enqueue(q, item) ==
  IF Refuses(q, item) THEN [q EXCEPT !.dropped = @ + 1, !.lost = @ + 1]
  ELSE AppendCounted(MakesRoom(q), item)

FlushPending(q) ==
  IF q.pending = NoItem THEN q ELSE Enqueue([q EXCEPT !.pending = NoItem], q.pending)

StartPending(q, item) ==
  LET started == [q EXCEPT !.pending = item]
  IN  IF coalesces THEN started ELSE FlushPending(started)

(* One turn of _put_delta's loop for a piece of the text.                  *)
OtherBlock(q, key) == q.pending = NoItem \/ q.pending.key # key
PutPiece(q, key, text) ==
  LET joined == [q EXCEPT !.pending.text = @ \o text]
  IN  IF OtherBlock(q, key) \/ Len(q.pending.text) >= MaxDeltaChars
      THEN StartPending(FlushPending(q), Item("delta", key, text))
      ELSE IF Len(joined.pending.text) >= MaxDeltaChars THEN FlushPending(joined)
           ELSE joined

(* How much of the text the next turn of the loop takes.                   *)
Room(q, key) ==
  IF OtherBlock(q, key) \/ Len(q.pending.text) >= MaxDeltaChars THEN MaxDeltaChars
  ELSE MaxDeltaChars - Len(q.pending.text)

(* One turn, and all of them: each takes a character at least.              *)
Piece(at, key) ==
  LET size == IF Len(at.rest) < Room(at.q, key) THEN Len(at.rest) ELSE Room(at.q, key)
  IN  [q |-> PutPiece(at.q, key, SubSeq(at.rest, 1, size)),
       rest |-> SubSeq(at.rest, size + 1, Len(at.rest))]
Pieces(q, key, text) ==
  LET turns[n \in Nat] ==
        IF n = 0 THEN [q |-> q, rest |-> text]
        ELSE LET at == turns[n - 1] IN IF at.rest = <<>> THEN at ELSE Piece(at, key)
  IN  turns
PutText(q, key, text) == Pieces(q, key, text)[Len(text)].q

PutEmpty(q, key) ==
  LET flushed == IF OtherBlock(q, key) THEN FlushPending(q) ELSE q
  IN  IF flushed.pending = NoItem THEN StartPending(flushed, Item("delta", key, <<>>))
                                  ELSE flushed

Becomes(q) ==
  /\ items' = q.items
  /\ pending' = q.pending
  /\ dropped' = q.dropped
  /\ lost' = q.lost

-----------------------------------------------------------------------------

Init ==
  /\ coalesces \in BOOLEAN
  /\ items = <<>>
  /\ pending = NoItem
  /\ dropped = 0
  /\ closed = FALSE
  /\ ready = FALSE
  /\ reader = "asking"
  /\ given = <<>>
  /\ sent = <<>>
  /\ lost = 0
  /\ told = 0

(* _enqueue sets _ready when it has added an item.                          *)
(* Mutation used by the runs: deltas are added without setting it.          *)
Added_ByEvent(q) == q.items # items /\ ~ IsDelta(Last(q.items))
Added(q) == q.items # items

PutEvent ==
  LET q == Enqueue(FlushPending(Fields), Item("event", "none", Numbers(1)))
  IN  /\ ~ closed
      /\ Len(sent) < MaxSent /\ lost < MaxLost
      /\ sent' = Append(sent, "event")
      /\ Becomes(q)
      /\ ready' = (ready \/ Added(q))
      /\ UNCHANGED <<coalesces, closed, reader, given, told>>

PutDelta(key, n) ==
  LET q == IF n = 0 THEN PutEmpty(Fields, key) ELSE PutText(Fields, key, Numbers(n))
  IN  /\ ~ closed
      /\ Len(sent) + n <= MaxSent /\ lost < MaxLost
      /\ sent' = sent \o [i \in 1 .. n |-> "delta"]
      /\ Becomes(q)
      /\ ready' = (ready \/ Added(q))
      /\ UNCHANGED <<coalesces, closed, reader, given, told>>

TimerFires ==
  LET q == FlushPending(Fields)
  IN  /\ pending # NoItem
      /\ Becomes(q)
      /\ ready' = (ready \/ Added(q))
      /\ UNCHANGED <<coalesces, closed, reader, given, sent, told>>

Close ==
  LET q == FlushPending(Fields)
  IN  /\ ~ closed
      /\ closed' = TRUE
      /\ Becomes(q)
      /\ ready' = TRUE
      /\ UNCHANGED <<coalesces, reader, given, sent, told>>

(* get(), up to its answer or its wait.                                    *)
GetItem ==
  /\ reader = "asking"
  /\ items # <<>>
  /\ items' = Tail(items)
  /\ given' = Head(items).text
  /\ told' = told + Head(items).count
  /\ ready' = (ready /\ Tail(items) # <<>>)
  /\ UNCHANGED <<coalesces, pending, dropped, closed, reader, sent, lost>>

GetNothing ==
  /\ reader = "asking"
  /\ items = <<>>
  /\ reader' = IF closed THEN "ended" ELSE "waiting"
  /\ ready' = (ready /\ closed)
  /\ UNCHANGED <<coalesces, buffers, closed, given, sent, lost, told>>

Wakes ==
  /\ reader = "waiting"
  /\ ready
  /\ reader' = "asking"
  /\ UNCHANGED <<coalesces, buffers, closed, ready, given, sent, lost, told>>

Get == GetItem \/ GetNothing \/ Wakes
Next ==
  \/ PutEvent \/ (\E key \in Keys, n \in 0 .. MaxText : PutDelta(key, n))
  \/ TimerFires \/ Close \/ Get

Spec == Init /\ [][Next]_vars

(* The event loop runs what is ready: the timer and the reader.             *)
FairSpec == Spec /\ WF_vars(TimerFires) /\ WF_vars(Get)

-----------------------------------------------------------------------------

Items == [type : {"delta", "event"}, key : Keys \cup {"none"}, text : Seq(Nat), count : Nat]
Pendings == [type : {"delta"}, key : Keys, text : Seq(Nat), count : {0}]

(* Every variable has its type, and no delta is longer than allowed.       *)
TypeOK ==
  /\ coalesces \in BOOLEAN
  /\ items \in Seq(Items)
  /\ pending \in Pendings \cup {NoItem}
  /\ dropped \in Nat
  /\ closed \in BOOLEAN
  /\ ready \in BOOLEAN
  /\ reader \in {"asking", "waiting", "ended"}
  /\ sent \in Seq({"event", "delta"})
  /\ given \in Seq(Nat)
  /\ lost \in Nat
  /\ told \in Nat
  /\ \A i \in DOMAIN items : Len(items[i].text) <= MaxDeltaChars
  /\ Len(pending.text) <= MaxDeltaChars

(* The limit gives way only to structural events: a queue longer than      *)
(* MaxItems holds no delta, for _enqueue evicts them first.                *)
LimitHolds ==
  Len(items) > MaxItems => \A i \in DOMAIN items : ~ IsDelta(items[i])

(* A delta is dropped only by a queue that is full: text is whole as long   *)
(* as the reader keeps up (_enqueue; README.md promises whole text).       *)
DropsOnlyAtTheLimit == [][lost' # lost => Len(items') >= MaxItems]_vars

(* No loss is silent and none is told twice: the counts given, queued and  *)
(* still to be told never exceed what was lost, and are not all zero.      *)
(* (An evicted delta takes along a count it carried.)                      *)
Counts(queued) ==
  LET upTo[n \in Nat] ==
        IF n = 0 THEN 0
        ELSE upTo[n - 1] + IF n \in DOMAIN queued THEN queued[n].count ELSE 0
  IN  upTo
CountsIn(queued) == Counts(queued)[Len(queued)]
LossesAreTold ==
  LET known == told + CountsIn(items) + dropped
  IN  known <= lost /\ (lost > 0 => known > 0)

(* No wake-up is lost: a reader waits only while there is nothing to give  *)
(* it, or _ready is already set (get, _enqueue, close).                    *)
WaiterIsWoken == reader = "waiting" => ready \/ (items = <<>> /\ ~ closed)

(* What is queued, then held back, is in the order it was put, each number  *)
(* once and of its item's kind: joining, cutting and flushing reorder or   *)
(* mix up nothing.  Nothing is held back by a closed queue.                *)
Rising(text) == \A j, k \in DOMAIN text : j < k => text[j] < text[k]
Whole(item, kinds) ==
  /\ Rising(item.text)
  /\ \A k \in DOMAIN item.text :
       item.text[k] \in 1 .. Len(kinds) /\ kinds[item.text[k]] = item.type
Precedes(a, b) == \A j \in DOMAIN a.text, k \in DOMAIN b.text : a.text[j] < b.text[k]
InOrder ==
  /\ \A i \in DOMAIN items : Whole(items[i], sent) /\ Precedes(items[i], pending)
  /\ \A i, j \in DOMAIN items : i < j => Precedes(items[i], items[j])
  /\ Whole(pending, sent)
  /\ closed => pending = NoItem

(* What holds of the queue in every state.                                 *)
QueueInv == TypeOK /\ LimitHolds /\ LossesAreTold /\ WaiterIsWoken /\ InOrder

(* What is put is read or dropped, without the queue being closed: the     *)
(* timer passes on the last delta of a block and the reader takes it.  A   *)
(* closed queue gives all it holds and then tells its reader the end.      *)
OnItsWay(n) == \E item \in ToSet(items) \cup {pending} : n \in ToSet(item.text)
NothingIsStuck ==
  /\ \A n \in 1 .. MaxSent : OnItsWay(n) ~> ~ OnItsWay(n)
  /\ closed ~> (reader = "ended" /\ items = <<>>)

(* The queue is a FIFO that loses deltas only: nothing is reordered or     *)
(* given twice, and no structural event is lost, across flushes by timer,  *)
(* by size, by another block, by an event and by close.                    *)
Carried(q) ==
  (UNION {ToSet(q.items[i].text) : i \in DOMAIN q.items}) \cup ToSet(q.pending.text)
Contract == INSTANCE LossyFifo WITH
  waiting <- Carried(Fields),
  ended <- reader = "ended"
MeetsContract == Contract!FifoSpec
=============================================================================
