----------------------------- MODULE LossyFifo -----------------------------
(***************************************************************************)
(* What a progress queue promises between the code that reports progress   *)
(* and the one reader behind it: everything arrives in the order it was    *)
(* put, nothing twice; a delta's text may be lost, a structural event may  *)
(* not; and the reader is told of the end only when nothing is left.       *)
(*                                                                         *)
(* What is put is numbered: an event is one unit, a delta is one for each   *)
(* piece of its text.                                                      *)
(***************************************************************************)
EXTENDS Naturals, Sequences, SequencesExt

VARIABLES
  sent,     \* the kinds of the units put so far
  waiting,  \* numbers of the units on their way
  given,    \* those the reader has been given last, in the order it reads them
  closed,   \* no more will be put
  ended     \* the reader has been told so

fifoVars == <<sent, waiting, given, closed, ended>>

Kinds == {"event", "delta"}

FifoInit ==
  /\ sent = <<>>
  /\ waiting = {}
  /\ given = <<>>
  /\ closed = FALSE
  /\ ended = FALSE

(* What of all is still on its way afterwards.                              *)
KeepsEvents(all) ==
  /\ waiting' \subseteq all
  /\ \A n \in all \ waiting' : sent'[n] = "delta"

Put(kind) ==
  /\ ~ closed
  /\ \E n \in IF kind = "event" THEN {1} ELSE 0 .. Len(sent') - Len(sent) :
       sent' = sent \o [i \in 1 .. n |-> kind]
  /\ KeepsEvents(waiting \cup (Len(sent) + 1 .. Len(sent')))
  /\ UNCHANGED <<given, closed, ended>>

(* A delta that was held back may find no room.                            *)
Lose ==
  /\ ~ closed
  /\ KeepsEvents(waiting)
  /\ UNCHANGED <<sent, given, closed, ended>>

Shut ==
  /\ ~ closed
  /\ closed' = TRUE
  /\ KeepsEvents(waiting)
  /\ UNCHANGED <<sent, given, ended>>

Rising(text) == \A j, k \in DOMAIN text : j < k => text[j] < text[k]

(* Nothing that is left comes before what is given.                        *)
Take ==
  /\ Rising(given')
  /\ ToSet(given') \subseteq waiting
  /\ waiting' = waiting \ ToSet(given')
  /\ \A n \in ToSet(given'), m \in waiting' : n < m
  /\ UNCHANGED <<sent, closed, ended>>

TellEnd ==
  /\ closed
  /\ waiting = {}
  /\ ~ ended
  /\ ended' = TRUE
  /\ UNCHANGED <<sent, waiting, given, closed>>

FifoNext == (\E kind \in Kinds : Put(kind)) \/ Lose \/ Shut \/ Take \/ TellEnd

FifoSpec == FifoInit /\ [][FifoNext]_fifoVars
=============================================================================
