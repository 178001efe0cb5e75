---------------------------- MODULE BoundedCall ----------------------------
(***************************************************************************)
(* What a caller is promised of work done under a deadline by somebody it  *)
(* cannot trust to stop: the answer is what the work produced, or there is *)
(* a reason why it is not, and once the deadline has passed there is an    *)
(* answer, whatever the work does.                                         *)
(***************************************************************************)
CONSTANTS Results, None

VARIABLES
  result,     \* what the work has produced, or None
  expired,    \* the deadline has passed
  calledOff,  \* the caller has asked for the work to be called off
  gone,       \* whoever does the work can report nothing any more
  answer      \* what the caller was told, or None

callVars == <<result, expired, calledOff, gone, answer>>

CallInit ==
  /\ result = None
  /\ expired \in BOOLEAN
  /\ calledOff = FALSE
  /\ gone = FALSE
  /\ answer = None

Produce ==
  /\ result = None /\ ~ gone
  /\ result' \in Results
  /\ UNCHANGED <<expired, calledOff, gone, answer>>

Expire ==
  /\ expired' = TRUE
  /\ UNCHANGED <<result, calledOff, gone, answer>>

CallOff ==
  /\ answer = None
  /\ calledOff' = TRUE
  /\ UNCHANGED <<result, expired, gone, answer>>

Vanish ==
  /\ gone' = TRUE
  /\ UNCHANGED <<result, expired, calledOff, answer>>

Tell(a) ==
  /\ answer = None
  /\ answer' = a
  /\ UNCHANGED <<result, expired, calledOff, gone>>

TellResult == result # None /\ Tell(result)
TellTimeout == expired /\ Tell("timeout")
TellCancelled == calledOff /\ Tell("cancelled")
TellLost == gone /\ \E a \in {"lost", "broken"} : Tell(a)

CallNext ==
  \/ Produce \/ Expire \/ CallOff \/ Vanish
  \/ TellResult \/ TellTimeout \/ TellCancelled \/ TellLost

CallSpec == CallInit /\ [][CallNext]_callVars
=============================================================================
