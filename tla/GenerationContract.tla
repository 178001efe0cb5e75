------------------------- MODULE GenerationContract -------------------------
(***************************************************************************)
(* What a generation request promises its caller (generator.py,            *)
(* contracts.py), with rounds, tools, budgets and the clock left out.  A   *)
(* result schema is settled once and for all; templates that fit it are    *)
(* kept, each replacing the one before; the model closes the generation    *)
(* over one of them; and the one answer the caller gets is the closed pair,*)
(* a schema proposal when that is all it asked for, or a failure that      *)
(* carries no artifact.  The request may fail at any moment before that.   *)
(***************************************************************************)
CONSTANTS GoodSchemas, GoodTemplates, None

VARIABLES
  wanted,     \* "full", "schema_only" or "template_only"
  schema,     \* the frozen schema
  kept,       \* the latest template that passed validation
  closed,     \* the model has finished over it
  answer      \* what the caller got

contractVars == <<wanted, schema, kept, closed, answer>>

Nothing == [status |-> "pending", template |-> None, schema |-> None]

ContractInit ==
  /\ wanted \in {"full", "schema_only", "template_only"}
  /\ schema = None
  /\ kept = None
  /\ closed = FALSE
  /\ answer = Nothing

Pending == answer = Nothing

Freeze(s) ==
  /\ Pending
  /\ schema = None
  /\ schema' = s
  /\ UNCHANGED <<wanted, kept, closed, answer>>

Keep(t) ==
  /\ Pending
  /\ wanted # "schema_only"
  /\ schema # None
  /\ ~ closed
  /\ kept' = t
  /\ UNCHANGED <<wanted, schema, closed, answer>>

Close ==
  /\ Pending
  /\ kept # None
  /\ ~ closed
  /\ closed' = TRUE
  /\ UNCHANGED <<wanted, schema, kept, answer>>

Deliver ==
  /\ Pending
  /\ closed
  /\ answer' = [status |-> "success", template |-> kept, schema |-> schema]
  /\ UNCHANGED <<wanted, schema, kept, closed>>

Propose ==
  /\ Pending
  /\ wanted = "schema_only"
  /\ schema # None
  /\ answer' = [status |-> "success", template |-> None, schema |-> schema]
  /\ UNCHANGED <<wanted, schema, kept, closed>>

GiveUp(status) ==
  /\ Pending
  /\ answer' = [status |-> status, template |-> None, schema |-> None]
  /\ UNCHANGED <<wanted, schema, kept, closed>>

ContractNext ==
  \/ \E s \in GoodSchemas : Freeze(s)
  \/ \E t \in GoodTemplates : Keep(t)
  \/ Close \/ Deliver \/ Propose
  \/ \E status \in {"failed", "cancelled"} : GiveUp(status)

ContractSpec == ContractInit /\ [][ContractNext]_contractVars
=============================================================================
