----------------------------- MODULE MCWorkflow -----------------------------
(* Small instances of a generation request for TLC.                        *)
EXTENDS WorkflowProperties, TLC

(* The two templates that validate are interchangeable.                    *)
TemplateSymmetry == Permutations(GoodTemplates)
=============================================================================
