--------------------------- MODULE MCWorkflowRun ---------------------------
(* Constants for the runs of WorkflowRun.                                  *)
EXTENDS WorkflowRun, TLC

CONSTANTS c1, c2, c3, o1, o2

(* One call for one owner, two for another.                                *)
OwnerOf == (c1 :> o1) @@ (c2 :> o2) @@ (c3 :> o2)
=============================================================================
