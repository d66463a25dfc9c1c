-------------------------- MODULE WorkflowCommands --------------------------
(***************************************************************************)
(* The rows of Changes.tla for the commands on workflow definitions, on    *)
(* configured workflows and their schedules. Runs of a workflow, gates and *)
(* the run-manifest chain have modules of their own.                       *)
(***************************************************************************)
EXTENDS CommandRows

(* Definitions are addressed by slug. *)
DefinitionClone == [Plain EXCEPT !.does = "make"]
DefinitionImport == DefinitionClone
(* With --replace the definition of the manifest's slug is overwritten. *)
DefinitionImportReplace == [Plain EXCEPT !.base = "whole"]
DefinitionEnable == Plain
DefinitionDelete == [Plain EXCEPT !.confirm = "flag", !.does = "delete"]

(* Configured workflows: run by slug through the id, created without an    *)
(* identity of the request's own.                                          *)
ResolveConfiguredWorkflow == "unique"
WorkflowRunConfig ==
  [Plain EXCEPT !.look = ResolveConfiguredWorkflow, !.sends = "id", !.does = "make"]
WorkflowCreateVariables == "make"
WorkflowCreate == [PlainPartial EXCEPT !.does = WorkflowCreateVariables]

(* A receipt must carry the id that was sent; by slug there is none. *)
ValidateWorkflowConfiguration == TRUE
WorkflowUpdateVariables == "id"
WorkflowUpdate ==
  [PlainPartial EXCEPT !.look = "given", !.sends = WorkflowUpdateVariables,
                !.checks = ValidateWorkflowConfiguration]
WorkflowDeleteTarget == [id |-> "given", slug |-> "none"]
WorkflowDelete ==
  [PlainPartial EXCEPT !.look = WorkflowDeleteTarget.slug, !.confirm = "flag", !.does = "delete"]
WorkflowDeleteById ==
  [WorkflowDelete EXCEPT !.look = WorkflowDeleteTarget.id, !.sends = "id",
                         !.checks = ValidateWorkflowConfiguration]

(* A reconcile repeats the version, and whether it was to be active, as    *)
(* they were reviewed.                                                     *)
WorkflowScheduleReview == "version"
WorkflowReconcile ==
  [PlainPartial EXCEPT !.look = "given", !.sends = "id", !.pins = WorkflowScheduleReview,
                !.checks = ValidateWorkflowConfiguration]
=============================================================================
