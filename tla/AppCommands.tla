---------------------------- MODULE AppCommands ----------------------------
(***************************************************************************)
(* The rows of Changes.tla for the commands on apps, projects and what     *)
(* belongs to them. A definition that is a word and not a row is a lookup  *)
(* or a question several commands share.                                   *)
(***************************************************************************)
EXTENDS CommandRows

(* Access: the lists sent are computed from the lists read, and the        *)
(* question depends on a preview whose failure is passed over.             *)
FetchAppAccess == "unique"
AccessBase == "read"
AccessQuestion == "losing"

AppAccess ==
  [PlainTold EXCEPT !.look = FetchAppAccess, !.base = AccessBase, !.confirm = AccessQuestion]

(* The rule is taken away, whatever was read: also what others added. *)
AppAccessClear == [AppAccess EXCEPT !.base = "whole"]

(* Placement and projects. *)
ResolveProjectSelector == "unique"
AppMove == [PlainFailed EXCEPT !.look = "unique", !.same = "after"]
ProjectRename ==
  [PlainFailed EXCEPT !.look = ResolveProjectSelector, !.sends = "id", !.same = "after"]
(* A plausible slip: the slug is sent, not the id it was resolved to. *)
ProjectDeleteBySlug ==
  [PlainFailed EXCEPT !.look = ResolveProjectSelector, !.confirm = "flag", !.does = "delete"]
ProjectDelete ==
  [PlainFailed EXCEPT !.look = ResolveProjectSelector, !.sends = "id", !.confirm = "flag",
                !.does = "delete"]

AppExpiryExtend == PlainFailed
AppExpiryClear == [PlainFailed EXCEPT !.confirm = "asks"]

(* Deployments. The rollback goes on unasked where it may not ask. *)
AppDeploy == [PlainTold EXCEPT !.does = "make"]
FindRunningDeployment == "first"
AppRollback ==
  [PlainTold EXCEPT !.look = FindRunningDeployment, !.sends = "id", !.confirm = "asks",
                !.alone = "proceed", !.does = "make"]
AppPromote == AppDeploy
AppReprovision == AppDeploy
AppDeregister ==
  [PlainTold EXCEPT !.look = "unique", !.confirm = "flag", !.pins = "label", !.does = "delete"]

(* Sources and builds. *)
(* A plausible slip: the settings are sent back whole, as they were read. *)
BuildModeInputWhole == "read"
BuildModeInput == "server"
AppSetBuildMode == [PlainTold EXCEPT !.look = "unique", !.sends = "id", !.base = BuildModeInput]
AppSetSource == [PlainFailed EXCEPT !.look = "unique", !.sends = "id", !.pins = "version"]
AppSetBuildContext == [AppSetSource EXCEPT !.same = "skip"]

(* Secrets, services, domains, environments. *)
AppSecretCreate == Plain
AppSecretDelete == [Plain EXCEPT !.confirm = "asks", !.does = "delete"]
AppServicesMatch ==
  [PlainTold EXCEPT !.look = "unique", !.confirm = "asks", !.pins = "version", !.same = "skip"]
FetchAppOwnedService == "given"
AppServicesReprovision ==
  [Plain EXCEPT !.look = FetchAppOwnedService, !.sends = "id", !.does = "make"]
AppServicesReprovisionAt == [AppServicesReprovision EXCEPT !.pins = "version"]
AppDomainPause == [PlainFailed EXCEPT !.look = "first", !.sends = "id"]
ManagedDomainInput == "id"
ManagedDomainUpdate == [PlainTold EXCEPT !.look = "given", !.sends = ManagedDomainInput]
(* The settings of its DNS driver are replaced by those of a file. *)
ManagedDomainUpdateConfig == [ManagedDomainUpdate EXCEPT !.base = "whole"]
ManagedDomainCreate == [PlainTold EXCEPT !.does = "make"]
ManagedDomainVerify == PlainTold
AppEnvironmentCreate == [PlainFailed EXCEPT !.does = "make"]

(* Previews: listed, picked, and then read again by id. *)
ResolvePreview == "unique"
LoadReviewedPreview == ResolvePreview
AppPreviewTeardown ==
  [Plain EXCEPT !.look = LoadReviewedPreview, !.sends = "id", !.confirm = "asks",
                !.does = "delete"]
AppPreviewPin == [PlainTold EXCEPT !.look = LoadReviewedPreview, !.sends = "id"]
AppPreviewUnpin == [AppPreviewPin EXCEPT !.same = "after"]

(* Task runs: a request id may be given and is sent along. *)
AppTaskRun == [PlainFailed EXCEPT !.does = "make"]
AppTaskRunKeyed == [AppTaskRun EXCEPT !.key = "given"]

(* The staged manifest. *)
LookupAppID == "unique"
ConfirmManifestAction == [confirm |-> "asks", alone |-> "refuse"]
AppManifestPush ==
  [PlainFailed EXCEPT !.look = LookupAppID, !.sends = "id", !.does = "make",
                !.confirm = ConfirmManifestAction.confirm, !.alone = ConfirmManifestAction.alone]
(* What is staged is replaced by what the repository holds. *)
AppManifestPull == [AppManifestPush EXCEPT !.does = "set", !.base = "whole"]

(* Registration, under a project given by id. *)
AppRegister == [Plain EXCEPT !.look = "given", !.sends = "id", !.does = "make"]

(* Actions on one environment: the review kept in a file is compared with  *)
(* what the selectors denote now, and its versions are sent along.         *)
LoadEnvironmentReview == "version"
EnvironmentSelectorIDs == "review"
EnvironmentRestart ==
  [PlainTold EXCEPT !.look = EnvironmentSelectorIDs, !.sends = "id", !.confirm = "asks",
                !.pins = LoadEnvironmentReview, !.does = "make", !.checks = TRUE]
EnvironmentScale == [EnvironmentRestart EXCEPT !.does = "set"]
=============================================================================
