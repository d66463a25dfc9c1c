----------------------------- MODULE MCChanges -----------------------------
(* Every command of the four tables, on two objects that may share a name. *)
EXTENDS Changes, AppCommands, AgentCommands, WorkflowCommands, AdminCommands, TLC

AllCommands ==
  { AppAccess, AppAccessClear, AppMove, ProjectRename, ProjectDelete, AppExpiryExtend, AppExpiryClear,
    AppDeploy, AppRollback, AppPromote, AppReprovision, AppDeregister, AppSetBuildMode,
    AppSetSource, AppSetBuildContext, AppSecretCreate, AppSecretDelete, AppServicesMatch,
    AppServicesReprovision, AppServicesReprovisionAt, AppDomainPause, ManagedDomainUpdate,
    ManagedDomainUpdateConfig, ManagedDomainCreate, ManagedDomainVerify, AppEnvironmentCreate, AppPreviewTeardown,
    AppPreviewPin, AppPreviewUnpin, AppTaskRun, AppTaskRunKeyed, AppManifestPush,
    AppManifestPull, AppRegister, EnvironmentRestart, EnvironmentScale,
    CallbacksConfigure, CallbackSecretSet, CallbackRedeliver, EnvSpecUpsert, EnvSpecRm,
    AgentSecretSet, AgentSecretRm, QuarantineClear, AgentRegisterRepo, AgentDispatch,
    AgentDispatchWithSpec, AgentSend, AgentSendKeyed, AgentCancel, InboxReply,
    InboxReplyAgain, BoxEnsure, BoxRm,
    DefinitionClone, DefinitionImport, DefinitionImportReplace, DefinitionEnable, DefinitionDelete,
    WorkflowRunConfig, WorkflowCreate, WorkflowUpdate, WorkflowDelete, WorkflowDeleteById,
    WorkflowReconcile,
    RoleCreate, RoleUpdate, RoleUpdatePermissions, RoleGrant, RoleGrantScope,
    RoleGrantMember, RoleRevoke, TeamCreate, ProjectCreate, ScmDisconnect, ResourceAdd,
    ResourceAddCluster, ResourceUpdate, ResourceReprovision, ResourceAttach,
    ResourceDetach, ResourceRemove, BrainSubstrate, BrainCreate, BrainCreateTeam,
    BrainCreateConnection, BrainHostApp, BrainShare, BrainShareAgent, BrainUnshare,
    BrainUnshareAgent, BrainRebuild, BrainDelete, ClusterDeployAgent,
    ZentinelleClusterVerb, ZentinelleUnregister, ZentinelleConnect, ZentinelleGatewayURL,
    ZentinelleDisconnect, AuthUserCreate, AuthUserSetPassword, AuthUserRef,
    AuthUserDelete, AuthUserGroups, AuthGroupCreate, SkillImport, SkillRepoRegister,
    SkillRepoUpdate, SkillRepoRemove }

Replacements ==
  { AppAccessClear, ManagedDomainUpdateConfig, AppManifestPull, CallbacksConfigure,
    EnvSpecUpsert, DefinitionImportReplace, RoleUpdatePermissions }

Recomputations == {AppAccess, BrainSubstrate}

Either == Permutations(Objects)

(* What the steps to come and the properties tell apart: an answer is read *)
(* by the run that waits for it alone, the flags before the request only.  *)
Seen ==
  <<row, things, turns, card, run, pc, seen, said, aims, requests, effects,
    IF pc = "sent" THEN receipts[run] ELSE "none",
    IF pc \in {"begun", "read"} THEN <<yes, prompts>> ELSE <<>> >>
=============================================================================
