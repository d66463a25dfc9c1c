--------------------------- MODULE AdminCommands ---------------------------
(***************************************************************************)
(* The rows of Changes.tla for what administrators change: roles, teams,   *)
(* projects and their resources, brains, clusters, gateways, sign-in users *)
(* and skill repositories. A command that creates something under a thing  *)
(* it resolved is a row about that thing.                                  *)
(***************************************************************************)
EXTENDS CommandRows

(* Roles. A slug may name a system role and one of the organization; the   *)
(* scope of a grant may name projects of several teams. One is taken.      *)
ResolveRole == "first"
RoleCreate == [PlainFailed EXCEPT !.look = ResolveRole, !.sends = "id", !.does = "make"]
WriteRole == "set"
RoleUpdate == [PlainFailed EXCEPT !.look = ResolveRole, !.sends = "id", !.does = WriteRole]
RoleUpdatePermissions == [RoleUpdate EXCEPT !.base = "whole"]
RoleGrant ==
  [PlainFailed EXCEPT !.look = ResolveRole, !.sends = "id", !.does = "make"]
ResolveGrantScope == "first"
RoleGrantScope == [RoleGrant EXCEPT !.look = ResolveGrantScope]
ResolveMemberID == "first"
RoleGrantMember == [RoleGrant EXCEPT !.look = ResolveMemberID]
RoleRevoke ==
  [Plain EXCEPT !.look = "given", !.sends = "id", !.confirm = "flag", !.does = "delete"]

TeamCreate == [PlainFailed EXCEPT !.does = "make"]
ProjectCreate == [PlainFailed EXCEPT !.look = "first", !.sends = "id", !.does = "make"]
ScmDisconnect == [Plain EXCEPT !.look = "given", !.sends = "id", !.does = "delete"]

(* Managed resources of a project. The project and the cluster a resource  *)
(* is added to are the first of the name; a resource itself must be the    *)
(* only one, and its context revision is sent along.                       *)
ResolveProjectForResource == "first"
ResolveProjectResourceCluster == "first"
ResourceAdd ==
  [PlainFailed EXCEPT !.look = ResolveProjectForResource, !.sends = "id", !.does = "make"]
ResourceAddCluster == [ResourceAdd EXCEPT !.look = ResolveProjectResourceCluster]
ResolveProjectResourceRevision == [look |-> "unique", pins |-> "version"]
ResourceUpdate ==
  [PlainFailed EXCEPT !.look = ResolveProjectResourceRevision.look, !.sends = "id",
                !.pins = ResolveProjectResourceRevision.pins]
ResourceReprovision == [ResourceUpdate EXCEPT !.does = "make"]
ResourceAttach == [ResourceUpdate EXCEPT !.does = "make"]
ResolveProjectAttachmentResource == ResolveProjectResourceRevision.look
ResourceDetach == [ResourceUpdate EXCEPT !.look = ResolveProjectAttachmentResource]
ResourceRemove == [ResourceUpdate EXCEPT !.does = "delete"]

(* Brains. The substrate sent is the one read with the flags laid over it. *)
FetchBrain == "unique"
BrainConfirm == "asks"
BrainSubstrateInput == "read"
BrainSubstrate ==
  [PlainFailed EXCEPT !.look = FetchBrain, !.confirm = BrainConfirm, !.base = BrainSubstrateInput]
BrainCreate ==
  [PlainFailed EXCEPT !.look = ResolveProjectForResource, !.sends = "id", !.does = "make"]
ResolveBrainTeamID == "first"
BrainCreateTeam == [BrainCreate EXCEPT !.look = ResolveBrainTeamID]
ResolveBrainConnection == "unique"
BrainCreateConnection == [BrainCreate EXCEPT !.look = ResolveBrainConnection]
BrainHostApp == BrainCreate
BrainShare == [PlainFailed EXCEPT !.confirm = BrainConfirm]
BrainShareAgent == [BrainShare EXCEPT !.look = FetchBrain]
BrainUnshare == PlainFailed
BrainUnshareAgent == [BrainUnshare EXCEPT !.look = FetchBrain]
BrainRebuild == [PlainFailed EXCEPT !.does = "make"]
BrainDelete == [PlainFailed EXCEPT !.confirm = BrainConfirm, !.does = "delete"]

(* Clusters and what is changed in them: by the id of the first cluster    *)
(* of the slug among the organizations one has access to.                  *)
FetchClusterBySlug == "first"
ClusterChange == [Plain EXCEPT !.look = FetchClusterBySlug, !.sends = "id"]
ClusterDeployAgent == [ClusterChange EXCEPT !.does = "make"]
ZentinelleClusterVerb == [ClusterChange EXCEPT !.bare = "failed"]
ZentinelleUnregister == [ZentinelleClusterVerb EXCEPT !.confirm = "flag"]
ZentinelleConnect == PlainFailed
ZentinelleGatewayURL == PlainFailed
ZentinelleDisconnect == [PlainFailed EXCEPT !.confirm = "flag", !.does = "delete"]

AuthUsersClient == ClusterChange
AuthUserCreate == [AuthUsersClient EXCEPT !.does = "make"]
AuthUserSetPassword == AuthUsersClient
AuthUserRef == AuthUsersClient
AuthUserDelete == [AuthUsersClient EXCEPT !.confirm = "asks"]
AuthUserGroups == AuthUsersClient
AuthGroupCreate == [AuthUsersClient EXCEPT !.does = "make"]

SkillImport == PlainFailed
FindSkillRepo == "unique"
SkillRepoRegister == [PlainFailed EXCEPT !.does = "make"]
SkillRepoUpdate == [PlainFailed EXCEPT !.look = FindSkillRepo, !.sends = "id"]
SkillRepoRemove ==
  [SkillRepoUpdate EXCEPT !.confirm = "flag", !.does = "delete"]
=============================================================================
