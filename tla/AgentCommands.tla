--------------------------- MODULE AgentCommands ---------------------------
(***************************************************************************)
(* The rows of Changes.tla for the commands on agents: their tasks, inbox, *)
(* boxes, callbacks, environment specs and secrets.                        *)
(***************************************************************************)
EXTENDS CommandRows

(* Callbacks. The list of allowed hosts is replaced whole, and nothing of  *)
(* it was read: what others added is lost.                                 *)
CallbacksConfigure == [PlainTold EXCEPT !.base = "whole"]
(* Every failure to store it is told in the same words, not to show it. *)
CallbackSecretSet == [Plain EXCEPT !.bare = "mute"]
CallbackRedeliver == [PlainTold EXCEPT !.look = "given", !.sends = "id", !.does = "make"]

(* Environment specs. One that exists is overwritten with every flag, the  *)
(* defaults of those not given too; it is removed without a question.      *)
EnvSpecUpsert == [Plain EXCEPT !.look = "unique", !.base = "whole"]
EnvSpecRm == [Plain EXCEPT !.does = "delete"]

AgentSecretSet == Plain
AgentSecretRm == [Plain EXCEPT !.does = "delete"]

QuarantineClear == [Plain EXCEPT !.look = "given", !.sends = "id", !.does = "delete"]
AgentRegisterRepo == [PlainTold EXCEPT !.look = "given", !.sends = "id", !.does = "make"]

(* Dispatch carries no request id: run again, it starts another task. *)
ResolveEnvSpecID == "unique"
AgentDispatch == [PlainTold EXCEPT !.does = "make"]
AgentDispatchWithSpec == [AgentDispatch EXCEPT !.look = ResolveEnvSpecID, !.sends = "id"]

(* Input to a task, with or without a request id. *)
AgentSend == [PlainTold EXCEPT !.look = "given", !.sends = "id", !.does = "make"]
AgentSendKeyed == [AgentSend EXCEPT !.key = "given"]
AgentCancel ==
  [Plain EXCEPT !.look = "given", !.sends = "id", !.confirm = "asks", !.alone = "proceed"]

(* Replies. The request id is printed before anything is sent, to be given *)
(* again; without one each run makes an id of its own.                     *)
InboxReplyInput == "given"
InboxReply ==
  [PlainFailed EXCEPT !.look = "given", !.sends = "id", !.does = "make", !.checks = TRUE]
InboxReplyAgain == [InboxReply EXCEPT !.key = InboxReplyInput]

(* Boxes: one per agent, spec or image, made or found by the server. *)
EnsureBox == "set"
BoxEnsure == [PlainTold EXCEPT !.does = EnsureBox]
BoxRm ==
  [Plain EXCEPT !.confirm = "asks", !.alone = "proceed", !.does = "delete"]
=============================================================================
