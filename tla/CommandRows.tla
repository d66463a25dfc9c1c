---------------------------- MODULE CommandRows ----------------------------
(***************************************************************************)
(* A command that changes one thing on the server, as far as Changes.tla   *)
(* tells commands apart: how the thing is found, what is asked, what the   *)
(* request carries and what is made of the answer.                         *)
(*                                                                         *)
(*   look     "none"    the name or id typed is sent as it is              *)
(*            "unique"  the name is resolved; none or several are refused  *)
(*            "first"   the name is resolved; one of its bearers is taken  *)
(*            "given"   the person gives the id (and version) reviewed     *)
(*            "review"  the same, and the name must still denote that id   *)
(*   sends    "name" or "id"                                               *)
(*   confirm  "no", "flag" (refused without --yes), "asks", or "losing"    *)
(*            (asks when the server's preview says somebody loses access)  *)
(*   alone    "refuse" or "proceed": an unasked question under --no-prompt *)
(*   pins     "no", "version" (refused when the version read has changed)  *)
(*            or "label" (refused when the display name read differs)      *)
(*   base     "server" (the request names the change), "read" or "whole"   *)
(*            (it carries the whole value, computed from what was read or  *)
(*            from the command line alone)                                 *)
(*   same     what becomes of a change that is already there: "no"         *)
(*            (nothing special), "skip" (not sent), "after" (sent, and     *)
(*            then reported as no change by what was read before)          *)
(*   does     "set", "delete" or "make" (a new object under the target)    *)
(*   key      "no", or "given": a request id repeated with the command     *)
(*   checks   the receipt must name the object meant                       *)
(*   bare     what is made of an ok that comes without the object: "done"  *)
(*            (success; nothing else is read), "told" (an error of its     *)
(*            own), "failed" (the failure a refusal is told as), or "mute" *)
(*            (every failure, a lost connection too, is told in one way)   *)
(*   partial  the server may save the change and answer that a later part  *)
(*            of it failed                                                 *)
(***************************************************************************)

Row ==
  [look : {"none", "unique", "first", "given", "review"}, sends : {"name", "id"},
   confirm : {"no", "flag", "asks", "losing"}, alone : {"refuse", "proceed"},
   pins : {"no", "version", "label"}, base : {"server", "read", "whole"},
   same : {"no", "skip", "after"}, does : {"set", "delete", "make"},
   key : {"no", "given"}, checks : BOOLEAN,
   bare : {"done", "told", "failed", "mute"}, partial : BOOLEAN]

Plain ==
  [look |-> "none", sends |-> "name", confirm |-> "no", alone |-> "refuse",
   pins |-> "no", base |-> "server", same |-> "no", does |-> "set",
   key |-> "no", checks |-> FALSE, bare |-> "done", partial |-> FALSE]
PlainTold == [Plain EXCEPT !.bare = "told"]
PlainFailed == [Plain EXCEPT !.bare = "failed"]
PlainPartial == [PlainTold EXCEPT !.partial = TRUE]
=============================================================================
