----------------------------- MODULE MCPolls -----------------------------
(***************************************************************************)
(* Small instances of the commands that read something of the server until *)
(* they have it: Waits for an end, and Walks over the pages of a list. A   *)
(* behaviour is one of one of them; the variables of the other are unused. *)
(***************************************************************************)
EXTENDS Naturals

CONSTANTS
  Poll, ReadTime, Deadline, MaxTime,    \* Waits
  Size, PageSize, MaxPages, MaxTurns    \* Walks

VARIABLES
  command,      \* which of the machines
  outcome,
  wait, clock, things, bearer, pc, since, answer, settled,
  walk, live, wanted, cursor, seen, pages, got, turns, throughout, ever

onlyWaits == <<wait, clock, things, bearer, pc, since, answer, settled>>
onlyWalks == <<walk, live, wanted, cursor, seen, pages, got, turns, throughout, ever>>
vars == <<command, outcome, onlyWaits, onlyWalks>>

Wait == INSTANCE Waits
Walk == INSTANCE Walks

ASSUME PollsAssumption == Wait!TimesAssumption /\ Walk!SizesAssumption

-----------------------------------------------------------------------------
Off == "unused"
NoWaits ==
  /\ wait = Off /\ clock = Off /\ things = Off /\ bearer = Off /\ pc = Off
  /\ since = Off /\ answer = Off /\ settled = Off
NoWalks ==
  /\ walk = Off /\ live = Off /\ wanted = Off /\ cursor = Off /\ seen = Off
  /\ pages = Off /\ got = Off /\ turns = Off /\ throughout = Off /\ ever = Off

Init ==
  \/ command = "wait" /\ Wait!Init /\ NoWalks
  \/ command = "walk" /\ Walk!Init /\ NoWaits

Waiting == command = "wait" /\ Wait!Next /\ UNCHANGED <<command, onlyWalks>>
Walking == command = "walk" /\ Walk!Next /\ UNCHANGED <<command, onlyWaits>>

Next ==
  \/ Waiting
  \/ Walking

(* The fairness of the machines' own FairSpec. *)
WaitGoesOn ==
  /\ command = "wait" /\ (Wait!Command \/ Wait!Serve \/ Wait!Tick)
  /\ UNCHANGED <<command, onlyWalks>>
WalkGoesOn ==
  /\ command = "walk" /\ Walk!Command
  /\ UNCHANGED <<command, onlyWaits>>

Spec == Init /\ [][Next]_vars /\ WF_vars(WaitGoesOn) /\ WF_vars(WalkGoesOn)

-----------------------------------------------------------------------------
(* What a wait says of the end of the thing is true, and what ended in     *)
(* time is not reported as late: Waits!VerdictIsTrue and NoticedInTime.    *)
VerdictIsTrue == command = "wait" => Wait!VerdictIsTrue /\ Wait!NoticedInTime

(* Every wait ends: Waits!WaitEnds. *)
WaitEnds == command = "wait" => <>(command = "wait" /\ pc = "ended")

(* A list that is shown as complete is, with nothing twice, and one item   *)
(* found by its name is the one: Walks!CompleteOrSaysSo, NothingTwice and  *)
(* TheOneFound.                                                            *)
ListsAreWhole ==
  command = "walk" => Walk!CompleteOrSaysSo /\ Walk!NothingTwice /\ Walk!TheOneFound

(* Every walk that guards against it ends: Walks!WalkEnds. *)
WalkEnds ==
  command = "walk" /\ (walk.cap # "none" \/ walk.repeat = "refused") =>
    <>(command = "walk" /\ outcome # "none")
=============================================================================
