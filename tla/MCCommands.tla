---------------------------- MODULE MCCommands ----------------------------
(***************************************************************************)
(* Small instances of the commands that print or change things in several  *)
(* steps: LogFollow, TaskTail and InboxFollow; Setup, Bootstrap, HumanGate *)
(* and PlanDag. A behaviour is one of one of them; the variables of the    *)
(* others are unused.                                                      *)
(***************************************************************************)
EXTENDS HumanGate, TLC

CONSTANTS
  NoLine, Window, LogTail, LogOverlap, LogPage, LogPages, MaxTime, LogLines, \* LogFollow
  Lines, TaskTailed, TaskLines,                                     \* TaskTail
  InboxPage, InboxPages, MaxSeen, MaxRetries, MaxMessages,          \* InboxFollow
  MaxTurns,                                                         \* Setup
  NoRelease, MaxRevision,                                           \* Bootstrap
  Stories, Groups, NoSuch, MaxDeps                                  \* PlanDag

VARIABLES
  command,      \* which of the machines
  pc, printed, pages, exit, status, read,
  clock, written, stored, follow, since, until, cursor, batch, lastUntil,
  seen, begun, watching, capped,
  log, dispatch, previous, gap,
  inbox, after, fresh, failures, behind, there,
  row, wanted, force, things, run, at, plan, late, applied, outcome, turns,
  before,
  namespace, release, badge, options, temp, found, result, advice, killed,
  deployed,
  parent, dependsOn, labelled, sent

onlyLogs ==
  <<clock, written, stored, follow, since, until, cursor, batch, lastUntil,
    seen, begun, watching, capped>>
onlyTask ==
  <<log, dispatch, previous, gap>>
onlyInbox ==
  <<inbox, after, fresh, failures, behind, there>>
onlySetup ==
  <<row, wanted, force, things, run, at, plan, late, applied, outcome,
    turns, before>>
onlyBootstrap ==
  <<namespace, release, badge, options, temp, found, result, advice, killed,
    deployed>>
onlyGate ==
  <<current, admitted, recorded, closed, calls, inFlight, answers>>
onlyPlan ==
  <<parent, dependsOn, labelled, sent>>
MCvars ==
  <<command, pc, printed, pages, exit, status, read,
    onlyLogs, onlyTask, onlyInbox, onlySetup, onlyBootstrap, onlyGate,
    onlyPlan>>

Logs ==
  INSTANCE LogFollow WITH TailSize <- LogTail, PageSize <- LogPage, MaxPages <- LogPages,
    Overlap <- LogOverlap, MaxLines <- LogLines
Task == INSTANCE TaskTail WITH TailSize <- TaskTailed, MaxLines <- TaskLines
Inbox == INSTANCE InboxFollow WITH PageSize <- InboxPage, MaxPages <- InboxPages
Steps == INSTANCE Setup
Helm == INSTANCE Bootstrap WITH Operators <- People
Dag == INSTANCE PlanDag WITH Unknown <- NoSuch

ASSUME SizesAssumption ==
  /\ Logs!Sizes /\ Logs!Times /\ Logs!CursorAssumption
  /\ Task!TailAssumption /\ Inbox!SizesAssumption
  /\ Steps!SetupBounds /\ Helm!RevisionsAssumption /\ Dag!PlanAssumption

-----------------------------------------------------------------------------
Off == "unused"
NoLogs ==
  /\ clock = Off /\ written = Off /\ stored = Off /\ follow = Off /\ since = Off
  /\ until = Off /\ cursor = Off /\ batch = Off /\ lastUntil = Off /\ seen = Off
  /\ begun = Off /\ watching = Off /\ capped = Off
NoTask ==
  /\ log = Off /\ dispatch = Off /\ previous = Off /\ gap = Off
NoInbox ==
  /\ inbox = Off /\ after = Off /\ fresh = Off /\ failures = Off /\ behind = Off
  /\ there = Off
NoSetup ==
  /\ row = Off /\ wanted = Off /\ force = Off /\ things = Off /\ run = Off
  /\ at = Off /\ plan = Off /\ late = Off /\ applied = Off /\ outcome = Off
  /\ turns = Off /\ before = Off
NoBootstrap ==
  /\ namespace = Off /\ release = Off /\ badge = Off /\ options = Off /\ temp = Off
  /\ found = Off /\ result = Off /\ advice = Off /\ killed = Off /\ deployed = Off
NoGate ==
  /\ current = Off /\ admitted = Off /\ recorded = Off /\ closed = Off /\ calls = Off
  /\ inFlight = Off /\ answers = Off
NoPlan ==
  /\ parent = Off /\ dependsOn = Off /\ labelled = Off /\ sent = Off

(* All machines but one are off, and what only they use is. *)
OnlyLogs ==
  /\ NoTask /\ NoInbox /\ NoSetup /\ NoBootstrap /\ NoGate /\ NoPlan
  /\ exit = Off /\ status = Off /\ read = Off
OnlyTask ==
  /\ NoLogs /\ NoInbox /\ NoSetup /\ NoBootstrap /\ NoGate /\ NoPlan
  /\ pages = Off
OnlyInbox ==
  /\ NoLogs /\ NoTask /\ NoSetup /\ NoBootstrap /\ NoGate /\ NoPlan
  /\ status = Off /\ read = Off
OnlySetup ==
  /\ NoLogs /\ NoTask /\ NoInbox /\ NoBootstrap /\ NoGate /\ NoPlan
  /\ printed = Off /\ pages = Off /\ exit = Off /\ status = Off /\ read = Off
OnlyBootstrap ==
  /\ NoLogs /\ NoTask /\ NoInbox /\ NoSetup /\ NoGate /\ NoPlan
  /\ printed = Off /\ pages = Off /\ exit = Off /\ status = Off /\ read = Off
OnlyGate ==
  /\ NoLogs /\ NoTask /\ NoInbox /\ NoSetup /\ NoBootstrap /\ NoPlan
  /\ pc = Off /\ printed = Off /\ pages = Off /\ exit = Off /\ status = Off /\ read = Off
OnlyPlan ==
  /\ NoLogs /\ NoTask /\ NoInbox /\ NoSetup /\ NoBootstrap /\ NoGate
  /\ pc = Off /\ printed = Off /\ pages = Off /\ exit = Off

MCInit ==
  \/ command = "app logs" /\ Logs!Init /\ OnlyLogs
  \/ command = "task logs" /\ Task!Init /\ OnlyTask
  \/ command = "inbox" /\ Inbox!Init /\ OnlyInbox
  \/ command = "setup" /\ Steps!Init /\ OnlySetup
  \/ command = "bootstrap" /\ Helm!Init /\ OnlyBootstrap
  \/ command = "gate" /\ Init /\ OnlyGate
  \/ command = "plan" /\ Dag!Init /\ OnlyPlan

FollowLogs ==
  /\ command = "app logs" /\ Logs!Next
  /\ UNCHANGED <<command, exit, status, read, onlyTask, onlyInbox,
                 onlySetup, onlyBootstrap, onlyGate, onlyPlan>>
FollowTask ==
  /\ command = "task logs" /\ Task!Next
  /\ UNCHANGED <<command, pages, onlyLogs, onlyInbox, onlySetup,
                 onlyBootstrap, onlyGate, onlyPlan>>
FollowInbox ==
  /\ command = "inbox" /\ Inbox!Next
  /\ UNCHANGED <<command, status, read, onlyLogs, onlyTask, onlySetup,
                 onlyBootstrap, onlyGate, onlyPlan>>
SettingUp ==
  /\ command = "setup" /\ Steps!Next
  /\ UNCHANGED <<command, printed, pages, exit, status, read, onlyLogs,
                 onlyTask, onlyInbox, onlyBootstrap, onlyGate, onlyPlan>>
Bootstrapping ==
  /\ command = "bootstrap" /\ Helm!Next
  /\ UNCHANGED <<command, printed, pages, exit, status, read, onlyLogs,
                 onlyTask, onlyInbox, onlySetup, onlyGate, onlyPlan>>
Deciding ==
  /\ command = "gate" /\ Next
  /\ UNCHANGED <<command, pc, printed, pages, exit, status, read, onlyLogs,
                 onlyTask, onlyInbox, onlySetup, onlyBootstrap, onlyPlan>>
Planning ==
  /\ command = "plan" /\ Dag!Next
  /\ UNCHANGED <<command, pc, printed, pages, exit, onlyLogs, onlyTask,
                 onlyInbox, onlySetup, onlyBootstrap, onlyGate>>

MCNext ==
  \/ FollowLogs
  \/ FollowTask
  \/ FollowInbox
  \/ SettingUp
  \/ Bootstrapping
  \/ Deciding
  \/ Planning

MCSpec == MCInit /\ [][MCNext]_MCvars

(* Nothing tells one person, or one note of a decision, from another. *)
Symmetry == Permutations(People) \cup Permutations(Notes)

-----------------------------------------------------------------------------
(* `app logs --follow` prints no line twice, and misses none between two   *)
(* polls: LogFollow!PrintedOnce and NoneMissed.                            *)
LogsWhole == command = "app logs" => Logs!PrintedOnce /\ Logs!NoneMissed

(* The output of an agent task is printed once and without a hole:         *)
(* TaskTail!NothingTwice and NothingBetween.                               *)
TaskWhole == command = "task logs" => Task!NothingTwice /\ Task!NothingBetween

(* Messages of an inbox are printed in their order, and each that is there *)
(* is: InboxFollow!PrintedInOrder and NoneMissed.                          *)
InboxWhole == command = "inbox" => Inbox!PrintedInOrder /\ Inbox!NoneMissed

(* Changes are made in their order, a success means all of them, and files *)
(* of others are left alone: Setup!InOrder, DoneMeansAll and               *)
(* NothingClobbered.                                                       *)
DoneMeansAll ==
  command = "setup" => Steps!InOrder /\ Steps!DoneMeansAll /\ Steps!NothingClobbered

(* A release stays usable, advice leads out of a failure, and a run leaves *)
(* no trace: Bootstrap!NoWedge, AdviceLeadsOut and NoTrace.                *)
NoWedge == command = "bootstrap" => Helm!NoWedge /\ Helm!AdviceLeadsOut /\ Helm!NoTrace

(* A decision that is confirmed has decided the gate:                      *)
(* HumanGate!ConfirmedIsAdmitted.                                          *)
GateConfirmed == command = "gate" => ConfirmedIsAdmitted

(* Stories are dispatched in the order of the plan, which can be worked    *)
(* off: PlanDag!InDependencyOrder and NeverStuck.                          *)
PlanInOrder == command = "plan" => Dag!InDependencyOrder /\ Dag!NeverStuck
=============================================================================
