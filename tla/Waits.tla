------------------------------- MODULE Waits -------------------------------
(***************************************************************************)
(* A command that waits until something it started has ended: it reads the *)
(* thing's state again and again, with a pause between, until a state it   *)
(* knows to be the end or its deadline. The loops of the repository differ *)
(* in where they begin and when they look at the clock:                    *)
(*                                                                         *)
(*   first    "started" (the answer that started it is looked at first),   *)
(*            "read" or "pause"                                            *)
(*   by       "id", or "name", which may come to denote something else     *)
(*   missing  "tolerated" or "fatal": a read that finds nothing            *)
(*   limit    "checked" after a read that found no end, "first" before     *)
(*            each read, or "context": the deadline cuts a read or a pause *)
(*   failure  "error", or "success": any end is a success                  *)
(*   lasting  the thing stays as it ended                                  *)
(*                                                                         *)
(* A read that fails ends the wait in every one of them.                   *)
(***************************************************************************)
EXTENDS Naturals

CONSTANTS
  Poll,         \* the interval between reads
  ReadTime,     \* the client's timeout: no read takes longer
  Deadline,     \* of the wait, from its start
  MaxTime       \* bound: the clock, past the end of every wait

TimesAssumption ==
  /\ Poll \in Nat \ {0} /\ ReadTime \in Nat /\ Deadline \in Nat
  /\ MaxTime \in Nat /\ MaxTime > Deadline + Poll + ReadTime

VARIABLES
  wait,         \* the row
  clock,        \* since the wait began
  things,       \* the state of the thing started, and of one that comes after it
  bearer,       \* which of the two the name denotes; 0: neither
  pc,           \* "look", "asked", "pause", "ended"
  since,        \* when pc became so
  answer,       \* of the last read: a state, "missing", or "none" on its way
  outcome,      \* "none", "success", "failed", "missing", "late", "error"
  settled       \* history: when the thing started had ended, or Never

Never == MaxTime + 1

world == <<things, bearer, settled>>
vars == <<wait, clock, world, pc, since, answer, outcome>>

-----------------------------------------------------------------------------
(* The loops. *)
Wait ==
  [first : {"started", "read", "pause"}, by : {"id", "name"},
   missing : {"tolerated", "fatal"}, limit : {"checked", "first", "context"},
   failure : {"error", "success"}, lasting : BOOLEAN]

WaitForDeployment ==
  [first |-> "read", by |-> "id", missing |-> "tolerated", limit |-> "context",
   failure |-> "error", lasting |-> FALSE]
WaitForReachability ==
  [first |-> "read", by |-> "name", missing |-> "fatal", limit |-> "checked",
   failure |-> "error", lasting |-> FALSE]
ShowTaskRun ==
  [first |-> "read", by |-> "id", missing |-> "fatal", limit |-> "checked",
   failure |-> "error", lasting |-> TRUE]
WaitForBrainCreation ==
  [first |-> "started", by |-> "id", missing |-> "fatal", limit |-> "context",
   failure |-> "error", lasting |-> TRUE]
WaitForBox ==
  [first |-> "started", by |-> "name", missing |-> "fatal", limit |-> "checked",
   failure |-> "error", lasting |-> FALSE]
WaitAgentTask ==
  [first |-> "pause", by |-> "id", missing |-> "tolerated", limit |-> "context",
   failure |-> "error", lasting |-> TRUE]
WatchRun ==
  [first |-> "started", by |-> "id", missing |-> "tolerated", limit |-> "context",
   failure |-> "success", lasting |-> TRUE]
PollWorkflow == [ShowTaskRun EXCEPT !.limit = "context"]
PollLoginUntil == [ShowTaskRun EXCEPT !.limit = "first"]

AllWaits ==
  {WaitForDeployment, WaitForReachability, ShowTaskRun, WaitForBrainCreation, WaitForBox,
   WaitAgentTask, WatchRun, PollWorkflow, PollLoginUntil}

-----------------------------------------------------------------------------
Goto(where) == pc' = where /\ since' = clock
(* A plausible slip: the time is taken anew at every step. *)
OverAnew == clock - since >= Deadline
Over == clock >= Deadline

End(what) ==
  /\ outcome' = what
  /\ Goto("ended")
  /\ UNCHANGED <<wait, clock, world, answer>>

(* The deadline is looked at before a read. *)
Ask ==
  /\ pc = "look" /\ ~(wait.limit = "first" /\ Over)
  /\ Goto("asked")
  /\ answer' = "none"
  /\ UNCHANGED <<wait, clock, world, outcome>>

TooLate == pc = "look" /\ wait.limit = "first" /\ Over /\ End("late")

(* The server reads the state; the answer may take its time to arrive. *)
Addressed == IF wait.by = "id" THEN 1 ELSE bearer
StateOf(n) == IF n = 0 \/ things[n] = "gone" THEN "missing" ELSE things[n]

Serve ==
  /\ pc = "asked" /\ answer = "none"
  /\ answer' = StateOf(Addressed)
  /\ UNCHANGED <<wait, clock, world, pc, since, outcome>>

(* A refusal, a timeout of the client, Ctrl-C. *)
Fail == pc = "asked" /\ End("error")

(* The context's deadline cuts a read or a pause. *)
Cut ==
  /\ wait.limit = "context" /\ Over
  /\ \/ pc = "asked" /\ End("error")
     \/ pc = "pause" /\ End("late")

-----------------------------------------------------------------------------
(* What the answer says. *)
Terminal == {"good", "bad"}
Arrived == pc = "asked" /\ answer # "none"

(* A plausible slip: every end is a success. *)
AnyEnd(state) == TRUE
Succeeded(state) == state = "good" \/ wait.failure = "success"

Verdict ==
  /\ Arrived /\ answer \in Terminal
  /\ End(IF Succeeded(answer) THEN "success" ELSE "failed")

Vanished == Arrived /\ answer = "missing" /\ wait.missing = "fatal" /\ End("missing")

Unsettled ==
  /\ Arrived
  /\ \/ answer = "pending"
     \/ answer = "missing" /\ wait.missing = "tolerated"

GiveUp == Unsettled /\ wait.limit = "checked" /\ Over /\ End("late")

Again ==
  /\ Unsettled /\ ~(wait.limit = "checked" /\ Over)
  /\ Goto("pause")
  /\ UNCHANGED <<wait, clock, world, answer, outcome>>

(* A plausible slip: the deadline is looked at when the pause ends. *)
WakeAndGiveUp ==
  /\ pc = "pause" /\ clock >= since + Poll
  /\ IF Over THEN End("late")
     ELSE Goto("look") /\ UNCHANGED <<wait, clock, world, answer, outcome>>

Wake ==
  /\ pc = "pause" /\ clock >= since + Poll
  /\ Goto("look")
  /\ UNCHANGED <<wait, clock, world, answer, outcome>>

-----------------------------------------------------------------------------
(* The thing ends; it may end another way later, or be removed, and another *)
(* may be started under its name.                                          *)
Settle ==
  /\ \E n \in 1 .. 2, s \in Terminal :
       /\ \/ things[n] = "pending"
          \/ things[n] = "good" /\ s = "bad" /\ ~wait.lasting
       /\ things' = [things EXCEPT ![n] = s]
       /\ settled' = IF n = 1 /\ settled = Never THEN clock ELSE settled
  /\ UNCHANGED <<wait, clock, bearer, pc, since, answer, outcome>>

Remove ==
  /\ \E n \in 1 .. 2 :
       /\ things[n] # "gone"
       /\ things' = [things EXCEPT ![n] = "gone"]
       /\ bearer' = IF bearer = n THEN 0 ELSE bearer
  /\ UNCHANGED <<wait, clock, settled, pc, since, answer, outcome>>

Replace ==
  /\ bearer # 2 /\ things[2] = "gone" /\ wait.by = "name"
  /\ bearer' = 2
  /\ things' = [things EXCEPT ![2] = "pending"]
  /\ UNCHANGED <<wait, clock, settled, pc, since, answer, outcome>>

(* Time passes, but a pause and a read end on time. *)
OnTime ==
  /\ pc # "look"
  /\ pc = "pause" => clock < since + Poll /\ ~(wait.limit = "context" /\ Over)
  /\ pc = "asked" => clock < since + ReadTime /\ ~(wait.limit = "context" /\ Over)

Tick ==
  /\ clock < MaxTime /\ OnTime
  /\ clock' = clock + 1
  /\ UNCHANGED <<wait, world, pc, since, answer, outcome>>

Init ==
  /\ wait \in AllWaits
  /\ clock = 0 /\ bearer = 1 /\ settled = Never /\ since = 0 /\ outcome = "none"
  /\ things = [n \in 1 .. 2 |-> IF n = 1 THEN "pending" ELSE "gone"]
  /\ CASE wait.first = "started" -> pc = "asked" /\ answer = "pending"
       [] wait.first = "read"    -> pc = "look" /\ answer = "none"
       [] wait.first = "pause"   -> pc = "pause" /\ answer = "none"

Command ==
  \/ Ask
  \/ TooLate
  \/ Fail
  \/ Cut
  \/ Verdict
  \/ Vanished
  \/ GiveUp
  \/ Again
  \/ Wake

Others ==
  \/ Settle
  \/ Remove
  \/ Replace

Next == Command \/ Serve \/ Tick \/ Others

Spec == Init /\ [][Next]_vars

(* Time passes, and a pause, a read and a deadline that are over end.      *)
FairSpec == Spec /\ WF_vars(Command \/ Serve \/ Tick)

-----------------------------------------------------------------------------
(* What a wait by id says of the end is true of the thing it started, and  *)
(* stays true where ends last: neither a thing not found, nor one that     *)
(* ended badly, nor a pause cut short is taken for a success. A watch that *)
(* takes any end for a success says no more than that it ended.            *)
VerdictIsTrue ==
  wait.by = "id" /\ outcome \in {"success", "failed"} =>
    /\ settled <= since
    /\ wait.lasting /\ things[1] # "gone" =>
         \/ wait.failure = "success" /\ things[1] \in Terminal
         \/ things[1] = IF outcome = "success" THEN "good" ELSE "bad"

(* A thing that ended in time is not reported as late: what is given up on *)
(* had not ended one read before the deadline, or one pause and one read   *)
(* where the clock is not looked at after a read.                          *)
NoticedInTime ==
  wait.by = "id" /\ outcome = "late" /\ things[1] # "gone" =>
    settled + ReadTime + (IF wait.limit = "checked" THEN 0 ELSE Poll) >= Deadline

(* Every wait ends: with whatever becomes of what it waits for, renamed,   *)
(* replaced, removed or never done.                                        *)
WaitEnds == <>(pc = "ended")
=============================================================================
