------------------------- MODULE WorkflowExecution -------------------------
(***************************************************************************)
(* The commands that follow and control one workflow execution: `workflow  *)
(* execution --watch`, `execution-stop`, `execution-cleanup`,              *)
(* `execution-stages` (cmd/workflow_execution.go and _stages.go), the wait *)
(* of a reviewed `agent run` (cmd/agent_definition_reviewed.go), and the   *)
(* older `run-cancel` and `runs --watch`, which know an execution by its   *)
(* Temporal workflow id and recorded state only.                           *)
(*                                                                         *)
(* Every client runs one command at a time.  A request is answered in one  *)
(* step, or lost; the world moves between a command's requests.            *)
(***************************************************************************)
EXTENDS Execution, Sequences

CONSTANT Clients

VARIABLE job    \* what every client is doing, or has done last

vars == <<world, job>>

Watching == {"watch", "runs"}
Controls == {"cancel", "terminate", "cleanup"}
Commands == Watching \cup Controls \cup {"wait", "stages", "run-cancel"}

NoRow == [run |-> Unknown, status |-> "running", cleanup |-> "not_requested", ok |-> FALSE]

Idle == [cmd |-> "none", pc |-> "idle", pin |-> Unknown, row |-> NoRow, shown |-> {},
         hit |-> Unknown, got |-> <<>>, least |-> 0, result |-> "none"]

At(c, cmds, pc) == job[c].cmd \in cmds /\ job[c].pc = pc
Update(c, j) == job' = [job EXCEPT ![c] = j]
Goto(c, pc) == [job[c] EXCEPT !.pc = pc]

(* The command ends, and all that is left of it is what it has reported.   *)
Reported(j, result) ==
  [j EXCEPT !.pc = "idle", !.result = result,
            !.row = IF result = "settled" THEN @ ELSE [NoRow EXCEPT !.run = j.row.run, !.ok = j.row.ok]]
End(c, result) == Reported(job[c], result)

-----------------------------------------------------------------------------
(* A command begins; --run-id, or the receipt of the start it waits for,   *)
(* may name the incarnation it is about.                                   *)
Begin(c, cmd) ==
  /\ job[c].pc = "idle"
  /\ \E pin \in (IF cmd = "wait" THEN {} ELSE {Unknown})
                  \cup (IF cmd \in {"runs", "run-cancel"} THEN {} ELSE {bound}) :
       Update(c, [Idle EXCEPT !.cmd = cmd, !.pin = pin,
                              !.pc = IF cmd = "wait" THEN "poll" ELSE "first"])
  /\ UNCHANGED world

(* validateWorkflowExecution, of an answer about the right record. *)
Valid(c, row) == job[c].pin \in {Unknown, row.run}

(* A control needs a row the engine has verified, and so both its ids.     *)
Usable(c, row) == Valid(c, row) /\ (job[c].cmd \in Controls => row.ok)

(* The first reading must succeed. *)
ReadLost(c) ==
  /\ job[c].pc = "first"
  /\ Update(c, End(c, "error"))
  /\ UNCHANGED world

ReadExecution(c) ==
  /\ At(c, {"watch", "stages"} \cup Controls, "first")
  /\ \E row \in Rows :
       Update(c,
         IF ~Usable(c, row) THEN End(c, "error")
         ELSE [job[c] EXCEPT
                 !.row = IF job[c].cmd = "watch" THEN row
                         ELSE [NoRow EXCEPT !.run = row.run, !.ok = row.ok],
                 !.least = IF job[c].cmd = "stages" THEN stages[bound] ELSE 0,
                 !.pin = IF job[c].cmd \in Controls THEN row.run ELSE @,
                 !.pc = CASE job[c].cmd = "watch" -> "look"
                          [] job[c].cmd = "stages" -> "page"
                          [] OTHER -> "send"])
  /\ UNCHANGED world

(* The older commands list the runs of a workflow as they are recorded.    *)
ListRuns(c) ==
  /\ At(c, {"runs", "run-cancel"}, "first")
  /\ \E status \in Recorded :
       Update(c,
         [IF status \in Closed
          THEN End(c, IF job[c].cmd = "runs" THEN "final" ELSE "error")
          ELSE Goto(c, IF job[c].cmd = "runs" THEN "poll" ELSE "send")
          EXCEPT !.row.run = bound, !.row.status = status])
  /\ UNCHANGED world

-----------------------------------------------------------------------------
(* execution --watch. *)
Settled(row) == row.ok /\ row.status \in Closed /\ row.cleanup \in Done

(* A plausible slip: the incarnation to go on with is not pinned. *)
LookUnpinned(c) ==
  /\ At(c, {"watch"}, "look")
  /\ LET j == [job[c] EXCEPT !.shown = @ \cup ({job[c].row.run} \ {Unknown})] IN
     Update(c, IF Settled(j.row) THEN [j EXCEPT !.pc = "idle", !.result = "settled"]
               ELSE [j EXCEPT !.pc = "poll"])
  /\ UNCHANGED world

(* The row is shown; the watch ends, or pins the ids it has seen. *)
Look(c) ==
  /\ At(c, {"watch"}, "look")
  /\ LET j == [job[c] EXCEPT !.shown = @ \cup ({job[c].row.run} \ {Unknown})] IN
     Update(c, IF Settled(j.row) THEN [j EXCEPT !.pc = "idle", !.result = "settled"]
               ELSE [j EXCEPT !.pc = "poll", !.pin = IF @ = Unknown THEN j.row.run ELSE @])
  /\ UNCHANGED world

Unverified(c) == [Goto(c, "look") EXCEPT !.row.ok = FALSE]

(* A plausible slip: a reading that fails ends the watch. *)
PollFails(c) ==
  /\ At(c, {"watch"}, "poll")
  /\ Update(c, End(c, "error"))
  /\ UNCHANGED world

(* A reading that fails, or is refused, leaves the last row, unverified.   *)
PollLost(c) ==
  /\ At(c, {"watch"}, "poll")
  /\ Update(c, Unverified(c))
  /\ UNCHANGED world

Poll(c) ==
  /\ At(c, {"watch"}, "poll")
  /\ \E row \in Rows :
       Update(c, IF Valid(c, row) THEN [Goto(c, "look") EXCEPT !.row = row]
                 ELSE Unverified(c))
  /\ UNCHANGED world

(* runs --watch: any failure ends it, and the recorded state is believed.  *)
PollRuns(c) ==
  /\ At(c, {"runs"}, "poll")
  /\ \/ Update(c, End(c, "error"))
     \/ \E status \in Recorded :
          Update(c, IF status \in Closed THEN End(c, "final") ELSE job[c])
  /\ UNCHANGED world

-----------------------------------------------------------------------------
(* A plausible slip: the wait takes the execution for whatever it now is.  *)
WaitAny(c) ==
  /\ At(c, {"wait"}, "poll")
  /\ \E row \in Rows :
       Update(c,
         IF row.ok /\ row.status \in Closed
         THEN End(c, IF row.status = "completed" THEN "ok" ELSE "unsuccessful")
         ELSE job[c])
  /\ UNCHANGED world

(* waitAgentDefinition: another incarnation ends the wait, and so does the *)
(* verified end of the original one; a lost answer changes nothing.        *)
Wait(c) ==
  /\ At(c, {"wait"}, "poll")
  /\ \E row \in Rows :
       Update(c,
         IF ~Valid(c, row) THEN End(c, "changed")
         ELSE IF row.ok /\ row.status \in Closed
         THEN End(c, IF row.status = "completed" THEN "ok" ELSE "unsuccessful")
         ELSE job[c])
  /\ UNCHANGED world

(* Observation is refused for good. *)
WaitRefused(c) ==
  /\ At(c, {"wait"}, "poll")
  /\ Update(c, End(c, "error"))
  /\ UNCHANGED world

(* The deadline of a watch, a wait or a list of stages. *)
Deadline(c) ==
  /\ job[c].pc \in {"look", "poll", "page"}
  /\ Update(c, End(c, "timeout"))
  /\ UNCHANGED world

-----------------------------------------------------------------------------
(* What the engine does with a control request for an incarnation. *)
Obeys(action, r) ==
  CASE action = "cancel" ->
         state[r] = "running" /\ UNCHANGED world
    [] action = "terminate" ->
         /\ state[r] = "running"
         /\ state' = [state EXCEPT ![r] = "cancelled"]
         /\ cleanup' = [cleanup EXCEPT ![r] = IF @ = "not_required" THEN @ ELSE "pending"]
         /\ UNCHANGED <<stages, record>>
    [] action = "cleanup" -> state[r] \in Closed /\ RetryCleanup(r)

(* The engine obeys and the client hears so, or its answer is lost. *)
Acknowledged(c, action, r) ==
  /\ Obeys(action, r)
  /\ \E result \in {"requested", "error"} :
       Update(c, [End(c, result) EXCEPT !.hit = r])

Refused(c) == Update(c, End(c, "error")) /\ UNCHANGED world

(* A plausible slip: the request names the workflow id alone. *)
SendByWorkflow(c) ==
  /\ At(c, Controls, "send")
  /\ \/ seen /\ Acknowledged(c, job[c].cmd, Newest)
     \/ Refused(c)

(* The request names the record and both engine ids of the verified row;   *)
(* a record that has moved on refuses it.                                  *)
SendControl(c) ==
  /\ At(c, Controls, "send")
  /\ \/ seen /\ bound = job[c].pin /\ Acknowledged(c, job[c].cmd, job[c].pin)
     \/ Refused(c)

(* run-cancel: the workflow id alone, for the engine to resolve. *)
RunCancel(c) ==
  /\ At(c, {"run-cancel"}, "send")
  /\ \/ seen /\ \E action \in {"cancel", "terminate"} : Acknowledged(c, action, Newest)
     \/ Refused(c)

-----------------------------------------------------------------------------
(* The engine run a page of the stage history says it belongs to. *)
PageRun == IF seen THEN {bound} ELSE {Unknown, bound}

(* One page of the stage history, in the order it was recorded. *)
Paged(c) ==
  LET cursor == Len(job[c].got)
      got == IF cursor < stages[bound] THEN Append(job[c].got, <<bound, cursor + 1>>)
             ELSE job[c].got IN
  IF Len(got) < stages[bound] THEN [job[c] EXCEPT !.got = got]
  ELSE [End(c, "listed") EXCEPT !.got = got]

(* A plausible slip: only the first page's identity is checked. *)
PageUnchecked(c) ==
  /\ At(c, {"stages"}, "page")
  /\ \/ Update(c, End(c, "error"))
     \/ (job[c].got # <<>> \/ job[c].row.run \in PageRun) /\ Update(c, Paged(c))
  /\ UNCHANGED world

(* A page of another incarnation, or one that is lost, ends the listing.   *)
Page(c) ==
  /\ At(c, {"stages"}, "page")
  /\ \/ Update(c, End(c, "error"))
     \/ job[c].row.run \in PageRun /\ Update(c, Paged(c))
  /\ UNCHANGED world

-----------------------------------------------------------------------------
Init == WorldInit /\ job = [c \in Clients |-> Idle]

Step(c) ==
  \/ \E cmd \in Commands : Begin(c, cmd)
  \/ ReadLost(c)
  \/ ReadExecution(c)
  \/ ListRuns(c)
  \/ Look(c)
  \/ PollLost(c)
  \/ Poll(c)
  \/ PollRuns(c)
  \/ Wait(c)
  \/ WaitRefused(c)
  \/ Deadline(c)
  \/ SendControl(c)
  \/ RunCancel(c)
  \/ Page(c)

Next == (\E c \in Clients : Step(c)) \/ (WorldNext /\ UNCHANGED job)

(* Clients run, and a reading that is tried again and again is at some     *)
(* time answered.                                                          *)
Fairness == \A c \in Clients : WF_vars(Look(c)) /\ SF_vars(Poll(c))

Spec == Init /\ [][Next]_vars /\ Fairness

-----------------------------------------------------------------------------
Results == {"none", "error", "settled", "final", "changed", "ok", "unsuccessful",
            "timeout", "requested", "listed"}

(* Every variable holds a value of its type, and a command is only ever at *)
(* a point of its own.                                                     *)
TypeOK ==
  /\ WorldTypeOK
  /\ \A c \in Clients :
       /\ job[c].cmd \in Commands \cup {"none"} /\ job[c].result \in Results
       /\ job[c].pc \in {"idle", "first", "look", "poll", "send", "page"}
       /\ {job[c].pin, job[c].row.run, job[c].hit} \subseteq Runs \cup {Unknown}
       /\ job[c].row.status \in Closed \cup {"running"}
       /\ job[c].pc = "send" => job[c].row.run # Unknown

(* "Watch keeps observing until closure and cleanup are both verified": a  *)
(* watch shows one incarnation however the record is rebound, and when it  *)
(* reports that one settled it has closed so and is cleaned up.            *)
WatchSettled ==
  \A c \in Clients : job[c].cmd = "watch" =>
    /\ \A q, r \in job[c].shown : q = r
    /\ job[c].result = "settled" =>
         /\ job[c].row.run \in job[c].shown
         /\ state[job[c].row.run] = job[c].row.status /\ job[c].row.status \in Closed
         /\ cleanup[job[c].row.run] \in Done

(* The wait of an agent run reports the end of the run it started, never   *)
(* that of an incarnation that took its place.                             *)
WaitOriginal ==
  \A c \in Clients : job[c].cmd = "wait" =>
    /\ job[c].result = "ok" => state[job[c].pin] = "completed"
    /\ job[c].result = "unsuccessful" => state[job[c].pin] \in {"failed", "cancelled"}

(* A watch and a wait report on the run they began with, and truly.        *)
FollowedIsTheRun == WatchSettled /\ WaitOriginal

(* "Stop and cleanup first verify the exact record, then pin both Temporal *)
(* IDs": a control touches the verified incarnation or nothing, and is     *)
(* acknowledged only if it did.                                            *)
ControlExact ==
  \A c \in Clients : job[c].cmd \in Controls =>
    /\ job[c].hit # Unknown => job[c].hit = job[c].row.run /\ job[c].row.ok
    /\ job[c].result = "requested" => job[c].hit # Unknown

(* A listing of stages holds every attempt of one incarnation once, in     *)
(* order, and all of those recorded when it began, unless the engine's ids *)
(* were unknown from its first reading to its last page.                   *)
StagesOfOneRun ==
  \A c \in Clients :
    job[c].cmd = "stages" /\ job[c].result = "listed" /\ job[c].row.run # Unknown =>
    /\ job[c].got = [i \in DOMAIN job[c].got |-> <<job[c].row.run, i>>]
    /\ Len(job[c].got) >= job[c].least

(* Outages do not end a watch: once the execution is over for good, a      *)
(* watch reports it settled, unless its half hour ends first or the record *)
(* has come to stand for another incarnation than it watches.              *)
WatchSurvives ==
  <>[]Over => \A c \in Clients :
    At(c, {"watch"}, "poll") ~>
      \/ job[c].result \in {"settled", "timeout"}
      \/ job[c].pin # Unknown /\ job[c].pin # bound
=============================================================================
