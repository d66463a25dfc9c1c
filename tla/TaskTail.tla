------------------------------ MODULE TaskTail ------------------------------
(***************************************************************************)
(* The output of an agent's task: `astro agent logs --follow` and          *)
(* `astro agent dispatch --tail`. The server answers with the last lines   *)
(* of the output as text, without a position, or with nothing while the    *)
(* pod cannot be read; what an answer adds to the one before is found by   *)
(* their longest overlap. A dispatch also reads the task's status, after   *)
(* the output, and ends with the task.                                     *)
(***************************************************************************)
EXTENDS Integers, Sequences, SequencesExt

CONSTANTS
  Lines,        \* the texts a line may have
  TailSize,     \* the lines of an answer at most: 500, or --tail
  MaxLines      \* bound: lines written

TailAssumption == TailSize \in Nat \ {0} /\ MaxLines \in Nat

VARIABLES
  log,          \* the output so far
  status,       \* of the task: "running", "completed" or "failed"
  dispatch,     \* dispatch --tail, or logs --follow
  pc,           \* "logs", "status", "pause", "ended"
  exit,         \* "none", "ok", "failed" or "error"
  previous,     \* agentLogTail.previous
  printed,      \* the positions of the lines printed, in order
  read,         \* history: the length of the output at the last answer
  gap           \* history: more than TailSize lines between two answers

task == <<log, status>>
vars == <<task, dispatch, pc, exit, previous, printed, read, gap>>

-----------------------------------------------------------------------------
LastLines == SubSeq(log, IF Len(log) > TailSize THEN Len(log) - TailSize + 1 ELSE 1, Len(log))

IsOverlap(n, lines) ==
  /\ n <= Len(previous) /\ n <= Len(lines)
  /\ SubSeq(previous, Len(previous) - n + 1, Len(previous)) = SubSeq(lines, 1, n)

(* A plausible slip: the answer is taken to begin with the one before. *)
OverlapBySize(lines) == IF Len(previous) < Len(lines) THEN Len(previous) ELSE Len(lines)
Overlap(lines) ==
  CHOOSE n \in 0 .. Len(lines) :
    IsOverlap(n, lines) /\ \A k \in n + 1 .. Len(lines) : ~IsOverlap(k, lines)

Goto(where) == pc' = where /\ exit' = "none"
After == IF dispatch THEN "status" ELSE "pause"

(* agentLogTail.append: what is new of the answer is printed. *)
ReadLogs ==
  /\ pc = "logs" /\ log # <<>>
  /\ LET old == Len(log) - Len(LastLines) + Overlap(LastLines) IN
     printed' = printed \o [i \in 1 .. Len(log) - old |-> old + i]
  /\ previous' = LastLines
  /\ gap' = (gap \/ (previous # <<>> /\ Len(log) - read > TailSize))
  /\ read' = Len(log)
  /\ Goto(After)
  /\ UNCHANGED <<task, dispatch>>

(* A plausible slip: an empty answer is remembered as the others are. *)
ReadNothingNew ==
  /\ pc = "logs" /\ previous' = <<>>
  /\ Goto(After)
  /\ UNCHANGED <<task, dispatch, printed, read, gap>>

(* Nothing written yet, or the pod cannot be read. *)
ReadNothing ==
  /\ pc = "logs"
  /\ Goto(After)
  /\ UNCHANGED <<task, dispatch, previous, printed, read, gap>>

(* fetchAgentTaskStatus: a missing task is no end. *)
NotEnded ==
  /\ pc = "status"
  /\ Goto("pause")
  /\ UNCHANGED <<task, dispatch, previous, printed, read, gap>>

(* finalizeAgentTask *)
Finalize ==
  /\ pc = "status" /\ status # "running"
  /\ pc' = "ended" /\ exit' = IF status = "completed" THEN "ok" ELSE "failed"
  /\ UNCHANGED <<task, dispatch, previous, printed, read, gap>>

Wake ==
  /\ pc = "pause"
  /\ Goto("logs")
  /\ UNCHANGED <<task, dispatch, previous, printed, read, gap>>

(* Ctrl-C is a success, a failed read is not. *)
End ==
  /\ pc # "ended"
  /\ pc' = "ended" /\ exit' \in {"ok", "error"}
  /\ UNCHANGED <<task, dispatch, previous, printed, read, gap>>

(* The task. *)
Write ==
  /\ status = "running" /\ Len(log) < MaxLines
  /\ \E l \in Lines : log' = Append(log, l)
  /\ UNCHANGED <<status, dispatch, pc, exit, previous, printed, read, gap>>

Settle ==
  /\ status = "running"
  /\ status' \in {"completed", "failed"}
  /\ UNCHANGED <<log, dispatch, pc, exit, previous, printed, read, gap>>

Init ==
  /\ log = <<>> /\ status = "running"
  /\ dispatch \in BOOLEAN
  /\ pc = "logs" /\ exit = "none"
  /\ previous = <<>> /\ printed = <<>> /\ read = 0 /\ gap = FALSE

Command ==
  \/ ReadLogs
  \/ ReadNothing
  \/ NotEnded
  \/ Finalize
  \/ Wake
  \/ End

Others ==
  \/ Write
  \/ Settle

Next == Command \/ Others

Spec == Init /\ [][Next]_vars

-----------------------------------------------------------------------------
(* No line is printed twice or out of order: whatever lines repeat, however *)
(* many are written between two answers, and though the output cannot be   *)
(* read for a while.                                                       *)
NothingTwice == \A i, j \in DOMAIN printed : i < j => printed[i] < printed[j]

(* Where lines differ, and an answer always reaches back to the one before, *)
(* every line from the first printed up to the last answer is printed.     *)
NothingBetween ==
  IsInjective(log) /\ ~gap /\ printed # <<>> =>
    printed = [i \in 1 .. read - printed[1] + 1 |-> printed[1] + i - 1]
=============================================================================
