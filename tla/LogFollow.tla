------------------------------ MODULE LogFollow ------------------------------
(***************************************************************************)
(* `astro app logs`, and with --follow its polls (cmd/app_lifecycle.go).   *)
(* The log backend stores a line some time after it was written and        *)
(* answers a query for a window of timestamps page by page, oldest first.  *)
(* The command prints the tail of one window; to follow it then queries    *)
(* windows that overlap, and prints what the previous batch did not hold.  *)
(*                                                                         *)
(* Lines are told apart by their number: two lines of one pod with the     *)
(* same timestamp and text are one to the command as well.                 *)
(***************************************************************************)
EXTENDS Integers, Sequences, SequencesExt, FiniteSetsExt

CONSTANTS
  Window,       \* --since
  TailSize,     \* --tail
  Overlap,      \* of the windows of two polls: 30 s
  PageSize,     \* appLogsPageSize: 500
  MaxPages,     \* appLogsMaxPages: 40
  MaxTime,      \* bound: the clock
  MaxLines,     \* bound: lines written
  NoLine        \* the empty cursor

Sizes == {TailSize, PageSize, MaxPages} \subseteq Nat \ {0}
Times == {Window, Overlap, MaxTime, MaxLines} \subseteq Nat

(* The cursor of a line is not the empty one. *)
CursorAssumption == NoLine \notin [time : Nat, n : Nat, at : Nat]

VARIABLES
  clock,        \* the time
  written,      \* lines on their way to the backend
  stored,       \* the backend's lines, each with the time it was stored
  pc,           \* "new", "tail", "pause", "poll", "ended"
  follow,       \* --follow
  since, until, \* the window being read
  cursor,       \* the last line of the page before, or NoLine
  pages,        \* pages read of this window
  batch,        \* its lines so far
  lastUntil,    \* the end of the window before
  seen,         \* the lines of the batch before
  printed,      \* the lines printed, in order
  begun,        \* history: the end of the first window
  watching,     \* history: when following began
  capped        \* history: a poll ended at the page cap

backend == <<written, stored>>
reading == <<since, until, cursor, pages, batch>>
history == <<begun, watching, capped>>
vars == <<clock, backend, pc, follow, reading, lastUntil, seen, printed, history>>

-----------------------------------------------------------------------------
(* Lines in the order of a query: by timestamp.                            *)
Before(l, m) == l.time < m.time \/ (l.time = m.time /\ l.n < m.n)
Earlier(l, S) == {m \in S : Before(m, l)}
InOrder(S) ==
  [i \in 1 .. Cardinality(S) |-> CHOOSE l \in S : Cardinality(Earlier(l, S)) = i - 1]

(* What is left of the window after the cursor. *)
Rest ==
  {l \in stored : /\ since <= l.time /\ l.time <= until
                  /\ cursor = NoLine \/ Before(cursor, l)}

Items == InOrder(Rest)
PageOf(s) == SubSeq(s, 1, IF Len(s) < PageSize THEN Len(s) ELSE PageSize)

(* The window is walked to its end, or to the page cap. *)
ReachedEnd == Len(Items) <= PageSize
WalkEnds == ReachedEnd \/ pages + 1 = MaxPages

(* paginateAppLogs: one request, in the middle of the walk. *)
NextPage ==
  /\ pc \in {"tail", "poll"} /\ ~WalkEnds
  /\ batch' = batch \o PageOf(Items)
  /\ cursor' = Last(PageOf(Items))
  /\ pages' = pages + 1
  /\ UNCHANGED <<clock, backend, pc, follow, since, until, lastUntil, seen, printed, history>>

LastPage == pc \in {"tail", "poll"} /\ WalkEnds
Whole == batch \o PageOf(Items)

NewWindow(from, to) ==
  /\ since' = from /\ until' = to
  /\ cursor' = NoLine /\ pages' = 0 /\ batch' = <<>>

(* fetchAppLogTail ends: a ring of TailSize lines, which also seeds the    *)
(* set of followAppLogs; its first window ends before now.                 *)
ShowTail ==
  LET ring == IF Len(Whole) <= TailSize THEN Whole
              ELSE SubSeq(Whole, Len(Whole) - TailSize + 1, Len(Whole)) IN
  /\ LastPage /\ pc = "tail"
  /\ printed' = ring
  /\ pc' = IF follow THEN "pause" ELSE "ended"
  /\ seen' = Range(ring)
  /\ lastUntil' = clock /\ watching' = clock
  /\ NewWindow(since, until)
  /\ UNCHANGED <<clock, backend, follow, begun, capped>>

(* A plausible slip: a window begins where the one before ended. *)
WakeAbutting ==
  /\ pc = "pause"
  /\ pc' = "poll"
  /\ NewWindow(lastUntil, clock)
  /\ UNCHANGED <<clock, backend, follow, lastUntil, seen, printed, history>>

(* The poll interval has passed, or much more time. *)
Wake ==
  /\ pc = "pause"
  /\ pc' = "poll"
  /\ NewWindow(lastUntil - Overlap, clock)
  /\ UNCHANGED <<clock, backend, follow, lastUntil, seen, printed, history>>

(* A plausible slip: only the lines just printed are remembered. *)
ShowNewForgetting ==
  /\ LastPage /\ pc = "poll"
  /\ printed' = printed \o InOrder(Range(Whole) \ seen)
  /\ seen' = Range(Whole) \ seen
  /\ lastUntil' = until
  /\ pc' = "pause"
  /\ capped' = (capped \/ ~ReachedEnd)
  /\ NewWindow(since, until)
  /\ UNCHANGED <<clock, backend, follow, begun, watching>>

(* The batch is complete, as far as followAppLogs looks: what the one      *)
(* before did not hold is printed, in the order of the batch.              *)
ShowNew ==
  /\ LastPage /\ pc = "poll"
  /\ printed' = printed \o InOrder(Range(Whole) \ seen)
  /\ seen' = Range(Whole)
  /\ lastUntil' = until
  /\ pc' = "pause"
  /\ capped' = (capped \/ ~ReachedEnd)
  /\ NewWindow(since, until)
  /\ UNCHANGED <<clock, backend, follow, begun, watching>>

(* A failed request, or Ctrl-C. *)
End ==
  /\ pc # "ended"
  /\ pc' = "ended"
  /\ UNCHANGED <<clock, backend, follow, reading, lastUntil, seen, printed, history>>

-----------------------------------------------------------------------------
(* Time, the application and the log backend. *)
Tick ==
  /\ clock < MaxTime
  /\ clock' = clock + 1
  /\ UNCHANGED <<backend, pc, follow, reading, lastUntil, seen, printed, history>>

Write ==
  /\ Cardinality(written \cup stored) < MaxLines
  /\ written' = written \cup {[time |-> clock, n |-> Cardinality(written \cup stored) + 1]}
  /\ UNCHANGED <<clock, stored, pc, follow, reading, lastUntil, seen, printed, history>>

Store ==
  /\ \E l \in written :
       /\ written' = written \ {l}
       /\ stored' = stored \cup {[time |-> l.time, n |-> l.n, at |-> clock]}
  /\ UNCHANGED <<clock, pc, follow, reading, lastUntil, seen, printed, history>>

(* The command may start at any time, on whatever is stored by then. *)
Start ==
  /\ pc = "new"
  /\ pc' = "tail"
  /\ follow' \in BOOLEAN
  /\ NewWindow(clock - Window, clock)
  /\ begun' = clock
  /\ UNCHANGED <<clock, backend, lastUntil, seen, printed, watching, capped>>

Init ==
  /\ clock = 0 /\ written = {} /\ stored = {}
  /\ pc = "new" /\ follow = FALSE
  /\ since = 0 /\ until = 0 /\ cursor = NoLine /\ pages = 0 /\ batch = <<>>
  /\ lastUntil = 0 /\ seen = {} /\ printed = <<>>
  /\ begun = 0 /\ watching = 0 /\ capped = FALSE

Command ==
  \/ Start
  \/ NextPage
  \/ ShowTail
  \/ Wake
  \/ ShowNew
  \/ End

World ==
  \/ Tick
  \/ Write
  \/ Store

Next == Command \/ World

Spec == Init /\ [][Next]_vars

-----------------------------------------------------------------------------
(* Every variable holds a value of its type; a walk keeps to its page cap  *)
(* and gathers lines of its window, oldest first.                          *)
TypeOK ==
  /\ clock \in 0 .. MaxTime /\ begun \in 0 .. clock /\ watching \in 0 .. clock
  /\ pc \in {"new", "tail", "pause", "poll", "ended"} /\ follow \in BOOLEAN
  /\ \A l \in stored : l.time <= l.at /\ l.at <= clock
  /\ since <= until /\ until <= clock /\ pages \in 0 .. MaxPages - 1
  /\ cursor = NoLine \/ cursor \in stored
  /\ \A i \in DOMAIN batch : batch[i] \in stored /\ since <= batch[i].time
                             /\ batch[i].time <= until
  /\ \A i, j \in DOMAIN batch : i < j => Before(batch[i], batch[j])
  /\ lastUntil \in 0 .. clock /\ seen \subseteq stored /\ Range(printed) \subseteq stored
  /\ capped \in BOOLEAN

(* "--follow must print each line exactly once": however windows overlap   *)
(* and lines are delayed, no line is printed twice, unless a poll was cut  *)
(* short by the page cap.                                                  *)
PrintedOnce == ~capped => IsInjective(printed)

(* "The window always covers a generous overlap so no line is missed       *)
(* between polls": between two polls every line up to the end of the last  *)
(* window has been printed that was stored since the command began and     *)
(* before that window was read, with no more delay than the overlap        *)
(* leaves once the time the first window took is taken off it; unless a    *)
(* poll was cut short by the page cap.                                     *)
NoneMissed ==
  pc = "pause" /\ lastUntil > watching /\ ~capped =>
    \A l \in stored :
      /\ begun < l.at /\ l.at < lastUntil
      /\ (l.at - l.time) + (watching - begun) <= Overlap
      => l \in Range(printed)

(* "--follow polls the query on a fixed interval and prints only           *)
(* newly-appended lines": of what was stored when the command began        *)
(* following prints nothing.                                               *)
OnlyNewlyAppended ==
  \A i \in DOMAIN printed :
    i > TailSize => printed[i].at >= begun
=============================================================================
