---------------------- MODULE WorkflowExecutionProofs ----------------------
(***************************************************************************)
(* What the workflow execution commands guarantee for every number of      *)
(* clients, incarnations and stages.                                       *)
(***************************************************************************)
EXTENDS WorkflowExecution, TLAPS

-----------------------------------------------------------------------------
(***************************************************************************)
(* The world.  Incarnations follow one another; one that has closed stays  *)
(* as it closed, what has been cleaned up stays so, and stages are only    *)
(* ever added.  Nothing a client may ask of the engine changes that.       *)
(***************************************************************************)
CleanupStates == {"not_requested", "not_required", "pending", "failed", "completed"}

Incarnations ==
  \E last \in Runs : \A r \in Runs : state[r] # "none" <=> r <= last

CleanedAfterClosed ==
  \A r \in Runs : cleanup[r] \in {"pending", "failed", "completed"} => state[r] \in Closed

WorldInv ==
  /\ state \in [Runs -> Closed \cup {"none", "running"}]
  /\ cleanup \in [Runs -> CleanupStates]
  /\ stages \in [Runs -> Nat]
  /\ bound \in Runs /\ seen \in BOOLEAN
  /\ Incarnations /\ CleanedAfterClosed

(* What may have become of the engine's runs. *)
Later(st, cl, sg, st2, cl2, sg2) ==
  \A r \in Runs :
    /\ st[r] \in Closed =>
         st2[r] = st[r] /\ (cl[r] \in Done => cl2[r] \in Done)
    /\ sg[r] <= sg2[r]

LEMMA NewestIs ==
  ASSUME WorldInv
  PROVE  /\ Newest \in Runs
         /\ \A r \in Runs : state[r] # "none" <=> r <= Newest
  <1>1. PICK last \in Runs : \A r \in Runs : state[r] # "none" <=> r <= last
    BY DEF WorldInv, Incarnations
  <1>2. /\ state[last] # "none"
        /\ \A q \in Runs : state[q] # "none" => q <= last
    BY <1>1, RunBounds DEF Runs
  <1>3. /\ Newest \in Runs /\ state[Newest] # "none"
        /\ \A q \in Runs : state[q] # "none" => q <= Newest
    BY <1>2 DEF Newest
  <1>4. Newest = last
    BY <1>1, <1>2, <1>3, RunBounds DEF Runs
  <1> QED BY <1>1, <1>4

LEMMA WorldStart == WorldInit => WorldInv
  <1> SUFFICES ASSUME WorldInit PROVE WorldInv
    OBVIOUS
  <1>1. 1 \in Runs
    BY RunBounds DEF Runs
  <1>2. Incarnations
    <2>1. \A r \in Runs : state[r] # "none" <=> r <= 1
      BY RunBounds DEF WorldInit, Runs
    <2> QED BY <1>1, <2>1 DEF Incarnations
  <1> QED BY <1>1, <1>2 DEF WorldInit, WorldInv, CleanedAfterClosed, CleanupStates

(* A run that closes. *)
LEMMA Closing ==
  ASSUME WorldInv, NEW r \in Runs, NEW status \in Closed, state[r] = "running",
         state' = [state EXCEPT ![r] = status],
         cleanup' = [cleanup EXCEPT ![r] = IF @ = "not_required" THEN @ ELSE "pending"],
         UNCHANGED <<stages, record>>
  PROVE  WorldInv' /\ Later(state, cleanup, stages, state', cleanup', stages')
  <1>1. Incarnations'
    BY DEF WorldInv, Incarnations, Closed
  <1>2. Later(state, cleanup, stages, state', cleanup', stages')
    BY RunBounds DEF WorldInv, Later, Closed
  <1> QED BY <1>1, <1>2 DEF WorldInv, CleanedAfterClosed, CleanupStates, Closed, record

(* What is cleaned up, fails to be, or is tried again. *)
LEMMA Cleaning ==
  ASSUME WorldInv, NEW r \in Runs, NEW status \in {"pending", "failed", "completed"},
         cleanup[r] \in {"pending", "failed"},
         cleanup' = [cleanup EXCEPT ![r] = status],
         UNCHANGED <<state, stages, record>>
  PROVE  WorldInv' /\ Later(state, cleanup, stages, state', cleanup', stages')
  <1>1. Incarnations'
    BY DEF WorldInv, Incarnations
  <1>2. Later(state, cleanup, stages, state', cleanup', stages')
    BY RunBounds DEF WorldInv, Later, Done
  <1> QED BY <1>1, <1>2 DEF WorldInv, CleanedAfterClosed, CleanupStates, record

LEMMA SameWorld ==
  ASSUME WorldInv, UNCHANGED engine, bound' \in Runs, seen' \in BOOLEAN
  PROVE  WorldInv' /\ Later(state, cleanup, stages, state', cleanup', stages')
  BY RunBounds DEF WorldInv, Incarnations, CleanedAfterClosed, Later, engine

LEMMA WorldStep ==
  ASSUME WorldInv, WorldNext
  PROVE  WorldInv' /\ Later(state, cleanup, stages, state', cleanup', stages')
  <1> USE DEF record, engine
  <1>1. CASE Stage
    <2>1. Newest \in Runs
      BY NewestIs
    <2>2. stages' = [stages EXCEPT ![Newest] = @ + 1] /\ UNCHANGED <<state, cleanup, record>>
      BY <1>1 DEF Stage
    <2>3. stages' \in [Runs -> Nat]
      BY <2>1, <2>2 DEF WorldInv
    <2>4. Later(state, cleanup, stages, state', cleanup', stages')
      BY <2>1, <2>2 DEF WorldInv, Later
    <2> QED BY <2>2, <2>3, <2>4 DEF WorldInv, Incarnations, CleanedAfterClosed
  <1>2. ASSUME NEW status \in Closed, Close(status)
        PROVE  WorldInv' /\ Later(state, cleanup, stages, state', cleanup', stages')
    <2>1. Newest \in Runs
      BY NewestIs
    <2> QED BY <1>2, <2>1, Closing DEF Close
  <1>3. CASE Clean
    BY <1>3, Cleaning DEF Clean
  <1>4. CASE CleanupFails
    BY <1>4, Cleaning DEF CleanupFails
  <1>5. ASSUME NEW r \in Runs, RetryCleanup(r)
        PROVE  WorldInv' /\ Later(state, cleanup, stages, state', cleanup', stages')
    BY <1>5, Cleaning DEF RetryCleanup
  <1>6. CASE Restart
    <2>1. /\ Newest \in Runs /\ Newest + 1 \in Runs
          /\ \A r \in Runs : state[r] # "none" <=> r <= Newest
      BY <1>6, NewestIs, RunBounds DEF Restart, Runs
    <2>2. state[Newest + 1] = "none"
      BY <2>1 DEF Runs
    <2>3. state' = [state EXCEPT ![Newest + 1] = "running"]
          /\ UNCHANGED <<cleanup, stages, record>>
      BY <1>6 DEF Restart
    <2>4. \A r \in Runs : state'[r] # "none" <=> r <= Newest + 1
      BY <2>1, <2>3 DEF WorldInv, Runs
    <2>5. Incarnations'
      BY <2>1, <2>4 DEF Incarnations
    <2>6. Later(state, cleanup, stages, state', cleanup', stages')
      BY <2>1, <2>2, <2>3 DEF WorldInv, Later, Closed
    <2> QED BY <2>1, <2>2, <2>3, <2>5, <2>6 DEF WorldInv, CleanedAfterClosed, Closed
  <1>7. CASE Rebind
    BY <1>7, NewestIs, SameWorld DEF Rebind, WorldInv
  <1>8. CASE Reachable
    BY <1>8, SameWorld DEF Reachable, WorldInv
  <1> QED BY <1>1, <1>2, <1>3, <1>4, <1>5, <1>6, <1>7, <1>8 DEF WorldNext

(* What a client asks of the engine, be it obeyed. *)
LEMMA ObeyedStep ==
  ASSUME WorldInv, NEW action \in {"cancel", "terminate", "cleanup"}, NEW r \in Runs,
         Obeys(action, r)
  PROVE  WorldInv' /\ Later(state, cleanup, stages, state', cleanup', stages')
  <1>1. CASE action = "cancel"
    BY <1>1, SameWorld DEF Obeys, world, record, WorldInv
  <1>2. CASE action = "terminate"
    BY <1>2, Closing DEF Obeys, Closed
  <1>3. CASE action = "cleanup"
    BY <1>3, Cleaning DEF Obeys, RetryCleanup
  <1> QED BY <1>1, <1>2, <1>3

-----------------------------------------------------------------------------
(***************************************************************************)
(* The clients.  What a command holds is true of the engine's runs st, cl  *)
(* and sg (their states, cleanups and stages), and stays true of whatever  *)
(* later becomes of them.                                                  *)
(***************************************************************************)
Row == [run : Runs \cup {Unknown}, status : Closed \cup {"none", "running"},
        cleanup : CleanupStates, ok : BOOLEAN]

Job == [cmd : Commands \cup {"none"},
        pc : {"idle", "first", "look", "poll", "send", "page"},
        pin : Runs \cup {Unknown}, row : Row, shown : SUBSET Runs,
        hit : Runs \cup {Unknown}, got : Seq(Runs \X Nat), least : Nat, result : Results]

(* A verified row of a closed run is what the engine says of it for good.  *)
Truthful(row, st, cl) ==
  row.ok =>
    /\ row.run \in Runs
    /\ row.status \in Closed =>
         st[row.run] = row.status /\ (row.cleanup \in Done => cl[row.run] \in Done)

(* Nothing has been reported of a command that runs, nor held before its   *)
(* first reading.                                                          *)
Fresh(j) ==
  /\ j.pc # "idle" => j.result = "none" /\ j.hit = Unknown
  /\ j.pc = "first" => j.row = NoRow /\ j.shown = {} /\ j.got = <<>>

(* A watch pins the run of the first row it shows, and reads no other.     *)
WatchSound(j) ==
  j.cmd = "watch" =>
    /\ \A q, r \in j.shown : q = r
    /\ j.pc = "look" => j.pin \in {Unknown, j.row.run}
    /\ j.pc = "poll" => j.pin = j.row.run
    /\ j.pc \in {"look", "poll"} => j.shown \subseteq {j.pin} \ {Unknown}
    /\ j.result = "settled" => Settled(j.row) /\ j.row.run \in j.shown

WaitSound(j, st) ==
  j.cmd = "wait" =>
    /\ j.pin \in Runs
    /\ j.result = "ok" => st[j.pin] = "completed"
    /\ j.result = "unsuccessful" => st[j.pin] \in {"failed", "cancelled"}

ControlSound(j) ==
  j.cmd \in Controls =>
    /\ j.pc = "send" => j.pin = j.row.run /\ j.row.ok
    /\ j.hit # Unknown => j.hit = j.row.run /\ j.row.ok
    /\ j.result = "requested" => j.hit # Unknown

StagesSound(j, sg) ==
  j.cmd = "stages" /\ j.row.run # Unknown =>
    /\ \A i \in 1 .. Len(j.got) : j.got[i] = <<j.row.run, i>>
    /\ j.pc = "page" => j.least <= sg[j.row.run]
    /\ j.result = "listed" => Len(j.got) >= j.least

Sound(j, st, cl, sg) ==
  /\ Truthful(j.row, st, cl) /\ Fresh(j) /\ WatchSound(j) /\ WaitSound(j, st)
  /\ ControlSound(j) /\ StagesSound(j, sg)

JobInv ==
  /\ job \in [Clients -> Job]
  /\ \A c \in Clients : Sound(job[c], state, cleanup, stages)

LEMMA NoRowTyped == NoRow \in Row /\ Unknown \notin Runs
  BY DEF NoRow, Row, Unknown, CleanupStates, Runs

LEMMA IdleSound ==
  ASSUME NEW st, NEW cl, NEW sg
  PROVE  Idle \in Job /\ Sound(Idle, st, cl, sg)
  <1>1. Idle \in Job
    BY NoRowTyped DEF Idle, Job, Results
  <1>2. Sound(Idle, st, cl, sg)
    BY DEF Idle, NoRow, Sound, Truthful, Fresh, WatchSound, WaitSound, ControlSound,
           StagesSound, Controls
  <1> QED BY <1>1, <1>2

LEMMA StaysSound ==
  ASSUME NEW j \in Job, NEW st, NEW cl, NEW sg, NEW st2, NEW cl2, NEW sg2,
         sg \in [Runs -> Nat], sg2 \in [Runs -> Nat],
         Sound(j, st, cl, sg), Later(st, cl, sg, st2, cl2, sg2)
  PROVE  Sound(j, st2, cl2, sg2)
  <1> USE DEF Sound, Later
  <1>1. Truthful(j.row, st2, cl2)
    BY DEF Truthful
  <1>2. WaitSound(j, st2)
    BY DEF WaitSound, Closed
  <1>3. StagesSound(j, sg2)
    <2> SUFFICES ASSUME j.cmd = "stages", j.row.run # Unknown
                 PROVE  j.pc = "page" => j.least <= sg2[j.row.run]
      BY DEF StagesSound
    <2>1. j.row.run \in Runs /\ j.least \in Nat
      BY DEF Job, Row
    <2>2. j.pc = "page" => j.least <= sg[j.row.run]
      BY DEF StagesSound
    <2>3. sg[j.row.run] <= sg2[j.row.run] /\ sg[j.row.run] \in Nat /\ sg2[j.row.run] \in Nat
      BY <2>1
    <2> QED BY <2>1, <2>2, <2>3
  <1> QED BY <1>1, <1>2, <1>3

LEMMA UpdateStep ==
  ASSUME JobInv, WorldInv, WorldInv',
         Later(state, cleanup, stages, state', cleanup', stages'),
         NEW c \in Clients, NEW j \in Job, Sound(j, state', cleanup', stages'),
         Update(c, j)
  PROVE  JobInv'
  <1>1. \A d \in Clients : Sound(job[d], state', cleanup', stages')
    BY StaysSound DEF JobInv, WorldInv
  <1> QED BY <1>1 DEF JobInv, Update

(* The end of a command, with whatever it reports. *)
LEMMA Ends ==
  ASSUME JobInv, NEW c \in Clients, NEW result \in Results \ {"settled", "listed", "requested"},
         NEW st, NEW cl, NEW sg, Sound(job[c], st, cl, sg),
         job[c].cmd = "wait" => /\ result = "ok" => st[job[c].pin] = "completed"
                                /\ result = "unsuccessful" =>
                                     st[job[c].pin] \in {"failed", "cancelled"}
  PROVE  End(c, result) \in Job /\ Sound(End(c, result), st, cl, sg)
  <1> DEFINE j == job[c]
             e == End(c, result)
  <1>1. j \in Job
    BY DEF JobInv
  <1>2. /\ e.row = [NoRow EXCEPT !.run = j.row.run, !.ok = j.row.ok]
        /\ e = [cmd |-> j.cmd, pc |-> "idle", pin |-> j.pin, row |-> e.row,
                shown |-> j.shown, hit |-> j.hit, got |-> j.got, least |-> j.least,
                result |-> result]
    <2> DEFINE r == [NoRow EXCEPT !.run = j.row.run, !.ok = j.row.ok]
    <2>1. e = [j EXCEPT !.pc = "idle", !.result = result, !.row = r]
      BY DEF End, Reported
    <2> HIDE DEF j, e, r
    <2>2. e = [cmd |-> j.cmd, pc |-> "idle", pin |-> j.pin, row |-> r,
               shown |-> j.shown, hit |-> j.hit, got |-> j.got, least |-> j.least,
               result |-> result]
      BY <1>1, <2>1 DEF Job
    <2>3. e.row = r
      BY <2>2
    <2> QED BY <2>2, <2>3 DEF r
  <1>3. e.row \in Row /\ e.row.run = j.row.run /\ e.row.ok = j.row.ok /\ e.row.status = "running"
    BY <1>1, <1>2, NoRowTyped DEF Job, Row, NoRow
  <1> HIDE DEF j, e
  <1>4. e \in Job
    BY <1>1, <1>2, <1>3 DEF Job
  <1>5. Sound(j, st, cl, sg)
    BY DEF j
  <1>6. Truthful(e.row, st, cl) /\ Fresh(e) /\ ControlSound(e) /\ WatchSound(e)
    BY <1>2, <1>3, <1>5
    DEF Sound, Truthful, Fresh, ControlSound, WatchSound, Closed
  <1>7. WaitSound(e, st) /\ StagesSound(e, sg)
    BY <1>2, <1>3, <1>5 DEF Sound, WaitSound, StagesSound, j
  <1> QED BY <1>4, <1>6, <1>7 DEF Sound, e

LEMMA RowsTrue ==
  ASSUME WorldInv, NEW row \in Rows
  PROVE  /\ row \in Row /\ Truthful(row, state, cleanup)
         /\ row.run # Unknown => row.run = bound
         /\ row.ok => row.run # Unknown
  <1>1. /\ bound \in Runs /\ bound # Unknown
        /\ state[bound] \in Closed \cup {"none", "running"} /\ cleanup[bound] \in CleanupStates
    BY DEF WorldInv, Runs, Unknown
  <1>2. CASE seen
    <2>1. row = [run |-> bound, status |-> state[bound], cleanup |-> cleanup[bound], ok |-> TRUE]
      BY <1>2 DEF Rows
    <2> QED BY <1>1, <2>1 DEF Row, Truthful
  <1>3. CASE ~seen
    <2>1. PICK r \in {Unknown, bound}, s \in Recorded :
            row = [run |-> r, status |-> s, cleanup |-> cleanup[bound], ok |-> FALSE]
      BY <1>3 DEF Rows
    <2>2. s \in Closed \cup {"none", "running"}
      BY <1>1 DEF Recorded
    <2>3. row \in Row
      BY <1>1, <2>1, <2>2 DEF Row
    <2> QED BY <1>1, <2>1, <2>3 DEF Truthful
  <1> QED BY <1>2, <1>3

(* What a step makes of a command while the world stands still. *)
Becomes(c, j) == Update(c, j) /\ j \in Job /\ Sound(j, state, cleanup, stages)

LEMMA BecomesStep ==
  ASSUME JobInv, WorldInv, UNCHANGED world, NEW c \in Clients, NEW j, Becomes(c, j)
  PROVE  WorldInv' /\ JobInv'
  <1>1. WorldInv' /\ Later(state, cleanup, stages, state', cleanup', stages')
    BY SameWorld DEF world, record, WorldInv
  <1> QED BY <1>1, UpdateStep DEF Becomes, world, engine

LEMMA EndsStep ==
  ASSUME JobInv, WorldInv, NEW c \in Clients,
         NEW result \in {"error", "timeout", "changed", "final"},
         UNCHANGED world, Update(c, End(c, result))
  PROVE  WorldInv' /\ JobInv'
  <1>1. End(c, result) \in Job /\ Sound(End(c, result), state, cleanup, stages)
    BY Ends DEF Results, JobInv
  <1> QED BY <1>1, BecomesStep DEF Becomes

LEMMA ReadExecutionStep ==
  ASSUME JobInv, WorldInv, NEW c \in Clients, ReadExecution(c)
  PROVE  WorldInv' /\ JobInv'
  <1> DEFINE j == job[c]
             Read(row) == [job[c] EXCEPT
                 !.row = IF job[c].cmd = "watch" THEN row
                         ELSE [NoRow EXCEPT !.run = row.run, !.ok = row.ok],
                 !.least = IF job[c].cmd = "stages" THEN stages[bound] ELSE 0,
                 !.pin = IF job[c].cmd \in Controls THEN row.run ELSE @,
                 !.pc = CASE job[c].cmd = "watch" -> "look"
                          [] job[c].cmd = "stages" -> "page"
                          [] OTHER -> "send"]
  <1>1. /\ j \in Job /\ Sound(j, state, cleanup, stages)
        /\ j.cmd \in {"watch", "stages"} \cup Controls /\ j.pc = "first"
    BY DEF JobInv, ReadExecution, At
  <1>2. PICK row \in Rows : Update(c, IF ~Usable(c, row) THEN End(c, "error") ELSE Read(row))
    BY DEF ReadExecution
  <1>3. UNCHANGED world
    BY DEF ReadExecution
  <1>4. CASE ~Usable(c, row)
    BY <1>2, <1>3, <1>4, EndsStep
  <1>5. CASE Usable(c, row)
    <2> DEFINE k == Read(row)
               kept == [NoRow EXCEPT !.run = row.run, !.ok = row.ok]
    <2>1. /\ row \in Row /\ Truthful(row, state, cleanup)
          /\ row.run # Unknown => row.run = bound
          /\ row.ok => row.run # Unknown
      BY RowsTrue
    <2>2. /\ kept \in Row /\ kept.run = row.run /\ kept.ok = row.ok
          /\ kept.status = "running"
      BY <2>1, NoRowTyped DEF Row, NoRow
    <2> DEFINE row2 == IF j.cmd = "watch" THEN row ELSE kept
               least2 == IF j.cmd = "stages" THEN stages[bound] ELSE 0
               pin2 == IF j.cmd \in Controls THEN row.run ELSE j.pin
               pc2 == IF j.cmd = "watch" THEN "look"
                      ELSE IF j.cmd = "stages" THEN "page" ELSE "send"
    <2>3. k = [j EXCEPT !.row = row2, !.least = least2, !.pin = pin2, !.pc = pc2]
      BY <1>1
    <2>4. row2 \in Row /\ least2 \in Nat /\ pin2 \in Runs \cup {Unknown}
      BY <1>1, <2>1, <2>2 DEF WorldInv, Job, Row
    <2> HIDE DEF k, kept
    <2>5. k = [cmd |-> j.cmd, pc |-> pc2, pin |-> pin2, row |-> row2, shown |-> {},
               hit |-> Unknown, got |-> <<>>, least |-> least2, result |-> "none"]
      <3> HIDE DEF j, row2, least2, pin2, pc2
      <3> QED BY <1>1, <2>3 DEF Job, Sound, Fresh
    <2>6. k \in Job
      <3> HIDE DEF j, row2, least2, pin2
      <3>1. pc2 \in {"look", "page", "send"} /\ Unknown \in Runs \cup {Unknown}
        OBVIOUS
      <3>2. <<>> \in Seq(Runs \X Nat) /\ "none" \in Results
        BY DEF Results
      <3> HIDE DEF pc2
      <3> QED BY <1>1, <2>4, <2>5, <3>1, <3>2 DEF Job
    <2>7. /\ j.pin \in {Unknown, row.run}
          /\ j.cmd \in Controls => row.ok
      BY <1>5 DEF Usable, Valid
    <2> HIDE DEF j
    <2>8. Truthful(k.row, state, cleanup) /\ Fresh(k) /\ WatchSound(k) /\ ControlSound(k)
      BY <1>1, <2>1, <2>2, <2>5, <2>7
      DEF Truthful, Fresh, WatchSound, ControlSound, Closed, Controls
    <2>9. WaitSound(k, state) /\ StagesSound(k, stages)
      BY <1>1, <2>1, <2>2, <2>4, <2>5 DEF WaitSound, StagesSound, Controls
    <2>10. Update(c, k)
      BY <1>2, <1>5 DEF k
    <2> QED BY <1>3, <2>6, <2>8, <2>9, <2>10, BecomesStep DEF Becomes, Sound
  <1> QED BY <1>4, <1>5

LEMMA BegunAs ==
  ASSUME NEW i \in Job, NEW cmd, NEW pin, NEW pc, NEW k,
         k = [i EXCEPT !.cmd = cmd, !.pin = pin, !.pc = pc]
  PROVE  k = [cmd |-> cmd, pc |-> pc, pin |-> pin, row |-> i.row, shown |-> i.shown,
              hit |-> i.hit, got |-> i.got, least |-> i.least, result |-> i.result]
  BY DEF Job

LEMMA BeginStep ==
  ASSUME JobInv, WorldInv, NEW c \in Clients, NEW cmd \in Commands, Begin(c, cmd)
  PROVE  WorldInv' /\ JobInv'
  <1>1. PICK pin \in (IF cmd = "wait" THEN {} ELSE {Unknown})
                       \cup (IF cmd \in {"runs", "run-cancel"} THEN {} ELSE {bound}) :
          Update(c, [Idle EXCEPT !.cmd = cmd, !.pin = pin,
                                 !.pc = IF cmd = "wait" THEN "poll" ELSE "first"])
    BY DEF Begin
  <1> DEFINE pc2 == IF cmd = "wait" THEN "poll" ELSE "first"
             k == [Idle EXCEPT !.cmd = cmd, !.pin = pin, !.pc = pc2]
  <1>2. k = [cmd |-> cmd, pc |-> pc2, pin |-> pin, row |-> NoRow, shown |-> {},
             hit |-> Unknown, got |-> <<>>, least |-> 0, result |-> "none"]
    <2> HIDE DEF pc2
    <2>1. k = [cmd |-> cmd, pc |-> pc2, pin |-> pin, row |-> Idle.row, shown |-> Idle.shown,
               hit |-> Idle.hit, got |-> Idle.got, least |-> Idle.least, result |-> Idle.result]
      <3>1. Idle \in Job
        BY IdleSound
      <3> QED BY <3>1, BegunAs, ZenonT(60)
    <2> QED BY <2>1 DEF Idle
  <1>3. pin \in Runs \cup {Unknown} /\ (cmd = "wait" => pin \in Runs)
    BY <1>1 DEF WorldInv
  <1>4. k \in Job
    <2>1. pc2 \in {"poll", "first"} /\ "none" \in Results
      BY DEF Results
    <2> HIDE DEF pc2, k
    <2> QED BY <1>2, <1>3, <2>1, NoRowTyped DEF Job
  <1>5. Sound(k, state, cleanup, stages)
    <2> HIDE DEF k
    <2> QED BY <1>2, <1>3 DEF Sound, Truthful, Fresh, WatchSound, WaitSound, ControlSound,
                              StagesSound, NoRow, Controls, Commands, Watching
  <1> QED BY <1>1, <1>4, <1>5, BecomesStep DEF Becomes, Begin

LEMMA LookStep ==
  ASSUME JobInv, WorldInv, NEW c \in Clients, Look(c)
  PROVE  WorldInv' /\ JobInv'
  <1> DEFINE j == job[c]
             shown2 == j.shown \cup ({j.row.run} \ {Unknown})
             done == Settled(j.row)
             pc2 == IF done THEN "idle" ELSE "poll"
             result2 == IF done THEN "settled" ELSE "none"
             pin2 == IF ~done /\ j.pin = Unknown THEN j.row.run ELSE j.pin
             k == [cmd |-> "watch", pc |-> pc2, pin |-> pin2, row |-> j.row, shown |-> shown2,
                   hit |-> Unknown, got |-> j.got, least |-> j.least, result |-> result2]
  <1>1. /\ j \in Job /\ Sound(j, state, cleanup, stages) /\ j.cmd = "watch" /\ j.pc = "look"
        /\ UNCHANGED world
    BY DEF JobInv, Look, At
  <1>2. Update(c, k)
    <2> DEFINE s == [j EXCEPT !.shown = shown2]
    <2>1. s = [cmd |-> "watch", pc |-> "look", pin |-> j.pin, row |-> j.row, shown |-> shown2,
               hit |-> Unknown, got |-> j.got, least |-> j.least, result |-> "none"]
      <3> HIDE DEF j, shown2
      <3>1. j \in Job /\ j.cmd = "watch" /\ j.pc = "look"
        BY <1>1
      <3>2. j.result = "none" /\ j.hit = Unknown
        BY <1>1 DEF Sound, Fresh
      <3> QED BY <3>1, <3>2, SMTT(30) DEF Job
    <2>2. Update(c, IF Settled(s.row) THEN [s EXCEPT !.pc = "idle", !.result = "settled"]
                    ELSE [s EXCEPT !.pc = "poll",
                                   !.pin = IF @ = Unknown THEN s.row.run ELSE @])
      BY DEF Look
    <2> HIDE DEF s, j, shown2
    <2>3. (IF Settled(s.row) THEN [s EXCEPT !.pc = "idle", !.result = "settled"]
           ELSE [s EXCEPT !.pc = "poll", !.pin = IF @ = Unknown THEN s.row.run ELSE @]) = k
      BY <2>1
    <2> QED BY <2>2, <2>3
  <1>3. /\ pc2 \in {"idle", "poll"} /\ result2 \in Results /\ pin2 \in Runs \cup {Unknown}
        /\ shown2 \in SUBSET Runs /\ Unknown \in Runs \cup {Unknown}
    BY <1>1, NoRowTyped DEF Job, Row, Results
  <1>4. k \in Job
    <2> HIDE DEF pc2, result2, pin2, shown2
    <2> QED BY <1>1, <1>3 DEF Job, Commands, Watching
  <1>5. WatchSound(k)
    <2>1. done => j.row.run \in Runs /\ j.row.run # Unknown
      BY <1>1, NoRowTyped DEF Sound, Truthful, Settled
    <2>2. j.pin \in {Unknown, j.row.run} /\ j.shown \subseteq {j.pin} \ {Unknown}
      BY <1>1 DEF Sound, WatchSound
    <2> HIDE DEF j
    <2> QED BY <2>1, <2>2 DEF WatchSound
  <1>6. Sound(k, state, cleanup, stages)
    BY <1>1, <1>5 DEF Sound, Truthful, Fresh, WaitSound, ControlSound, StagesSound, Controls
  <1> QED BY <1>1, <1>2, <1>4, <1>6, BecomesStep DEF Becomes

(* A watch goes on with another row, true of the run it watches. *)
LEMMA RereadStep ==
  ASSUME JobInv, WorldInv, NEW c \in Clients, job[c].cmd = "watch", job[c].pc = "poll",
         UNCHANGED world, NEW row \in Row, Truthful(row, state, cleanup),
         job[c].pin \in {Unknown, row.run},
         Update(c, [Goto(c, "look") EXCEPT !.row = row])
  PROVE  WorldInv' /\ JobInv'
  <1> DEFINE j == job[c]
             k == [cmd |-> "watch", pc |-> "look", pin |-> j.pin, row |-> row,
                   shown |-> j.shown, hit |-> Unknown, got |-> j.got, least |-> j.least,
                   result |-> "none"]
  <1>1. /\ j \in Job /\ Sound(j, state, cleanup, stages)
        /\ j.cmd = "watch" /\ j.pc = "poll"
    BY DEF JobInv
  <1>2. [Goto(c, "look") EXCEPT !.row = row] = k
    <2>1. Goto(c, "look") = [j EXCEPT !.pc = "look"]
      BY DEF Goto
    <2>2. j = [cmd |-> "watch", pc |-> "poll", pin |-> j.pin, row |-> j.row,
               shown |-> j.shown, hit |-> Unknown, got |-> j.got, least |-> j.least,
               result |-> "none"]
      <3> HIDE DEF j
      <3> QED BY <1>1 DEF Job, Sound, Fresh
    <2> HIDE DEF j
    <2> QED BY <2>1, <2>2
  <1>3. k \in Job
    BY <1>1 DEF Job, Results
  <1>4. WatchSound(k)
    <2>1. j.shown \subseteq {j.pin} \ {Unknown}
      BY <1>1 DEF Sound, WatchSound
    <2> QED BY <2>1 DEF WatchSound
  <1>5. Sound(k, state, cleanup, stages)
    BY <1>4 DEF Sound, Fresh, WaitSound, ControlSound, StagesSound, Controls
  <1> QED BY <1>2, <1>3, <1>5, BecomesStep DEF Becomes

LEMMA UnverifiedStep ==
  ASSUME JobInv, WorldInv, NEW c \in Clients, At(c, {"watch"}, "poll"),
         UNCHANGED world, Update(c, Unverified(c))
  PROVE  WorldInv' /\ JobInv'
  <1> DEFINE j == job[c]
             row == [j.row EXCEPT !.ok = FALSE]
  <1>1. /\ j \in Job /\ Sound(j, state, cleanup, stages) /\ j.cmd = "watch" /\ j.pc = "poll"
    BY DEF JobInv, At
  <1>2. row \in Row /\ row.run = j.row.run /\ row.ok = FALSE
    BY <1>1 DEF Job, Row
  <1>3. Unverified(c) = [Goto(c, "look") EXCEPT !.row = row]
    BY <1>1 DEF Unverified, Goto, Job
  <1>4. j.pin = j.row.run
    BY <1>1 DEF Sound, WatchSound
  <1> HIDE DEF row
  <1> QED BY <1>1, <1>2, <1>3, <1>4, RereadStep DEF Truthful

LEMMA ListRunsStep ==
  ASSUME JobInv, WorldInv, NEW c \in Clients, ListRuns(c)
  PROVE  WorldInv' /\ JobInv'
  <1> DEFINE j == job[c]
             Listed(status) ==
               [IF status \in Closed
                THEN End(c, IF job[c].cmd = "runs" THEN "final" ELSE "error")
                ELSE Goto(c, IF job[c].cmd = "runs" THEN "poll" ELSE "send")
                EXCEPT !.row.run = bound, !.row.status = status]
  <1>1. /\ j \in Job /\ Sound(j, state, cleanup, stages)
        /\ j.cmd \in {"runs", "run-cancel"} /\ j.pc = "first" /\ UNCHANGED world
    BY DEF JobInv, ListRuns, At
  <1>2. PICK status \in Recorded : Update(c, Listed(status))
    BY DEF ListRuns
  <1>3. status \in Closed \cup {"none", "running"} /\ bound \in Runs
    BY <1>2 DEF Recorded, WorldInv
  <1>4. ASSUME NEW k \in Job, k.cmd = j.cmd, ~k.row.ok, k.pc # "look", k.pc # "first",
               k.pc # "idle" => k.result = "none" /\ k.hit = Unknown
        PROVE  LET l == [k EXCEPT !.row.run = bound, !.row.status = status]
               IN  l \in Job /\ Sound(l, state, cleanup, stages)
    <2> DEFINE row2 == [k.row EXCEPT !.run = bound, !.status = status]
               l == [k EXCEPT !.row.run = bound, !.row.status = status]
    <2>1. row2 \in Row /\ row2.ok = FALSE
      BY <1>3, <1>4 DEF Job, Row
    <2>2. l = [k EXCEPT !.row = row2]
      BY <1>4 DEF Job, Row
    <2> HIDE DEF row2, l, j
    <2>3. l \in Job /\ l.row = row2 /\ l.cmd = j.cmd /\ l.pc = k.pc /\ l.result = k.result
          /\ l.hit = k.hit
      BY <1>4, <2>1, <2>2 DEF Job
    <2>4. Sound(l, state, cleanup, stages)
      BY <1>1, <1>4, <2>1, <2>3 DEF Sound, Truthful, Fresh, WatchSound, WaitSound,
         ControlSound, StagesSound, Controls
    <2> QED BY <2>3, <2>4 DEF l
  <1>5. CASE status \in Closed
    <2> DEFINE k == End(c, IF job[c].cmd = "runs" THEN "final" ELSE "error")
    <2>1. k \in Job
      BY <1>1, Ends DEF Results
    <2>2. k.cmd = j.cmd /\ k.row.ok = j.row.ok /\ k.pc = "idle"
      BY <1>1, NoRowTyped DEF End, Reported, Job, Row
    <2>3. ~k.row.ok
      BY <1>1, <2>2 DEF Sound, Fresh, NoRow
    <2> HIDE DEF k
    <2> QED BY <1>1, <1>2, <1>4, <1>5, <2>1, <2>2, <2>3, BecomesStep DEF Becomes, k
  <1>6. CASE status \notin Closed
    <2> DEFINE pc2 == IF job[c].cmd = "runs" THEN "poll" ELSE "send"
               k == Goto(c, pc2)
    <2>1. pc2 \in {"poll", "send"}
      OBVIOUS
    <2> HIDE DEF pc2
    <2>2. /\ k \in Job /\ k.cmd = j.cmd /\ k.row = j.row /\ k.pc = pc2
          /\ k.result = j.result /\ k.hit = j.hit
      BY <1>1, <2>1 DEF Goto, Job
    <2>3. ~k.row.ok /\ k.result = "none" /\ k.hit = Unknown
      BY <1>1, <2>2 DEF Sound, Fresh, NoRow
    <2>4. Update(c, [k EXCEPT !.row.run = bound, !.row.status = status])
      BY <1>2, <1>6 DEF pc2
    <2> HIDE DEF k
    <2> QED BY <1>1, <1>4, <2>1, <2>2, <2>3, <2>4, BecomesStep DEF Becomes
  <1> QED BY <1>5, <1>6

LEMMA StaysStep ==
  ASSUME JobInv, WorldInv, NEW c \in Clients, UNCHANGED world, Update(c, job[c])
  PROVE  WorldInv' /\ JobInv'
  BY BecomesStep DEF Becomes, JobInv

LEMMA PollStep ==
  ASSUME JobInv, WorldInv, NEW c \in Clients, Poll(c)
  PROVE  WorldInv' /\ JobInv'
  <1>1. PICK row \in Rows : Update(c, IF Valid(c, row) THEN [Goto(c, "look") EXCEPT !.row = row]
                                      ELSE Unverified(c))
    BY DEF Poll
  <1>2. /\ At(c, {"watch"}, "poll") /\ job[c].cmd = "watch" /\ job[c].pc = "poll"
        /\ UNCHANGED world
    BY DEF Poll, At
  <1>3. row \in Row /\ Truthful(row, state, cleanup)
    BY RowsTrue
  <1>4. CASE Valid(c, row)
    BY <1>1, <1>2, <1>3, <1>4, RereadStep DEF Valid
  <1>5. CASE ~Valid(c, row)
    BY <1>1, <1>2, <1>5, UnverifiedStep
  <1> QED BY <1>4, <1>5

LEMMA WaitStep ==
  ASSUME JobInv, WorldInv, NEW c \in Clients, Wait(c)
  PROVE  WorldInv' /\ JobInv'
  <1> DEFINE result == IF state[bound] = "completed" THEN "ok" ELSE "unsuccessful"
  <1>1. PICK row \in Rows :
          Update(c, IF ~Valid(c, row) THEN End(c, "changed")
                    ELSE IF row.ok /\ row.status \in Closed
                    THEN End(c, IF row.status = "completed" THEN "ok" ELSE "unsuccessful")
                    ELSE job[c])
    BY DEF Wait
  <1>2. job[c].cmd = "wait" /\ UNCHANGED world /\ Sound(job[c], state, cleanup, stages)
    BY DEF Wait, At, JobInv
  <1>3. CASE ~Valid(c, row)
    BY <1>1, <1>2, <1>3, EndsStep
  <1>4. CASE Valid(c, row) /\ row.ok /\ row.status \in Closed
    <2>1. /\ job[c].pin \in Runs /\ job[c].pin \in {Unknown, row.run}
      BY <1>2, <1>4 DEF Sound, WaitSound, Valid
    <2>2. job[c].pin = row.run /\ state[row.run] = row.status
      BY <1>4, <2>1, RowsTrue, NoRowTyped DEF Truthful
    <2>3. Update(c, End(c, IF row.status = "completed" THEN "ok" ELSE "unsuccessful"))
      BY <1>1, <1>4
    <2>4. CASE row.status = "completed"
      <3>1. End(c, "ok") \in Job /\ Sound(End(c, "ok"), state, cleanup, stages)
        BY <1>2, <2>2, <2>4, Ends DEF Results
      <3> QED BY <1>2, <2>3, <2>4, <3>1, BecomesStep DEF Becomes
    <2>5. CASE row.status # "completed"
      <3>1. /\ End(c, "unsuccessful") \in Job
            /\ Sound(End(c, "unsuccessful"), state, cleanup, stages)
        BY <1>2, <1>4, <2>2, <2>5, Ends DEF Results, Closed
      <3> QED BY <1>2, <2>3, <2>5, <3>1, BecomesStep DEF Becomes
    <2> QED BY <2>4, <2>5
  <1>5. CASE Valid(c, row) /\ ~(row.ok /\ row.status \in Closed)
    BY <1>1, <1>2, <1>5, StaysStep
  <1> QED BY <1>3, <1>4, <1>5

(* A control request: the engine obeys it, or not, and the client reports  *)
(* what it has heard; for a control the run hit is the one verified.       *)
LEMMA AcknowledgedStep ==
  ASSUME JobInv, WorldInv, NEW c \in Clients, NEW r \in Runs,
         NEW action \in {"cancel", "terminate", "cleanup"},
         job[c].cmd \in Controls \cup {"run-cancel"}, job[c].pc = "send",
         job[c].cmd \in Controls => r = job[c].pin,
         Acknowledged(c, action, r)
  PROVE  WorldInv' /\ JobInv'
  <1> DEFINE j == job[c]
  <1>1. /\ j \in Job /\ Sound(j, state, cleanup, stages)
        /\ WorldInv' /\ Later(state, cleanup, stages, state', cleanup', stages')
    BY ObeyedStep DEF JobInv, Acknowledged
  <1>2. PICK result \in {"requested", "error"} : Update(c, [End(c, result) EXCEPT !.hit = r])
    BY DEF Acknowledged
  <1>3. Sound(j, state', cleanup', stages')
    BY <1>1, StaysSound DEF WorldInv
  <1>4. End(c, "error") \in Job /\ Sound(End(c, "error"), state', cleanup', stages')
    BY <1>3, Ends DEF Results
  <1> DEFINE e == End(c, "error")
             k == [End(c, result) EXCEPT !.hit = r]
  <1>5. e.cmd = j.cmd /\ e.row.run = j.row.run /\ e.row.ok = j.row.ok /\ e.pc = "idle"
    BY <1>1, NoRowTyped DEF End, Reported, Job, Row
  <1>6. k = [e EXCEPT !.hit = r, !.result = result]
    BY <1>1 DEF End, Reported, Job
  <1> HIDE DEF e, k, j
  <1>7. /\ k \in Job /\ k.cmd = e.cmd /\ k.pc = e.pc /\ k.row = e.row /\ k.hit = r
        /\ k.result = result
    BY <1>2, <1>4, <1>6 DEF e, Job, Results
  <1>8. j.cmd \in Controls => r = j.row.run /\ j.row.ok
    BY <1>1 DEF Sound, ControlSound, j
  <1>9. Truthful(k.row, state', cleanup') /\ Fresh(k) /\ ControlSound(k)
    BY <1>4, <1>5, <1>7, <1>8, NoRowTyped DEF Sound, e, Truthful, Fresh, ControlSound
  <1>10. WatchSound(k) /\ WaitSound(k, state') /\ StagesSound(k, stages')
    BY <1>5, <1>7 DEF WatchSound, WaitSound, StagesSound, Controls, j
  <1>11. Update(c, k)
    BY <1>2 DEF k
  <1> QED BY <1>1, <1>7, <1>9, <1>10, <1>11, UpdateStep DEF Sound

LEMMA SendControlStep ==
  ASSUME JobInv, WorldInv, NEW c \in Clients, SendControl(c)
  PROVE  WorldInv' /\ JobInv'
  <1>1. CASE Refused(c)
    BY <1>1, EndsStep DEF Refused
  <1>2. CASE bound = job[c].pin /\ Acknowledged(c, job[c].cmd, job[c].pin)
    <2>1. bound \in Runs /\ job[c].cmd \in Controls /\ job[c].pc = "send"
      BY DEF SendControl, At, WorldInv
    <2> QED BY <1>2, <2>1, AcknowledgedStep DEF Controls
  <1> QED BY <1>1, <1>2 DEF SendControl

LEMMA RunCancelStep ==
  ASSUME JobInv, WorldInv, NEW c \in Clients, RunCancel(c)
  PROVE  WorldInv' /\ JobInv'
  <1>1. CASE Refused(c)
    BY <1>1, EndsStep DEF Refused
  <1>2. ASSUME NEW action \in {"cancel", "terminate"}, Acknowledged(c, action, Newest)
        PROVE  WorldInv' /\ JobInv'
    <2>1. job[c].cmd = "run-cancel" /\ job[c].pc = "send" /\ job[c].cmd \notin Controls
      BY DEF RunCancel, At, Controls
    <2> QED BY <1>2, <2>1, NewestIs, AcknowledgedStep
  <1> QED BY <1>1, <1>2 DEF RunCancel

LEMMA PageStep ==
  ASSUME JobInv, WorldInv, NEW c \in Clients, Page(c)
  PROVE  WorldInv' /\ JobInv'
  <1> DEFINE j == job[c]
  <1>1. /\ j \in Job /\ Sound(j, state, cleanup, stages) /\ j.cmd = "stages" /\ j.pc = "page"
        /\ UNCHANGED world
    BY DEF JobInv, Page, At
  <1>2. CASE Update(c, End(c, "error"))
    BY <1>1, <1>2, EndsStep
  <1>3. CASE j.row.run \in PageRun /\ Update(c, Paged(c))
    <2> DEFINE got == IF Len(j.got) < stages[bound]
                      THEN Append(j.got, <<bound, Len(j.got) + 1>>) ELSE j.got
               n == stages[bound]
    <2>1. j.got \in Seq(Runs \X Nat) /\ n \in Nat /\ bound \in Runs
      BY <1>1 DEF Job, WorldInv
    <2>2. got \in Seq(Runs \X Nat)
      BY <2>1
    <2>3. j.row.run # Unknown => j.row.run = bound
      BY <1>3 DEF PageRun
    <2>4. j.row.run # Unknown => \A i \in 1 .. Len(got) : got[i] = <<j.row.run, i>>
      BY <1>1, <2>1, <2>3 DEF Sound, StagesSound
    <2>5. j.row.run # Unknown => j.least <= n
      BY <1>1, <2>3 DEF Sound, StagesSound
    <2>6. Update(c, IF Len(got) < n THEN [job[c] EXCEPT !.got = got]
                    ELSE [End(c, "listed") EXCEPT !.got = got])
      BY <1>3 DEF Paged
    <2> HIDE DEF got, n
    <2>7. CASE Len(got) < n
      <3> DEFINE k == [j EXCEPT !.got = got]
      <3>1. Update(c, k)
        BY <2>6, <2>7
      <3> HIDE DEF j, k
      <3>2. k = [cmd |-> "stages", pc |-> "page", pin |-> j.pin, row |-> j.row,
                 shown |-> j.shown, hit |-> Unknown, got |-> got, least |-> j.least,
                 result |-> "none"]
        BY <1>1 DEF k, Job, Sound, Fresh
      <3>3. k \in Job
        BY <1>1, <2>2, <3>2 DEF Job, Results, Commands
      <3>4. Sound(k, state, cleanup, stages)
        BY <1>1, <2>4, <3>2 DEF Sound, Fresh, WatchSound, WaitSound, ControlSound,
                               StagesSound, Controls
      <3> QED BY <1>1, <3>1, <3>3, <3>4, BecomesStep DEF Becomes
    <2>8. CASE ~(Len(got) < n)
      <3> DEFINE e == End(c, "error")
                 k == [End(c, "listed") EXCEPT !.got = got]
      <3>1. Update(c, k)
        BY <2>6, <2>8
      <3>2. e \in Job /\ Sound(e, state, cleanup, stages)
        BY <1>1, Ends DEF Results
      <3>3. /\ e.cmd = "stages" /\ e.pc = "idle" /\ e.row.run = j.row.run /\ e.hit = Unknown
            /\ e.least = j.least
        BY <1>1, NoRowTyped DEF End, Reported, Job, Row, Sound, Fresh
      <3>4. k = [e EXCEPT !.got = got, !.result = "listed"]
        BY <1>1 DEF End, Reported, Job
      <3> HIDE DEF j, e, k
      <3>5. /\ k \in Job /\ k.cmd = "stages" /\ k.pc = "idle" /\ k.row = e.row
            /\ k.hit = Unknown /\ k.got = got /\ k.least = j.least /\ k.result = "listed"
        BY <2>2, <3>2, <3>3, <3>4 DEF Job, Results
      <3>6. Len(got) \in Nat /\ n <= Len(got)
        BY <2>1, <2>2, <2>8
      <3>7. k.row.run # Unknown => k.least <= Len(got)
        BY <1>1, <2>1, <2>5, <3>3, <3>5, <3>6 DEF Job
      <3>8. StagesSound(k, stages)
        BY <2>4, <3>3, <3>5, <3>7 DEF StagesSound
      <3>9. Sound(k, state, cleanup, stages)
        BY <3>2, <3>5, <3>8 DEF Sound, Fresh, WatchSound, WaitSound, ControlSound, Controls
      <3> QED BY <1>1, <3>1, <3>5, <3>9, BecomesStep DEF Becomes
    <2> QED BY <2>7, <2>8
  <1> QED BY <1>2, <1>3 DEF Page

-----------------------------------------------------------------------------
IInv == WorldInv /\ JobInv

LEMMA IInvInit == Init => IInv
  BY WorldStart, IdleSound DEF Init, IInv, JobInv

LEMMA IInvStep == IInv /\ [Next]_vars => IInv'
  <1> SUFFICES ASSUME WorldInv, JobInv, [Next]_vars PROVE WorldInv' /\ JobInv'
    BY DEF IInv
  <1>1. ASSUME NEW c \in Clients, Step(c) PROVE WorldInv' /\ JobInv'
    <2>1. ASSUME NEW cmd \in Commands, Begin(c, cmd) PROVE WorldInv' /\ JobInv'
      BY <2>1, BeginStep
    <2>2. CASE ReadLost(c) \/ WaitRefused(c) \/ Deadline(c)
      BY <2>2, EndsStep DEF ReadLost, WaitRefused, Deadline
    <2>3. CASE ReadExecution(c) \/ ListRuns(c)
      BY <2>3, ReadExecutionStep, ListRunsStep
    <2>4. CASE Look(c)
      BY <2>4, LookStep
    <2>5. CASE PollLost(c)
      BY <2>5, UnverifiedStep DEF PollLost
    <2>6. CASE Poll(c)
      BY <2>6, PollStep
    <2>7. CASE PollRuns(c)
      BY <2>7, EndsStep, StaysStep DEF PollRuns
    <2>8. CASE Wait(c)
      BY <2>8, WaitStep
    <2>9. CASE SendControl(c)
      BY <2>9, SendControlStep
    <2>10. CASE RunCancel(c)
      BY <2>10, RunCancelStep
    <2>11. CASE Page(c)
      BY <2>11, PageStep
    <2> QED BY <1>1, <2>1, <2>2, <2>3, <2>4, <2>5, <2>6, <2>7, <2>8, <2>9, <2>10, <2>11
            DEF Step
  <1>2. CASE WorldNext /\ UNCHANGED job
    <2>1. WorldInv' /\ Later(state, cleanup, stages, state', cleanup', stages')
      BY <1>2, WorldStep
    <2>2. \A c \in Clients : Sound(job[c], state', cleanup', stages')
      BY <2>1, StaysSound DEF JobInv, WorldInv
    <2> QED BY <1>2, <2>1, <2>2 DEF JobInv
  <1>3. CASE UNCHANGED vars
    <2>1. UNCHANGED <<state, cleanup, stages, bound, seen, job>>
      BY <1>3 DEF vars, world, engine, record
    <2> QED BY <2>1 DEF WorldInv, Incarnations, CleanedAfterClosed, JobInv
  <1> QED BY <1>1, <1>2, <1>3 DEF Next

LEMMA IInvAlways == Spec => []IInv
  BY IInvInit, IInvStep, PTL DEF Spec

(* A watch shows one incarnation, reports it settled only when it is, and  *)
(* the wait of an agent run reports the end of the run it started.         *)
THEOREM Followed == Spec => []FollowedIsTheRun
  <1>1. ASSUME IInv PROVE FollowedIsTheRun
    <2>1. \A c \in Clients : Sound(job[c], state, cleanup, stages)
      BY <1>1 DEF IInv, JobInv
    <2>2. WatchSettled
      BY <2>1 DEF WatchSettled, Sound, WatchSound, Truthful, Settled
    <2>3. WaitOriginal
      BY <2>1 DEF WaitOriginal, Sound, WaitSound
    <2> QED BY <2>2, <2>3 DEF FollowedIsTheRun
  <1> QED BY <1>1, IInvAlways, PTL

(* A stop, a termination or a cleanup touches the incarnation that was     *)
(* verified, or nothing.                                                   *)
THEOREM ControlsExact == Spec => []ControlExact
  <1>1. IInv => ControlExact
    BY DEF IInv, JobInv, ControlExact, Sound, ControlSound
  <1> QED BY <1>1, IInvAlways, PTL

(* A listing of stages is of one incarnation, whole and in order.          *)
THEOREM StagesListed == Spec => []StagesOfOneRun
  <1>1. ASSUME IInv PROVE StagesOfOneRun
    <2> SUFFICES ASSUME NEW c \in Clients, job[c].cmd = "stages", job[c].result = "listed",
                        job[c].row.run # Unknown
                 PROVE  /\ job[c].got = [i \in DOMAIN job[c].got |-> <<job[c].row.run, i>>]
                        /\ Len(job[c].got) >= job[c].least
      BY DEF StagesOfOneRun
    <2>1. job[c].got \in Seq(Runs \X Nat) /\ Sound(job[c], state, cleanup, stages)
      BY <1>1 DEF IInv, JobInv, Job
    <2>2. /\ \A i \in 1 .. Len(job[c].got) : job[c].got[i] = <<job[c].row.run, i>>
          /\ Len(job[c].got) >= job[c].least
      BY <2>1 DEF Sound, StagesSound
    <2> DEFINE got == job[c].got
    <2>3. got = [i \in 1 .. Len(got) |-> got[i]] /\ DOMAIN got = 1 .. Len(got)
      BY <2>1
    <2> QED BY <2>2, <2>3
  <1> QED BY <1>1, IInvAlways, PTL
=============================================================================
