---------------------------- MODULE PollsProofs ----------------------------
(***************************************************************************)
(* What MCPolls guarantees for every interval, timeout and deadline of a   *)
(* wait, and for every length of a list, size of a page, cap and number of *)
(* changes.                                                                *)
(***************************************************************************)
EXTENDS MCPolls, FiniteSetTheorems, TLAPS

-----------------------------------------------------------------------------
(* Waits.                                                                  *)
(* The times of a wait, and what has become of the thing it waits for.     *)
WaitTyped ==
  /\ wait \in Wait!Wait
  /\ clock \in 0 .. MaxTime /\ since \in 0 .. clock
  /\ things \in [1 .. 2 -> {"pending", "good", "bad", "gone"}]
  /\ settled \in 0 .. clock \cup {Wait!Never}
  /\ pc \in {"look", "asked", "pause", "ended"}
  /\ outcome # "none" => pc = "ended"

(* The thing that was started has settled only if it is not pending. *)
WaitHistory ==
  /\ things[1] = "pending" => settled = Wait!Never
  /\ things[1] \in Wait!Terminal => settled <= clock

(* No step of the command takes longer than it may. *)
WaitOnTime ==
  /\ pc = "look" => clock = since
  /\ pc = "asked" => clock <= since + ReadTime
  /\ pc = "pause" => clock <= since + Poll
  /\ outcome = "late" => clock >= Deadline

(* What an answer that has arrived says was so when the read began or      *)
(* later, and a pause began at most one read after that.                   *)
WaitAnswer ==
  wait.by = "id" =>
    /\ pc = "asked" /\ answer \in Wait!Terminal =>
         /\ settled <= clock
         /\ wait.lasting => things[1] \in {answer, "gone"}
    /\ pc = "asked" /\ answer \in {"pending", "missing"} =>
         things[1] = "gone" \/ settled >= since
    /\ pc = "pause" => things[1] = "gone" \/ settled + ReadTime >= since
    /\ pc = "look" => things[1] = "gone" \/ settled + ReadTime + Poll >= since

WaitInv ==
  /\ WaitTyped /\ WaitHistory /\ WaitOnTime /\ WaitAnswer
  /\ Wait!VerdictIsTrue /\ Wait!NoticedInTime

LEMMA Times ==
  /\ Poll \in Nat \ {0} /\ ReadTime \in Nat /\ Deadline \in Nat /\ MaxTime \in Nat
  /\ MaxTime > Deadline + Poll + ReadTime /\ Wait!Never = MaxTime + 1
  BY PollsAssumption DEF Wait!TimesAssumption, Wait!Never

(* The loops of the repository are loops. *)
LEMMA WaitRows == Wait!AllWaits \subseteq Wait!Wait
  <1>1. /\ Wait!WaitForDeployment \in Wait!Wait /\ Wait!WaitForReachability \in Wait!Wait
        /\ Wait!WaitForBrainCreation \in Wait!Wait /\ Wait!WaitForBox \in Wait!Wait
        /\ Wait!WaitAgentTask \in Wait!Wait /\ Wait!WatchRun \in Wait!Wait
        /\ Wait!ShowTaskRun \in Wait!Wait
    BY DEF Wait!Wait, Wait!WaitForDeployment, Wait!WaitForReachability, Wait!ShowTaskRun,
       Wait!WaitForBrainCreation, Wait!WaitForBox, Wait!WaitAgentTask, Wait!WatchRun
  <1>2. \A w \in Wait!Wait, l \in {"checked", "first", "context"} :
          [w EXCEPT !.limit = l] \in Wait!Wait
    BY DEF Wait!Wait
  <1>3. Wait!PollWorkflow \in Wait!Wait /\ Wait!PollLoginUntil \in Wait!Wait
    BY <1>1, <1>2 DEF Wait!PollWorkflow, Wait!PollLoginUntil
  <1> QED BY <1>1, <1>3 DEF Wait!AllWaits

LEMMA WaitBegins == Wait!Init => WaitInv
  <1> SUFFICES ASSUME Wait!Init PROVE WaitInv
    OBVIOUS
  <1>1. /\ wait \in Wait!Wait
        /\ clock = 0 /\ settled = Wait!Never /\ since = 0 /\ outcome = "none"
        /\ things = [n \in 1 .. 2 |-> IF n = 1 THEN "pending" ELSE "gone"]
        /\ \/ pc = "asked" /\ answer = "pending"
           \/ pc = "look" /\ answer = "none"
           \/ pc = "pause" /\ answer = "none"
    BY WaitRows DEF Wait!Init, Wait!Wait
  <1> HIDE DEF Wait!Init
  <1>2. things[1] = "pending"
    BY <1>1
  <1>3. WaitTyped /\ WaitHistory /\ WaitOnTime
    BY <1>1, <1>2, Times DEF WaitTyped, WaitHistory, WaitOnTime, Wait!Terminal
  <1>4. WaitAnswer
    BY <1>1, <1>2, Times DEF WaitAnswer, Wait!Terminal
  <1>5. Wait!VerdictIsTrue /\ Wait!NoticedInTime
    BY <1>1 DEF Wait!VerdictIsTrue, Wait!NoticedInTime
  <1> QED BY <1>3, <1>4, <1>5 DEF WaitInv

(* The state in which an end was found is what the verdict says. *)
LEMMA WaitEnded ==
  ASSUME WaitInv, NEW what, Wait!End(what),
         what \in {"success", "failed", "missing", "late", "error"},
         wait.by = "id" /\ what \in {"success", "failed"} =>
           /\ settled <= clock
           /\ wait.lasting /\ things[1] # "gone" =>
                \/ wait.failure = "success" /\ things[1] \in Wait!Terminal
                \/ things[1] = IF what = "success" THEN "good" ELSE "bad",
         what = "late" => clock >= Deadline,
         wait.by = "id" /\ what = "late" /\ things[1] # "gone" =>
           settled + ReadTime + (IF wait.limit = "checked" THEN 0 ELSE Poll) >= Deadline
  PROVE WaitInv'
  <1>1. /\ outcome' = what /\ pc' = "ended" /\ since' = clock
        /\ wait' = wait /\ clock' = clock /\ things' = things /\ settled' = settled
        /\ answer' = answer
    BY DEF Wait!End, Wait!Goto, Wait!world
  <1>2. WaitTyped' /\ WaitHistory' /\ WaitOnTime' /\ WaitAnswer'
    BY <1>1, Times DEF WaitInv, WaitTyped, WaitHistory, WaitOnTime, WaitAnswer, Wait!Never
  <1>3. Wait!VerdictIsTrue' /\ Wait!NoticedInTime'
    BY <1>1 DEF Wait!VerdictIsTrue, Wait!NoticedInTime, Wait!Terminal
  <1> QED BY <1>2, <1>3 DEF WaitInv

(* The command goes from one step to the next. *)
LEMMA WaitGoesTo ==
  ASSUME WaitInv, NEW where \in {"look", "asked", "pause"}, pc # "ended",
         Wait!Goto(where), outcome' = outcome,
         wait' = wait, clock' = clock, things' = things, settled' = settled,
         WaitAnswer'
  PROVE WaitInv'
  <1>1. outcome = "none" /\ pc' = where /\ since' = clock
    BY DEF WaitInv, WaitTyped, Wait!Goto
  <1>2. WaitTyped' /\ WaitHistory' /\ WaitOnTime'
    BY <1>1, Times DEF WaitInv, WaitTyped, WaitHistory, WaitOnTime, Wait!Never
  <1>3. Wait!VerdictIsTrue' /\ Wait!NoticedInTime'
    BY <1>1 DEF Wait!VerdictIsTrue, Wait!NoticedInTime
  <1> QED BY <1>2, <1>3 DEF WaitInv

(* Every step of the command, of time and of others keeps the invariant.   *)
LEMMA WaitCommand == WaitInv /\ Wait!Command => WaitInv'
  <1> SUFFICES ASSUME WaitInv, Wait!Command PROVE WaitInv'
    OBVIOUS
  <1>t. /\ clock \in Nat /\ since \in Nat /\ since <= clock /\ settled \in Nat
        /\ clock <= MaxTime /\ wait \in Wait!Wait
    BY Times DEF WaitInv, WaitTyped
  <1>1. CASE Wait!Ask
    <2>1. /\ Wait!Goto("asked") /\ pc = "look" /\ answer' = "none" /\ outcome' = outcome
          /\ wait' = wait /\ clock' = clock /\ things' = things /\ settled' = settled
      BY <1>1 DEF Wait!Ask, Wait!world
    <2>2. WaitAnswer'
      BY <2>1 DEF WaitAnswer, Wait!Goto, Wait!Terminal
    <2> QED BY <2>1, <2>2, WaitGoesTo
  <1>2. CASE Wait!TooLate
    <2>1. /\ Wait!End("late") /\ clock >= Deadline /\ wait.limit # "checked" /\ pc = "look"
      BY <1>2 DEF Wait!TooLate, Wait!Over
    <2>2. wait.by = "id" /\ things[1] # "gone" => settled + ReadTime + Poll >= Deadline
      BY <2>1, <1>t, Times DEF WaitInv, WaitOnTime, WaitAnswer
    <2> QED BY <2>1, <2>2, WaitEnded
  <1>3. CASE Wait!Fail
    BY <1>3, WaitEnded DEF Wait!Fail
  <1>4. CASE Wait!Cut
    <2>1. CASE Wait!End("error")
      BY <2>1, WaitEnded
    <2>2. CASE pc = "pause" /\ Wait!End("late")
      <3>1. wait.limit # "checked" /\ clock >= Deadline /\ clock <= since + Poll
        BY <1>4, <2>2 DEF Wait!Cut, Wait!Over, WaitInv, WaitOnTime
      <3>2. wait.by = "id" /\ things[1] # "gone" => settled + ReadTime + Poll >= Deadline
        BY <2>2, <3>1, <1>t, Times DEF WaitInv, WaitAnswer
      <3> QED BY <2>2, <3>1, <3>2, WaitEnded
    <2> QED BY <1>4, <2>1, <2>2 DEF Wait!Cut
  <1>5. CASE Wait!Verdict
    <2>1. /\ pc = "asked" /\ answer \in {"good", "bad"}
          /\ Wait!End(IF answer = "good" \/ wait.failure = "success"
                        THEN "success" ELSE "failed")
      BY <1>5 DEF Wait!Verdict, Wait!Arrived, Wait!Terminal, Wait!Succeeded
    <2>2. wait.by = "id" => /\ settled <= clock
                            /\ wait.lasting => things[1] \in {answer, "gone"}
      BY <2>1 DEF WaitInv, WaitAnswer, Wait!Terminal
    <2>3. CASE answer = "good" \/ wait.failure = "success"
      <3>1. Wait!End("success")
        BY <2>1, <2>3
      <3> QED BY <3>1, <2>1, <2>2, <2>3, WaitEnded DEF Wait!Terminal
    <2>4. CASE ~(answer = "good" \/ wait.failure = "success")
      <3>1. Wait!End("failed")
        BY <2>1, <2>4
      <3> QED BY <3>1, <2>1, <2>2, <2>4, WaitEnded DEF Wait!Terminal
    <2> QED BY <2>3, <2>4
  <1>6. CASE Wait!Vanished
    BY <1>6, WaitEnded DEF Wait!Vanished
  <1>7. CASE Wait!GiveUp
    <2>1. /\ pc = "asked" /\ answer \in {"pending", "missing"} /\ Wait!End("late")
          /\ wait.limit = "checked" /\ clock >= Deadline /\ clock <= since + ReadTime
      BY <1>7 DEF Wait!GiveUp, Wait!Unsettled, Wait!Arrived, Wait!Over, WaitInv, WaitOnTime
    <2>2. wait.by = "id" /\ things[1] # "gone" => settled + ReadTime >= Deadline
      BY <2>1, <1>t, Times DEF WaitInv, WaitAnswer
    <2>3. settled + ReadTime + 0 = settled + ReadTime
      BY <1>t, Times
    <2> QED BY <2>1, <2>2, <2>3, WaitEnded
  <1>8. CASE Wait!Again
    <2>1. /\ Wait!Goto("pause") /\ pc = "asked" /\ outcome' = outcome
          /\ answer \in {"pending", "missing"}
          /\ wait' = wait /\ clock' = clock /\ things' = things /\ settled' = settled
      BY <1>8 DEF Wait!Again, Wait!Unsettled, Wait!Arrived, Wait!world
    <2>2. WaitAnswer'
      BY <2>1, <1>t, Times DEF WaitInv, WaitAnswer, WaitOnTime, Wait!Goto, Wait!Terminal
    <2> QED BY <2>1, <2>2, WaitGoesTo
  <1>9. CASE Wait!Wake
    <2>1. /\ Wait!Goto("look") /\ pc = "pause" /\ outcome' = outcome
          /\ wait' = wait /\ clock' = clock /\ things' = things /\ settled' = settled
      BY <1>9 DEF Wait!Wake, Wait!world
    <2>2. WaitAnswer'
      BY <2>1, <1>t, Times DEF WaitInv, WaitAnswer, WaitOnTime, Wait!Goto, Wait!Terminal
    <2> QED BY <2>1, <2>2, WaitGoesTo
  <1> QED BY <1>1, <1>2, <1>3, <1>4, <1>5, <1>6, <1>7, <1>8, <1>9 DEF Wait!Command

LEMMA WaitWorld ==
  ASSUME WaitInv, Wait!Serve \/ Wait!Tick \/ Wait!Others
  PROVE WaitInv'
  <1>t. /\ clock \in Nat /\ since \in Nat /\ since <= clock /\ settled \in Nat
        /\ clock <= MaxTime /\ wait \in Wait!Wait
        /\ settled <= clock \/ settled = MaxTime + 1
        /\ things \in [1 .. 2 -> {"pending", "good", "bad", "gone"}]
    BY Times DEF WaitInv, WaitTyped
  <1>1. CASE Wait!Serve
    <2>1. /\ pc = "asked" /\ answer' = Wait!StateOf(Wait!Addressed)
          /\ UNCHANGED <<wait, clock, things, settled, pc, since, outcome>>
      BY <1>1 DEF Wait!Serve, Wait!world
    <2>2. wait.by = "id" =>
            answer' = IF things[1] = "gone" THEN "missing" ELSE things[1]
      BY <2>1 DEF Wait!StateOf, Wait!Addressed
    <2>3. things[1] = "pending" => settled >= since
      BY <1>t, Times DEF WaitInv, WaitHistory
    <2>4. WaitAnswer'
      BY <2>1, <2>2, <2>3, <1>t DEF WaitInv, WaitHistory, WaitAnswer, Wait!Terminal
    <2>5. WaitTyped' /\ WaitHistory' /\ WaitOnTime'
      BY <2>1 DEF WaitInv, WaitTyped, WaitHistory, WaitOnTime, Wait!Never
    <2>6. Wait!VerdictIsTrue' /\ Wait!NoticedInTime'
      BY <2>1 DEF WaitInv, Wait!VerdictIsTrue, Wait!NoticedInTime, Wait!Terminal
    <2> QED BY <2>4, <2>5, <2>6 DEF WaitInv
  <1>2. CASE Wait!Tick
    <2>1. /\ clock < MaxTime /\ clock' = clock + 1
          /\ pc # "look"
          /\ pc = "pause" => clock < since + Poll
          /\ pc = "asked" => clock < since + ReadTime
          /\ UNCHANGED <<wait, things, settled, pc, since, answer, outcome>>
      BY <1>2 DEF Wait!Tick, Wait!OnTime, Wait!world
    <2>2. WaitTyped' /\ WaitHistory' /\ WaitOnTime'
      BY <2>1, <1>t, Times DEF WaitInv, WaitTyped, WaitHistory, WaitOnTime, Wait!Never
    <2>3. WaitAnswer'
      BY <2>1, <1>t, Times DEF WaitInv, WaitAnswer
    <2>4. Wait!VerdictIsTrue' /\ Wait!NoticedInTime'
      BY <2>1 DEF WaitInv, Wait!VerdictIsTrue, Wait!NoticedInTime, Wait!Terminal
    <2> QED BY <2>2, <2>3, <2>4 DEF WaitInv
  <1>3. CASE Wait!Settle
    <2>1. /\ UNCHANGED <<wait, clock, pc, since, answer, outcome>>
          /\ things' \in [1 .. 2 -> {"pending", "good", "bad", "gone"}]
          /\ \/ things'[1] = things[1] /\ settled' = settled
             \/ /\ things'[1] \in {"good", "bad"}
                /\ things[1] = "pending" \/ (things[1] = "good" /\ ~wait.lasting)
                /\ settled' = IF settled = Wait!Never THEN clock ELSE settled
      BY <1>3, <1>t DEF Wait!Settle, Wait!Terminal
    <2>2. /\ settled' \in 0 .. clock \cup {Wait!Never}
          /\ settled' = settled \/ settled' = clock
          /\ things'[1] # things[1] => settled' <= clock
      BY <2>1, <1>t, Times DEF WaitInv, WaitTyped, WaitHistory, Wait!Terminal
    <2>3. WaitTyped' /\ WaitHistory' /\ WaitOnTime'
      BY <2>1, <2>2, <1>t, Times
      DEF WaitInv, WaitTyped, WaitHistory, WaitOnTime, Wait!Never, Wait!Terminal
    <2>4. WaitAnswer'
      <3>1. CASE things'[1] = things[1] /\ settled' = settled
        BY <2>1, <3>1 DEF WaitInv, WaitAnswer
      <3>2. CASE things'[1] # things[1] \/ settled' # settled
        <4>1. /\ things'[1] \in {"good", "bad"} /\ things[1] # "gone"
              /\ things[1] # "pending" => ~wait.lasting
          BY <2>1, <3>2
        <4>2. UNCHANGED <<wait, clock, pc, since, answer>>
          BY <2>1
        <4>3. settled' = settled \/ settled' = clock
          BY <2>2, <1>t
        <4>4. settled' <= clock
          BY <3>2, <2>1, <2>2, <1>t
        <4>5. wait.by = "id" /\ pc = "asked" /\ answer \in {"good", "bad"} => ~wait.lasting
          BY <4>1 DEF WaitInv, WaitAnswer, Wait!Terminal
        <4>6. wait.by = "id" /\ pc = "asked" /\ answer \in {"pending", "missing"} =>
                settled' >= since
          BY <4>1, <4>3, <1>t DEF WaitInv, WaitAnswer
        <4>7. wait.by = "id" /\ pc = "pause" => settled' + ReadTime >= since
          BY <4>1, <4>3, <1>t, Times DEF WaitInv, WaitAnswer
        <4>8. wait.by = "id" /\ pc = "look" => settled' + ReadTime + Poll >= since
          BY <4>1, <4>3, <1>t, Times DEF WaitInv, WaitAnswer
        <4> QED BY <4>2, <4>4, <4>5, <4>6, <4>7, <4>8 DEF WaitAnswer, Wait!Terminal
      <3> QED BY <3>1, <3>2
    <2>5. Wait!VerdictIsTrue'
      <3>1. CASE things'[1] = things[1] /\ settled' = settled
        BY <2>1, <3>1 DEF WaitInv, Wait!VerdictIsTrue, Wait!Terminal
      <3>2. CASE things'[1] # things[1] \/ settled' # settled
        <4>1. settled = Wait!Never \/ (~wait.lasting /\ settled' = settled)
          BY <2>1, <3>2, <1>t, Times DEF WaitInv, WaitHistory, Wait!Terminal, Wait!Never
        <4> QED BY <4>1, <2>1, <1>t, Times DEF WaitInv, Wait!VerdictIsTrue, Wait!Terminal
      <3> QED BY <3>1, <3>2
    <2>6. Wait!NoticedInTime'
      <3>1. CASE settled' = settled
        BY <2>1, <3>1 DEF WaitInv, Wait!NoticedInTime
      <3>2. CASE settled' = clock
        BY <2>1, <3>2, <1>t, Times DEF WaitInv, WaitOnTime, Wait!NoticedInTime
      <3> QED BY <2>2, <3>1, <3>2
    <2> QED BY <2>3, <2>4, <2>5, <2>6 DEF WaitInv
  <1>4. CASE Wait!Remove \/ Wait!Replace
    <2>1. /\ UNCHANGED <<wait, clock, settled, pc, since, answer, outcome>>
          /\ things' \in [1 .. 2 -> {"pending", "good", "bad", "gone"}]
          /\ things'[1] \in {things[1], "gone"}
      BY <1>4, <1>t DEF Wait!Remove, Wait!Replace
    <2>2. WaitTyped' /\ WaitHistory' /\ WaitOnTime'
      BY <2>1 DEF WaitInv, WaitTyped, WaitHistory, WaitOnTime, Wait!Never, Wait!Terminal
    <2>3. WaitAnswer'
      BY <2>1 DEF WaitInv, WaitAnswer
    <2>4. Wait!VerdictIsTrue' /\ Wait!NoticedInTime'
      BY <2>1 DEF WaitInv, Wait!VerdictIsTrue, Wait!NoticedInTime, Wait!Terminal
    <2> QED BY <2>2, <2>3, <2>4 DEF WaitInv
  <1> QED BY <1>1, <1>2, <1>3, <1>4 DEF Wait!Others

WaitKept == command = "wait" => WaitInv

LEMMA WaitKeptStep == WaitKept /\ [Next]_vars => WaitKept'
  <1> SUFFICES ASSUME WaitInv, command = "wait", [Next]_vars, command' = "wait"
               PROVE WaitInv'
    BY DEF WaitKept, Next, Waiting, Walking, vars
  <1>1. CASE Waiting
    BY <1>1, WaitCommand, WaitWorld DEF Waiting, Wait!Next
  <1>2. CASE UNCHANGED vars
    BY <1>2 DEF vars, onlyWaits, WaitInv, WaitTyped, WaitHistory, WaitOnTime, WaitAnswer,
       Wait!VerdictIsTrue, Wait!NoticedInTime, Wait!Terminal, Wait!Never
  <1> QED BY <1>1, <1>2 DEF Next, Walking

(* What a wait says of the end of the thing it started is true, stays true *)
(* where ends last, and what ended in time is not reported as late: for    *)
(* every interval, client timeout and deadline (helpers.go pollWorkflow    *)
(* and the other loops of Waits).                                          *)
THEOREM WaitsTrue == Spec => []VerdictIsTrue
  <1>1. Init => WaitKept
    BY WaitBegins DEF Init, WaitKept
  <1>2. WaitKept => VerdictIsTrue
    BY DEF WaitKept, WaitInv, VerdictIsTrue
  <1> QED BY <1>1, <1>2, WaitKeptStep, PTL DEF Spec

-----------------------------------------------------------------------------
(* Walks.                                                                  *)
(* The list, and what has been read of it. *)
WalkTyped ==
  /\ walk \in Walk!Walk /\ cursor \in Nat
  /\ throughout \subseteq live /\ live \subseteq ever /\ ever \subseteq Walk!Positions
  /\ wanted \subseteq Walk!Positions
  /\ got \in [Walk!Positions -> 0 .. 2]
  /\ Walk!Taken \subseteq ever

(* What is wanted of a window comes before what is past it. *)
WindowFirst ==
  walk.wants = "window" =>
    \A i \in wanted, j \in Walk!Positions \ wanted : i < j

(* A walk that goes on has taken what there was of the wanted before its   *)
(* cursor; one that refuses a cursor it has had, nothing after it.         *)
ReadSoFar ==
  Walk!Walking =>
    /\ walk.wants # "first" =>
         \A i \in throughout \cap wanted : i <= cursor => i \in Walk!Taken
    /\ walk.repeat = "refused" => \A i \in Walk!Taken : i <= cursor
    /\ cursor > 0 => cursor \in seen

WalkInv ==
  /\ WalkTyped /\ WindowFirst /\ ReadSoFar
  /\ Walk!CompleteOrSaysSo /\ Walk!NothingTwice /\ Walk!TheOneFound

LEMMA Sizes ==
  Size \in Nat \ {0} /\ PageSize \in Nat \ {0} /\ MaxPages \in Nat \ {0}
  BY PollsAssumption DEF Walk!SizesAssumption

LEMMA WalkRows == Walk!AllWalks \subseteq Walk!Walk
  <1>1. Walk!Careful \in Walk!Walk
    BY DEF Walk!Careful, Walk!Walk
  <1>2. \A w \in Walk!Walk : \A c \in {"error", "told", "none"} :
          [w EXCEPT !.cap = c] \in Walk!Walk
    BY DEF Walk!Walk
  <1>3. \A w \in Walk!Walk : \A x \in {"all", "window", "one", "first"} :
          [w EXCEPT !.wants = x] \in Walk!Walk
    BY DEF Walk!Walk
  <1>4. \A w \in Walk!Walk :
          /\ [w EXCEPT !.repeat = "followed", !.cap = "told"] \in Walk!Walk
          /\ [w EXCEPT !.repeat = "followed", !.cap = "none", !.wants = "window"]
               \in Walk!Walk
          /\ [w EXCEPT !.repeat = "followed", !.cap = "none", !.distinct = TRUE]
               \in Walk!Walk
    BY DEF Walk!Walk
  <1>5. Walk!FetchAppPreviews \in Walk!Walk
    BY <1>1, <1>4 DEF Walk!FetchAppPreviews
  <1>6. /\ Walk!AppServicesList \in Walk!Walk /\ Walk!FetchPendingHumanGates \in Walk!Walk
        /\ Walk!ResolvePipelineID \in Walk!Walk /\ Walk!FindInboxMessage \in Walk!Walk
    BY <1>1, <1>2, <1>3 DEF Walk!AppServicesList, Walk!FetchPendingHumanGates,
       Walk!ResolvePipelineID, Walk!FindInboxMessage
  <1>7. Walk!LoadReviewedPreview \in Walk!Walk
    BY <1>3, <1>5 DEF Walk!LoadReviewedPreview
  <1>8. Walk!ReadAgentGovernance \in Walk!Walk /\ Walk!AuditTail \in Walk!Walk
    BY <1>1, <1>4 DEF Walk!ReadAgentGovernance, Walk!AuditTail
  <1> QED BY <1>5, <1>6, <1>7, <1>8 DEF Walk!AllWalks

LEMMA WalkBegins == Walk!Init => WalkInv
  <1> SUFFICES ASSUME Walk!Init PROVE WalkInv
    OBVIOUS
  <1>1. /\ walk \in Walk!Walk /\ live \in SUBSET Walk!Positions /\ throughout = live
        /\ ever = live /\ cursor = 0 /\ outcome = "none"
        /\ got = [i \in Walk!Positions |-> 0]
    BY WalkRows DEF Walk!Init
  <1>2. /\ wanted \subseteq Walk!Positions
        /\ walk.wants = "window" => \E n \in 0 .. Size : wanted = 1 .. n
    BY Sizes DEF Walk!Init, Walk!Positions, Walk!Walk
  <1> HIDE DEF Walk!Init
  <1>3. Walk!Taken = {} /\ \A i \in Walk!Positions : got[i] = 0
    BY <1>1 DEF Walk!Taken
  <1>4. WalkTyped
    BY <1>1, <1>2, <1>3 DEF WalkTyped
  <1>5. WindowFirst
    BY <1>2, Sizes DEF WindowFirst, Walk!Positions
  <1>6. ReadSoFar
    BY <1>1, <1>2, <1>3, Sizes DEF ReadSoFar, Walk!Positions
  <1>7. Walk!CompleteOrSaysSo /\ Walk!NothingTwice /\ Walk!TheOneFound
    BY <1>1, <1>3 DEF Walk!CompleteOrSaysSo, Walk!NothingTwice, Walk!TheOneFound
  <1> QED BY <1>4, <1>5, <1>6, <1>7 DEF WalkInv

(* What is taken of a page: no more than is there, and of a walk through   *)
(* all of the list all of the wanted.                                      *)
LEMMA PageTaken ==
  ASSUME WalkInv, Walk!Walking, Walk!Takes,
         live' = live, walk' = walk, wanted' = wanted, ever' = ever
  PROVE  /\ got' \in [Walk!Positions -> 0 .. 2]
         /\ Walk!Found = Walk!Taken \cup Walk!Wants(cursor)
         /\ Walk!Taken' = Walk!Found
         /\ Walk!Wants(cursor) \subseteq Walk!PageAt(cursor)
         /\ Walk!Found \subseteq ever
         /\ walk.wants # "first" =>
              \A i \in throughout \cap wanted : i <= cursor + PageSize => i \in Walk!Found
         /\ walk.repeat = "refused" \/ walk.distinct =>
              \A i \in Walk!Positions : got'[i] <= 1
  <1>1. /\ walk \in Walk!Walk /\ cursor \in Nat /\ got \in [Walk!Positions -> 0 .. 2]
        /\ throughout \subseteq live /\ live \subseteq ever /\ ever \subseteq Walk!Positions
        /\ wanted \subseteq Walk!Positions /\ Walk!Taken \subseteq ever
    BY DEF WalkInv, WalkTyped
  <1>2. Walk!Wants(cursor) \subseteq Walk!PageAt(cursor)
    BY DEF Walk!Wants
  <1>3. /\ Walk!PageAt(cursor) \subseteq live
        /\ \A i \in Walk!PageAt(cursor) : i > cursor
        /\ \A i \in live : i > cursor /\ i <= cursor + PageSize => i \in Walk!PageAt(cursor)
    BY <1>1, Sizes DEF Walk!PageAt, Walk!Positions
  <1>4. \A i \in Walk!Positions :
          /\ got'[i] \in 0 .. 2
          /\ got'[i] > 0 <=> got[i] > 0 \/ i \in Walk!Wants(cursor)
          /\ walk.distinct /\ got[i] <= 1 => got'[i] <= 1
          /\ got[i] = 0 => got'[i] <= 1
          /\ i \notin Walk!Wants(cursor) => got'[i] = got[i]
    BY <1>1 DEF Walk!Takes, Walk!Once
  <1>5. got' \in [Walk!Positions -> 0 .. 2]
    BY <1>4, <1>1 DEF Walk!Takes
  <1>6. Walk!Found = Walk!Taken \cup Walk!Wants(cursor) /\ Walk!Taken' = Walk!Found
    BY <1>4, <1>1, <1>2, <1>3 DEF Walk!Found, Walk!Taken, Walk!Positions
  <1>7. Walk!Found \subseteq ever
    BY <1>6, <1>1, <1>2, <1>3
  <1>8. ASSUME walk.wants # "first", NEW i \in throughout \cap wanted, i <= cursor + PageSize
        PROVE  i \in Walk!Found
    <2>1. i \in Nat /\ (i <= cursor => i \in Walk!Taken)
      BY <1>1, <1>8 DEF WalkInv, ReadSoFar, Walk!Positions
    <2>2. CASE i > cursor
      <3>1. i \in Walk!PageAt(cursor)
        BY <1>1, <1>3, <1>8, <2>2
      <3>2. \A j \in Walk!PageAt(cursor) \cap Walk!Past : walk.wants = "window" => i < j
        BY <1>1, <1>3, <1>8 DEF WalkInv, WindowFirst, Walk!Past
      <3>3. i \in Walk!Wants(cursor)
        BY <3>1, <3>2, <1>1, <1>8 DEF Walk!Wants, Walk!Walk
      <3> QED BY <3>3, <1>6
    <2> QED BY <2>1, <2>2, <1>1, <1>6
  <1>9. ASSUME walk.repeat = "refused" \/ walk.distinct, NEW i \in Walk!Positions
        PROVE  got'[i] <= 1
    <2>1. got[i] <= 1
      BY <1>9 DEF WalkInv, Walk!NothingTwice
    <2>2. CASE walk.distinct
      BY <2>1, <2>2, <1>4
    <2>3. CASE walk.repeat = "refused" /\ i \in Walk!Wants(cursor)
      <3>1. i \notin Walk!Taken
        BY <2>3, <1>1, <1>2, <1>3 DEF WalkInv, ReadSoFar, Walk!Positions
      <3>2. got[i] = 0
        BY <3>1, <1>1 DEF Walk!Taken
      <3> QED BY <3>2, <1>4
    <2> QED BY <1>4, <1>9, <2>1, <2>2, <2>3
  <1> QED BY <1>2, <1>5, <1>6, <1>7, <1>8, <1>9

LEMMA AllTaken ==
  ASSUME WalkInv, Walk!Walking, Walk!Takes, Walk!HasAll, walk.wants # "first",
         live' = live, walk' = walk, wanted' = wanted, ever' = ever
  PROVE  throughout \cap wanted \subseteq Walk!Found
  <1>1. /\ throughout \subseteq Walk!Positions /\ wanted \subseteq Walk!Positions
        /\ cursor \in Nat /\ live \subseteq Walk!Positions
    BY DEF WalkInv, WalkTyped
  <1>2. CASE Walk!Final(cursor)
    BY <1>1, <1>2, PageTaken, Sizes DEF Walk!Final, Walk!Positions
  <1>3. CASE walk.wants = "window" /\ Walk!PageAt(cursor) \cap Walk!Past # {}
    <2>1. PICK j \in Walk!PageAt(cursor) \cap Walk!Past : TRUE
      BY <1>3
    <2>2. j \in Walk!Positions \ wanted /\ j <= cursor + PageSize /\ j \in Nat
      BY <2>1, <1>1, Sizes DEF Walk!PageAt, Walk!Past, Walk!Positions
    <2>3. \A i \in throughout \cap wanted : i \in Nat /\ i < j
      BY <2>2, <1>1, <1>3 DEF WalkInv, WindowFirst, Walk!Positions
    <2>4. \A i \in throughout \cap wanted : i <= cursor + PageSize
      BY <2>2, <2>3, <1>1, Sizes
    <2> QED BY <2>4, PageTaken
  <1> QED BY <1>2, <1>3 DEF Walk!HasAll

LEMMA FoundNone ==
  ASSUME WalkInv, Walk!Found \subseteq Walk!Positions
  PROVE  /\ Walk!Verdict(FALSE) = "complete" => walk.wants \in {"all", "window"}
         /\ Walk!Verdict(FALSE) = "absent" => Walk!Found = {}
         /\ Walk!Verdict(TRUE) \notin {"complete", "absent"}
         /\ Walk!Verdict(FALSE) # "none" /\ Walk!Verdict(TRUE) # "none"
  <1>1. IsFiniteSet(Walk!Found)
    <2>1. IsFiniteSet(1 .. Size)
      BY Sizes, FS_Interval
    <2> QED BY <2>1, FS_Subset DEF Walk!Positions
  <1>2. Cardinality(Walk!Found) \in Nat /\ (Cardinality(Walk!Found) = 0 <=> Walk!Found = {})
    BY <1>1, FS_CardinalityType, FS_EmptySet
  <1> QED BY <1>2 DEF Walk!Verdict, Walk!Cardinality, Cardinality

(* Of a walk that ends nothing is asked any more but what it says. *)
LEMMA WalkEnded ==
  ASSUME WalkInv, Walk!Walking, outcome' # "none",
         UNCHANGED <<walk, wanted, live, ever, throughout>>, cursor' = cursor,
         got' \in [Walk!Positions -> 0 .. 2], Walk!Taken' \subseteq ever,
         walk.repeat = "refused" \/ walk.distinct => \A i \in Walk!Positions : got'[i] <= 1,
         outcome' = "complete" => throughout \cap wanted \subseteq Walk!Taken',
         walk.wants = "one" /\ outcome' = "found" /\ walk.cap = "error" =>
           throughout \cap wanted \subseteq Walk!Taken',
         walk.wants = "one" /\ outcome' = "absent" => throughout \cap wanted = {}
  PROVE  WalkInv'
  <1> DEFINE T == Walk!Taken'
  <1>1. WalkTyped'
    BY DEF WalkInv, WalkTyped, Walk!Positions
  <1>2. WindowFirst'
    BY DEF WalkInv, WindowFirst, Walk!Positions
  <1>3. ReadSoFar'
    BY DEF ReadSoFar, Walk!Walking
  <1>4. Walk!CompleteOrSaysSo' /\ Walk!NothingTwice' /\ Walk!TheOneFound'
    BY DEF Walk!CompleteOrSaysSo, Walk!NothingTwice, Walk!TheOneFound, Walk!Positions
  <1> QED BY <1>1, <1>2, <1>3, <1>4 DEF WalkInv

LEMMA WalkGoes ==
  ASSUME WalkInv, NEW next \in {cursor, cursor + PageSize}, Walk!Goes(next),
         next = cursor => cursor > 0, UNCHANGED <<walk, Walk!list, wanted>>
  PROVE  WalkInv'
  <1>1. /\ Walk!Walking /\ Walk!Takes /\ cursor \in Nat
        /\ UNCHANGED <<walk, wanted, live, ever, throughout>>
        /\ \/ /\ Walk!Follows(next) /\ cursor' = next /\ seen' = seen \cup {next}
              /\ outcome' = outcome
           \/ outcome' = "error" /\ cursor' = cursor
    BY DEF Walk!Goes, Walk!list, WalkInv, WalkTyped
  <1> HIDE DEF Walk!Goes
  <1>2. /\ got' \in [Walk!Positions -> 0 .. 2]
        /\ Walk!Found = Walk!Taken \cup Walk!Wants(cursor) /\ Walk!Taken' = Walk!Found
        /\ Walk!Wants(cursor) \subseteq Walk!PageAt(cursor) /\ Walk!Found \subseteq ever
        /\ walk.wants # "first" =>
             \A i \in throughout \cap wanted : i <= cursor + PageSize => i \in Walk!Found
        /\ walk.repeat = "refused" \/ walk.distinct =>
             \A i \in Walk!Positions : got'[i] <= 1
    BY <1>1, PageTaken
  <1>3. CASE outcome' = "error"
    <2>1. cursor' = cursor
      BY <1>1, <1>3 DEF Walk!Walking
    <2>2. outcome' # "none" /\ Walk!Taken' \subseteq ever
      BY <1>2, <1>3
    <2> QED BY <1>1, <1>2, <1>3, <2>1, <2>2, WalkEnded
  <1>4. CASE /\ Walk!Follows(next) /\ cursor' = next /\ seen' = seen \cup {next}
             /\ outcome' = outcome
    <2>1. WalkTyped' /\ WindowFirst'
      BY <1>1, <1>2, <1>4, Sizes DEF WalkInv, WalkTyped, WindowFirst, Walk!Positions
    <2>2. ASSUME walk.repeat = "refused" PROVE cursor' = cursor + PageSize
      BY <2>2, <1>1, <1>4 DEF WalkInv, ReadSoFar, Walk!Follows
    <2>3. ASSUME walk.repeat = "refused", NEW i \in Walk!Taken' PROVE i <= cursor'
      <3>1. CASE i \in Walk!Taken
        <4>1. i <= cursor /\ i \in Nat
          BY <3>1, <2>3, <1>1 DEF WalkInv, WalkTyped, ReadSoFar, Walk!Positions
        <4> QED BY <4>1, <2>2, <2>3, <1>1, Sizes
      <3>2. CASE i \in Walk!PageAt(cursor)
        BY <3>2, <2>2, <2>3, <1>1, Sizes DEF Walk!PageAt
      <3> QED BY <3>1, <3>2, <1>2
    <2>4. ASSUME walk.wants # "first", NEW i \in throughout \cap wanted, i <= cursor'
          PROVE  i \in Walk!Taken'
      <3>1. i \in Nat
        BY DEF WalkInv, WalkTyped, Walk!Positions
      <3>2. i <= cursor + PageSize
        BY <2>4, <3>1, <1>1, <1>4, Sizes
      <3> QED BY <3>2, <2>4, <1>2
    <2>5. ReadSoFar'
      BY <2>3, <2>4, <1>1, <1>4 DEF ReadSoFar
    <2>6. Walk!CompleteOrSaysSo' /\ Walk!NothingTwice' /\ Walk!TheOneFound'
      BY <1>1, <1>2, <1>4
      DEF Walk!CompleteOrSaysSo, Walk!NothingTwice, Walk!TheOneFound, Walk!Positions,
          Walk!Walking
    <2> QED BY <2>1, <2>5, <2>6 DEF WalkInv
  <1> QED BY <1>1, <1>3, <1>4

LEMMA WalkStep == WalkInv /\ Walk!Next => WalkInv'
  <1> SUFFICES ASSUME WalkInv, Walk!Next PROVE WalkInv'
    OBVIOUS
  <1>f. ever \subseteq Walk!Positions
    BY DEF WalkInv, WalkTyped
  <1>1. CASE Walk!Finish
    <2>1. /\ Walk!Walking /\ Walk!Takes /\ Walk!HasAll /\ outcome' = Walk!Verdict(FALSE)
          /\ UNCHANGED <<walk, wanted, live, ever, throughout>> /\ cursor' = cursor
      BY <1>1 DEF Walk!Finish, Walk!list
    <2>2. /\ got' \in [Walk!Positions -> 0 .. 2]
          /\ Walk!Taken' = Walk!Found /\ Walk!Found \subseteq ever
          /\ walk.repeat = "refused" \/ walk.distinct =>
               \A i \in Walk!Positions : got'[i] <= 1
      BY <2>1, PageTaken
    <2>3. walk.wants # "first" => throughout \cap wanted \subseteq Walk!Found
      BY <2>1, AllTaken
    <2> QED BY <2>1, <2>2, <2>3, <1>f, FoundNone, WalkEnded
  <1>2. CASE Walk!Stopped
    <2>1. /\ Walk!Walking /\ Walk!Takes
          /\ outcome' = IF walk.cap = "error" THEN "error" ELSE Walk!Verdict(TRUE)
          /\ UNCHANGED <<walk, wanted, live, ever, throughout>> /\ cursor' = cursor
      BY <1>2 DEF Walk!Stopped, Walk!list
    <2>2. /\ got' \in [Walk!Positions -> 0 .. 2]
          /\ Walk!Taken' = Walk!Found /\ Walk!Found \subseteq ever
          /\ walk.repeat = "refused" \/ walk.distinct =>
               \A i \in Walk!Positions : got'[i] <= 1
      BY <2>1, PageTaken
    <2> QED BY <2>1, <2>2, <1>f, FoundNone, WalkEnded
  <1>3. CASE Walk!GoOn
    BY <1>3, Sizes, WalkGoes DEF Walk!GoOn, WalkInv, WalkTyped
  <1>4. CASE Walk!Repeat
    BY <1>4, WalkGoes DEF Walk!Repeat
  <1>5. CASE Walk!Fail
    <2>1. /\ Walk!Walking /\ outcome' = "error" /\ got' = got
          /\ UNCHANGED <<walk, wanted, live, ever, throughout>> /\ cursor' = cursor
      BY <1>5 DEF Walk!Fail, Walk!list, Walk!reading
    <2>2. Walk!Taken' = Walk!Taken
      BY <2>1 DEF Walk!Taken
    <2> QED BY <2>1, <2>2, WalkEnded DEF WalkInv, WalkTyped, Walk!NothingTwice
  <1>6. CASE Walk!Others
    <2>1. /\ Walk!Walking /\ outcome' = outcome /\ got' = got /\ cursor' = cursor
          /\ walk' = walk /\ wanted' = wanted /\ seen' = seen
          /\ throughout' \subseteq throughout /\ throughout' \subseteq live'
          /\ live' \subseteq ever' /\ ever \subseteq ever' /\ ever' \subseteq Walk!Positions
      BY <1>6 DEF Walk!Others, Walk!Add, Walk!Remove, Walk!reading, WalkInv, WalkTyped
    <2>2. Walk!Taken' = Walk!Taken
      BY <2>1 DEF Walk!Taken
    <2>3. WalkTyped' /\ WindowFirst' /\ ReadSoFar'
      BY <2>1, <2>2 DEF WalkInv, WalkTyped, WindowFirst, ReadSoFar, Walk!Positions,
         Walk!Walking
    <2>4. Walk!CompleteOrSaysSo' /\ Walk!NothingTwice' /\ Walk!TheOneFound'
      BY <2>1, <2>2
      DEF WalkInv, Walk!CompleteOrSaysSo, Walk!NothingTwice, Walk!TheOneFound,
          Walk!Positions, Walk!Walking
    <2> QED BY <2>3, <2>4 DEF WalkInv
  <1> QED BY <1>1, <1>2, <1>3, <1>4, <1>5, <1>6 DEF Walk!Next, Walk!Command

WalkKept == command = "walk" => WalkInv

LEMMA WalkKeptStep == WalkKept /\ [Next]_vars => WalkKept'
  <1> SUFFICES ASSUME WalkInv, command = "walk", [Next]_vars, command' = "walk"
               PROVE WalkInv'
    BY DEF WalkKept, Next, Waiting, Walking, vars
  <1>1. CASE Walking
    BY <1>1, WalkStep DEF Walking
  <1>2. CASE UNCHANGED vars
    BY <1>2 DEF vars, onlyWalks, WalkInv, WalkTyped, WindowFirst, ReadSoFar, Walk!Taken,
       Walk!CompleteOrSaysSo, Walk!NothingTwice, Walk!TheOneFound, Walk!Positions,
       Walk!Walking
  <1> QED BY <1>1, <1>2 DEF Next, Waiting

(* A list shown as complete holds everything that was there all the while  *)
(* and nothing that never was, nothing twice where cursors are refused or  *)
(* items passed over, and one item found by its name is the one: for every *)
(* length, page size and cap, and however the list changes (the page loops *)
(* of package cmd that Walks lists).                                       *)
THEOREM ListsWhole == Spec => []ListsAreWhole
  <1>1. Init => WalkKept
    BY WalkBegins DEF Init, WalkKept
  <1>2. WalkKept => ListsAreWhole
    BY DEF WalkKept, WalkInv, ListsAreWhole
  <1> QED BY <1>1, <1>2, WalkKeptStep, PTL DEF Spec
=============================================================================
