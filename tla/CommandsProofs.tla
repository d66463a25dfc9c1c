--------------------------- MODULE CommandsProofs ---------------------------
(***************************************************************************)
(* What the commands of MCCommands guarantee for every value of their      *)
(* constants.  A behaviour of MCCommands is one of one of its machines, so *)
(* every theorem here has the shape: an invariant of that machine, carried *)
(* through the steps in which the machine moves; in all others it is off.  *)
(***************************************************************************)
EXTENDS MCCommands, FiniteSetTheorems, SequenceTheorems, TLAPS

-----------------------------------------------------------------------------
(***************************************************************************)
(* `workflow gate`: HumanGate.                                             *)
(***************************************************************************)

(* A call that has been made is about a review; a run's admitted decision  *)
(* is a review of that very run, and its record is of that decision.       *)
CallsMade ==
  /\ calls \in [Calls -> [review : Review \cup {NoReview},
                          outcome : {"none", "sent", "confirmed", "unconfirmed"}]]
  /\ \A n \in Calls : calls[n].outcome # "none" => calls[n].review \in Review
  /\ inFlight \subseteq {n \in Calls : calls[n].outcome # "none"}
  /\ answers \in [Calls -> (SUBSET TemporalRuns) \cup {None}]

RunsDecided ==
  /\ current \in TemporalRuns
  /\ admitted \in [TemporalRuns -> Review \cup {None}]
  /\ recorded \in [TemporalRuns -> Decisions \cup {None}]
  /\ \A r \in TemporalRuns :
       /\ admitted[r] # None => admitted[r].run = r
       /\ recorded[r] # None => admitted[r] # None /\ recorded[r] = admitted[r].decision

ConfirmedAdmitted ==
  \A n \in Calls : calls[n].outcome = "confirmed" =>
    /\ admitted[calls[n].review.run] = calls[n].review
    /\ admitted[calls[n].review.run] # None

GateInv == CallsMade /\ RunsDecided /\ ConfirmedAdmitted

LEMMA GateInit == Init => GateInv
  <1> SUFFICES ASSUME Init PROVE GateInv
    OBVIOUS
  <1>1. CallsMade /\ ConfirmedAdmitted
    BY DEF Init, CallsMade, ConfirmedAdmitted, NoCall
  <1>2. RunsDecided
    BY BoundsAssumption DEF Init, RunsDecided, TemporalRuns
  <1> QED BY <1>1, <1>2 DEF GateInv

LEMMA GateStep == GateInv /\ Next => GateInv'
  <1> SUFFICES ASSUME GateInv, Next PROVE GateInv'
    OBVIOUS
  <1> USE DEF GateInv, CallsMade, RunsDecided, ConfirmedAdmitted, gate
  <1>1. CASE Decide
    BY <1>1 DEF Decide, NoCall, NoReview
  <1>2. CASE Serve
    BY <1>2 DEF Serve, Admits, Review
  <1>3. CASE Record
    BY <1>3 DEF Record, Review
  <1>4. CASE Close
    BY <1>4 DEF Close
  <1>5. CASE StartAnew
    BY <1>5, BoundsAssumption DEF StartAnew, TemporalRuns
  <1>6. CASE Answered
    <2>1. PICK n \in Calls :
            /\ calls[n].outcome = "sent" /\ answers[n] # None
            /\ \E r \in answers[n] :
                 \E g \in {Receipt(r, calls[n].review.by), NotShown(r)} :
                   Reports(n, IF SameRun(g, calls[n].review) /\ Confirms(g, calls[n].review)
                                THEN "confirmed" ELSE "unconfirmed")
      BY <1>6 DEF Answered
    <2>2. PICK r \in answers[n] :
            \E g \in {Receipt(r, calls[n].review.by), NotShown(r)} :
              Reports(n, IF SameRun(g, calls[n].review) /\ Confirms(g, calls[n].review)
                           THEN "confirmed" ELSE "unconfirmed")
      BY <2>1
    <2>3. calls[n].review \in Review /\ r \in TemporalRuns
      BY <2>1, <2>2
    <2>4. ASSUME NEW g \in {Receipt(r, calls[n].review.by), NotShown(r)},
                 SameRun(g, calls[n].review), Confirms(g, calls[n].review)
          PROVE  /\ admitted[calls[n].review.run] = calls[n].review
                 /\ admitted[calls[n].review.run] # None
      <3>1. g = Receipt(r, calls[n].review.by)
        BY <2>4 DEF Confirms, NotShown
      <3>2. r = calls[n].review.run
        BY <2>4, <3>1 DEF SameRun, Receipt
      <3>3. admitted[r] # None /\ admitted[r].by = calls[n].review.by
        BY <2>4, <3>1 DEF Confirms, Receipt
      <3>4. /\ admitted[r].decision = calls[n].review.decision
            /\ admitted[r].note = calls[n].review.note
        BY <2>4, <3>1, <3>3 DEF Confirms, Receipt
      <3>5. admitted[r] \in Review /\ admitted[r].run = r
        BY <2>3, <3>3
      <3> QED BY <2>3, <3>2, <3>3, <3>4, <3>5 DEF Review
    <2>5. /\ UNCHANGED <<current, admitted, recorded, closed, inFlight, answers>>
          /\ \E o \in {"confirmed", "unconfirmed"} :
               /\ calls' = [calls EXCEPT ![n].outcome = o]
               /\ o = "confirmed" => /\ admitted[calls[n].review.run] = calls[n].review
                                      /\ admitted[calls[n].review.run] # None
      BY <2>2, <2>4 DEF Reports
    <2> QED BY <2>1, <2>5
  <1>7. CASE GiveUp
    BY <1>7 DEF GiveUp, Reports
  <1> QED BY <1>1, <1>2, <1>3, <1>4, <1>5, <1>6, <1>7 DEF Next, Command, Server

LEMMA GateSafe == GateInv => ConfirmedIsAdmitted
  BY DEF GateInv, CallsMade, RunsDecided, ConfirmedAdmitted, ConfirmedIsAdmitted, Review

(* A decision that is reported as confirmed decided the gate.              *)
THEOREM GateConfirmedAlways == MCSpec => []GateConfirmed
  <1> DEFINE I == command = "gate" => GateInv
  <1>1. MCInit => I
    BY GateInit DEF MCInit
  <1>2. I /\ [MCNext]_MCvars => I'
    <2> SUFFICES ASSUME I, [MCNext]_MCvars PROVE I'
      OBVIOUS
    <2>1. CASE Deciding
      BY <2>1, GateStep DEF Deciding
    <2>2. CASE UNCHANGED MCvars
      BY <2>2 DEF MCvars, onlyGate, GateInv, CallsMade, RunsDecided, ConfirmedAdmitted
    <2>3. CASE MCNext /\ ~Deciding
      BY <2>3 DEF MCNext, FollowLogs, FollowTask, FollowInbox, SettingUp, Bootstrapping,
                  Planning
    <2> QED BY <2>1, <2>2, <2>3
  <1>3. I => GateConfirmed
    BY GateSafe DEF GateConfirmed
  <1> QED BY <1>1, <1>2, <1>3, PTL DEF MCSpec

-----------------------------------------------------------------------------
(***************************************************************************)
(* `operator cluster bootstrap`: Bootstrap.                                *)
(***************************************************************************)

(* A release under way is somebody's who is at it, or was cut off; only a  *)
(* first revision has never been deployed, and one that cannot be upgraded *)
(* though nothing is pending on it was cut off.                            *)
Releases ==
  [rev : Nat \ {0}, status : Helm!Statuses, good : BOOLEAN, by : People, cut : BOOLEAN]

Sensible(r) ==
  /\ ~r.good => r.rev = 1 /\ r.status \in {"pending-install", "failed", "uninstalling"}
  /\ r.status = "pending-install" => r.rev = 1 /\ ~r.good
  /\ r.status = "pending-upgrade" => r.good /\ r.rev # 1
  /\ r.status = "failed" => (r.rev = 1 <=> ~r.good)
  /\ r.status \notin Helm!Pending => (r.good /\ r.status # "uninstalling") \/ r.cut

ReleaseOwned ==
  release # NoRelease =>
    /\ Sensible(release)
    /\ release.status \in Helm!Pending => Helm!Working(release.by) \/ release.cut

RunsTyped ==
  /\ release \in Releases \cup {NoRelease}
  /\ pc \in [People -> {"idle", "render", "namespace", "create", "look", "install",
                      "upgrade", "installing", "upgrading", "record"}]
  /\ found \in [People -> Releases \cup {NoRelease}]
  /\ result \in [People -> {"none", "succeeded", "failed"}]
  /\ advice \in [People -> {"none", "upgrade", "uninstall"}]
  /\ temp \in [People -> BOOLEAN] /\ killed \in [People -> BOOLEAN]

OperatorsRun ==
  \A o \in People :
    /\ pc[o] = "installing" /\ Helm!Mine(o) => release.status = "pending-install"
    /\ pc[o] = "upgrading" /\ Helm!Mine(o) => release.status = "pending-upgrade"
    /\ advice[o] # "none" => pc[o] = "record"
    /\ result[o] = "succeeded" => deployed

HelmInv ==
  RunsTyped /\ ReleaseOwned /\ OperatorsRun /\ Helm!AdviceLeadsOut /\ Helm!NoTrace

(* A release whose undoing is cut off stays what it was, or worse. *)
Worse(r, t) ==
  \/ t \in {r.status, "uninstalling"}
  \/ t = "failed" /\ r.status = "pending-install"

LEMMA CutSensible ==
  ASSUME NEW r \in Releases, Sensible(r), NEW statuses, NEW q \in Helm!Cut(r, statuses),
         \A t \in statuses : Worse(r, t)
  PROVE  q \in Releases /\ Sensible(q) /\ q.cut /\ q.by = r.by
  <1>1. PICK s \in statuses : q = [r EXCEPT !.status = s, !.cut = TRUE]
    BY DEF Helm!Cut, Releases
  <1>2. q \in Releases /\ q.cut /\ q.by = r.by /\ q.status = s /\ q.good = r.good /\ q.rev = r.rev
    BY <1>1 DEF Worse, Releases, Helm!Statuses, Helm!Pending
  <1> QED BY <1>2 DEF Worse, Releases, Sensible, Helm!Statuses, Helm!Pending

LEMMA HelmInit == Helm!Init => HelmInv
  <1> SUFFICES ASSUME Helm!Init PROVE HelmInv
    OBVIOUS
  <1>1. release # NoRelease => release \in Releases /\ Sensible(release) /\ release.cut
    <2> SUFFICES ASSUME release # NoRelease
                 PROVE  release \in Releases /\ Sensible(release) /\ release.cut
      OBVIOUS
    <2>1. PICK o \in People :
            release \in Helm!Cut(Helm!Rev(1, "pending-install", FALSE, o),
                                 {"pending-install", "failed", "uninstalling"})
      BY DEF Helm!Init, Helm!LeftBefore
    <2> DEFINE r == Helm!Rev(1, "pending-install", FALSE, o)
    <2>2. r \in Releases /\ Sensible(r) /\ r.status = "pending-install"
      BY DEF Helm!Rev, Releases, Sensible, Helm!Statuses, Helm!Pending
    <2>3. \A t \in {"pending-install", "failed", "uninstalling"} : Worse(r, t)
      BY <2>2 DEF Worse
    <2>4. release \in Helm!Cut(r, {"pending-install", "failed", "uninstalling"})
      BY <2>1
    <2> HIDE DEF r
    <2> QED BY <2>2, <2>3, <2>4, CutSensible
  <1>2. RunsTyped
    BY <1>1 DEF Helm!Init, RunsTyped
  <1>3. ReleaseOwned
    BY <1>1 DEF ReleaseOwned
  <1> QED BY <1>2, <1>3 DEF Helm!Init, HelmInv, OperatorsRun, Helm!AdviceLeadsOut, Helm!NoTrace

(* A step that only fails, before Helm is at work or after it has stopped. *)
LEMMA HelmFails ==
  ASSUME HelmInv, NEW o \in People, Helm!Returns(o, "failed"), ReleaseOwned',
         UNCHANGED <<Helm!cluster, badge, found, advice>>
  PROVE  HelmInv'
  <1> USE DEF HelmInv, Helm!Goto, Helm!Returns, Helm!cluster
  <1>1. RunsTyped'
    BY DEF RunsTyped
  <1>2. OperatorsRun'
    BY DEF RunsTyped, OperatorsRun, Helm!Mine
  <1>3. Helm!AdviceLeadsOut' /\ Helm!NoTrace'
    BY DEF RunsTyped, Helm!AdviceLeadsOut, Helm!NoTrace, Helm!Upgradable
  <1> QED BY <1>1, <1>2, <1>3

LEMMA HelmStep == HelmInv /\ Helm!Next => HelmInv'
  <1> SUFFICES ASSUME HelmInv, Helm!Next PROVE HelmInv'
    OBVIOUS
  <1> USE DEF HelmInv, Helm!Goto, Helm!Returns, Helm!Forget, Helm!End, Helm!cluster, Helm!run
  <1>1. ASSUME NEW o \in People, Helm!Begin(o) PROVE HelmInv'
    <2>1. RunsTyped'
      BY <1>1 DEF Helm!Begin, RunsTyped
    <2>2. ReleaseOwned'
      BY <1>1 DEF Helm!Begin, RunsTyped, ReleaseOwned, Sensible, Releases,
                     Helm!Working
    <2>3. OperatorsRun'
      BY <1>1 DEF Helm!Begin, RunsTyped, OperatorsRun, Helm!Mine
    <2>4. Helm!AdviceLeadsOut'
      BY <1>1 DEF Helm!Begin, RunsTyped, Helm!AdviceLeadsOut
    <2>5. Helm!NoTrace'
      BY <1>1 DEF Helm!Begin, RunsTyped, Helm!NoTrace
    <2> QED BY <2>1, <2>2, <2>3, <2>4, <2>5
  <1>2. ASSUME NEW o \in People, Helm!Unprepared(o) PROVE HelmInv'
    <2>1. RunsTyped'
      BY <1>2 DEF Helm!Unprepared, RunsTyped
    <2>2. ReleaseOwned'
      BY <1>2 DEF Helm!Unprepared, RunsTyped, ReleaseOwned, Sensible, Releases,
                     Helm!Working
    <2>3. OperatorsRun'
      BY <1>2 DEF Helm!Unprepared, RunsTyped, OperatorsRun, Helm!Mine
    <2>4. Helm!AdviceLeadsOut'
      BY <1>2 DEF Helm!Unprepared, RunsTyped, Helm!AdviceLeadsOut
    <2>5. Helm!NoTrace'
      BY <1>2 DEF Helm!Unprepared, RunsTyped, Helm!NoTrace
    <2> QED BY <2>1, <2>2, <2>3, <2>4, <2>5
  <1>3. ASSUME NEW o \in People, Helm!Render(o) PROVE HelmInv'
    <2>1. RunsTyped'
      BY <1>3 DEF Helm!Render, RunsTyped
    <2>2. ReleaseOwned'
      BY <1>3 DEF Helm!Render, RunsTyped, ReleaseOwned, Sensible, Releases,
                     Helm!Working
    <2>3. OperatorsRun'
      BY <1>3 DEF Helm!Render, RunsTyped, OperatorsRun, Helm!Mine
    <2>4. Helm!AdviceLeadsOut'
      BY <1>3 DEF Helm!Render, RunsTyped, Helm!AdviceLeadsOut
    <2>5. Helm!NoTrace'
      BY <1>3 DEF Helm!Render, RunsTyped, Helm!NoTrace
    <2> QED BY <2>1, <2>2, <2>3, <2>4, <2>5
  <1>4. ASSUME NEW o \in People, Helm!LookNamespace(o) PROVE HelmInv'
    <2>1. RunsTyped'
      BY <1>4 DEF Helm!LookNamespace, RunsTyped
    <2>2. ReleaseOwned'
      BY <1>4 DEF Helm!LookNamespace, RunsTyped, ReleaseOwned, Sensible, Releases,
                     Helm!Working
    <2>3. OperatorsRun'
      BY <1>4 DEF Helm!LookNamespace, RunsTyped, OperatorsRun, Helm!Mine
    <2>4. Helm!AdviceLeadsOut'
      BY <1>4 DEF Helm!LookNamespace, RunsTyped, Helm!AdviceLeadsOut
    <2>5. Helm!NoTrace'
      BY <1>4 DEF Helm!LookNamespace, RunsTyped, Helm!NoTrace
    <2> QED BY <2>1, <2>2, <2>3, <2>4, <2>5
  <1>5. ASSUME NEW o \in People, Helm!CreateNamespace(o) PROVE HelmInv'
    <2>1. RunsTyped'
      BY <1>5 DEF Helm!CreateNamespace, RunsTyped
    <2>2. ReleaseOwned'
      BY <1>5 DEF Helm!CreateNamespace, RunsTyped, ReleaseOwned, Sensible, Releases,
                     Helm!Working
    <2>3. OperatorsRun'
      BY <1>5 DEF Helm!CreateNamespace, RunsTyped, OperatorsRun, Helm!Mine
    <2>4. Helm!AdviceLeadsOut'
      BY <1>5 DEF Helm!CreateNamespace, RunsTyped, Helm!AdviceLeadsOut
    <2>5. Helm!NoTrace'
      BY <1>5 DEF Helm!CreateNamespace, RunsTyped, Helm!NoTrace
    <2> QED BY <2>1, <2>2, <2>3, <2>4, <2>5
  <1>6. ASSUME NEW o \in People, Helm!Unreachable(o) PROVE HelmInv'
    <2>1. RunsTyped'
      BY <1>6 DEF Helm!Unreachable, RunsTyped
    <2>2. ReleaseOwned'
      BY <1>6 DEF Helm!Unreachable, RunsTyped, ReleaseOwned, Sensible, Releases,
                     Helm!Working
    <2>3. OperatorsRun'
      BY <1>6 DEF Helm!Unreachable, RunsTyped, OperatorsRun, Helm!Mine
    <2>4. Helm!AdviceLeadsOut'
      BY <1>6 DEF Helm!Unreachable, RunsTyped, Helm!AdviceLeadsOut
    <2>5. Helm!NoTrace'
      BY <1>6 DEF Helm!Unreachable, RunsTyped, Helm!NoTrace
    <2> QED BY <2>1, <2>2, <2>3, <2>4, <2>5
  <1>7. ASSUME NEW o \in People, Helm!Look(o) PROVE HelmInv'
    <2>1. RunsTyped'
      BY <1>7 DEF Helm!Look, RunsTyped
    <2>2. ReleaseOwned'
      BY <1>7 DEF Helm!Look, RunsTyped, ReleaseOwned, Sensible, Releases, Helm!Working
    <2>3. OperatorsRun'
      BY <1>7 DEF Helm!Look, RunsTyped, OperatorsRun, Helm!Mine
    <2>4. Helm!AdviceLeadsOut'
      <3>1. \A p \in People \ {o} : advice'[p] = advice[p] /\ found'[p] = found[p]
        BY <1>7 DEF Helm!Look, RunsTyped
      <3>2. /\ advice'[o] \in {"upgrade", "uninstall"}
            /\ release # NoRelease /\ found'[o] = release
            /\ advice'[o] = IF Helm!IsWedged(release) THEN "uninstall" ELSE "upgrade"
            \/ advice'[o] = advice[o]
        BY <1>7 DEF Helm!Look, RunsTyped
      <3>3. advice[o] = "none"
        BY <1>7 DEF Helm!Look, RunsTyped, OperatorsRun
      <3>4. ASSUME advice'[o] = "upgrade"
            PROVE  /\ found'[o].good
                   /\ \/ Helm!Upgradable(found'[o])
                      \/ found'[o].status = "pending-upgrade"
                      \/ found'[o].status = "uninstalling" /\ found'[o].rev > 1
        <4>1. /\ release # NoRelease /\ ~Helm!IsWedged(release)
              /\ found'[o] = release
          BY <3>2, <3>3, <3>4
        <4>2. release \in Releases /\ Sensible(release)
          BY <4>1 DEF RunsTyped, ReleaseOwned
        <4>3. release.good /\ (release.status = "uninstalling" => release.rev # 1)
          BY <4>1, <4>2 DEF Sensible, Helm!IsWedged
        <4>4. \A n \in Nat \ {0} : n # 1 => n > 1
          OBVIOUS
        <4> QED BY <4>1, <4>2, <4>3, <4>4 DEF Releases, Sensible, Helm!Upgradable, Helm!Pending,
                                       Helm!Statuses
      <3>5. ASSUME advice'[o] = "uninstall"
            PROVE  found'[o].rev = 1 /\ ~Helm!Upgradable(found'[o])
        <4>1. /\ release # NoRelease /\ Helm!IsWedged(release)
              /\ found'[o] = release
          BY <3>2, <3>3, <3>5
        <4> QED BY <4>1 DEF Helm!IsWedged, Helm!Upgradable, ReleaseOwned, Sensible, Helm!Pending
      <3> HIDE DEF HelmInv
      <3>6. Helm!AdviceLeadsOut
        BY DEF HelmInv
      <3> QED BY <3>1, <3>4, <3>5, <3>6 DEF Helm!AdviceLeadsOut, Helm!Upgradable
    <2>5. Helm!NoTrace'
      BY <1>7 DEF Helm!Look, RunsTyped, Helm!NoTrace
    <2> QED BY <2>1, <2>2, <2>3, <2>4, <2>5
  <1>8. ASSUME NEW o \in People, Helm!StartInstall(o) PROVE HelmInv'
    <2>0. CASE Helm!Returns(o, "failed") /\ UNCHANGED release
      <3>1. ReleaseOwned'
        BY <1>8, <2>0 DEF Helm!StartInstall, RunsTyped, ReleaseOwned, Sensible, Releases, Helm!Working
      <3> QED BY <1>8, <2>0, <3>1, HelmFails DEF Helm!StartInstall
    <2>1. CASE ~(Helm!Returns(o, "failed") /\ UNCHANGED release)
      <3> DEFINE r == Helm!Rev(1, "pending-install", FALSE, o)
      <3>1. /\ pc' = [pc EXCEPT ![o] = "installing"] /\ release' = r
            /\ UNCHANGED <<namespace, deployed, badge, found, advice, result, options, temp, killed>>
            /\ pc[o] = "install"
        BY <1>8, <2>1 DEF Helm!StartInstall
      <3>2. /\ r \in Releases /\ r.by = o /\ Sensible(r) /\ r.status = "pending-install"
        BY <3>1 DEF Helm!Rev, Releases, Sensible, Helm!Pending, Helm!Statuses, RunsTyped,
                    Helm!Upgradable
      <3> HIDE DEF r
      <3>3. RunsTyped'
        BY <3>1, <3>2 DEF RunsTyped
      <3>4. ReleaseOwned'
        BY <3>1, <3>2 DEF ReleaseOwned, RunsTyped, Helm!Working
      <3>5. OperatorsRun'
        BY <3>1, <3>2 DEF OperatorsRun, RunsTyped, Helm!Mine
      <3>6. Helm!AdviceLeadsOut' /\ Helm!NoTrace'
        BY <3>1 DEF Helm!AdviceLeadsOut, Helm!NoTrace, RunsTyped
      <3> QED BY <3>3, <3>4, <3>5, <3>6
    <2> QED BY <2>0, <2>1
  <1>9. ASSUME NEW o \in People, Helm!StartUpgrade(o) PROVE HelmInv'
    <2>0. CASE Helm!Returns(o, "failed") /\ UNCHANGED release
      <3>1. ReleaseOwned'
        BY <1>9, <2>0 DEF Helm!StartUpgrade, RunsTyped, ReleaseOwned, Sensible, Releases, Helm!Working
      <3> QED BY <1>9, <2>0, <3>1, HelmFails DEF Helm!StartUpgrade
    <2>1. CASE ~(Helm!Returns(o, "failed") /\ UNCHANGED release)
      <3> DEFINE r == Helm!Rev(release.rev + 1, "pending-upgrade", TRUE, o)
      <3>1. /\ pc' = [pc EXCEPT ![o] = "upgrading"] /\ release' = r
            /\ UNCHANGED <<namespace, deployed, badge, found, advice, result, options, temp, killed>>
            /\ pc[o] = "upgrade" /\ Helm!Upgradable(release)
        BY <1>9, <2>1 DEF Helm!StartUpgrade
      <3>2. /\ r \in Releases /\ r.by = o /\ Sensible(r) /\ r.status = "pending-upgrade"
        <4>1. release.rev + 1 \in Nat \ {0} /\ release.rev + 1 # 1
          <5>1. release \in Releases
            BY <3>1 DEF RunsTyped, Helm!Upgradable
          <5>2. release.rev \in Nat \ {0}
            BY <5>1 DEF Releases
          <5> QED BY <5>2
        <4>2. r = [rev |-> release.rev + 1, status |-> "pending-upgrade", good |-> TRUE,
                   by |-> o, cut |-> FALSE]
          BY DEF Helm!Rev
        <4> HIDE DEF r
        <4> QED BY <4>1, <4>2 DEF Releases, Sensible, Helm!Pending, Helm!Statuses
      <3> HIDE DEF r
      <3>3. RunsTyped'
        BY <3>1, <3>2 DEF RunsTyped
      <3>4. ReleaseOwned'
        BY <3>1, <3>2 DEF ReleaseOwned, RunsTyped, Helm!Working
      <3>5. OperatorsRun'
        BY <3>1, <3>2 DEF OperatorsRun, RunsTyped, Helm!Mine
      <3>6. Helm!AdviceLeadsOut' /\ Helm!NoTrace'
        BY <3>1 DEF Helm!AdviceLeadsOut, Helm!NoTrace, RunsTyped
      <3> QED BY <3>3, <3>4, <3>5, <3>6
    <2> QED BY <2>0, <2>1
  <1>10. ASSUME NEW o \in People, Helm!Deployed(o) PROVE HelmInv'
    <2> DEFINE r == Helm!Rev(release.rev, "deployed", TRUE, o)
    <2>1. /\ pc' = [pc EXCEPT ![o] = "record"] /\ release' = r /\ deployed'
          /\ result' = [result EXCEPT ![o] = "succeeded"]
          /\ UNCHANGED <<namespace, badge, found, advice, options, temp, killed>>
          /\ pc[o] \in {"installing", "upgrading"} /\ Helm!Mine(o)
      BY <1>10 DEF Helm!Deployed
    <2>2. r \in Releases /\ r.by = o /\ Sensible(r) /\ r.status \notin Helm!Pending
      BY <2>1 DEF Helm!Rev, Releases, Sensible, Helm!Pending, Helm!Statuses, RunsTyped, Helm!Mine
    <2> HIDE DEF r
    <2>3. RunsTyped'
      BY <2>1, <2>2 DEF RunsTyped
    <2>4. ReleaseOwned'
      BY <2>1, <2>2 DEF ReleaseOwned, RunsTyped
    <2>5. OperatorsRun'
      BY <2>1, <2>2 DEF OperatorsRun, RunsTyped, Helm!Mine
    <2>6. Helm!AdviceLeadsOut' /\ Helm!NoTrace'
      BY <2>1 DEF Helm!AdviceLeadsOut, Helm!NoTrace, RunsTyped
    <2> QED BY <2>3, <2>4, <2>5, <2>6
  <1>11. ASSUME NEW o \in People, Helm!InstallFails(o) PROVE HelmInv'
    <2>1. /\ pc' = [pc EXCEPT ![o] = "record"]
          /\ result' = [result EXCEPT ![o] = "failed"]
          /\ UNCHANGED <<namespace, deployed, badge, found, advice, options, temp, killed>>
          /\ pc[o] = "installing"
      BY <1>11 DEF Helm!InstallFails
    <2>2. \/ release' = NoRelease
          \/ /\ release # NoRelease /\ release' \in Releases /\ Sensible(release') /\ release'.cut
             /\ release'.by = release.by
             /\ release'.status \in {release.status, "failed", "uninstalling"}
      <3> SUFFICES ASSUME release' # NoRelease
                   PROVE  /\ release # NoRelease /\ release' \in Releases
                          /\ Sensible(release') /\ release'.cut /\ release'.by = release.by
                          /\ release'.status \in {release.status, "failed", "uninstalling"}
        OBVIOUS
      <3>1. PICK statuses :
              /\ release' \in Helm!Cut(release, statuses)
              /\ \A t \in statuses : \/ t \in {release.status, "uninstalling"}
                                     \/ t = "failed" /\ Helm!Mine(o)
        BY <1>11 DEF Helm!InstallFails, Helm!RollBack, Helm!StillThere
      <3>2. release # NoRelease
        BY <3>1 DEF Helm!Cut
      <3>3. release \in Releases /\ Sensible(release)
        BY <3>2 DEF RunsTyped, ReleaseOwned
      <3>4. Helm!Mine(o) => release.status = "pending-install"
        BY <2>1 DEF OperatorsRun
      <3>5. \A t \in statuses : Worse(release, t)
        BY <3>1, <3>4 DEF Worse
      <3>6. release' \in Releases /\ Sensible(release') /\ release'.cut /\ release'.by = release.by
        BY <3>1, <3>3, <3>5, CutSensible
      <3>7. release'.status \in {release.status, "failed", "uninstalling"}
        BY <3>1, <3>2, <3>3 DEF Helm!Cut, Releases
      <3> QED BY <3>2, <3>6, <3>7
    <2>3. RunsTyped'
      BY <2>1, <2>2 DEF RunsTyped
    <2>4. ReleaseOwned'
      BY <2>1, <2>2 DEF ReleaseOwned, RunsTyped, Helm!Working, Helm!Mine
    <2>5. OperatorsRun'
      BY <2>1, <2>2 DEF OperatorsRun, RunsTyped, Helm!Mine, Helm!Pending
    <2>6. Helm!AdviceLeadsOut' /\ Helm!NoTrace'
      BY <2>1 DEF Helm!AdviceLeadsOut, Helm!NoTrace, RunsTyped, Helm!Upgradable
    <2> QED BY <2>3, <2>4, <2>5, <2>6
  <1>12. ASSUME NEW o \in People, Helm!UpgradeFails(o) PROVE HelmInv'
    <2>1. /\ pc' = [pc EXCEPT ![o] = "record"]
          /\ result' = [result EXCEPT ![o] = "failed"]
          /\ UNCHANGED <<namespace, deployed, badge, found, advice, options, temp, killed>>
          /\ pc[o] = "upgrading"
      BY <1>12 DEF Helm!UpgradeFails
    <2>2. \/ UNCHANGED release /\ ~Helm!Mine(o)
          \/ /\ release # NoRelease /\ release' \in Releases /\ Sensible(release')
             /\ release'.by = release.by
             /\ \/ release'.status = "failed"
                \/ release'.status = release.status /\ release'.cut
      <3>1. CASE ~Helm!Mine(o)
        BY <3>1, <1>12 DEF Helm!UpgradeFails
      <3>2. CASE Helm!Mine(o)
        <4>1. /\ release \in Releases /\ Sensible(release) /\ release # NoRelease
              /\ release.status = "pending-upgrade"
          BY <3>2, <2>1 DEF Helm!Mine, RunsTyped, ReleaseOwned, OperatorsRun
        <4>2. \/ release' = [release EXCEPT !.status = "failed"]
              \/ release' = [release EXCEPT !.cut = TRUE]
          BY <3>2, <1>12 DEF Helm!UpgradeFails
        <4> QED BY <4>1, <4>2 DEF Releases, Sensible, Helm!Pending, Helm!Statuses
      <3> QED BY <3>1, <3>2
    <2>3. RunsTyped'
      BY <2>1, <2>2 DEF RunsTyped
    <2>4. ReleaseOwned'
      BY <2>1, <2>2 DEF ReleaseOwned, RunsTyped, Releases, Helm!Working, Helm!Mine, Helm!Pending
    <2>5. OperatorsRun'
      BY <2>1, <2>2 DEF OperatorsRun, RunsTyped, Helm!Mine, Helm!Pending
    <2>6. Helm!AdviceLeadsOut' /\ Helm!NoTrace'
      BY <2>1 DEF Helm!AdviceLeadsOut, Helm!NoTrace, RunsTyped, Helm!Upgradable
    <2> QED BY <2>3, <2>4, <2>5, <2>6
  <1>13. ASSUME NEW o \in People, Helm!Record(o) PROVE HelmInv'
    <2>1. RunsTyped'
      BY <1>13 DEF Helm!Record, RunsTyped
    <2>2. ReleaseOwned'
      BY <1>13 DEF Helm!Record, RunsTyped, ReleaseOwned, Sensible, Releases, Helm!Working
    <2>3. OperatorsRun'
      BY <1>13 DEF Helm!Record, RunsTyped, OperatorsRun, Helm!Mine
    <2>4. Helm!AdviceLeadsOut'
      BY <1>13 DEF Helm!Record, RunsTyped, Helm!AdviceLeadsOut
    <2>5. badge' = "succeeded" => deployed'
      BY <1>13 DEF Helm!Record, OperatorsRun, Helm!NoTrace
    <2>6. \A p \in People : pc'[p] = "idle" /\ ~killed'[p] => ~temp'[p]
      BY <1>13 DEF Helm!Record, RunsTyped, Helm!NoTrace
    <2> QED BY <2>1, <2>2, <2>3, <2>4, <2>5, <2>6 DEF Helm!NoTrace
  <1>14. ASSUME NEW o \in People, Helm!Kill(o) PROVE HelmInv'
    <2>1. \/ UNCHANGED release /\ ~(Helm!Working(o) /\ Helm!Mine(o))
          \/ /\ release # NoRelease /\ release' \in Releases /\ Sensible(release')
             /\ release'.cut /\ release'.by = release.by /\ release'.status = release.status
      <3>1. CASE ~(Helm!Working(o) /\ Helm!Mine(o))
        BY <3>1, <1>14 DEF Helm!Kill
      <3>2. CASE Helm!Working(o) /\ Helm!Mine(o)
        <4>1. release \in Releases /\ Sensible(release) /\ release # NoRelease
          BY <3>2 DEF Helm!Mine, RunsTyped, ReleaseOwned
        <4>2. release' = [release EXCEPT !.cut = TRUE]
          BY <3>2, <1>14 DEF Helm!Kill
        <4> QED BY <4>1, <4>2 DEF Releases, Sensible
      <3> QED BY <3>1, <3>2
    <2>2. RunsTyped'
      BY <1>14, <2>1 DEF Helm!Kill, RunsTyped
    <2>3. ReleaseOwned'
      BY <1>14, <2>1 DEF Helm!Kill, RunsTyped, ReleaseOwned, Helm!Working, Helm!Mine
    <2>4. OperatorsRun'
      BY <1>14, <2>1 DEF Helm!Kill, RunsTyped, OperatorsRun, Helm!Mine
    <2>5. Helm!AdviceLeadsOut'
      BY <1>14 DEF Helm!Kill, RunsTyped, Helm!AdviceLeadsOut
    <2>6. Helm!NoTrace'
      BY <1>14 DEF Helm!Kill, RunsTyped, Helm!NoTrace
    <2> QED BY <2>2, <2>3, <2>4, <2>5, <2>6
  <1>15. CASE Helm!Uninstall
    <2>1. \/ release' = NoRelease
          \/ /\ release' \in Releases /\ Sensible(release') /\ release'.cut
             /\ release'.status = "uninstalling"
      <3>1. release \in Releases /\ Sensible(release) /\ release # NoRelease
        BY <1>15 DEF Helm!Uninstall, RunsTyped, ReleaseOwned
      <3>2. CASE release' \in Helm!Cut(release, {"uninstalling"})
        <4>0. \A t \in {"uninstalling"} : Worse(release, t)
          BY DEF Worse
        <4>1. release' \in Releases /\ Sensible(release') /\ release'.cut
          BY <3>1, <3>2, <4>0, CutSensible
        <4>2. release'.status = "uninstalling"
          BY <3>1, <3>2 DEF Helm!Cut, Releases
        <4> QED BY <4>1, <4>2
      <3> QED BY <3>2, <1>15 DEF Helm!Uninstall
    <2>2. UNCHANGED <<namespace, deployed, badge, pc, options, temp, found, result, advice, killed>>
      BY <1>15 DEF Helm!Uninstall
    <2>3. RunsTyped'
      BY <2>1, <2>2 DEF RunsTyped
    <2>4. ReleaseOwned'
      BY <2>1, <2>2 DEF ReleaseOwned, Helm!Pending
    <2>5. OperatorsRun'
      BY <2>1, <2>2 DEF OperatorsRun, Helm!Mine, Helm!Pending
    <2>6. Helm!AdviceLeadsOut' /\ Helm!NoTrace'
      BY <2>2 DEF Helm!AdviceLeadsOut, Helm!NoTrace, Helm!Upgradable
    <2> QED BY <2>3, <2>4, <2>5, <2>6
  <1> QED BY <1>1, <1>2, <1>3, <1>4, <1>5, <1>6, <1>7, <1>8, <1>9, <1>10, <1>11, <1>12,
             <1>13, <1>14, <1>15 DEF Helm!Next, Helm!Command

LEMMA HelmSafe == HelmInv => Helm!NoWedge
  BY DEF HelmInv, RunsTyped, ReleaseOwned, Sensible, Releases, Helm!Statuses, Helm!NoWedge,
         Helm!Upgradable

(* A release that nobody is at work on can be gone on from, unless what was *)
(* done to it last was cut off; then the advice leads out of it and not in *)
(* a circle. A run that ends leaves no kubeconfig behind, and a success    *)
(* that is shown was one.                                                  *)
THEOREM NothingWedged == MCSpec => []NoWedge
  <1> DEFINE I == command = "bootstrap" => HelmInv
  <1>1. MCInit => I
    BY HelmInit DEF MCInit
  <1>2. I /\ [MCNext]_MCvars => I'
    <2> SUFFICES ASSUME I, [MCNext]_MCvars PROVE I'
      OBVIOUS
    <2>1. CASE Bootstrapping
      BY <2>1, HelmStep DEF Bootstrapping
    <2>2. CASE UNCHANGED MCvars
      BY <2>2 DEF MCvars, onlyBootstrap, HelmInv, RunsTyped, ReleaseOwned, OperatorsRun,
                  Helm!AdviceLeadsOut, Helm!NoTrace, Helm!Working, Helm!Mine, Helm!Upgradable
    <2>3. CASE MCNext /\ ~Bootstrapping
      BY <2>3 DEF MCNext, FollowLogs, FollowTask, FollowInbox, SettingUp, Deciding, Planning
    <2> QED BY <2>1, <2>2, <2>3
  <1>3. I => NoWedge
    BY HelmSafe DEF NoWedge, HelmInv
  <1> QED BY <1>1, <1>2, <1>3, PTL DEF MCSpec

-----------------------------------------------------------------------------
(***************************************************************************)
(* `apply`, `ci setup`, `workflow run --file` and their like: Setup.       *)
(***************************************************************************)

Things == {"absent", "other", "half", "wanted"}

SetupTyped ==
  /\ Len(row.steps) \in Nat /\ wanted \subseteq Steps!Steps
  /\ \A s \in row.stops : s \subseteq Steps!Steps
  /\ run \in Steps!Runs /\ at \in Nat /\ turns \in Nat
  /\ pc \in {"read", "go", "sent", "ended"}
  /\ things \in [Steps!Steps -> Things] /\ before \in [Steps!Steps -> Things]
  /\ plan \in [Steps!Steps -> Things \cup {"?"}]
  /\ applied \in [Steps!Runs -> SUBSET Steps!Steps]
  /\ outcome \in [Steps!Runs -> {"none", "done", "failed"}]
  /\ \A r \in late :
       r.run \in Steps!Runs /\ r.step \in Steps!Steps /\ row.steps[r.step] # "file"

(* A step the run has behind it: carried out for it, or rightly skipped.   *)
Behind(k) ==
  \/ k \in applied[run]
  \/ row.steps[k] = "either" /\ plan[k] = "wanted"
  \/ row.steps[k] = "file" /\ plan[k] \notin {"?", "absent"} /\ ~force

(* What a run has asked for and what was done for it lies at or before its *)
(* next step; what lies before that step, it has behind it.                *)
Advanced ==
  /\ \A q \in Steps!Runs : q > run => applied[q] = {} /\ outcome[q] = "none"
  /\ pc = "ended" <=> outcome[run] # "none"
  /\ pc = "read" => at = 0
  /\ pc \in {"go", "sent"} => at \in wanted
  /\ \A k \in applied[run] : k \in wanted /\ k <= at
  /\ \A r \in late : r.run <= run
  /\ \A r \in late : r.run = run => r.step \in wanted /\ r.step <= at
  /\ \A j \in wanted : j < at => Behind(j)
  /\ outcome[run] = "done" => \A j \in wanted : Behind(j)

(* A step that has not been asked for is not done, nor is a file that is   *)
(* open; as long as nobody else changes things, what was done stays.       *)
Untouched ==
  pc = "go" \/ (pc = "sent" /\ row.steps[at] = "file") =>
    /\ at \notin applied[run] /\ \A r \in late : r.run = run => r.step # at
    /\ pc = "sent" /\ ~force => plan[at] = "absent"

Alone ==
  turns = 0 =>
    /\ \A k \in applied[run] : things[k] = "wanted"
    /\ \A k \in Steps!Steps :
         /\ plan[k] \notin {"?", "absent"} => things[k] # "absent"
         /\ row.steps[k] # "file" /\ plan[k] = "wanted" => things[k] = "wanted"

Unclobbered ==
  turns = 0 /\ ~force =>
    \A k \in Steps!Steps : row.steps[k] = "file" /\ before[k] = "other" =>
      things[k] = "other" /\ plan[k] # "absent"

SetupInv == SetupTyped /\ Advanced /\ Untouched /\ Alone /\ Unclobbered

LEMMA SetupInit == Steps!Init => SetupInv
  <1> SUFFICES ASSUME Steps!Init PROVE SetupInv
    OBVIOUS
  <1>1. Len(row.steps) \in Nat /\ \A s \in row.stops : s \subseteq Steps!Steps
    <2>1. CASE row = Steps!RunManifest
      BY <2>1 DEF Steps!RunManifest, Steps!Steps
    <2>2. CASE row = Steps!CiSetup
      BY <2>2 DEF Steps!CiSetup, Steps!Steps
    <2>3. CASE row = Steps!Apply
      BY <2>3 DEF Steps!Apply, Steps!Steps
    <2>4. CASE row = Steps!EnvSpecUpsert
      BY <2>4 DEF Steps!EnvSpecUpsert, Steps!Steps
    <2>5. CASE row = Steps!WriteComponents
      BY <2>5 DEF Steps!WriteComponents, Steps!Steps
    <2> QED BY <2>1, <2>2, <2>3, <2>4, <2>5 DEF Steps!Init, Steps!AllSetups
  <1>2. 1 \in Steps!Runs
    BY SizesAssumption DEF Steps!SetupBounds, Steps!Runs
  <1>3. SetupTyped
    BY <1>1, <1>2 DEF Steps!Init, SetupTyped, Things
  <1>4. Advanced
    <2>1. \A j \in Steps!Steps : ~(j < 0)
      BY <1>1 DEF Steps!Steps
    <2>2. /\ applied[run] = {} /\ outcome[run] = "none" /\ at = 0 /\ late = {} /\ pc = "read"
          /\ \A q \in Steps!Runs : applied[q] = {} /\ outcome[q] = "none"
      BY <1>2 DEF Steps!Init
    <2> QED BY <1>3, <2>1, <2>2 DEF Advanced, SetupTyped
  <1>5. Untouched /\ Alone /\ Unclobbered
    BY <1>1, <1>2 DEF Steps!Init, Untouched, Alone, Unclobbered
  <1> QED BY <1>3, <1>4, <1>5 DEF SetupInv

(* The next step: what is behind the run when it goes on.                  *)
LEMMA GoesOn ==
  ASSUME SetupTyped, Steps!GoOn, UNCHANGED <<row, wanted, run>>, outcome[run] = "none",
         \A j \in wanted : j <= at => Behind(j)'
  PROVE  /\ at' \in Nat /\ at <= at' /\ pc' \in {"go", "ended"}
         /\ outcome' \in [Steps!Runs -> {"none", "done", "failed"}]
         /\ \A q \in Steps!Runs : q # run => outcome'[q] = outcome[q]
         /\ pc' = "ended" <=> outcome'[run] # "none"
         /\ pc' = "go" => at' \in wanted /\ at < at'
         /\ \A j \in wanted : j < at' => Behind(j)'
         /\ outcome'[run] = "done" => \A j \in wanted : Behind(j)'
  <1> DEFINE G == {j \in wanted : Behind(j)'}
  <1>1. \A j \in wanted : j <= at => j \in G
    OBVIOUS
  <1>2. SUFFICES
           /\ at' \in Nat /\ at <= at' /\ pc' \in {"go", "ended"}
           /\ outcome' \in [Steps!Runs -> {"none", "done", "failed"}]
           /\ \A q \in Steps!Runs : q # run => outcome'[q] = outcome[q]
           /\ pc' = "ended" <=> outcome'[run] # "none"
           /\ pc' = "go" => at' \in wanted /\ at < at'
           /\ \A j \in wanted : j < at' => j \in G
           /\ outcome'[run] = "done" => \A j \in wanted : j \in G
    OBVIOUS
  <1> HIDE DEF G
  <1>3. /\ wanted \subseteq Nat /\ at \in Nat /\ wanted \subseteq Steps!Steps
        /\ run \in Steps!Runs /\ outcome \in [Steps!Runs -> {"none", "done", "failed"}]
    BY DEF SetupTyped, Steps!Steps
  <1>4. CASE Steps!After(at) = {}
    <2>1. \A j \in wanted : ~(j > at)
      BY <1>3, <1>4 DEF Steps!After
    <2>2. \A j \in wanted : j <= at
      BY <1>3, <2>1
    <2>3. /\ pc' = "ended" /\ outcome' = [outcome EXCEPT ![run] = "done"] /\ at' = at
      BY <1>4 DEF Steps!GoOn
    <2> QED BY <1>1, <1>3, <2>2, <2>3
  <1>5. CASE Steps!After(at) # {}
    <2>1. PICK j \in Steps!After(at) : (\A i \in Steps!After(at) : j <= i) /\ at' = j
      BY <1>5 DEF Steps!GoOn
    <2>2. j \in wanted /\ at < j
      BY <1>3, <2>1 DEF Steps!After
    <2>3. \A i \in wanted : i < j => i <= at
      BY <1>3, <2>1, <2>2 DEF Steps!After
    <2>4. pc' = "go" /\ outcome' = outcome
      BY <1>5 DEF Steps!GoOn
    <2> QED BY <1>1, <1>3, <2>1, <2>2, <2>3, <2>4
  <1> QED BY <1>4, <1>5

LEMMA SetupStep == SetupInv /\ Steps!Next => SetupInv'
  <1> SUFFICES ASSUME SetupInv, Steps!Next PROVE SetupInv'
    OBVIOUS
  <1> USE DEF SetupInv, Steps!server
  <1>0. /\ Steps!Steps \subseteq Nat /\ Steps!Runs \subseteq Nat /\ run \in Steps!Runs
        /\ row' = row /\ Steps!Steps' = Steps!Steps /\ Steps!Runs' = Steps!Runs
        /\ wanted \subseteq Nat /\ at \in Nat
    <2>1. row' = row
      BY DEF Steps!Next, Steps!Command, Steps!Server, Steps!Reads, Steps!Skip, Steps!Fill,
             Steps!Confirmed, Steps!ReadStep, Steps!Send, Steps!Open, Steps!CarryOut,
             Steps!Refuse, Steps!Fail, Steps!Ends, Steps!RunAgain, Steps!Others
    <2>2. Steps!Steps \subseteq Nat /\ Steps!Runs \subseteq Nat
      BY DEF Steps!Steps, Steps!Runs
    <2> QED BY <2>1, <2>2 DEF SetupTyped, Steps!Steps, Steps!Runs
  <1>1. CASE Steps!Reads
    <2>1. outcome[run] = "none"
      BY <1>1 DEF Steps!Reads, Advanced, SetupTyped, Steps!Answered
    <2>2. \A j \in wanted : j <= at => Behind(j)'
      BY <1>1 DEF Steps!Reads, Advanced, SetupTyped, Behind, Steps!Known, Steps!Skips, Steps!Kind,
                    Steps!Answered, Steps!Looks, Steps!Steps
    <2>3. UNCHANGED <<row, wanted, force, run, turns, before>>
      BY <1>1 DEF Steps!Reads
    <2>4. Steps!GoOn
      BY <1>1 DEF Steps!Reads
    <2>5. /\ at' \in Nat /\ at <= at' /\ pc' \in {"go", "ended"}
          /\ outcome' \in [Steps!Runs -> {"none", "done", "failed"}]
          /\ \A q \in Steps!Runs : q # run => outcome'[q] = outcome[q]
          /\ pc' = "ended" <=> outcome'[run] # "none"
          /\ pc' = "go" => at' \in wanted /\ at < at'
          /\ \A j \in wanted : j < at' => Behind(j)'
          /\ outcome'[run] = "done" => \A j \in wanted : Behind(j)'
      BY <2>1, <2>2, <2>3, <2>4, GoesOn
    <2>6. SetupTyped'
      BY <1>1, <1>0, <2>3, <2>5 DEF Steps!Reads, SetupTyped, Things
    <2>a. /\ UNCHANGED <<late, applied, things>>
      BY <1>1 DEF Steps!Reads
    <2>7. Advanced'
      <3>1. \A q \in Steps!Runs : q > run => applied'[q] = {} /\ outcome'[q] = "none"
        BY <1>0, <2>3, <2>5, <2>a DEF Advanced
      <3>2. \A i \in applied'[run] : i \in wanted /\ i <= at'
        BY <1>0, <2>3, <2>5, <2>a DEF SetupTyped, Advanced
      <3>3. \A r \in late' : r.run <= run /\ (r.run = run => r.step \in wanted /\ r.step <= at')
        <4>1. \A r \in late : r.run <= run /\ (r.run = run => r.step \in wanted /\ r.step <= at)
          BY DEF Advanced
        <4>2. \A r \in late : r.step \in Nat
          BY <1>0 DEF SetupTyped
        <4> QED BY <1>0, <2>5, <2>a, <4>1, <4>2
      <3> QED BY <1>0, <2>3, <2>5, <3>1, <3>2, <3>3 DEF Advanced
    <2>8. Untouched'
      BY <1>0, <2>3, <2>5, <2>a DEF SetupTyped, Advanced, Untouched
    <2>9. Alone'
      BY <1>1, <1>0, <2>3 DEF Steps!Reads, SetupTyped, Alone
    <2>10. Unclobbered'
      BY <1>1, <1>0, <2>3 DEF Steps!Reads, SetupTyped, Unclobbered
    <2> QED BY <2>6, <2>7, <2>8, <2>9, <2>10
  <1>2. CASE Steps!Skip
    <2>1. outcome[run] = "none"
      BY <1>2 DEF Steps!Skip, Advanced, SetupTyped, Steps!Answered
    <2>2. \A j \in wanted : j <= at => Behind(j)'
      BY <1>2 DEF Steps!Skip, Advanced, SetupTyped, Behind, Steps!Known, Steps!Skips, Steps!Kind,
                    Steps!Answered, Steps!Looks, Steps!Steps
    <2>3. UNCHANGED <<row, wanted, force, run, turns, before>>
      BY <1>2 DEF Steps!Skip
    <2>4. Steps!GoOn
      BY <1>2 DEF Steps!Skip
    <2>5. /\ at' \in Nat /\ at <= at' /\ pc' \in {"go", "ended"}
          /\ outcome' \in [Steps!Runs -> {"none", "done", "failed"}]
          /\ \A q \in Steps!Runs : q # run => outcome'[q] = outcome[q]
          /\ pc' = "ended" <=> outcome'[run] # "none"
          /\ pc' = "go" => at' \in wanted /\ at < at'
          /\ \A j \in wanted : j < at' => Behind(j)'
          /\ outcome'[run] = "done" => \A j \in wanted : Behind(j)'
      BY <2>1, <2>2, <2>3, <2>4, GoesOn
    <2>6. SetupTyped'
      BY <1>2, <1>0, <2>3, <2>5 DEF Steps!Skip, SetupTyped, Things
    <2>a. /\ UNCHANGED <<late, applied, things>>
      BY <1>2 DEF Steps!Skip
    <2>7. Advanced'
      <3>1. \A q \in Steps!Runs : q > run => applied'[q] = {} /\ outcome'[q] = "none"
        BY <1>0, <2>3, <2>5, <2>a DEF Advanced
      <3>2. \A i \in applied'[run] : i \in wanted /\ i <= at'
        BY <1>0, <2>3, <2>5, <2>a DEF SetupTyped, Advanced
      <3>3. \A r \in late' : r.run <= run /\ (r.run = run => r.step \in wanted /\ r.step <= at')
        <4>1. \A r \in late : r.run <= run /\ (r.run = run => r.step \in wanted /\ r.step <= at)
          BY DEF Advanced
        <4>2. \A r \in late : r.step \in Nat
          BY <1>0 DEF SetupTyped
        <4> QED BY <1>0, <2>5, <2>a, <4>1, <4>2
      <3> QED BY <1>0, <2>3, <2>5, <3>1, <3>2, <3>3 DEF Advanced
    <2>8. Untouched'
      BY <1>0, <2>3, <2>5, <2>a DEF SetupTyped, Advanced, Untouched
    <2>9. Alone'
      BY <1>2, <1>0, <2>3 DEF Steps!Skip, SetupTyped, Alone
    <2>10. Unclobbered'
      BY <1>2, <1>0, <2>3 DEF Steps!Skip, SetupTyped, Unclobbered
    <2> QED BY <2>6, <2>7, <2>8, <2>9, <2>10
  <1>3. CASE Steps!Fill
    <2>1. outcome[run] = "none"
      BY <1>3 DEF Steps!Fill, Advanced, SetupTyped, Steps!Answered
    <2>2. \A j \in wanted : j <= at => Behind(j)'
      BY <1>3 DEF Steps!Fill, Advanced, SetupTyped, Behind, Steps!Known, Steps!Skips, Steps!Kind,
                    Steps!Answered, Steps!Looks, Steps!Steps
    <2>3. UNCHANGED <<row, wanted, force, run, turns, before>>
      BY <1>3 DEF Steps!Fill
    <2>4. Steps!GoOn
      BY <1>3 DEF Steps!Fill
    <2>5. /\ at' \in Nat /\ at <= at' /\ pc' \in {"go", "ended"}
          /\ outcome' \in [Steps!Runs -> {"none", "done", "failed"}]
          /\ \A q \in Steps!Runs : q # run => outcome'[q] = outcome[q]
          /\ pc' = "ended" <=> outcome'[run] # "none"
          /\ pc' = "go" => at' \in wanted /\ at < at'
          /\ \A j \in wanted : j < at' => Behind(j)'
          /\ outcome'[run] = "done" => \A j \in wanted : Behind(j)'
      BY <2>1, <2>2, <2>3, <2>4, GoesOn
    <2>a. /\ applied' = [applied EXCEPT ![run] = @ \cup {at}] /\ UNCHANGED <<late, plan>>
          /\ things' = [things EXCEPT ![at] = "wanted"]
          /\ pc = "sent" /\ row.steps[at] = "file" /\ at \in wanted /\ at \in Steps!Steps
      BY <1>3 DEF Steps!Fill, Steps!Kind, Advanced, SetupTyped
    <2>b. /\ applied' \in [Steps!Runs -> SUBSET Steps!Steps] /\ applied'[run] = applied[run] \cup {at}
          /\ \A q \in Steps!Runs : q # run => applied'[q] = applied[q]
      BY <1>0, <2>a DEF SetupTyped
    <2>6. SetupTyped'
      BY <1>0, <2>3, <2>5, <2>a, <2>b DEF SetupTyped, Things
    <2>7. Advanced'
      <3>1. \A q \in Steps!Runs : q > run => applied'[q] = {} /\ outcome'[q] = "none"
        BY <1>0, <2>3, <2>5, <2>a, <2>b DEF Advanced
      <3>2. \A i \in applied'[run] : i \in wanted /\ i <= at'
        BY <1>0, <2>3, <2>5, <2>a, <2>b DEF SetupTyped, Advanced
      <3>3. \A r \in late' : r.run <= run /\ (r.run = run => r.step \in wanted /\ r.step <= at')
        <4>1. \A r \in late : r.run <= run /\ (r.run = run => r.step \in wanted /\ r.step <= at)
          BY DEF Advanced
        <4>2. \A r \in late : r.step \in Nat
          BY <1>0 DEF SetupTyped
        <4> QED BY <1>0, <2>5, <2>a, <4>1, <4>2
      <3> QED BY <1>0, <2>3, <2>5, <3>1, <3>2, <3>3 DEF Advanced
    <2>8. Untouched'
      BY <1>0, <2>3, <2>5, <2>a, <2>b DEF SetupTyped, Advanced, Untouched
    <2>9. Alone'
      BY <1>0, <2>3, <2>a, <2>b DEF SetupTyped, Alone
    <2>10. Unclobbered'
      BY <1>0, <2>3, <2>a, <2>b DEF SetupTyped, Unclobbered, Untouched
    <2> QED BY <2>6, <2>7, <2>8, <2>9, <2>10
  <1>4. CASE Steps!Confirmed
    <2>1. outcome[run] = "none"
      BY <1>4 DEF Steps!Confirmed, Advanced, SetupTyped, Steps!Answered
    <2>2. \A j \in wanted : j <= at => Behind(j)'
      BY <1>4 DEF Steps!Confirmed, Advanced, SetupTyped, Behind, Steps!Known, Steps!Skips, Steps!Kind,
                    Steps!Answered, Steps!Looks, Steps!Steps
    <2>3. UNCHANGED <<row, wanted, force, run, turns, before>>
      BY <1>4 DEF Steps!Confirmed
    <2>4. Steps!GoOn
      BY <1>4 DEF Steps!Confirmed
    <2>5. /\ at' \in Nat /\ at <= at' /\ pc' \in {"go", "ended"}
          /\ outcome' \in [Steps!Runs -> {"none", "done", "failed"}]
          /\ \A q \in Steps!Runs : q # run => outcome'[q] = outcome[q]
          /\ pc' = "ended" <=> outcome'[run] # "none"
          /\ pc' = "go" => at' \in wanted /\ at < at'
          /\ \A j \in wanted : j < at' => Behind(j)'
          /\ outcome'[run] = "done" => \A j \in wanted : Behind(j)'
      BY <2>1, <2>2, <2>3, <2>4, GoesOn
    <2>6. SetupTyped'
      BY <1>4, <1>0, <2>3, <2>5 DEF Steps!Confirmed, SetupTyped, Things
    <2>a. /\ UNCHANGED <<late, applied, things>>
      BY <1>4 DEF Steps!Confirmed
    <2>7. Advanced'
      <3>1. \A q \in Steps!Runs : q > run => applied'[q] = {} /\ outcome'[q] = "none"
        BY <1>0, <2>3, <2>5, <2>a DEF Advanced
      <3>2. \A i \in applied'[run] : i \in wanted /\ i <= at'
        BY <1>0, <2>3, <2>5, <2>a DEF SetupTyped, Advanced
      <3>3. \A r \in late' : r.run <= run /\ (r.run = run => r.step \in wanted /\ r.step <= at')
        <4>1. \A r \in late : r.run <= run /\ (r.run = run => r.step \in wanted /\ r.step <= at)
          BY DEF Advanced
        <4>2. \A r \in late : r.step \in Nat
          BY <1>0 DEF SetupTyped
        <4> QED BY <1>0, <2>5, <2>a, <4>1, <4>2
      <3> QED BY <1>0, <2>3, <2>5, <3>1, <3>2, <3>3 DEF Advanced
    <2>8. Untouched'
      BY <1>0, <2>3, <2>5, <2>a DEF SetupTyped, Advanced, Untouched
    <2>9. Alone'
      BY <1>4, <1>0, <2>3 DEF Steps!Confirmed, SetupTyped, Alone
    <2>10. Unclobbered'
      BY <1>4, <1>0, <2>3 DEF Steps!Confirmed, SetupTyped, Unclobbered
    <2> QED BY <2>6, <2>7, <2>8, <2>9, <2>10
  <1>5. CASE Steps!ReadStep
    <2>1. SetupTyped'
      BY <1>5, <1>0 DEF Steps!ReadStep, SetupTyped, Things
    <2>2. Advanced'
      BY <1>5, <1>0 DEF Steps!ReadStep, SetupTyped, Advanced, Behind
    <2>3. Untouched'
      BY <1>5, <1>0 DEF Steps!ReadStep, SetupTyped, Advanced, Untouched
    <2>4. Alone'
      BY <1>5, <1>0 DEF Steps!ReadStep, SetupTyped, Advanced, Untouched, Alone
    <2>5. Unclobbered'
      BY <1>5, <1>0 DEF Steps!ReadStep, SetupTyped, Unclobbered
    <2> QED BY <2>1, <2>2, <2>3, <2>4, <2>5
  <1>6. CASE Steps!Send
    <2>1. SetupTyped'
      BY <1>6, <1>0 DEF Steps!Send, SetupTyped, Things, Steps!Request, Steps!Kind, Advanced
    <2>2. Advanced'
      BY <1>6, <1>0 DEF Steps!Send, SetupTyped, Advanced, Behind, Steps!Request
    <2>3. Untouched'
      BY <1>6, <1>0 DEF Steps!Send, SetupTyped, Advanced, Untouched, Steps!Kind
    <2>4. Alone'
      BY <1>6, <1>0 DEF Steps!Send, SetupTyped, Advanced, Untouched, Alone
    <2>5. Unclobbered'
      BY <1>6, <1>0 DEF Steps!Send, SetupTyped, Unclobbered
    <2> QED BY <2>1, <2>2, <2>3, <2>4, <2>5
  <1>7. CASE Steps!Open
    <2>1. /\ things' = [things EXCEPT ![at] = "half"] /\ pc' = "sent"
          /\ UNCHANGED <<row, wanted, force, late, applied, run, at, plan, outcome, turns, before>>
          /\ pc = "go" /\ row.steps[at] = "file" /\ at \in Steps!Steps /\ at \in wanted
          /\ plan[at] # "?" /\ (plan[at] = "absent" \/ force)
      BY <1>7 DEF Steps!Open, Steps!Kind, Steps!Known, Steps!Looks, Steps!Skips, SetupTyped, Advanced
    <2>2. /\ things' \in [Steps!Steps -> Things] /\ things'[at] = "half"
          /\ \A i \in Steps!Steps : i # at => things'[i] = things[i]
      BY <2>1 DEF SetupTyped, Things
    <2>3. SetupTyped'
      BY <1>0, <2>1, <2>2 DEF SetupTyped
    <2>4. Advanced'
      BY <1>0, <2>1 DEF Advanced, Behind
    <2>5. Untouched'
      BY <1>0, <2>1 DEF Untouched
    <2>6. Alone'
      <3>1. at \notin applied[run] /\ applied[run] \subseteq Steps!Steps
        BY <1>0, <2>1 DEF Untouched, SetupTyped
      <3> QED BY <1>0, <2>1, <2>2, <3>1 DEF Alone
    <2>7. Unclobbered'
      BY <1>0, <2>1, <2>2 DEF Unclobbered
    <2> QED BY <2>3, <2>4, <2>5, <2>6, <2>7
  <1>8. CASE Steps!CarryOut
    <2>1. PICK r \in late :
            /\ late' = late \ {r}
            /\ \/ /\ things' = [things EXCEPT ![r.step] = "wanted"]
                  /\ applied' = [applied EXCEPT ![r.run] = @ \cup {r.step}]
               \/ UNCHANGED <<things, applied>>
      BY <1>8 DEF Steps!CarryOut
    <2>2. UNCHANGED <<row, wanted, force, run, at, pc, plan, outcome, turns, before>>
      BY <1>8 DEF Steps!CarryOut
    <2>3. CASE UNCHANGED <<things, applied>>
      BY <1>0, <2>1, <2>2, <2>3 DEF SetupTyped, Advanced, Behind, Untouched, Alone, Unclobbered
    <2>4. CASE /\ things' = [things EXCEPT ![r.step] = "wanted"]
               /\ applied' = [applied EXCEPT ![r.run] = @ \cup {r.step}]
      <3>0. /\ r.run \in Steps!Runs /\ r.step \in Steps!Steps /\ row.steps[r.step] # "file"
            /\ applied'[r.run] = applied[r.run] \cup {r.step}
            /\ \A q \in Steps!Runs : q # r.run => applied'[q] = applied[q]
            /\ things'[r.step] = "wanted"
            /\ \A i \in Steps!Steps : i # r.step => things'[i] = things[i]
            /\ applied' \in [Steps!Runs -> SUBSET Steps!Steps]
            /\ things' \in [Steps!Steps -> Things]
        BY <2>1, <2>4 DEF SetupTyped, Things
      <3>1. SetupTyped'
        BY <1>0, <2>1, <2>2, <3>0 DEF SetupTyped
      <3>2. Advanced'
        BY <1>0, <2>1, <2>2, <3>0 DEF SetupTyped, Advanced, Behind
      <3>3. Untouched'
        BY <1>0, <2>1, <2>2, <3>0 DEF SetupTyped, Advanced, Untouched
      <3>4. Alone'
        BY <1>0, <2>1, <2>2, <3>0 DEF SetupTyped, Advanced, Alone
      <3>5. Unclobbered'
        BY <1>0, <2>1, <2>2, <3>0 DEF SetupTyped, Unclobbered
      <3> QED BY <3>1, <3>2, <3>3, <3>4, <3>5
    <2> QED BY <2>1, <2>3, <2>4
  <1>9. CASE Steps!Refuse
    <2>1. SetupTyped'
      BY <1>9, <1>0 DEF Steps!Refuse, SetupTyped, Things
    <2>2. Advanced'
      BY <1>9, <1>0 DEF Steps!Refuse, SetupTyped, Advanced, Behind
    <2>3. Untouched'
      BY <1>9, <1>0 DEF Steps!Refuse, SetupTyped, Advanced, Untouched
    <2>4. Alone'
      BY <1>9, <1>0 DEF Steps!Refuse, SetupTyped, Advanced, Untouched, Alone
    <2>5. Unclobbered'
      BY <1>9, <1>0 DEF Steps!Refuse, SetupTyped, Unclobbered
    <2> QED BY <2>1, <2>2, <2>3, <2>4, <2>5
  <1>10. CASE Steps!Fail
    <2>1. SetupTyped'
      BY <1>10, <1>0 DEF Steps!Fail, Steps!Ends, SetupTyped, Things
    <2>2. Advanced'
      BY <1>10, <1>0 DEF Steps!Fail, Steps!Ends, SetupTyped, Advanced, Behind
    <2>3. Untouched'
      BY <1>10, <1>0 DEF Steps!Fail, Steps!Ends, SetupTyped, Advanced, Untouched
    <2>4. Alone'
      BY <1>10, <1>0 DEF Steps!Fail, Steps!Ends, SetupTyped, Advanced, Untouched, Alone
    <2>5. Unclobbered'
      BY <1>10, <1>0 DEF Steps!Fail, Steps!Ends, SetupTyped, Unclobbered
    <2> QED BY <2>1, <2>2, <2>3, <2>4, <2>5
  <1>11. CASE Steps!RunAgain
    <2>1. /\ run' = run + 1 /\ pc' = "read" /\ at' = 0 /\ wanted' \in row.stops
          /\ plan' = [j \in Steps!Steps |-> "?"] /\ before' = things
          /\ UNCHANGED <<row, force, things, late, applied, outcome, turns>>
      BY <1>11 DEF Steps!RunAgain
    <2>2. run' \in Steps!Runs /\ run' > run /\ wanted' \subseteq Steps!Steps /\ wanted' \subseteq Nat
      <3>1. run' \in Steps!Runs
        BY <1>11, SizesAssumption DEF Steps!RunAgain, SetupTyped, Steps!Runs, Steps!SetupBounds
      <3>2. wanted' \subseteq Steps!Steps
        BY <2>1 DEF SetupTyped
      <3> QED BY <1>0, <2>1, <3>1, <3>2
    <2>3. applied'[run'] = {} /\ outcome'[run'] = "none"
      BY <2>1, <2>2 DEF Advanced
    <2>4. SetupTyped'
      BY <1>0, <2>1, <2>2 DEF SetupTyped, Things
    <2>5. Advanced'
      <3>1. \A r \in late : r.run \in Nat /\ r.run < run'
        BY <1>0, <2>1, <2>2 DEF SetupTyped, Advanced
      <3>2. \A j \in wanted' : ~(j < at')
        BY <2>1, <2>2
      <3>3. \A q \in Steps!Runs : q > run' => q > run
        BY <1>0, <2>1
      <3> QED BY <1>0, <2>1, <2>2, <2>3, <3>1, <3>2, <3>3 DEF Advanced
    <2>6. Untouched' /\ Alone'
      BY <1>0, <2>1, <2>3 DEF Untouched, Alone
    <2>7. Unclobbered'
      BY <1>0, <2>1 DEF Unclobbered
    <2> QED BY <2>4, <2>5, <2>6, <2>7
  <1>12. CASE Steps!Others
    <2>1. SetupTyped'
      BY <1>12, <1>0 DEF Steps!Others, SetupTyped, Things
    <2>2. Advanced'
      BY <1>12, <1>0 DEF Steps!Others, SetupTyped, Advanced, Behind
    <2>3. Untouched'
      BY <1>12, <1>0 DEF Steps!Others, SetupTyped, Advanced, Untouched
    <2>4. Alone'
      BY <1>12, <1>0 DEF Steps!Others, SetupTyped, Advanced, Untouched, Alone
    <2>5. Unclobbered'
      BY <1>12, <1>0 DEF Steps!Others, SetupTyped, Unclobbered
    <2> QED BY <2>1, <2>2, <2>3, <2>4, <2>5
  <1> QED BY <1>1, <1>2, <1>3, <1>4, <1>5, <1>6, <1>7, <1>8, <1>9, <1>10, <1>11, <1>12
         DEF Steps!Next, Steps!Command, Steps!Server

LEMMA SetupSafe == SetupInv => Steps!InOrder /\ Steps!DoneMeansAll /\ Steps!NothingClobbered
  <1> SUFFICES ASSUME SetupInv PROVE Steps!InOrder /\ Steps!DoneMeansAll /\ Steps!NothingClobbered
    OBVIOUS
  <1> USE DEF SetupInv
  <1>1. Steps!InOrder
    <2>1. /\ applied[run] \subseteq wanted
          /\ outcome[run] = "done" => \A k \in wanted : Steps!Settled(k)
      BY DEF Advanced, Behind, Steps!Settled
    <2>2. ASSUME NEW k \in applied[run], NEW j \in wanted, j < k PROVE Steps!Settled(j)
      <3>1. k \in Nat /\ j \in Nat /\ at \in Nat /\ k <= at
        BY <2>1 DEF SetupTyped, Advanced, Steps!Steps
      <3> QED BY <2>2, <3>1 DEF Advanced, Behind, Steps!Settled
    <2> QED BY <2>1, <2>2 DEF Steps!InOrder
  <1>2. Steps!DoneMeansAll
    BY DEF Steps!DoneMeansAll, SetupTyped, Advanced, Behind, Alone
  <1>3. Steps!NothingClobbered
    BY DEF Steps!NothingClobbered, Unclobbered
  <1> QED BY <1>1, <1>2, <1>3

(* Changes are made in the order of the command, a success means that all   *)
(* that the flags select were made or were there, however many runs failed  *)
(* before and however late their requests arrive, and files of others stay. *)
THEOREM SuccessMeansAll == MCSpec => []DoneMeansAll
  <1> DEFINE I == command = "setup" => SetupInv
  <1>1. MCInit => I
    BY SetupInit DEF MCInit
  <1>2. I /\ [MCNext]_MCvars => I'
    <2> SUFFICES ASSUME I, [MCNext]_MCvars PROVE I'
      OBVIOUS
    <2>1. CASE SettingUp
      BY <2>1, SetupStep DEF SettingUp
    <2>2. CASE UNCHANGED MCvars
      BY <2>2 DEF MCvars, onlySetup, SetupInv, SetupTyped, Advanced, Behind, Untouched, Alone,
                  Unclobbered, Steps!Steps, Steps!Runs
    <2>3. CASE MCNext /\ ~SettingUp
      BY <2>3 DEF MCNext, FollowLogs, FollowTask, FollowInbox, Bootstrapping, Deciding, Planning
    <2> QED BY <2>1, <2>2, <2>3
  <1>3. I => DoneMeansAll
    BY SetupSafe DEF DoneMeansAll
  <1> QED BY <1>1, <1>2, <1>3, PTL DEF MCSpec

-----------------------------------------------------------------------------
(***************************************************************************)
(* `plan` and `agent dispatch --spec`: PlanDag.                            *)
(***************************************************************************)

StoryStates == {"planned", "running", "done", "parked"}

(* What was read as done is done; what is under way or done was dispatched, *)
(* and what it depends on was done by then.                                *)
PlanInv ==
  /\ sent \subseteq Stories /\ status \in [Stories -> StoryStates]
  /\ read \in [Stories -> StoryStates] \cup {None}
  /\ Dag!NoCycle
  /\ \A t \in Stories : status[t] \in {"running", "done"} => t \in sent
  /\ read # None => \A t \in Stories : read[t] = "done" => status[t] = "done"
  /\ \A s \in sent : \A t \in Dag!Dependencies(s) : status[t] = "done"

(* All that a story depends on are stories, and what a manifest says a     *)
(* story waits for is among them.                                          *)
LEMMA DependenciesAreStories ==
  \A s \in Stories : Dag!Dependencies(s) \subseteq Stories
  BY DEF Dag!Dependencies, Dag!Expanded, Dag!Descendants

LEMMA WaitsForDependencies ==
  ASSUME NEW s \in Stories, NEW t \in Stories, Dag!MustWait(s, t)
  PROVE  t \in Dag!Dependencies(s)
  <1>1. PICK x \in {s} \cup Dag!Ancestors(s), y \in {t} \cup Dag!Ancestors(t) : y \in dependsOn[x]
    BY DEF Dag!MustWait, Dag!Within
  <1>2. Dag!Ancestors(s) \subseteq Groups /\ Dag!Ancestors(t) \subseteq Groups
    BY DEF Dag!Ancestors
  <1>3. y \in Dag!Inherited(s)
    BY <1>1, <1>2 DEF Dag!Inherited, Dag!Nodes
  <1>4. y # NoSuch /\ t \in Dag!Expanded(y)
    BY <1>1, <1>2, SizesAssumption DEF Dag!PlanAssumption, Dag!Expanded, Dag!Descendants
  <1> QED BY <1>3, <1>4 DEF Dag!Dependencies

(* A story lies behind another together with all that lies behind it.      *)
LEMMA BehindIsTransitive ==
  ASSUME NEW s \in Stories, NEW d \in Dag!Dependencies(s)
  PROVE  d \in Dag!Behind(s) /\ Dag!Behind(d) \subseteq Dag!Behind(s)
  <1>1. d \in Stories
    BY DependenciesAreStories
  <1>2. \A C \in SUBSET Stories :
          Dag!Dependencies(s) \cup UNION {Dag!Dependencies(u) : u \in C} \subseteq C =>
            d \in C /\ Dag!Dependencies(d) \cup UNION {Dag!Dependencies(u) : u \in C} \subseteq C
    OBVIOUS
  <1> QED BY <1>1, <1>2 DEF Dag!Behind

(* While the manifest stays, so does what follows from it.                 *)
LEMMA ManifestKept ==
  ASSUME UNCHANGED <<parent, dependsOn>>
  PROVE  /\ \A s : Dag!Dependencies(s)' = Dag!Dependencies(s)
         /\ Dag!NoCycle => Dag!NoCycle'
  <1>1. \A n : Dag!Ancestors(n)' = Dag!Ancestors(n)
    BY DEF Dag!Ancestors, Dag!UpOnce, Dag!Nodes
  <1>2. \A n : Dag!Descendants(n)' = Dag!Descendants(n) /\ Dag!Inherited(n)' = Dag!Inherited(n)
    BY <1>1 DEF Dag!Descendants, Dag!Inherited, Dag!Nodes
  <1>3. \A s : Dag!Dependencies(s)' = Dag!Dependencies(s)
    BY <1>2 DEF Dag!Dependencies, Dag!Expanded
  <1>4. \A s : Dag!Behind(s)' = Dag!Behind(s)
    BY <1>3 DEF Dag!Behind
  <1> QED BY <1>3, <1>4 DEF Dag!NoCycle

LEMMA PlanInit == Dag!Init => PlanInv
  BY DEF Dag!Init, Dag!Decodes, PlanInv, StoryStates

LEMMA PlanStep == PlanInv /\ Dag!Next => PlanInv'
  <1> SUFFICES ASSUME PlanInv, Dag!Next PROVE PlanInv'
    OBVIOUS
  <1>1. UNCHANGED <<parent, dependsOn, labelled>>
    BY DEF Dag!Next, Dag!ReadPlan, Dag!Dispatch, Dag!Finish, Dag!GiveUp, Dag!Park, Dag!Commit,
           Dag!manifest
  <1>2. Dag!NoCycle' /\ \A s \in Stories : Dag!Dependencies(s)' = Dag!Dependencies(s)
    BY <1>1, ManifestKept DEF PlanInv
  <1>3. \A s \in Stories : Dag!Dependencies(s) \subseteq Stories
    BY DependenciesAreStories
  <1>4. CASE Dag!ReadPlan
    BY <1>2, <1>3, <1>4 DEF PlanInv, Dag!ReadPlan
  <1>5. CASE Dag!Dispatch
    <2>1. PICK s \in Stories :
            /\ Dag!StateOf(s, read) = "ready" /\ sent' = sent \cup {s}
            /\ status' = IF status[s] = "planned" THEN [status EXCEPT ![s] = "running"] ELSE status
      BY <1>5 DEF Dag!Dispatch
    <2>2. read' = read /\ read # None
      BY <1>5 DEF Dag!Dispatch
    <2>3. \A t \in Dag!Dependencies(s) : status[t] = "done"
      BY <1>3, <2>1, <2>2 DEF PlanInv, Dag!StateOf, Dag!BlockedBy, StoryStates
    <2>4. /\ status' \in [Stories -> StoryStates]
          /\ \A t \in Stories : status[t] = "done" => status'[t] = "done"
          /\ \A t \in Stories : t # s => status'[t] = status[t]
      BY <2>1 DEF PlanInv, StoryStates
    <2> QED BY <1>2, <1>3, <2>1, <2>2, <2>3, <2>4 DEF PlanInv
  <1>6. CASE Dag!Finish \/ Dag!GiveUp \/ Dag!Park
    <2>1. PICK s \in Stories, x \in {"running", "planned"}, y \in StoryStates :
            /\ status[s] = x /\ status' = [status EXCEPT ![s] = y]
            /\ y = "done" => x = "running"
            /\ y # "running"
      BY <1>6 DEF Dag!Finish, Dag!GiveUp, Dag!Park, Dag!Commit, StoryStates
    <2>2. read' = read /\ sent' = sent
      BY <1>6 DEF Dag!Finish, Dag!GiveUp, Dag!Park, Dag!Commit
    <2>3. /\ status' \in [Stories -> StoryStates]
          /\ \A t \in Stories : status[t] = "done" => status'[t] = "done"
          /\ \A t \in Stories : t # s => status'[t] = status[t]
          /\ status'[s] = y
      BY <2>1 DEF PlanInv, StoryStates
    <2> QED BY <1>2, <1>3, <2>1, <2>2, <2>3 DEF PlanInv
  <1> QED BY <1>4, <1>5, <1>6 DEF Dag!Next

(* Of the stories that are not done, one has as little behind it as any:   *)
(* what it depends on has less, for a story is never behind itself, and so *)
(* is done.                                                                *)
LEMMA SomethingIsReady == PlanInv => Dag!NeverStuck
  <1> SUFFICES ASSUME PlanInv, labelled = Stories,
                      \A s \in Stories : status[s] \in {"planned", "done"},
                      ~ \A s \in Stories : status[s] = "done"
               PROVE  \E s \in Stories : Dag!StateOf(s, status) = "ready"
    BY DEF Dag!NeverStuck
  <1> DEFINE open == {s \in Stories : status[s] = "planned"}
             sets == {Dag!Behind(s) : s \in open}
             R == StrictSubsetOrdering(Stories)
  <1>1. open # {} /\ sets # {}
    OBVIOUS
  <1>2. IsWellFoundedOn(R, SUBSET Stories)
    <2>1. IsFiniteSet(Stories)
      BY SizesAssumption DEF Dag!PlanAssumption, Dag!IsFiniteSet, IsFiniteSet
    <2>2. FiniteSubsetsOf(Stories) = SUBSET Stories
      BY <2>1, FS_FiniteSubsetsOfFinite
    <2>3. IsWellFoundedOn(R, FiniteSubsetsOf(Stories))
      BY FS_StrictSubsetOrderingWellFounded
    <2> QED BY <2>2, <2>3
  <1>3. sets \subseteq SUBSET Stories
    BY DEF Dag!Behind
  <1>4. PICK least \in sets : \A other \in sets : ~(<<other, least>> \in R)
    <2> HIDE DEF sets, R
    <2> QED BY <1>1, <1>2, <1>3, WFMin
  <1>5. PICK s \in open : least = Dag!Behind(s)
    OBVIOUS
  <1>6. ASSUME NEW d \in Dag!Dependencies(s) PROVE status[d] = "done"
    <2> SUFFICES ASSUME status[d] # "done" PROVE FALSE
      OBVIOUS
    <2>1. d \in open
      BY DependenciesAreStories
    <2>2. d \in Dag!Behind(s) /\ Dag!Behind(d) \subseteq Dag!Behind(s)
      BY BehindIsTransitive
    <2>3. d \notin Dag!Behind(d)
      BY <2>1 DEF PlanInv, Dag!NoCycle
    <2>4. <<Dag!Behind(d), Dag!Behind(s)>> \in R
      BY <1>3, <2>1, <2>2, <2>3 DEF StrictSubsetOrdering
    <2> QED BY <1>4, <1>5, <2>1, <2>4
  <1> QED BY <1>6 DEF Dag!StateOf, Dag!BlockedBy

(* Stories are dispatched in the order of their dependencies, and a        *)
(* manifest that decodes can be worked off to its end.                     *)
THEOREM PlanWorkedOff == MCSpec => []PlanInOrder
  <1> DEFINE I == command = "plan" => PlanInv
  <1>1. MCInit => I
    BY PlanInit DEF MCInit
  <1>2. I /\ [MCNext]_MCvars => I'
    <2> SUFFICES ASSUME I, [MCNext]_MCvars PROVE I'
      OBVIOUS
    <2>1. CASE Planning
      BY <2>1, PlanStep DEF Planning
    <2>2. CASE UNCHANGED MCvars
      <3>1. UNCHANGED <<command, parent, dependsOn, status, read, sent>>
        BY <2>2 DEF MCvars, onlyPlan
      <3> QED BY <3>1, ManifestKept DEF PlanInv
    <2>3. CASE MCNext /\ ~Planning
      BY <2>3 DEF MCNext, FollowLogs, FollowTask, FollowInbox, SettingUp, Bootstrapping, Deciding
    <2> QED BY <2>1, <2>2, <2>3
  <1>3. I => PlanInOrder
    <2>1. PlanInv => Dag!InDependencyOrder
      BY WaitsForDependencies DEF PlanInv, Dag!InDependencyOrder
    <2> QED BY <2>1, SomethingIsReady DEF PlanInOrder
  <1> QED BY <1>1, <1>2, <1>3, PTL DEF MCSpec

-----------------------------------------------------------------------------
(***************************************************************************)
(* `agent logs --follow` and `agent dispatch --tail`: TaskTail.            *)
(***************************************************************************)

(* Any set of bounded numbers that has a member has a largest.             *)
LEMMA LargestNumber ==
  ASSUME NEW n \in Nat, NEW S \in SUBSET (0 .. n), S # {}
  PROVE  \E m \in S : \A k \in m + 1 .. n : k \notin S
  <1> DEFINE T == {n - k : k \in S}
             R == OpToRel(<, Nat)
  <1>1. T \subseteq Nat /\ T # {}
    <2>1. \A k \in S : n - k \in Nat
      OBVIOUS
    <2> QED BY <2>1
  <1>2. IsWellFoundedOn(R, Nat)
    BY NatLessThanWellFounded
  <1>3. PICK t \in T : \A u \in T : ~(<<u, t>> \in R)
    <2> HIDE DEF T, R
    <2> QED BY <1>1, <1>2, WFMin
  <1>4. \A u \in T : ~(u < t)
    BY <1>1, <1>3 DEF OpToRel
  <1> QED BY <1>4

(* The answer is the last lines of the output; the one before it, those of *)
(* the output then.                                                        *)
Shorter(n) == IF n < TaskTailed THEN n ELSE TaskTailed

LEMMA LastLinesAre ==
  ASSUME log \in Seq(Lines)
  PROVE  /\ Task!LastLines \in Seq(Lines) /\ Len(Task!LastLines) = Shorter(Len(log))
         /\ \A i \in 1 .. Len(Task!LastLines) :
              Task!LastLines[i] = log[Len(log) - Len(Task!LastLines) + i]
  <1> DEFINE m == IF Len(log) > TaskTailed THEN Len(log) - TaskTailed + 1 ELSE 1
  <1>1. TaskTailed \in Nat \ {0} /\ Len(log) \in Nat
    BY SizesAssumption, LenProperties DEF Task!TailAssumption
  <1>2. m \in 1 .. Len(log) + 1 /\ Len(log) - m + 1 = Shorter(Len(log))
    <2>1. CASE Len(log) > TaskTailed
      <3>1. m = Len(log) - TaskTailed + 1 /\ Shorter(Len(log)) = TaskTailed
        BY <1>1, <2>1 DEF Shorter
      <3> HIDE DEF m
      <3> QED BY <1>1, <2>1, <3>1
    <2>2. CASE ~(Len(log) > TaskTailed)
      <3>1. m = 1 /\ Shorter(Len(log)) = Len(log)
        BY <1>1, <2>2 DEF Shorter
      <3> HIDE DEF m
      <3> QED BY <1>1, <2>2, <3>1
    <2> QED BY <2>1, <2>2
  <1> HIDE DEF m
  <1>3. \A i \in m .. Len(log) : log[i] \in Lines
    BY <1>1, <1>2, ElementOfSeq
  <1>4. /\ SubSeq(log, m, Len(log)) \in Seq(Lines)
        /\ Len(SubSeq(log, m, Len(log))) = (IF m <= Len(log) THEN Len(log) - m + 1 ELSE 0)
        /\ \A i \in 1 .. Len(log) - m + 1 : SubSeq(log, m, Len(log))[i] = log[m + i - 1]
    BY <1>1, <1>2, <1>3, SubSeqProperties
  <1>5. Task!LastLines = SubSeq(log, m, Len(log))
    BY DEF Task!LastLines, m
  <1>6. Shorter(Len(log)) \in Nat
    BY <1>1 DEF Shorter
  <1>7. Len(SubSeq(log, m, Len(log))) = Shorter(Len(log))
    BY <1>1, <1>2, <1>4, <1>6
  <1>8. m = Len(log) - Shorter(Len(log)) + 1
    BY <1>1, <1>2, <1>6
  <1> DEFINE s == SubSeq(log, m, Len(log))
  <1>9. \A i \in 1 .. Len(s) : s[i] = log[Len(log) - Len(s) + i]
    <2>1. \A i \in 1 .. Len(s) : i \in 1 .. Len(log) - m + 1 /\ m + i - 1 = Len(log) - Len(s) + i
      BY <1>1, <1>6, <1>7, <1>8
    <2> QED BY <1>4, <2>1
  <1> QED BY <1>4, <1>5, <1>7, <1>9

(* Overlaps, line by line; the longest.                                    *)
LEMMA OverlapIs ==
  ASSUME previous \in Seq(Lines), NEW w \in Seq(Lines), NEW n \in Nat,
         n <= Len(previous), n <= Len(w)
  PROVE  Task!IsOverlap(n, w) <=> \A i \in 1 .. n : previous[Len(previous) - n + i] = w[i]
  <1> DEFINE p == SubSeq(previous, Len(previous) - n + 1, Len(previous))
             q == SubSeq(w, 1, n)
  <1>1. Len(previous) \in Nat /\ Len(w) \in Nat
    BY LenProperties
  <1>2. /\ p \in Seq(Lines) /\ Len(p) = n
        /\ \A i \in 1 .. n : p[i] = previous[Len(previous) - n + i]
    <2>1. \A i \in Len(previous) - n + 1 .. Len(previous) : previous[i] \in Lines
      BY <1>1, ElementOfSeq
    <2> QED BY <1>1, <2>1, SubSeqProperties
  <1>3. q \in Seq(Lines) /\ Len(q) = n /\ \A i \in 1 .. n : q[i] = w[i]
    <2>1. \A i \in 1 .. n : w[i] \in Lines
      BY <1>1, ElementOfSeq
    <2> QED BY <1>1, <2>1, SubSeqProperties
  <1> HIDE DEF p, q
  <1>4. p = q <=> \A i \in 1 .. n : p[i] = q[i]
    BY <1>2, <1>3, SeqEqual
  <1> QED BY <1>2, <1>3, <1>4 DEF Task!IsOverlap, p, q

LEMMA OverlapIsLongest ==
  ASSUME previous \in Seq(Lines), NEW w \in Seq(Lines)
  PROVE  /\ Task!Overlap(w) \in 0 .. Len(w) /\ Task!IsOverlap(Task!Overlap(w), w)
         /\ \A k \in 0 .. Len(w) : Task!IsOverlap(k, w) => k <= Task!Overlap(w)
  <1> DEFINE S == {n \in 0 .. Len(w) : Task!IsOverlap(n, w)}
  <1>1. Len(w) \in Nat /\ Len(previous) \in Nat
    BY LenProperties
  <1>2. Task!IsOverlap(0, w)
    BY <1>1, OverlapIs
  <1>3. PICK n \in S : \A k \in n + 1 .. Len(w) : k \notin S
    <2>1. S \in SUBSET (0 .. Len(w)) /\ S # {}
      BY <1>1, <1>2
    <2> HIDE DEF S
    <2> QED BY <1>1, <2>1, LargestNumber
  <1>4. /\ Task!Overlap(w) \in 0 .. Len(w) /\ Task!IsOverlap(Task!Overlap(w), w)
        /\ \A k \in Task!Overlap(w) + 1 .. Len(w) : ~Task!IsOverlap(k, w)
    <2>1. \E x \in 0 .. Len(w) :
            Task!IsOverlap(x, w) /\ \A k \in x + 1 .. Len(w) : ~Task!IsOverlap(k, w)
      BY <1>1, <1>3
    <2> HIDE DEF S
    <2> QED BY <2>1 DEF Task!Overlap
  <1> QED BY <1>1, <1>4

(* What was printed is a rising sequence of positions up to the last answer, *)
(* and the lines remembered are the last ones before it.                   *)
TailRemembered ==
  /\ log \in Seq(Lines) /\ read \in 0 .. Len(log) /\ gap \in BOOLEAN
  /\ previous \in Seq(Lines) /\ Len(previous) = Shorter(read)
  /\ \A i \in 1 .. Len(previous) : previous[i] = log[read - Len(previous) + i]

TailPrinted ==
  /\ printed \in Seq(Nat) /\ \A i \in 1 .. Len(printed) : printed[i] \in 1 .. read
  /\ \A i, j \in 1 .. Len(printed) : i < j => printed[i] < printed[j]

TailInv == TailRemembered /\ TailPrinted /\ Task!NothingBetween

LEMMA TailInit == Task!Init => TailInv
  <1> SUFFICES ASSUME Task!Init PROVE TailInv
    OBVIOUS
  <1>1. TaskTailed \in Nat \ {0}
    BY SizesAssumption DEF Task!TailAssumption
  <1>2. Shorter(0) = 0 /\ Len(<<>>) = 0
    BY <1>1 DEF Shorter
  <1>3. /\ log = <<>> /\ previous = <<>> /\ printed = <<>> /\ read = 0 /\ gap = FALSE
    BY DEF Task!Init
  <1>4. TailRemembered
    <2>1. <<>> \in Seq(Lines)
      OBVIOUS
    <2>2. /\ log \in Seq(Lines) /\ previous \in Seq(Lines) /\ gap \in BOOLEAN /\ read = 0
          /\ Len(log) = 0 /\ Len(previous) = 0 /\ Shorter(read) = 0
      BY <1>2, <1>3, <2>1
    <2> QED BY <2>2 DEF TailRemembered
  <1>5. TailPrinted /\ Task!NothingBetween
    BY <1>2, <1>3, EmptySeq DEF TailPrinted, Task!NothingBetween
  <1> QED BY <1>4, <1>5 DEF TailInv

(* What an answer adds begins after what was read, and right after it      *)
(* where lines differ and the answer reaches back.                         *)
LEMMA NewLines ==
  ASSUME TailRemembered
  PROVE  LET old == Len(log) - Len(Task!LastLines) + Task!Overlap(Task!LastLines) IN
         /\ old \in read .. Len(log)
         /\ Task!IsInjective(log) /\ Len(log) - read <= TaskTailed => old = read
  <1> DEFINE w == Task!LastLines
             k == Task!Overlap(w)
             L == Len(log)
             n == read - (L - Len(w))
  <1>1. L \in Nat /\ read \in Nat /\ read <= L /\ TaskTailed \in Nat \ {0}
    BY SizesAssumption, LenProperties DEF TailRemembered, Task!TailAssumption
  <1>2. /\ w \in Seq(Lines) /\ Len(w) = Shorter(L)
        /\ \A i \in 1 .. Len(w) : w[i] = log[L - Len(w) + i]
    BY LastLinesAre DEF TailRemembered
  <1>3. /\ previous \in Seq(Lines) /\ Len(previous) = Shorter(read)
        /\ \A i \in 1 .. Len(previous) : previous[i] = log[read - Len(previous) + i]
    BY DEF TailRemembered
  <1>4. /\ k \in 0 .. Len(w) /\ Task!IsOverlap(k, w)
        /\ \A j \in 0 .. Len(w) : Task!IsOverlap(j, w) => j <= k
    BY <1>2, <1>3, OverlapIsLongest
  <1>5. /\ Len(w) \in Nat /\ Len(w) <= L /\ Len(previous) \in Nat /\ Len(previous) <= read
        /\ n <= Len(previous) /\ n <= Len(w)
    BY <1>1, <1>2, <1>3 DEF Shorter
  <1> HIDE DEF w, k
  <1>6. ASSUME n >= 0 PROVE n <= k
    <2>1. \A i \in 1 .. n : previous[Len(previous) - n + i] = w[i]
      <3> SUFFICES ASSUME NEW i \in 1 .. n PROVE previous[Len(previous) - n + i] = w[i]
        OBVIOUS
      <3>1. n \in Int /\ read - Len(previous) + (Len(previous) - n + i) = L - Len(w) + i
        BY <1>1, <1>5
      <3>2. Len(previous) - n + i \in 1 .. Len(previous) /\ i \in 1 .. Len(w)
        BY <1>1, <1>5, <1>6
      <3> QED BY <1>2, <1>3, <3>1, <3>2
    <2>2. n \in Nat
      BY <1>1, <1>5, <1>6
    <2> HIDE DEF n
    <2>3. Task!IsOverlap(n, w)
      BY <1>2, <1>3, <1>5, <2>1, <2>2, OverlapIs
    <2> QED BY <1>1, <1>4, <1>5, <1>6, <2>2, <2>3
  <1>7. L - Len(w) + k \in read .. L
    BY <1>1, <1>4, <1>5, <1>6
  <1>8. ASSUME Task!IsInjective(log), L - read <= TaskTailed PROVE k <= n
    <2> SUFFICES ASSUME k > n PROVE FALSE
      BY <1>1, <1>4, <1>5
    <2>1. n >= 0 /\ k >= 1 /\ k <= Len(previous) /\ k \in Nat
      BY <1>1, <1>2, <1>3, <1>4, <1>5, <1>8 DEF Shorter, Task!IsOverlap
    <2>2. previous[Len(previous)] = w[k]
      <3>1. \A i \in 1 .. k : previous[Len(previous) - k + i] = w[i]
        BY <1>2, <1>3, <1>4, <2>1, OverlapIs
      <3> QED BY <1>5, <2>1, <3>1
    <2>3. log[read] = log[L - Len(w) + k]
      BY <1>1, <1>2, <1>3, <1>4, <1>5, <2>1, <2>2
    <2>4. read \in DOMAIN log /\ L - Len(w) + k \in DOMAIN log /\ L - Len(w) + k # read
      <3>1. DOMAIN log = 1 .. L
        BY LenProperties DEF TailRemembered
      <3> QED BY <1>1, <1>4, <1>5, <2>1, <3>1
    <2> QED BY <1>8, <2>3, <2>4 DEF Task!IsInjective
  <1>9. Task!IsInjective(log) /\ L - read <= TaskTailed => L - Len(w) + k = read
    BY <1>1, <1>4, <1>5, <1>7, <1>8
  <1> QED BY <1>7, <1>9 DEF w, k

LEMMA Lengths ==
  \A l, n, r, p \in Nat : r + n = l => (r - p + 1) + n = l - p + 1
  OBVIOUS

LEMMA TailStep == TailInv /\ Task!Next => TailInv'
  <1> SUFFICES ASSUME TailInv, Task!Next PROVE TailInv'
    OBVIOUS
  <1> USE DEF TailInv
  <1>0. Len(log) \in Nat /\ read \in Nat
    BY LenProperties DEF TailRemembered
  <1>1. CASE Task!ReadLogs
    <2> DEFINE w == Task!LastLines
               old == Len(log) - Len(w) + Task!Overlap(w)
               new == [i \in 1 .. Len(log) - old |-> old + i]
    <2>1. /\ old \in read .. Len(log)
          /\ Task!IsInjective(log) /\ Len(log) - read <= TaskTailed => old = read
      BY NewLines
    <2>2. /\ printed' = printed \o new /\ previous' = w /\ read' = Len(log) /\ log' = log
          /\ gap' = (gap \/ (previous # <<>> /\ Len(log) - read > TaskTailed))
      BY <1>1 DEF Task!ReadLogs, Task!task
    <2>3. TailRemembered'
      <3>1. /\ w \in Seq(Lines) /\ Len(w) = Shorter(Len(log))
            /\ \A i \in 1 .. Len(w) : w[i] = log[Len(log) - Len(w) + i]
        BY LastLinesAre DEF TailRemembered
      <3> HIDE DEF w
      <3> QED BY <1>0, <2>2, <3>1 DEF TailRemembered
    <2> HIDE DEF old
    <2>4. new \in Seq(Nat) /\ Len(new) = Len(log) - old /\ \A i \in 1 .. Len(new) : new[i] = old + i
      BY <1>0, <2>1
    <2> HIDE DEF new
    <2>5. /\ printed' \in Seq(Nat) /\ Len(printed') = Len(printed) + Len(new)
          /\ \A i \in 1 .. Len(printed) + Len(new) :
               printed'[i] = IF i <= Len(printed) THEN printed[i] ELSE new[i - Len(printed)]
      BY <2>2, <2>4, ConcatProperties DEF TailPrinted
    <2>6. Len(printed) \in Nat /\ Len(new) \in Nat
      BY <2>4, LenProperties DEF TailPrinted
    <2>7. /\ \A i \in 1 .. Len(printed) : printed'[i] = printed[i]
          /\ \A i \in Len(printed) + 1 .. Len(printed') : printed'[i] = old + (i - Len(printed))
      <3>1. \A i \in Len(printed) + 1 .. Len(printed') :
              i - Len(printed) \in 1 .. Len(new) /\ ~(i <= Len(printed)) /\ i \in 1 .. Len(printed) + Len(new)
        BY <2>5, <2>6
      <3>2. \A i \in 1 .. Len(printed) : i \in 1 .. Len(printed) + Len(new) /\ i <= Len(printed)
        BY <2>6
      <3> QED BY <2>4, <2>5, <3>1, <3>2
    <2>8. TailPrinted'
      <3>1. old \in Nat /\ read <= old /\ old + Len(new) = Len(log)
        BY <1>0, <2>1, <2>4
      <3>2. \A i \in 1 .. Len(printed') : printed'[i] \in 1 .. Len(log)
        <4>1. \A i \in 1 .. Len(printed) : printed[i] \in 1 .. read
          BY DEF TailPrinted
        <4>2. ASSUME NEW i \in 1 .. Len(printed') PROVE printed'[i] \in 1 .. Len(log)
          <5>1. CASE i <= Len(printed)
            <6>1. i \in 1 .. Len(printed)
              BY <2>6, <5>1
            <6> QED BY <1>0, <2>7, <3>1, <4>1, <6>1
          <5>2. CASE i > Len(printed)
            <6>1. i \in Len(printed) + 1 .. Len(printed') /\ i - Len(printed) \in 1 .. Len(new)
              BY <2>5, <2>6, <5>2
            <6> QED BY <2>6, <2>7, <3>1, <6>1
          <5> QED BY <2>6, <5>1, <5>2
        <4> QED BY <4>2
      <3>3. ASSUME NEW i \in 1 .. Len(printed'), NEW j \in 1 .. Len(printed'), i < j
            PROVE  printed'[i] < printed'[j]
        <4>1. CASE j <= Len(printed)
          BY <2>5, <2>6, <2>7, <3>3, <4>1 DEF TailPrinted
        <4>2. CASE i <= Len(printed) /\ j > Len(printed)
          <5>1. i \in 1 .. Len(printed) /\ printed'[i] <= read /\ printed'[i] \in Nat
            BY <1>0, <2>6, <2>7, <4>2 DEF TailPrinted
          <5>2. j \in Len(printed) + 1 .. Len(printed') /\ j - Len(printed) \in Nat \ {0}
            BY <2>5, <2>6, <4>2
          <5> QED BY <1>0, <2>7, <3>1, <5>1, <5>2
        <4>3. CASE i > Len(printed)
          <5>1. /\ i \in Len(printed) + 1 .. Len(printed') /\ j \in Len(printed) + 1 .. Len(printed')
                /\ i \in Nat /\ j \in Nat
            BY <2>5, <2>6, <3>3, <4>3
          <5> QED BY <2>6, <2>7, <3>1, <3>3, <5>1
        <4> QED BY <2>5, <2>6, <4>1, <4>2, <4>3
      <3> QED BY <2>2, <2>5, <3>2, <3>3 DEF TailPrinted
    <2>9. Task!NothingBetween'
      <3> SUFFICES ASSUME Task!IsInjective(log), ~gap', printed' # <<>>
                   PROVE  printed' = [i \in 1 .. Len(log) - printed'[1] + 1 |-> printed'[1] + i - 1]
        BY <2>2 DEF Task!NothingBetween, Task!IsInjective
      <3>0. /\ old \in Nat /\ old + Len(new) = Len(log)
            /\ printed' = [i \in 1 .. Len(printed') |-> printed'[i]]
        BY <1>0, <2>1, <2>4, <2>5
      <3>1. CASE printed = <<>>
        <4>1. Len(printed) = 0 /\ Len(printed') = Len(new)
          BY <2>5, <2>6, <3>1
        <4>2. \A i \in 1 .. Len(printed') : printed'[i] = old + i
          BY <2>6, <2>7, <4>1
        <4>3. Len(printed') # 0
          BY <2>5
        <4>4. printed'[1] = old + 1
          BY <2>6, <4>1, <4>2, <4>3
        <4> QED BY <1>0, <3>0, <4>1, <4>2, <4>4
      <3>2. CASE printed # <<>>
        <4>1. Len(printed) # 0 /\ printed[1] \in 1 .. read
          BY <2>6, <3>2 DEF TailPrinted
        <4>2. previous # <<>>
          <5>1. Shorter(read) # 0
            BY <1>0, <4>1, SizesAssumption DEF Shorter, Task!TailAssumption
          <5> QED BY <5>1 DEF TailRemembered
        <4>3. old = read /\ ~gap
          <5>1. ~gap /\ ~(Len(log) - read > TaskTailed)
            BY <2>2, <4>2
          <5>2. TaskTailed \in Nat
            BY SizesAssumption DEF Task!TailAssumption
          <5> QED BY <1>0, <2>1, <5>1, <5>2
        <4>4. printed = [i \in 1 .. read - printed[1] + 1 |-> printed[1] + i - 1]
          BY <3>2, <4>3 DEF Task!NothingBetween
        <4>5. Len(printed) = read - printed[1] + 1
          BY <1>0, <2>6, <4>1, <4>4
        <4>6. \A i \in 1 .. Len(printed) : printed[i] = printed[1] + i - 1
          BY <4>4, <4>5
        <4>7. \A i \in 1 .. Len(printed') : printed'[i] = printed[1] + i - 1
          <5> SUFFICES ASSUME NEW i \in 1 .. Len(printed') PROVE printed'[i] = printed[1] + i - 1
            OBVIOUS
          <5>1. CASE i <= Len(printed)
            <6>1. i \in 1 .. Len(printed)
              BY <2>6, <5>1
            <6> QED BY <2>7, <4>6, <6>1
          <5>2. CASE i > Len(printed)
            <6>1. i \in Len(printed) + 1 .. Len(printed')
              BY <2>5, <2>6, <5>2
            <6>2. printed'[i] = read + (i - (read - printed[1] + 1))
              BY <2>7, <4>3, <4>5, <6>1
            <6> QED BY <1>0, <2>6, <4>1, <6>1, <6>2
          <5> QED BY <2>6, <5>1, <5>2
        <4>8. printed'[1] = printed[1] /\ Len(printed') = Len(log) - printed[1] + 1
          <5>1. Len(printed') = Len(log) - printed[1] + 1
            <6>1. read + Len(new) = Len(log) /\ Len(printed') = Len(printed) + Len(new)
              BY <2>5, <3>0, <4>3
            <6>2. Len(printed) = read - printed[1] + 1 /\ printed[1] \in Nat
              BY <4>1, <4>5
            <6>3. (read - printed[1] + 1) + Len(new) = Len(log) - printed[1] + 1
              <7>1. /\ Len(log) \in Nat /\ Len(new) \in Nat /\ read \in Nat /\ printed[1] \in Nat
                    /\ read + Len(new) = Len(log)
                BY <1>0, <2>6, <6>1, <6>2
              <7> QED BY <7>1, Lengths
            <6> QED BY <6>1, <6>2, <6>3
          <5>2. 1 \in 1 .. Len(printed)
            BY <2>6, <4>1
          <5> QED BY <2>7, <5>1, <5>2
        <4> QED BY <3>0, <4>7, <4>8
      <3> QED BY <3>1, <3>2
    <2> QED BY <2>3, <2>8, <2>9
  <1>2. CASE Task!Write
    <2>1. PICK l \in Lines : log' = Append(log, l)
      BY <1>2 DEF Task!Write
    <2>2. UNCHANGED <<gap, read, previous, printed>>
      BY <1>2 DEF Task!Write
    <2>3. /\ log' \in Seq(Lines) /\ Len(log') = Len(log) + 1
          /\ \A i \in 1 .. Len(log) : log'[i] = log[i]
      BY <2>1, AppendProperties DEF TailRemembered
    <2>4. TailRemembered' /\ TailPrinted'
      <3>1. TailPrinted'
        BY <2>2 DEF TailPrinted
      <3>2. /\ Len(previous) \in Nat /\ Len(previous) <= read
        BY <1>0, SizesAssumption DEF TailRemembered, Shorter, Task!TailAssumption
      <3>3. \A i \in 1 .. Len(previous) : read - Len(previous) + i \in 1 .. Len(log)
        BY <1>0, <3>2 DEF TailRemembered
      <3>4. TailRemembered'
        <4>1. \A i \in 1 .. Len(previous) :
                log'[read - Len(previous) + i] = log[read - Len(previous) + i]
          BY <2>3, <3>3
        <4> HIDE DEF Shorter
        <4>2. previous' = previous /\ read' = read /\ gap' = gap /\ Shorter(read)' = Shorter(read)
          BY <2>2 DEF Shorter
        <4>3. read \in 0 .. Len(log')
          BY <1>0, <2>3 DEF TailRemembered
        <4> QED BY <2>3, <4>1, <4>2, <4>3 DEF TailRemembered
      <3> QED BY <3>1, <3>4
    <2>5. Task!IsInjective(log') => Task!IsInjective(log)
      <3>1. DOMAIN log = 1 .. Len(log) /\ DOMAIN log' = 1 .. Len(log) + 1
        BY <2>3, LenProperties DEF TailRemembered
      <3> QED BY <1>0, <2>3, <3>1 DEF Task!IsInjective
    <2>6. Task!NothingBetween'
      BY <2>2, <2>5 DEF Task!NothingBetween
    <2> QED BY <2>4, <2>6
  <1>3. CASE ~Task!ReadLogs /\ ~Task!Write
    <2>1. UNCHANGED <<log, gap, read, previous, printed>>
      BY <1>3 DEF Task!Next, Task!Command, Task!Others, Task!ReadNothing, Task!NotEnded,
                  Task!Finalize, Task!Wake, Task!End, Task!Settle, Task!task
    <2> QED BY <2>1 DEF TailRemembered, TailPrinted, Task!NothingBetween
  <1> QED BY <1>1, <1>2, <1>3

LEMMA TailSafe == TailInv => Task!NothingTwice /\ Task!NothingBetween
  BY LenProperties DEF TailInv, TailPrinted, Task!NothingTwice

(* The output of a task is printed without a line twice and, where lines   *)
(* differ and every answer reaches back to the one before, without a hole. *)
THEOREM TaskPrintedWhole == MCSpec => []TaskWhole
  <1> DEFINE I == command = "task logs" => TailInv
  <1>1. MCInit => I
    BY TailInit DEF MCInit
  <1>2. I /\ [MCNext]_MCvars => I'
    <2> SUFFICES ASSUME I, [MCNext]_MCvars PROVE I'
      OBVIOUS
    <2>1. CASE FollowTask
      BY <2>1, TailStep DEF FollowTask
    <2>2. CASE UNCHANGED MCvars
      BY <2>2 DEF MCvars, onlyTask, TailInv, TailRemembered, TailPrinted, Task!NothingBetween
    <2>3. CASE MCNext /\ ~FollowTask
      BY <2>3 DEF MCNext, FollowLogs, FollowInbox, SettingUp, Bootstrapping, Deciding, Planning
    <2> QED BY <2>1, <2>2, <2>3
  <1>3. I => TaskWhole
    BY TailSafe DEF TaskWhole
  <1> QED BY <1>1, <1>2, <1>3, PTL DEF MCSpec

-----------------------------------------------------------------------------
(***************************************************************************)
(* The members of a finite set in an order, as Newest of InboxFollow and   *)
(* InOrder of LogFollow arrange them: each at the place that the number of *)
(* those before it gives.  An order is a set of pairs here.                *)
(***************************************************************************)
Orders(R, S) ==
  /\ \A x \in S : <<x, x>> \notin R
  /\ \A x, y \in S : x # y => <<x, y>> \in R \/ <<y, x>> \in R
  /\ \A x, y, z \in S : <<x, y>> \in R /\ <<y, z>> \in R => <<x, z>> \in R

Rank(x, S, R) == Cardinality({k \in S : <<k, x>> \in R})
Arranged(s, S, R) ==
  /\ s \in [1 .. Cardinality(S) -> S]
  /\ \A i \in 1 .. Cardinality(S) : Rank(s[i], S, R) = i - 1
Sorted(s, S, R) ==
  /\ s \in Seq(S)
  /\ \A x \in S : \E i \in 1 .. Len(s) : s[i] = x
  /\ \A i, j \in 1 .. Len(s) : i < j => <<s[i], s[j]>> \in R

LEMMA RanksAre ==
  ASSUME NEW S, NEW R, IsFiniteSet(S), Orders(R, S)
  PROVE  /\ \A x \in S : Rank(x, S, R) \in 0 .. Cardinality(S) - 1
         /\ \A x, y \in S : <<x, y>> \in R => Rank(x, S, R) < Rank(y, S, R)
  <1> DEFINE ahead(x) == {k \in S : <<k, x>> \in R}
  <1>1. Cardinality(S) \in Nat
    BY FS_CardinalityType
  <1>2. \A x \in S : IsFiniteSet(ahead(x)) /\ Cardinality(ahead(x)) \in Nat
    <2> TAKE x \in S
    <2>1. ahead(x) \in SUBSET S
      OBVIOUS
    <2>2. IsFiniteSet(ahead(x))
      BY <2>1, FS_Subset
    <2> QED BY <2>2, FS_CardinalityType
  <1>3. \A x \in S : Cardinality(ahead(x)) <= Cardinality(S) - 1
    <2> TAKE x \in S
    <2>1. IsFiniteSet(S \ {x}) /\ Cardinality(S \ {x}) = Cardinality(S) - 1
      BY FS_RemoveElement
    <2>2. ahead(x) \in SUBSET (S \ {x})
      BY DEF Orders
    <2>3. Cardinality(ahead(x)) <= Cardinality(S \ {x})
      <3> HIDE DEF ahead
      <3> QED BY <2>1, <2>2, FS_Subset
    <2> QED BY <2>1, <2>3
  <1>4. ASSUME NEW x \in S, NEW y \in S, <<x, y>> \in R
        PROVE  Cardinality(ahead(x)) < Cardinality(ahead(y))
    <2>1. x \notin ahead(x)
      BY DEF Orders
    <2>2. Cardinality(ahead(x) \cup {x}) = Cardinality(ahead(x)) + 1
      BY <1>2, <2>1, FS_AddElement
    <2>3. ahead(x) \cup {x} \in SUBSET ahead(y)
      BY <1>4 DEF Orders
    <2>4. IsFiniteSet(ahead(y))
      BY <1>2
    <2>5. Cardinality(ahead(x) \cup {x}) <= Cardinality(ahead(y))
      <3> HIDE DEF ahead
      <3> QED BY <2>3, <2>4, FS_Subset
    <2> HIDE DEF ahead
    <2> QED BY <1>2, <2>2, <2>5
  <1>5. \A x \in S : Rank(x, S, R) = Cardinality(ahead(x))
    BY DEF Rank
  <1> HIDE DEF ahead
  <1> QED BY <1>1, <1>2, <1>3, <1>4, <1>5

(* Every place is taken.                                                   *)
LEMMA RanksTaken ==
  ASSUME NEW S, NEW R, IsFiniteSet(S), Orders(R, S), NEW i \in 0 .. Cardinality(S) - 1
  PROVE  \E x \in S : Rank(x, S, R) = i
  <1> DEFINE n == Cardinality(S)
             f == [x \in S |-> Rank(x, S, R)]
  <1>1. n \in Nat
    BY FS_CardinalityType
  <1>2. f \in [S -> 0 .. n - 1]
    BY RanksAre
  <1>3. \A x, y \in S : f[x] = f[y] => x = y
    <2> SUFFICES ASSUME NEW x \in S, NEW y \in S, Rank(x, S, R) = Rank(y, S, R), x # y
                 PROVE  FALSE
      OBVIOUS
    <2>1. <<x, y>> \in R \/ <<y, x>> \in R
      BY DEF Orders
    <2>2. Rank(x, S, R) \in Int /\ Rank(y, S, R) \in Int
      BY RanksAre
    <2> QED BY <2>1, <2>2, RanksAre
  <1> HIDE DEF f
  <1>4. f \in Injection(S, 0 .. n - 1)
    BY <1>2, <1>3 DEF Injection, IsInjective
  <1>5. IsFiniteSet(0 .. n - 1) /\ Cardinality(0 .. n - 1) = n
    BY <1>1, FS_Interval
  <1>6. f \in Surjection(S, 0 .. n - 1)
    BY <1>4, <1>5, FS_Injection
  <1>7. \E x \in S : f[x] = i
    BY <1>6 DEF Surjection
  <1> QED BY <1>7 DEF f

(* It is all of the set, in the order.                                     *)
LEMMA ArrangedIs ==
  ASSUME NEW S, NEW R, IsFiniteSet(S), Orders(R, S), NEW s, Arranged(s, S, R)
  PROVE  Sorted(s, S, R) /\ Len(s) = Cardinality(S)
  <1> DEFINE n == Cardinality(S)
  <1>1. n \in Nat
    BY FS_CardinalityType
  <1>2. \A i \in 1 .. n : s[i] \in S /\ Rank(s[i], S, R) = i - 1
    BY DEF Arranged
  <1>3. s \in [1 .. n -> S]
    BY DEF Arranged
  <1>4. s \in Seq(S) /\ Len(s) = n
    BY <1>1, <1>3
  <1>5. ASSUME NEW x \in S, NEW y \in S, Rank(x, S, R) < Rank(y, S, R) PROVE <<x, y>> \in R
    <2>1. Rank(x, S, R) \in Int /\ Rank(y, S, R) \in Int
      BY RanksAre
    <2>2. x # y /\ <<y, x>> \notin R
      BY <1>5, <2>1, RanksAre
    <2> QED BY <2>2 DEF Orders
  <1>6. \A i, j \in 1 .. n : i < j => <<s[i], s[j]>> \in R
    BY <1>1, <1>2, <1>5
  <1>7. \A x \in S : \E i \in 1 .. n : s[i] = x
    <2> TAKE x \in S
    <2>1. Rank(x, S, R) \in 0 .. n - 1
      BY RanksAre
    <2> DEFINE i == Rank(x, S, R) + 1
    <2>2. i \in 1 .. n /\ i - 1 = Rank(x, S, R)
      BY <1>1, <2>1
    <2>3. s[i] \in S /\ Rank(s[i], S, R) = Rank(x, S, R)
      BY <1>2, <2>2
    <2>4. s[i] = x
      <3>1. \A y \in S : y # x => Rank(y, S, R) # Rank(x, S, R)
        <4> TAKE y \in S
        <4>1. Rank(y, S, R) \in Int
          BY RanksAre
        <4>2. y # x => <<x, y>> \in R \/ <<y, x>> \in R
          BY DEF Orders
        <4> QED BY <2>1, <4>1, <4>2, RanksAre
      <3> QED BY <2>3, <3>1
    <2> QED BY <2>2, <2>4
  <1> QED BY <1>4, <1>6, <1>7 DEF Sorted

(* The beginning of such a sequence: a page.                               *)
PageOfSeq(s, k) == SubSeq(s, 1, IF Len(s) < k THEN Len(s) ELSE k)
IsPage(p, s, S, R, k) ==
  /\ p \in Seq(S)
  /\ \A i, j \in 1 .. Len(p) : i < j => <<p[i], p[j]>> \in R
  /\ \A x \in Range(p) : \A y \in S \ Range(p) : <<x, y>> \in R
  /\ Len(s) <= k => Range(p) = S
  /\ Len(s) > k =>
       /\ Len(p) \in Nat \ {0} /\ p[Len(p)] \in Range(p)
       /\ \A x \in Range(p) : x = p[Len(p)] \/ <<x, p[Len(p)]>> \in R

LEMMA PageIs ==
  ASSUME NEW S, NEW R, NEW k \in Nat \ {0}, NEW s, Sorted(s, S, R),
         NEW p, p = PageOfSeq(s, k)
  PROVE  IsPage(p, s, S, R, k)
  <1> DEFINE n == IF Len(s) < k THEN Len(s) ELSE k
  <1> USE DEF Sorted
  <1>1. Len(s) \in Nat
    BY LenProperties
  <1>2. n \in Nat /\ n <= Len(s) /\ (Len(s) <= k => n = Len(s)) /\ (Len(s) > k => n = k)
    BY <1>1
  <1>3. p = SubSeq(s, 1, n)
    BY DEF PageOfSeq
  <1> HIDE DEF n
  <1>4. p \in Seq(S) /\ Len(p) = n /\ \A i \in 1 .. n : p[i] = s[i]
    <2>1. \A i \in 1 .. n : s[i] \in S
      BY <1>1, <1>2, ElementOfSeq
    <2> QED BY <1>2, <1>3, <2>1, SubSeqProperties
  <1>5. Range(p) = {s[i] : i \in 1 .. n}
    <2>1. Range(p) = {p[i] : i \in 1 .. n}
      BY <1>4, RangeEquality
    <2>2. \A i \in 1 .. n : p[i] = s[i]
      BY <1>4
    <2> HIDE DEF Sorted
    <2> QED BY <2>1, <2>2
  <1>6. \A i, j \in 1 .. n : i < j => <<p[i], p[j]>> \in R
    <2> TAKE i, j \in 1 .. n
    <2>1. i \in 1 .. Len(s) /\ j \in 1 .. Len(s)
      BY <1>1, <1>2
    <2> QED BY <1>4, <2>1
  <1>7. ASSUME NEW x \in Range(p), NEW y \in S \ Range(p) PROVE <<x, y>> \in R
    <2>1. PICK i \in 1 .. n : x = s[i]
      BY <1>5
    <2>2. PICK j \in 1 .. Len(s) : y = s[j]
      OBVIOUS
    <2>3. j \notin 1 .. n
      BY <1>5, <2>2
    <2>4. i < j /\ i \in 1 .. Len(s)
      BY <1>1, <1>2, <2>3
    <2> QED BY <2>1, <2>2, <2>4
  <1>8. Len(s) <= k => Range(p) = S
    <2>1. \A i \in 1 .. Len(s) : s[i] \in S
      BY ElementOfSeq
    <2> QED BY <1>2, <1>5, <2>1
  <1>9. ASSUME Len(s) > k
        PROVE  /\ Len(p) \in Nat \ {0} /\ p[Len(p)] \in Range(p)
               /\ \A x \in Range(p) : x = p[Len(p)] \/ <<x, p[Len(p)]>> \in R
    <2>1. n \in 1 .. n /\ Len(p) = n /\ n # 0
      BY <1>2, <1>4, <1>9
    <2>2. p[n] = s[n] /\ p[n] \in Range(p)
      BY <1>4, <1>5, <2>1
    <2>3. ASSUME NEW x \in Range(p) PROVE x = s[n] \/ <<x, s[n]>> \in R
      <3>1. PICK i \in 1 .. n : x = s[i]
        BY <1>5
      <3>2. i = n \/ i < n
        BY <1>2
      <3>3. i \in 1 .. Len(s) /\ n \in 1 .. Len(s)
        BY <1>1, <1>2, <2>1
      <3> QED BY <3>1, <3>2, <3>3
    <2> QED BY <1>2, <2>1, <2>2, <2>3
  <1> QED BY <1>4, <1>6, <1>7, <1>8, <1>9 DEF IsPage

-----------------------------------------------------------------------------
(***************************************************************************)
(* `inbox follow`: InboxFollow.                                            *)
(***************************************************************************)
LEMMA NewestIs ==
  ASSUME NEW S \in SUBSET Nat, IsFiniteSet(S)
  PROVE  LET s == Inbox!Newest(S)
             R == {p \in S \X S : p[1] > p[2]} IN
         Sorted(s, S, R) /\ Len(s) = Cardinality(S)
  <1> DEFINE s == Inbox!Newest(S)
             R == {p \in S \X S : p[1] > p[2]}
             n == Cardinality(S)
  <1>1. Orders(R, S)
    BY DEF Orders
  <1>2. n \in Nat
    BY FS_CardinalityType
  <1>3. \A T : Inbox!Cardinality(T) = Cardinality(T)
    BY DEF Inbox!Cardinality, Cardinality
  <1>4. \A m \in S : {k \in S : <<k, m>> \in R} = Inbox!NewerThan(m, S)
    BY DEF Inbox!NewerThan
  <1>5. \A m \in S : Rank(m, S, R) = Inbox!Cardinality(Inbox!NewerThan(m, S))
    BY <1>3, <1>4 DEF Rank
  <1> HIDE DEF R
  <1>6. ASSUME NEW i \in 1 .. n PROVE s[i] \in S /\ Rank(s[i], S, R) = i - 1
    <2>1. i - 1 \in 0 .. n - 1
      BY <1>2
    <2>2. \E m \in S : Inbox!Cardinality(Inbox!NewerThan(m, S)) = i - 1
      <3>1. \E m \in S : Rank(m, S, R) = i - 1
        BY <1>1, <2>1, RanksTaken
      <3> QED BY <1>5, <3>1
    <2>3. s[i] = CHOOSE m \in S : Inbox!Cardinality(Inbox!NewerThan(m, S)) = i - 1
      BY <1>3 DEF Inbox!Newest
    <2> HIDE DEF s
    <2>4. s[i] \in S /\ Inbox!Cardinality(Inbox!NewerThan(s[i], S)) = i - 1
      BY <2>2, <2>3
    <2> QED BY <1>5, <2>4
  <1>7. s \in [1 .. n -> S]
    BY <1>3, <1>6 DEF Inbox!Newest
  <1>8. Arranged(s, S, R)
    BY <1>6, <1>7 DEF Arranged
  <1> HIDE DEF s
  <1>9. Sorted(s, S, R) /\ Len(s) = Cardinality(S)
    BY <1>1, <1>8, ArrangedIs
  <1> QED BY <1>9 DEF s, R

(* What is printed, oldest first, and what the cycle has passed, newest    *)
(* first, are messages of the inbox.                                       *)
InboxTyped ==
  /\ inbox \subseteq Inbox!Messages /\ behind \subseteq inbox /\ there \subseteq inbox
  /\ printed \in Seq(inbox) /\ fresh \in Seq(inbox)
  /\ after \in Nat
  /\ pc \in {"walk", "print", "wait", "retry", "ended"}

InboxOrdered ==
  /\ \A i, j \in 1 .. Len(printed) : i < j => printed[i] < printed[j]
  /\ \A i, j \in 1 .. Len(fresh) : i < j => fresh[i] > fresh[j]

(* A message that is not printed, and came in behind no other, is newer    *)
(* than all that are.                                                      *)
UnseenAreNewer ==
  pc \in {"walk", "wait", "retry"} =>
    \A m \in (inbox \ behind) \ Range(printed) : \A k \in Range(printed) : m > k

(* The walk is between what it has passed and what was printed before; it  *)
(* has passed all that was there when it began, down to its cursor, and    *)
(* what came in since and is not passed is newer than what is.             *)
InboxWalk ==
  pc = "walk" =>
    /\ after = 0 => fresh = <<>>
    /\ after # 0 => \A k \in Range(printed) : k < after
    /\ \A m \in Range(fresh) : m >= after
    /\ \A m \in Range(fresh), k \in Range(printed) : m > k
    /\ \A m \in there : after # 0 /\ m >= after => m \in Range(fresh)
    /\ \A m \in (inbox \ behind) \ Range(fresh) :
         after # 0 /\ m >= after => \A k \in Range(fresh) : m > k

(* What is left to print is newer than what is printed; both together are  *)
(* all that was there, and what else there is is newer.                    *)
InboxPrint ==
  pc = "print" =>
    /\ \A m \in Range(fresh), k \in Range(printed) : m > k
    /\ there \ behind \subseteq Range(printed) \cup Range(fresh)
    /\ \A m \in (inbox \ behind) \ (Range(printed) \cup Range(fresh)) :
         \A k \in Range(printed) \cup Range(fresh) : m > k

InboxWait == pc = "wait" => there \ behind \subseteq Range(printed)

InboxInv == InboxTyped /\ InboxOrdered /\ UnseenAreNewer /\ InboxWalk /\ InboxPrint /\ InboxWait

LEMMA SameNames ==
  /\ \A s : Inbox!Range(s) = Range(s)
  /\ \A s : Inbox!Last(s) = s[Len(s)]
  /\ \A s : Inbox!Front(s) = SubSeq(s, 1, Len(s) - 1)
  /\ \A S : Inbox!Cardinality(S) = Cardinality(S)
  <1>1. \A s : Inbox!Range(s) = Range(s)
    BY DEF Inbox!Range, Range
  <1>2. \A s : Inbox!Last(s) = s[Len(s)]
    BY DEF Inbox!Last
  <1>3. \A s : Inbox!Front(s) = SubSeq(s, 1, Len(s) - 1)
    BY DEF Inbox!Front
  <1>4. \A S : Inbox!Cardinality(S) = Cardinality(S)
    BY DEF Inbox!Cardinality, Cardinality
  <1> QED BY <1>1, <1>2, <1>3, <1>4

LEMMA InboxSets ==
  ASSUME InboxTyped
  PROVE  /\ inbox \in SUBSET Nat /\ IsFiniteSet(inbox)
         /\ Inbox!Rest \in SUBSET inbox /\ IsFiniteSet(Inbox!Rest)
         /\ Range(printed) \subseteq inbox /\ Range(fresh) \subseteq inbox
  <1>1. MaxMessages \in Nat /\ inbox \subseteq 1 .. MaxMessages
    BY SizesAssumption DEF Inbox!SizesAssumption, InboxTyped, Inbox!Messages
  <1>2. IsFiniteSet(inbox)
    <2>1. IsFiniteSet(1 .. MaxMessages)
      BY <1>1, FS_Interval
    <2> QED BY <1>1, <2>1, FS_Subset
  <1>3. Inbox!Rest \in SUBSET inbox
    BY DEF Inbox!Rest
  <1>4. IsFiniteSet(Inbox!Rest)
    BY <1>2, <1>3, FS_Subset
  <1>5. Range(printed) \subseteq inbox /\ Range(fresh) \subseteq inbox
    BY RangeOfSeq DEF InboxTyped
  <1> QED BY <1>1, <1>2, <1>3, <1>4, <1>5

(* A page is the newest of what is left, down to its last message.         *)
LEMMA InboxPageIs ==
  ASSUME InboxTyped
  PROVE  LET P == Range(Inbox!Page) IN
         /\ P \subseteq Inbox!Rest
         /\ \A x \in P : \A y \in Inbox!Rest \ P : x > y
         /\ Inbox!Cardinality(Inbox!Rest) <= InboxPage => P = Inbox!Rest
         /\ ~(Inbox!Cardinality(Inbox!Rest) <= InboxPage) =>
              /\ Inbox!Last(Inbox!Page) \in P
              /\ \A x \in P : x >= Inbox!Last(Inbox!Page)
  <1> DEFINE S == Inbox!Rest
             s == Inbox!Newest(S)
             R == {p \in S \X S : p[1] > p[2]}
             q == PageOfSeq(s, InboxPage)
             P == Range(q)
  <1>1. S \in SUBSET Nat /\ IsFiniteSet(S) /\ InboxPage \in Nat \ {0}
    BY InboxSets, SizesAssumption DEF Inbox!SizesAssumption
  <1>2. Sorted(s, S, R) /\ Len(s) = Cardinality(S)
    <2> HIDE DEF S
    <2> QED BY <1>1, NewestIs
  <1>3. Cardinality(S) \in Nat
    BY <1>1, FS_CardinalityType
  <1>4. Inbox!Page = q
    BY <1>2, SameNames DEF Inbox!Page, PageOfSeq
  <1>5. q = PageOfSeq(s, InboxPage)
    OBVIOUS
  <1> HIDE DEF R, S, s, q
  <1>6. /\ q \in Seq(S)
        /\ \A x \in P : \A y \in S \ P : <<x, y>> \in R
        /\ Len(s) <= InboxPage => P = S
        /\ Len(s) > InboxPage =>
             /\ Len(q) \in Nat \ {0} /\ q[Len(q)] \in P
             /\ \A x \in P : x = q[Len(q)] \/ <<x, q[Len(q)]>> \in R
    <2>1. IsPage(q, s, S, R, InboxPage)
      BY <1>1, <1>2, <1>5, PageIs
    <2> QED BY <2>1 DEF IsPage
  <1>7. P \subseteq S
    BY <1>6, RangeOfSeq
  <1> HIDE DEF P
  <1>8. \A x, y : <<x, y>> \in R => x > y
    BY DEF R
  <1>9. /\ P \subseteq S
        /\ \A x \in P : \A y \in S \ P : x > y
        /\ Cardinality(S) <= InboxPage => P = S
    BY <1>2, <1>6, <1>7, <1>8
  <1>10. ASSUME ~(Cardinality(S) <= InboxPage)
        PROVE  q[Len(q)] \in P /\ \A x \in P : x >= q[Len(q)]
    <2>1. Len(s) > InboxPage
      BY <1>1, <1>2, <1>3, <1>10
    <2>2. q[Len(q)] \in P /\ \A x \in P : x = q[Len(q)] \/ x > q[Len(q)]
      BY <1>6, <1>8, <2>1
    <2>3. P \subseteq Nat
      BY <1>1, <1>7
    <2>4. \A x, y \in Nat : x = y \/ x > y => x >= y
      OBVIOUS
    <2> QED BY <2>2, <2>3, <2>4
  <1>11. Range(Inbox!Page) = P /\ Inbox!Last(Inbox!Page) = q[Len(q)]
    BY <1>4, SameNames DEF P
  <1> QED BY <1>9, <1>10, <1>11, SameNames DEF S

(* The part of the page before the first message seen is newer than all    *)
(* that is.                                                                *)
LEMMA PassedIs ==
  ASSUME InboxTyped, InboxWalk, pc = "walk"
  PROVE  LET N == Inbox!Newest(Inbox!Passed) IN
         /\ Inbox!Passed \subseteq Range(Inbox!Page)
         /\ \A m \in Inbox!Passed, k \in Range(printed) : m > k
         /\ N \in Seq(inbox) /\ Range(N) = Inbox!Passed
         /\ \A i, j \in 1 .. Len(N) : i < j => N[i] > N[j]
  <1> DEFINE S == Inbox!Passed
             N == Inbox!Newest(S)
             R == {p \in S \X S : p[1] > p[2]}
             P == Range(Inbox!Page)
  <1>1. /\ inbox \in SUBSET Nat /\ IsFiniteSet(inbox) /\ Inbox!Rest \in SUBSET inbox
        /\ Range(printed) \subseteq inbox
    BY InboxSets
  <1>2. P \subseteq Inbox!Rest /\ \A x \in P : \A y \in Inbox!Rest \ P : x > y
    BY InboxPageIs
  <1>3. S = {m \in P : \A k \in P \cap Range(printed) : m > k}
    BY SameNames DEF Inbox!Passed, Inbox!Seen
  <1>4. S \in SUBSET inbox /\ S \in SUBSET Nat /\ IsFiniteSet(S)
    <2>1. S \in SUBSET inbox
      BY <1>1, <1>2, <1>3
    <2> HIDE DEF S
    <2> QED BY <1>1, <2>1, FS_Subset
  <1>5. Range(printed) \subseteq Inbox!Rest
    BY <1>1 DEF Inbox!Rest, InboxWalk
  <1>6. \A m \in S, k \in Range(printed) : m > k
    <2> TAKE m \in S, k \in Range(printed)
    <2>1. CASE k \in P
      BY <1>3, <2>1
    <2>2. CASE k \notin P
      BY <1>2, <1>3, <1>5, <2>2
    <2> QED BY <2>1, <2>2
  <1>7. S \subseteq P
    BY <1>3
  <1> HIDE DEF S
  <1>8. Sorted(N, S, R)
    BY <1>4, NewestIs
  <1> HIDE DEF N
  <1>9. N \in Seq(S) /\ (\A i, j \in 1 .. Len(N) : i < j => <<N[i], N[j]>> \in R)
        /\ \A x \in S : \E i \in 1 .. Len(N) : N[i] = x
    BY <1>8 DEF Sorted
  <1>10. N \in Seq(inbox)
    BY <1>4, <1>9, SeqMonotonic
  <1>11. Range(N) = S
    <2>1. Range(N) = {N[i] : i \in 1 .. Len(N)} /\ Range(N) \subseteq S
      BY <1>9, RangeEquality, RangeOfSeq
    <2> QED BY <1>9, <2>1
  <1>12. \A i, j \in 1 .. Len(N) : i < j => N[i] > N[j]
    BY <1>9
  <1> QED BY <1>6, <1>7, <1>10, <1>11, <1>12 DEF S, N

(* Sequences in an order, one before the other.                            *)
LEMMA OrderedConcat ==
  ASSUME NEW S, NEW R, NEW s \in Seq(S), NEW t \in Seq(S),
         \A i, j \in 1 .. Len(s) : i < j => <<s[i], s[j]>> \in R,
         \A i, j \in 1 .. Len(t) : i < j => <<t[i], t[j]>> \in R,
         \A x \in Range(s), y \in Range(t) : <<x, y>> \in R
  PROVE  \A i, j \in 1 .. Len(s \o t) : i < j => <<(s \o t)[i], (s \o t)[j]>> \in R
  <1> DEFINE u == s \o t
  <1>1. Len(s) \in Nat /\ Len(t) \in Nat
    BY LenProperties
  <1>2. /\ Len(u) = Len(s) + Len(t)
        /\ \A i \in 1 .. Len(s) + Len(t) : u[i] = IF i <= Len(s) THEN s[i] ELSE t[i - Len(s)]
    BY ConcatProperties
  <1>3. \A i \in 1 .. Len(s) : s[i] \in Range(s)
    BY RangeEquality
  <1>4. \A i \in 1 .. Len(t) : t[i] \in Range(t)
    BY RangeEquality
  <1> HIDE DEF u
  <1>5. ASSUME NEW i \in 1 .. Len(u), NEW j \in 1 .. Len(u), i < j PROVE <<u[i], u[j]>> \in R
    <2>1. CASE j <= Len(s)
      <3>1. i \in 1 .. Len(s) /\ j \in 1 .. Len(s) /\ u[i] = s[i] /\ u[j] = s[j]
        BY <1>1, <1>2, <1>5, <2>1
      <3> QED BY <1>5, <3>1
    <2>2. CASE ~(i <= Len(s))
      <3> DEFINE k == i - Len(s)
                 l == j - Len(s)
      <3>1. k \in 1 .. Len(t) /\ l \in 1 .. Len(t) /\ k < l /\ u[i] = t[k] /\ u[j] = t[l]
        BY <1>1, <1>2, <1>5, <2>2
      <3> HIDE DEF k, l
      <3> QED BY <3>1
    <2>3. CASE i <= Len(s) /\ ~(j <= Len(s))
      <3> DEFINE l == j - Len(s)
      <3>1. i \in 1 .. Len(s) /\ l \in 1 .. Len(t) /\ u[i] = s[i] /\ u[j] = t[l]
        BY <1>1, <1>2, <1>5, <2>3
      <3> HIDE DEF l
      <3> QED BY <1>3, <1>4, <3>1
    <2> QED BY <1>1, <2>1, <2>2, <2>3
  <1> QED BY <1>5 DEF u

LEMMA InboxReads == InboxInv /\ Inbox!ReadPage => InboxInv'
  <1> SUFFICES ASSUME InboxInv, Inbox!ReadPage PROVE InboxInv'
    OBVIOUS
  <1> DEFINE P == Range(Inbox!Page)
             S == Inbox!Passed
             N == Inbox!Newest(S)
             last == Inbox!Last(Inbox!Page)
             all == Inbox!Cardinality(Inbox!Rest) <= InboxPage
             F == Range(fresh)
             K == Range(printed)
  <1>1. /\ InboxTyped /\ InboxOrdered /\ UnseenAreNewer /\ InboxWalk /\ pc = "walk"
        /\ fresh' = fresh \o N
        /\ UNCHANGED <<inbox, behind, there, printed>>
    BY DEF Inbox!ReadPage, InboxInv
  <1>2. /\ inbox \in SUBSET Nat /\ Inbox!Rest = {m \in inbox : after = 0 \/ m < after}
        /\ K \subseteq inbox /\ F \subseteq inbox /\ after \in Nat
        /\ inbox \subseteq Nat \ {0}
    BY <1>1, InboxSets DEF Inbox!Rest, InboxTyped, Inbox!Messages
  <1>3. /\ P \subseteq Inbox!Rest
        /\ \A x \in P : \A y \in Inbox!Rest \ P : x > y
        /\ all => P = Inbox!Rest
        /\ ~all => last \in P /\ \A x \in P : x >= last
    BY <1>1, InboxPageIs
  <1>4. /\ S \subseteq P /\ S = {m \in P : \A k \in P \cap K : m > k}
        /\ \A m \in S, k \in K : m > k
        /\ N \in Seq(inbox) /\ Range(N) = S
        /\ \A i, j \in 1 .. Len(N) : i < j => N[i] > N[j]
    BY <1>1, PassedIs, SameNames DEF Inbox!Passed, Inbox!Seen
  <1>5. \/ pc' = "print" /\ after' = after /\ (P \cap K # {} \/ all)
        \/ pc' = "walk" /\ after' = last /\ P \cap K = {} /\ ~all
    BY SameNames DEF Inbox!ReadPage, Inbox!Complete, Inbox!Seen
  <1> HIDE DEF P, S, N, last, all
  <1>6. /\ after = 0 => fresh = <<>>
        /\ after # 0 => \A k \in K : k < after
        /\ \A m \in F : m >= after
        /\ \A m \in F, k \in K : m > k
        /\ \A m \in there : after # 0 /\ m >= after => m \in F
        /\ \A m \in (inbox \ behind) \ F : after # 0 /\ m >= after => \A k \in F : m > k
    BY <1>1 DEF InboxWalk
  <1>7. \A m \in (inbox \ behind) \ K : \A k \in K : m > k
    BY <1>1 DEF UnseenAreNewer
  <1>8. fresh' \in Seq(inbox) /\ Range(fresh') = F \cup S
    <2>1. fresh \in Seq(inbox)
      BY <1>1 DEF InboxTyped
    <2> QED BY <1>1, <1>4, <2>1, ConcatProperties, RangeConcatenation
  <1>9. \A m \in F, k \in S : m > k
    <2>1. CASE after = 0
      <3>1. F = {}
        BY <1>6, <2>1 DEF Range
      <3> QED BY <3>1
    <2>2. CASE after # 0
      <3>1. \A k \in S : k < after /\ k \in Nat
        BY <1>2, <1>3, <1>4, <2>2
      <3> HIDE DEF F, K
      <3> QED BY <1>2, <1>6, <3>1
    <2> QED BY <2>1, <2>2
  <1>10. \A i, j \in 1 .. Len(fresh') : i < j => fresh'[i] > fresh'[j]
    <2>1. fresh \in Seq(Nat) /\ N \in Seq(Nat)
      BY <1>1, <1>2, <1>4, SeqMonotonic DEF InboxTyped
    <2>2. \A i, j \in 1 .. Len(fresh) : i < j => fresh[i] > fresh[j]
      BY <1>1 DEF InboxOrdered
    <2>3. \A x \in Range(fresh), y \in Range(N) : x > y
      BY <1>4, <1>9
    <2> DEFINE D == {p \in Nat \X Nat : p[1] > p[2]}
    <2>4. \A x, y \in Nat : <<x, y>> \in D <=> x > y
      OBVIOUS
    <2> HIDE DEF D
    <2>5. \A i \in 1 .. Len(fresh) : fresh[i] \in Nat
      BY <2>1, ElementOfSeq
    <2>6. \A i \in 1 .. Len(N) : N[i] \in Nat
      BY <2>1, ElementOfSeq
    <2>7. \A i, j \in 1 .. Len(fresh) : i < j => <<fresh[i], fresh[j]>> \in D
      BY <2>2, <2>4, <2>5
    <2>8. \A i, j \in 1 .. Len(N) : i < j => <<N[i], N[j]>> \in D
      BY <1>4, <2>4, <2>6
    <2>9. \A x \in Range(fresh), y \in Range(N) : <<x, y>> \in D
      BY <2>1, <2>3, <2>4, RangeOfSeq
    <2>10. \A i, j \in 1 .. Len(fresh') : i < j => <<fresh'[i], fresh'[j]>> \in D
      BY <1>1, <2>1, <2>7, <2>8, <2>9, OrderedConcat
    <2> QED BY <2>10 DEF D
  <1>11. InboxTyped' /\ InboxOrdered'
    <2>1. after' \in Nat
      BY <1>2, <1>3, <1>5
    <2> QED BY <1>1, <1>5, <1>8, <1>10, <2>1 DEF InboxTyped, InboxOrdered
  <1>12. K' = K /\ F' = F \cup S
    BY <1>1, <1>8
  <1> HIDE DEF F, K
  <1>13. K \subseteq Inbox!Rest
    BY <1>2, <1>6
  <1>14. CASE pc' = "walk"
    <2>1. after' = last /\ P \cap K = {} /\ ~all /\ S = P
      BY <1>4, <1>5, <1>14
    <2>2. last \in P /\ last \in Nat \ {0} /\ (after # 0 => last < after)
      BY <1>2, <1>3, <2>1
    <2>3. \A k \in K : k < last
      BY <1>2, <1>3, <1>13, <2>1, <2>2
    <2>4. \A m \in F \cup S : m >= last
      <3>1. \A m \in F : m >= last
        BY <1>2, <1>4, <1>9, <2>1, <2>2
      <3> QED BY <1>3, <2>1, <3>1
    <2>5. \A m \in F \cup S, k \in K : m > k
      BY <1>4, <1>6
    <2>6. ASSUME NEW m \in inbox, m >= last, m \notin S PROVE after # 0 /\ m >= after
      <3>1. m \notin Inbox!Rest
        BY <1>2, <1>3, <2>1, <2>2, <2>6
      <3> QED BY <1>2, <3>1
    <2>7. \A m \in there : m >= last => m \in F \cup S
      <3>1. there \subseteq inbox
        BY <1>1 DEF InboxTyped
      <3> QED BY <1>6, <2>6, <3>1
    <2>8. ASSUME NEW m \in (inbox \ behind) \ (F \cup S), m >= last, NEW k \in F \cup S
          PROVE  m > k
      <3>1. after # 0 /\ m >= after
        BY <2>6, <2>8
      <3>2. CASE k \in F
        BY <1>6, <3>1, <3>2, <2>8
      <3>3. CASE k \in S
        <4>1. k < after /\ k \in Nat
          BY <1>2, <1>3, <1>4, <3>1, <3>3
        <4> QED BY <1>2, <3>1, <4>1
      <3> QED BY <3>2, <3>3
    <2>9. InboxWalk'
      BY <1>1, <1>12, <2>1, <2>2, <2>3, <2>4, <2>5, <2>7, <2>8 DEF InboxWalk, F, K
    <2>10. UnseenAreNewer'
      BY <1>1, <1>7, <1>12 DEF UnseenAreNewer, K
    <2>11. InboxPrint' /\ InboxWait'
      BY <1>14 DEF InboxPrint, InboxWait
    <2> QED BY <1>11, <2>9, <2>10, <2>11 DEF InboxInv
  <1>15. CASE pc' = "print"
    <2>1. P \cap K # {} \/ all
      BY <1>5, <1>15
    <2>2. \A m \in F \cup S, k \in K : m > k
      BY <1>4, <1>6
    <2>3. ASSUME NEW m \in (inbox \ behind) \ K, m \in Inbox!Rest PROVE m \in S
      <3>1. \A k \in K : m > k
        BY <1>7
      <3>2. CASE m \in P
        BY <1>4, <3>1, <3>2
      <3>3. CASE m \notin P
        <4>1. ~all
          BY <1>3, <2>3, <3>3
        <4>2. PICK k \in P : k \in K
          BY <2>1, <4>1
        <4>3. k > m /\ m > k
          BY <1>3, <2>3, <3>1, <3>3, <4>2
        <4> QED BY <1>2, <4>2, <4>3
      <3> QED BY <3>2, <3>3
    <2>4. \A m \in inbox : m \notin Inbox!Rest => after # 0 /\ m >= after
      BY <1>2
    <2>5. there \ behind \subseteq K \cup F \cup S
      <3>1. there \subseteq inbox
        BY <1>1 DEF InboxTyped
      <3> QED BY <1>6, <2>3, <2>4, <3>1
    <2>6. ASSUME NEW m \in (inbox \ behind) \ (K \cup F \cup S), NEW k \in K \cup F \cup S
          PROVE  m > k
      <3>1. after # 0 /\ m >= after
        BY <2>3, <2>4
      <3>2. CASE k \in K
        BY <1>7, <3>2
      <3>3. CASE k \in F
        BY <1>6, <3>1, <3>3
      <3>4. CASE k \in S
        <4>1. k < after /\ k \in Nat
          BY <1>2, <1>3, <1>4, <3>1, <3>4
        <4> QED BY <1>2, <3>1, <4>1
      <3> QED BY <3>2, <3>3, <3>4
    <2>7. InboxPrint'
      BY <1>1, <1>12, <2>2, <2>5, <2>6 DEF InboxPrint, F, K
    <2>8. UnseenAreNewer' /\ InboxWalk' /\ InboxWait'
      BY <1>15 DEF UnseenAreNewer, InboxWalk, InboxWait
    <2> QED BY <1>11, <2>7, <2>8 DEF InboxInv
  <1> QED BY <1>5, <1>14, <1>15

(* The last of what is left to print is the oldest of it.                  *)
LEMMA InboxPrints == InboxInv /\ Inbox!PrintNext => InboxInv'
  <1> SUFFICES ASSUME InboxInv, Inbox!PrintNext PROVE InboxInv'
    OBVIOUS
  <1> DEFINE n == Len(fresh)
             K == Range(printed)
             F == Range(fresh)
  <1>1. /\ InboxTyped /\ InboxOrdered /\ InboxPrint /\ pc = "print" /\ pc' = "print"
        /\ fresh # <<>>
        /\ printed' = Append(printed, fresh[n]) /\ fresh' = SubSeq(fresh, 1, n - 1)
        /\ UNCHANGED <<inbox, behind, there, after>>
    BY SameNames DEF Inbox!PrintNext, InboxInv
  <1>2. n \in Nat \ {0} /\ fresh \in Seq(inbox) /\ printed \in Seq(inbox) /\ inbox \subseteq Nat
    BY <1>1, EmptySeq, InboxSets DEF InboxTyped
  <1>3. \A i \in 1 .. n : fresh[i] \in inbox /\ fresh[i] \in F
    BY <1>2, ElementOfSeq, RangeEquality
  <1>4. /\ fresh' \in Seq(inbox) /\ Len(fresh') = n - 1
        /\ \A i \in 1 .. n - 1 : fresh'[i] = fresh[i]
    <2>1. Len(fresh') = IF 1 <= n - 1 THEN n - 1 - 1 + 1 ELSE 0
      BY <1>1, <1>2, <1>3, SubSeqProperties
    <2>2. Len(fresh') = n - 1
      <3>1. \A k \in Nat \ {0} : (IF 1 <= k - 1 THEN k - 1 - 1 + 1 ELSE 0) = k - 1
        OBVIOUS
      <3> HIDE DEF n
      <3> QED BY <1>2, <2>1, <3>1
    <2>3. fresh' \in Seq(inbox) /\ \A i \in 1 .. n - 1 - 1 + 1 : fresh'[i] = fresh[1 + i - 1]
      BY <1>1, <1>2, <1>3, SubSeqProperties
    <2> QED BY <1>2, <2>2, <2>3
  <1>5. F = {fresh[i] : i \in 1 .. n} /\ Range(fresh') = {fresh'[i] : i \in 1 .. n - 1}
    BY <1>2, <1>4, RangeEquality
  <1>6. F = Range(fresh') \cup {fresh[n]}
    <2>1. \A i \in 1 .. n : i = n \/ i \in 1 .. n - 1
      BY <1>2
    <2>2. \A i \in 1 .. n - 1 : i \in 1 .. n
      BY <1>2
    <2>3. n \in 1 .. n
      BY <1>2
    <2> HIDE DEF n, F
    <2> QED BY <1>4, <1>5, <2>1, <2>2, <2>3
  <1>7. \A m \in Range(fresh') : m > fresh[n]
    <2> SUFFICES ASSUME NEW i \in 1 .. n - 1 PROVE fresh[i] > fresh[n]
      BY <1>4, <1>5
    <2>1. i \in 1 .. n /\ n \in 1 .. n /\ i < n
      BY <1>2
    <2> QED BY <1>1, <2>1 DEF InboxOrdered
  <1>8. fresh[n] \in inbox
    BY <1>2, <1>3
  <1>9. printed' \in Seq(inbox) /\ Range(printed') = K \cup {fresh[n]}
    <2>1. printed' = printed \o <<fresh[n]>> /\ <<fresh[n]>> \in Seq(inbox)
      BY <1>1, <1>2, <1>8, AppendIsConcat
    <2>2. Range(<<fresh[n]>>) = {fresh[n]}
      BY DEF Range
    <2>3. printed' \in Seq(inbox)
      BY <1>2, <2>1, ConcatProperties
    <2>4. Range(printed') = Range(printed) \cup Range(<<fresh[n]>>)
      <3> DEFINE e == <<fresh[n]>>
      <3> HIDE DEF e, n
      <3>1. printed \in Seq(inbox) /\ e \in Seq(inbox) /\ printed' = printed \o e
        BY <1>2, <2>1 DEF e
      <3>2. Range(printed \o e) = Range(printed) \cup Range(e)
        BY <3>1, RangeConcatenation
      <3> QED BY <3>1, <3>2 DEF e
    <2> QED BY <2>2, <2>3, <2>4
  <1>10. \A i, j \in 1 .. Len(printed') : i < j => printed'[i] < printed'[j]
    <2> DEFINE l == Len(printed)
    <2>1. /\ l \in Nat /\ Len(printed') = l + 1 /\ printed'[l + 1] = fresh[n]
          /\ \A i \in 1 .. l : printed'[i] = printed[i]
      BY <1>1, <1>2, <1>8, AppendProperties, LenProperties
    <2>2. \A i \in 1 .. l : printed[i] \in K /\ printed[i] < fresh[n]
      <3>1. \A i \in 1 .. l : printed[i] \in K
        BY <1>2, RangeEquality
      <3>2. \A k \in K : fresh[n] > k /\ k \in Nat
        BY <1>1, <1>2, <1>6, InboxSets DEF InboxPrint
      <3> QED BY <1>2, <1>8, <3>1, <3>2
    <2>3. \A i, j \in 1 .. l : i < j => printed[i] < printed[j]
      BY <1>1 DEF InboxOrdered
    <2> HIDE DEF l
    <2> SUFFICES ASSUME NEW i \in 1 .. l + 1, NEW j \in 1 .. l + 1, i < j
                 PROVE  printed'[i] < printed'[j]
      BY <2>1
    <2>4. i \in 1 .. l
      BY <2>1
    <2>5. CASE j \in 1 .. l
      BY <2>1, <2>3, <2>4, <2>5
    <2>6. CASE j = l + 1
      BY <2>1, <2>2, <2>4, <2>6
    <2> QED BY <2>1, <2>5, <2>6
  <1>11. \A i, j \in 1 .. Len(fresh') : i < j => fresh'[i] > fresh'[j]
    <2> SUFFICES ASSUME NEW i \in 1 .. n - 1, NEW j \in 1 .. n - 1, i < j
                 PROVE  fresh'[i] > fresh'[j]
      BY <1>4
    <2>1. i \in 1 .. n /\ j \in 1 .. n
      BY <1>2
    <2>2. fresh[i] > fresh[j]
      BY <1>1, <2>1 DEF InboxOrdered
    <2> QED BY <1>4, <2>2
  <1>12. InboxTyped' /\ InboxOrdered'
    BY <1>1, <1>4, <1>9, <1>10, <1>11 DEF InboxTyped, InboxOrdered
  <1>13. InboxPrint'
    <2>1. Range(printed') \cup Range(fresh') = K \cup F
      BY <1>6, <1>9
    <2>2. \A m \in Range(fresh'), k \in Range(printed') : m > k
      BY <1>1, <1>6, <1>7, <1>9 DEF InboxPrint
    <2> HIDE DEF K, F
    <2> QED BY <1>1, <2>1, <2>2 DEF InboxPrint, K, F
  <1>14. UnseenAreNewer' /\ InboxWalk' /\ InboxWait'
    BY <1>1 DEF UnseenAreNewer, InboxWalk, InboxWait
  <1> QED BY <1>12, <1>13, <1>14 DEF InboxInv

LEMMA InboxArrival == InboxInv /\ Inbox!Arrive => InboxInv'
  <1> SUFFICES ASSUME InboxInv, Inbox!Arrive PROVE InboxInv'
    OBVIOUS
  <1>1. PICK m \in Inbox!Messages \ inbox :
          /\ inbox' = inbox \cup {m}
          /\ behind' = IF \E k \in inbox : k > m THEN behind \cup {m} ELSE behind
    BY DEF Inbox!Arrive
  <1>2. UNCHANGED <<pc, after, fresh, there, printed>>
    BY DEF Inbox!Arrive, Inbox!cycle
  <1>3. inbox \subseteq Nat /\ m \in Nat
    BY <1>1, InboxSets DEF InboxInv, Inbox!Messages
  <1>4. Range(printed) \subseteq inbox /\ Range(fresh) \subseteq inbox
    BY InboxSets DEF InboxInv
  <1>5. m \notin behind' => \A k \in inbox : m > k
    BY <1>1, <1>3
  <1>6. \A x \in inbox' \ behind' : x = m \/ x \in inbox \ behind
    BY <1>1
  <1>7. inbox \subseteq inbox' /\ behind \subseteq behind' /\ behind' \subseteq behind \cup {m}
    BY <1>1
  <1>8. m \notin there
    BY <1>1 DEF InboxInv, InboxTyped
  <1>9. InboxTyped'
    <2>1. printed \in Seq(inbox') /\ fresh \in Seq(inbox')
      BY <1>7, SeqMonotonic DEF InboxInv, InboxTyped
    <2>2. inbox' \subseteq Inbox!Messages /\ behind' \subseteq inbox' /\ there' \subseteq inbox'
      BY <1>1, <1>2 DEF InboxInv, InboxTyped
    <2> QED BY <1>2, <2>1, <2>2 DEF InboxInv, InboxTyped, Inbox!Messages
  <1>10. InboxOrdered'
    BY <1>2 DEF InboxInv, InboxOrdered
  <1>11. UnseenAreNewer'
    BY <1>2, <1>4, <1>5, <1>6 DEF InboxInv, UnseenAreNewer
  <1>12. InboxWalk'
    BY <1>2, <1>4, <1>5, <1>6 DEF InboxInv, InboxWalk
  <1>13. InboxPrint'
    BY <1>2, <1>4, <1>5, <1>6, <1>7 DEF InboxInv, InboxPrint
  <1>14. InboxWait'
    BY <1>2, <1>7 DEF InboxInv, InboxWait
  <1> QED BY <1>9, <1>10, <1>11, <1>12, <1>13, <1>14 DEF InboxInv

LEMMA InboxInit == Inbox!Init => InboxInv
  <1> SUFFICES ASSUME Inbox!Init PROVE InboxInv
    OBVIOUS
  <1>1. /\ inbox \subseteq Inbox!Messages /\ there = inbox /\ behind = {} /\ printed = <<>>
        /\ fresh = <<>> /\ after = 0 /\ pc = "walk"
    <2>1. PICK n \in 0 .. MaxMessages : inbox = 1 .. n
      BY DEF Inbox!Init
    <2>2. MaxMessages \in Nat
      BY SizesAssumption DEF Inbox!SizesAssumption
    <2> QED BY <2>1, <2>2 DEF Inbox!Init, Inbox!Messages
  <1>2. Len(<<>>) = 0 /\ Range(<<>>) = {}
    BY DEF Range
  <1>3. <<>> \in Seq(inbox)
    OBVIOUS
  <1>4. InboxTyped
    BY <1>1, <1>3 DEF InboxTyped
  <1>5. InboxOrdered
    BY <1>1, <1>2 DEF InboxOrdered
  <1> QED BY <1>1, <1>2, <1>4, <1>5
        DEF InboxInv, UnseenAreNewer, InboxWalk, InboxPrint, InboxWait

LEMMA InboxStep == InboxInv /\ Inbox!Next => InboxInv'
  <1> SUFFICES ASSUME InboxInv, Inbox!Next PROVE InboxInv'
    OBVIOUS
  <1> USE DEF InboxInv
  <1>1. CASE Inbox!ReadPage
    BY <1>1, InboxReads
  <1>2. CASE Inbox!PrintNext
    BY <1>2, InboxPrints
  <1>3. CASE Inbox!Arrive
    BY <1>3, InboxArrival
  <1>4. CASE Inbox!TooManyPages \/ Inbox!Fail \/ Inbox!TooManySeen \/ Inbox!Interrupt
    <2>1. pc' = "ended" /\ UNCHANGED <<inbox, behind, printed, after, fresh, there>>
      BY <1>4 DEF Inbox!TooManyPages, Inbox!Fail, Inbox!TooManySeen, Inbox!Interrupt,
                  Inbox!End, Inbox!cycle
    <2> QED BY <2>1 DEF InboxTyped, InboxOrdered, UnseenAreNewer, InboxWalk, InboxPrint,
                        InboxWait, Inbox!Messages
  <1>5. CASE Inbox!Retry
    <2>1. /\ pc = "walk" /\ pc' = "retry"
          /\ UNCHANGED <<inbox, behind, printed, after, fresh, there>>
      BY <1>5 DEF Inbox!Retry, Inbox!cycle
    <2> QED BY <2>1 DEF InboxTyped, InboxOrdered, UnseenAreNewer, InboxWalk, InboxPrint,
                        InboxWait, Inbox!Messages
  <1>6. CASE Inbox!PrintedAll
    <2>1. /\ pc = "print" /\ fresh = <<>> /\ pc' = "wait"
          /\ UNCHANGED <<inbox, behind, printed, after, fresh, there>>
      BY <1>6 DEF Inbox!PrintedAll, Inbox!cycle
    <2>2. Range(fresh) = {}
      BY <2>1 DEF Range
    <2>3. InboxTyped' /\ InboxOrdered'
      BY <2>1 DEF InboxTyped, InboxOrdered, Inbox!Messages
    <2>4. UnseenAreNewer' /\ InboxWait'
      BY <2>1, <2>2 DEF UnseenAreNewer, InboxWait, InboxPrint
    <2> QED BY <2>1, <2>3, <2>4 DEF InboxWalk, InboxPrint
  <1>7. CASE Inbox!Wake
    <2>1. /\ pc \in {"wait", "retry"} /\ pc' = "walk" /\ after' = 0 /\ fresh' = <<>>
          /\ there' = inbox
          /\ UNCHANGED <<inbox, behind, printed>>
      BY <1>7 DEF Inbox!Wake, Inbox!Restart
    <2>2. Len(<<>>) = 0 /\ Range(<<>>) = {} /\ <<>> \in Seq(inbox)
      BY DEF Range
    <2>3. InboxTyped' /\ InboxOrdered'
      BY <2>1, <2>2 DEF InboxTyped, InboxOrdered, Inbox!Messages
    <2>4. UnseenAreNewer'
      BY <2>1 DEF UnseenAreNewer
    <2>5. InboxWalk'
      BY <2>1, <2>2 DEF InboxWalk
    <2> QED BY <2>1, <2>3, <2>4, <2>5 DEF InboxPrint, InboxWait
  <1> QED BY <1>1, <1>2, <1>3, <1>4, <1>5, <1>6, <1>7 DEF Inbox!Next, Inbox!Command

LEMMA InboxSafe == InboxInv => Inbox!PrintedInOrder /\ Inbox!NoneMissed
  BY LenProperties, SameNames
  DEF InboxInv, InboxTyped, InboxOrdered, InboxWait, Inbox!PrintedInOrder, Inbox!NoneMissed,
      Inbox!Seen

(* The messages of an inbox are printed once and oldest first, across      *)
(* pages, cycles and retries, and a cycle that ends has printed every      *)
(* message that was there when it began and came in behind no newer one.   *)
THEOREM InboxPrintedWhole == MCSpec => []InboxWhole
  <1> DEFINE I == command = "inbox" => InboxInv
  <1>1. MCInit => I
    BY InboxInit DEF MCInit
  <1>2. I /\ [MCNext]_MCvars => I'
    <2> SUFFICES ASSUME I, [MCNext]_MCvars PROVE I'
      OBVIOUS
    <2>1. CASE FollowInbox
      BY <2>1, InboxStep DEF FollowInbox
    <2>2. CASE UNCHANGED MCvars
      <3>1. UNCHANGED <<command, inbox, behind, there, printed, fresh, after, pc>>
        BY <2>2 DEF MCvars, onlyInbox
      <3> QED BY <3>1 DEF InboxInv, InboxTyped, InboxOrdered, UnseenAreNewer, InboxWalk,
                          InboxPrint, InboxWait, Inbox!Messages
    <2>3. CASE MCNext /\ ~FollowInbox
      BY <2>3 DEF MCNext, FollowLogs, FollowTask, SettingUp, Bootstrapping, Deciding, Planning
    <2> QED BY <2>1, <2>2, <2>3
  <1>3. I => InboxWhole
    BY InboxSafe DEF InboxWhole
  <1> QED BY <1>1, <1>2, <1>3, PTL DEF MCSpec

-----------------------------------------------------------------------------
(***************************************************************************)
(* `app logs --follow`: LogFollow.                                         *)
(***************************************************************************)

(* The lines the backend has stored; no two lines have the same number.    *)
Stored == [time : Nat, n : Nat, at : Nat]
LogsTyped ==
  /\ clock \in Nat /\ begun \in Nat /\ watching \in Nat /\ lastUntil \in Nat
  /\ since \in Int /\ until \in Nat
  /\ written \subseteq [time : Nat, n : Nat] /\ stored \subseteq Stored
  /\ IsFiniteSet(written) /\ IsFiniteSet(stored)
  /\ cursor \in stored \cup {NoLine}
  /\ batch \in Seq(stored) /\ printed \in Seq(stored) /\ seen \subseteq stored
  /\ pc \in {"new", "tail", "pause", "poll", "ended"} /\ capped \in BOOLEAN

LinesNumbered ==
  /\ \A l, m \in written \cup stored : l.n = m.n => l = m
  /\ \A l \in written \cup stored : l.n <= Cardinality(written \cup stored)

(* Nothing is of a time to come, and no line is stored before it is        *)
(* written.                                                                *)
LinesTimed ==
  /\ until <= clock /\ begun <= clock /\ watching <= clock /\ lastUntil <= clock
  /\ \A l \in written : l.time <= clock
  /\ \A l \in stored : l.time <= l.at /\ l.at <= clock

(* A batch is in the order of its lines, up to the cursor.                 *)
BatchOrdered ==
  /\ \A i, j \in 1 .. Len(batch) : i < j => Logs!Before(batch[i], batch[j])
  /\ cursor = NoLine => batch = <<>>
  /\ \A l \in Range(batch) : since <= l.time /\ (l = cursor \/ Logs!Before(l, cursor))

(* Up to the cursor, the batch of a poll has the lines of its window that  *)
(* were stored before it, and those that are printed.                      *)
BatchWhole ==
  pc = "poll" =>
    /\ since = lastUntil - LogOverlap /\ lastUntil <= until
    /\ \A l \in Range(printed) : l.time <= until
    /\ \A l \in stored :
         /\ since <= l.time /\ l.time <= until
         /\ l.at < until \/ l \in Range(printed)
         /\ cursor # NoLine /\ ~Logs!Before(cursor, l)
         => l \in Range(batch)

(* Between two polls the last batch still has every printed line that the  *)
(* next window may answer with.                                            *)
SeenRemembered ==
  pc \in {"pause", "poll"} =>
    /\ begun <= watching /\ watching <= lastUntil
    /\ seen \subseteq Range(printed)
    /\ ~capped => \A l \in Range(printed) : l.time >= lastUntil - LogOverlap => l \in seen

(* PrintedOnce and NoneMissed, the latter while a poll is under way too.   *)
OnceEach ==
  ~capped => \A i, j \in 1 .. Len(printed) : printed[i] = printed[j] => i = j

NoneSkipped ==
  pc \in {"pause", "poll"} /\ lastUntil > watching /\ ~capped =>
    \A l \in stored :
      /\ begun < l.at /\ l.at < lastUntil
      /\ (l.at - l.time) + (watching - begun) <= LogOverlap
      => l \in Range(printed)

LogsInv ==
  /\ LogsTyped /\ LinesNumbered /\ LinesTimed /\ BatchOrdered
  /\ BatchWhole /\ SeenRemembered /\ OnceEach /\ NoneSkipped

LEMMA SameLogNames ==
  /\ \A s : Logs!Range(s) = Range(s)
  /\ \A s : Logs!Last(s) = s[Len(s)]
  /\ \A S : Logs!Cardinality(S) = Cardinality(S)
  /\ LogPage \in Nat \ {0} /\ LogTail \in Nat \ {0} /\ LogPages \in Nat \ {0}
  /\ Window \in Nat /\ LogOverlap \in Nat
  /\ NoLine \notin Stored
  <1>1. \A s : Logs!Range(s) = Range(s)
    BY DEF Logs!Range, Range
  <1>2. \A s : Logs!Last(s) = s[Len(s)]
    BY DEF Logs!Last
  <1>3. \A S : Logs!Cardinality(S) = Cardinality(S)
    BY DEF Logs!Cardinality, Cardinality
  <1>4. /\ LogPage \in Nat \ {0} /\ LogTail \in Nat \ {0} /\ LogPages \in Nat \ {0}
        /\ Window \in Nat /\ LogOverlap \in Nat
    BY SizesAssumption DEF Logs!Sizes, Logs!Times
  <1>5. NoLine \notin Stored
    BY SizesAssumption DEF Logs!CursorAssumption, Stored
  <1> QED BY <1>1, <1>2, <1>3, <1>4, <1>5

(* The order of a query is one, on lines of different numbers.             *)
BeforeOn(S) == {p \in S \X S : Logs!Before(p[1], p[2])}

LEMMA BeforeOrders ==
  ASSUME LogsTyped, LinesNumbered, NEW S \in SUBSET stored
  PROVE  Orders(BeforeOn(S), S)
  <1>1. \A l \in S : l \in Stored /\ l \in stored
    BY DEF LogsTyped
  <1>2. \A l \in Stored : l.time \in Nat /\ l.n \in Nat
    BY DEF Stored
  <1>3. \A l, m \in S : <<l, m>> \in BeforeOn(S) <=> Logs!Before(l, m)
    BY DEF BeforeOn
  <1>4. \A l \in S : ~Logs!Before(l, l)
    BY <1>1, <1>2 DEF Logs!Before
  <1>5. ASSUME NEW l \in S, NEW m \in S, l # m PROVE Logs!Before(l, m) \/ Logs!Before(m, l)
    <2>1. l.n # m.n
      BY <1>1, <1>5 DEF LinesNumbered
    <2> QED BY <1>1, <1>2, <2>1 DEF Logs!Before
  <1>6. ASSUME NEW l \in S, NEW m \in S, NEW o \in S, Logs!Before(l, m), Logs!Before(m, o)
        PROVE  Logs!Before(l, o)
    <2>1. /\ l.time \in Nat /\ l.n \in Nat /\ m.time \in Nat /\ m.n \in Nat
          /\ o.time \in Nat /\ o.n \in Nat
      BY <1>1, <1>2
    <2> QED BY <1>6, <2>1 DEF Logs!Before
  <1> QED BY <1>3, <1>4, <1>5, <1>6 DEF Orders

LEMMA InOrderIs ==
  ASSUME LogsTyped, LinesNumbered, NEW S \in SUBSET stored
  PROVE  /\ Sorted(Logs!InOrder(S), S, BeforeOn(S))
         /\ Len(Logs!InOrder(S)) = Cardinality(S)
  <1> DEFINE s == Logs!InOrder(S)
             R == BeforeOn(S)
             n == Cardinality(S)
  <1>1. Orders(R, S)
    BY BeforeOrders
  <1>2. IsFiniteSet(S)
    BY FS_Subset DEF LogsTyped
  <1>3. n \in Nat
    BY <1>2, FS_CardinalityType
  <1>4. \A T : Logs!Cardinality(T) = Cardinality(T)
    BY SameLogNames
  <1>5. \A m \in S : {k \in S : <<k, m>> \in R} = Logs!Earlier(m, S)
    BY DEF Logs!Earlier, BeforeOn
  <1>6. \A m \in S : Rank(m, S, R) = Logs!Cardinality(Logs!Earlier(m, S))
    BY <1>4, <1>5 DEF Rank
  <1> HIDE DEF R
  <1>7. ASSUME NEW i \in 1 .. n PROVE s[i] \in S /\ Rank(s[i], S, R) = i - 1
    <2>1. i - 1 \in 0 .. n - 1
      BY <1>3
    <2>2. \E m \in S : Logs!Cardinality(Logs!Earlier(m, S)) = i - 1
      <3>1. \E m \in S : Rank(m, S, R) = i - 1
        BY <1>1, <1>2, <2>1, RanksTaken
      <3> QED BY <1>6, <3>1
    <2>3. s[i] = CHOOSE m \in S : Logs!Cardinality(Logs!Earlier(m, S)) = i - 1
      BY <1>4 DEF Logs!InOrder
    <2> HIDE DEF s
    <2>4. s[i] \in S /\ Logs!Cardinality(Logs!Earlier(s[i], S)) = i - 1
      BY <2>2, <2>3
    <2> QED BY <1>6, <2>4
  <1>8. s \in [1 .. n -> S]
    BY <1>4, <1>7 DEF Logs!InOrder
  <1>9. Arranged(s, S, R)
    BY <1>7, <1>8 DEF Arranged
  <1> HIDE DEF s
  <1>10. Sorted(s, S, R) /\ Len(s) = Cardinality(S)
    BY <1>1, <1>2, <1>9, ArrangedIs
  <1> QED BY <1>10 DEF s, R

(* A page is the first of what is left of the window, up to its last line. *)
LEMMA LogPageIs ==
  ASSUME LogsTyped, LinesNumbered
  PROVE  LET p == Logs!PageOf(Logs!Items) IN
         /\ p \in Seq(stored) /\ Range(p) \subseteq Logs!Rest
         /\ \A i, j \in 1 .. Len(p) : i < j => <<p[i], p[j]>> \in BeforeOn(stored)
         /\ \A x \in Range(p) : \A y \in Logs!Rest \ Range(p) : Logs!Before(x, y)
         /\ Logs!ReachedEnd => Range(p) = Logs!Rest
         /\ ~Logs!ReachedEnd =>
              /\ Logs!Last(p) \in Range(p)
              /\ \A x \in Range(p) : x = Logs!Last(p) \/ Logs!Before(x, Logs!Last(p))
  <1> DEFINE S == Logs!Rest
             R == BeforeOn(S)
             s == Logs!InOrder(S)
             p == PageOfSeq(s, LogPage)
  <1>1. S \in SUBSET stored
    BY DEF Logs!Rest
  <1>2. Logs!Items = s /\ Logs!PageOf(Logs!Items) = p
    BY DEF Logs!Items, Logs!PageOf, PageOfSeq
  <1>3. IsFiniteSet(S)
    BY <1>1, FS_Subset DEF LogsTyped
  <1>4. Cardinality(S) \in Nat
    BY <1>3, FS_CardinalityType
  <1>5. p = PageOfSeq(s, LogPage)
    OBVIOUS
  <1> HIDE DEF S, s, p
  <1>6. Sorted(s, S, R) /\ Len(s) = Cardinality(S)
    BY <1>1, InOrderIs DEF s
  <1> HIDE DEF R
  <1>7. IsPage(p, s, S, R, LogPage)
    BY <1>5, <1>6, PageIs, SameLogNames
  <1>8. \A x, y : <<x, y>> \in R => Logs!Before(x, y) /\ <<x, y>> \in BeforeOn(stored)
    BY <1>1 DEF R, BeforeOn
  <1>9. p \in Seq(S) /\ p \in Seq(stored) /\ Range(p) \subseteq S
    <2>1. p \in Seq(S)
      BY <1>7 DEF IsPage
    <2> QED BY <1>1, <2>1, SeqMonotonic, RangeOfSeq
  <1>10. \A i, j \in 1 .. Len(p) : i < j => <<p[i], p[j]>> \in BeforeOn(stored)
    BY <1>7, <1>8 DEF IsPage
  <1>11. \A x \in Range(p) : \A y \in S \ Range(p) : Logs!Before(x, y)
    BY <1>7, <1>8 DEF IsPage
  <1>12. Logs!ReachedEnd <=> Len(s) <= LogPage
    BY <1>2 DEF Logs!ReachedEnd
  <1>13. Len(s) <= LogPage => Range(p) = S
    BY <1>7 DEF IsPage
  <1>14. ASSUME ~(Len(s) <= LogPage)
         PROVE  p[Len(p)] \in Range(p) /\ \A x \in Range(p) : x = p[Len(p)] \/ Logs!Before(x, p[Len(p)])
    <2>1. Len(s) > LogPage
      BY <1>4, <1>6, <1>14, SameLogNames
    <2> QED BY <1>7, <1>8, <2>1 DEF IsPage
  <1>15. Logs!Last(p) = p[Len(p)]
    BY SameLogNames
  <1> QED BY <1>2, <1>9, <1>10, <1>11, <1>12, <1>13, <1>14, <1>15 DEF S

(* With it, the batch is still in the order of its lines.                  *)
LEMMA WholeIs ==
  ASSUME LogsTyped, LinesNumbered, BatchOrdered
  PROVE  LET p == Logs!PageOf(Logs!Items) IN
         /\ Logs!Whole \in Seq(stored)
         /\ Range(Logs!Whole) = Range(batch) \cup Range(p)
         /\ \A i, j \in 1 .. Len(Logs!Whole) : i < j => Logs!Before(Logs!Whole[i], Logs!Whole[j])
         /\ \A i, j \in 1 .. Len(Logs!Whole) : Logs!Whole[i] = Logs!Whole[j] => i = j
         /\ \A l \in Range(Logs!Whole) : since <= l.time
  <1> DEFINE p == Logs!PageOf(Logs!Items)
             R == BeforeOn(stored)
             W == batch \o p
  <1>1. Logs!Whole = W
    BY DEF Logs!Whole
  <1>2. /\ p \in Seq(stored) /\ Range(p) \subseteq Logs!Rest
        /\ \A i, j \in 1 .. Len(p) : i < j => <<p[i], p[j]>> \in R
    BY LogPageIs
  <1> HIDE DEF p
  <1>3. batch \in Seq(stored) /\ Range(batch) \subseteq stored
    BY RangeOfSeq DEF LogsTyped
  <1>4. \A x, y \in stored : Logs!Before(x, y) <=> <<x, y>> \in R
    BY DEF BeforeOn
  <1>5. Orders(R, stored)
    BY BeforeOrders
  <1>6. \A l \in Logs!Rest : /\ l \in stored /\ since <= l.time
                             /\ cursor = NoLine \/ Logs!Before(cursor, l)
    BY DEF Logs!Rest
  <1> HIDE DEF R
  <1>7. \A i, j \in 1 .. Len(batch) : i < j => <<batch[i], batch[j]>> \in R
    <2>1. \A i \in 1 .. Len(batch) : batch[i] \in stored
      BY <1>3, ElementOfSeq
    <2> QED BY <1>4, <2>1 DEF BatchOrdered
  <1>8. \A x \in Range(batch), y \in Range(p) : <<x, y>> \in R
    <2> TAKE x \in Range(batch), y \in Range(p)
    <2>1. CASE cursor = NoLine
      <3>1. Range(batch) = {}
        BY <2>1 DEF BatchOrdered, Range
      <3> QED BY <3>1
    <2>2. CASE cursor # NoLine
      <3>1. cursor \in stored /\ x \in stored /\ y \in stored /\ <<cursor, y>> \in R
        BY <1>2, <1>3, <1>4, <1>6, <2>2 DEF LogsTyped
      <3>2. x = cursor \/ <<x, cursor>> \in R
        BY <1>4, <3>1 DEF BatchOrdered
      <3> QED BY <1>5, <3>1, <3>2 DEF Orders
    <2> QED BY <2>1, <2>2
  <1>9. W \in Seq(stored) /\ Range(W) = Range(batch) \cup Range(p)
    BY <1>2, <1>3, ConcatProperties, RangeConcatenation
  <1>10. \A i, j \in 1 .. Len(W) : i < j => <<W[i], W[j]>> \in R
    BY <1>2, <1>3, <1>7, <1>8, OrderedConcat
  <1> HIDE DEF W
  <1>11. Len(W) \in Nat /\ \A i \in 1 .. Len(W) : W[i] \in stored
    BY <1>9, LenProperties, ElementOfSeq
  <1>12. \A i, j \in 1 .. Len(W) : i < j => Logs!Before(W[i], W[j])
    BY <1>4, <1>10, <1>11
  <1>13. ASSUME NEW i \in 1 .. Len(W), NEW j \in 1 .. Len(W), W[i] = W[j] PROVE i = j
    <2>1. i < j \/ j < i \/ i = j
      BY <1>11
    <2>2. <<W[i], W[i]>> \notin R /\ <<W[j], W[j]>> \notin R
      BY <1>5, <1>11 DEF Orders
    <2> QED BY <1>10, <1>13, <2>1, <2>2
  <1>14. \A l \in Range(W) : since <= l.time
    BY <1>2, <1>6, <1>9 DEF BatchOrdered
  <1> QED BY <1>1, <1>9, <1>12, <1>13, <1>14 DEF p

LEMMA LogsReadsPage == LogsInv /\ Logs!NextPage => LogsInv'
  <1> SUFFICES ASSUME LogsInv, Logs!NextPage PROVE LogsInv'
    OBVIOUS
  <1> DEFINE p == Logs!PageOf(Logs!Items)
             last == Logs!Last(p)
  <1>1. /\ LogsTyped /\ LinesNumbered /\ LinesTimed /\ BatchOrdered /\ BatchWhole
        /\ SeenRemembered /\ OnceEach /\ NoneSkipped
    BY DEF LogsInv
  <1>2. /\ batch' = Logs!Whole /\ cursor' = last /\ ~Logs!ReachedEnd
        /\ UNCHANGED <<clock, written, stored, pc, follow, since, until, lastUntil, seen, printed>>
        /\ UNCHANGED <<begun, watching, capped>>
    BY DEF Logs!NextPage, Logs!Whole, Logs!WalkEnds, Logs!backend, Logs!history
  <1>3. /\ p \in Seq(stored) /\ Range(p) \subseteq Logs!Rest
        /\ \A x \in Range(p) : \A y \in Logs!Rest \ Range(p) : Logs!Before(x, y)
        /\ last \in Range(p)
        /\ \A x \in Range(p) : x = last \/ Logs!Before(x, last)
    BY <1>1, <1>2, LogPageIs
  <1>4. /\ Logs!Whole \in Seq(stored)
        /\ Range(Logs!Whole) = Range(batch) \cup Range(p)
        /\ \A i, j \in 1 .. Len(Logs!Whole) : i < j => Logs!Before(Logs!Whole[i], Logs!Whole[j])
        /\ \A l \in Range(Logs!Whole) : since <= l.time
    BY <1>1, WholeIs
  <1> HIDE DEF p, last
  <1>5. /\ \A l \in Logs!Rest : l \in stored /\ (cursor = NoLine \/ Logs!Before(cursor, l))
        /\ \A l \in stored : /\ since <= l.time /\ l.time <= until
                             /\ cursor = NoLine \/ Logs!Before(cursor, l)
                             => l \in Logs!Rest
    BY DEF Logs!Rest
  <1>6. last \in stored /\ last # NoLine
    <2>1. last \in stored
      BY <1>3, <1>5
    <2> QED BY <1>1, <2>1, SameLogNames DEF LogsTyped
  <1>7. LogsTyped'
    BY <1>1, <1>2, <1>4, <1>6 DEF LogsTyped, Stored
  <1>8. BatchOrdered'
    <2>1. \A l \in Range(batch) : Logs!Before(l, last)
      <3> TAKE l \in Range(batch)
      <3>1. cursor # NoLine /\ cursor \in stored /\ l \in stored
        <4>1. Range(<<>>) = {}
          BY DEF Range
        <4>2. batch # <<>>
          BY <4>1
        <4> QED BY <1>1, <4>2, RangeOfSeq DEF BatchOrdered, LogsTyped
      <3>2. Logs!Before(cursor, last)
        BY <1>3, <1>5, <3>1
      <3>3. l = cursor \/ Logs!Before(l, cursor)
        BY <1>1 DEF BatchOrdered
      <3>4. \A x, y \in stored : Logs!Before(x, y) <=> <<x, y>> \in BeforeOn(stored)
        BY DEF BeforeOn
      <3>5. Orders(BeforeOn(stored), stored)
        BY <1>1, BeforeOrders
      <3> QED BY <1>6, <3>1, <3>2, <3>3, <3>4, <3>5 DEF Orders
    <2>2. \A l \in Range(batch') : l = last \/ Logs!Before(l, last)
      BY <1>2, <1>3, <1>4, <2>1
    <2>3. \A i, j \in 1 .. Len(batch') : i < j => Logs!Before(batch'[i], batch'[j])
      BY <1>2, <1>4
    <2> QED BY <1>2, <1>4, <1>6, <2>2, <2>3 DEF BatchOrdered, Logs!Before
  <1>9. ASSUME pc = "poll", NEW l \in stored, since <= l.time, l.time <= until,
               l.at < until \/ l \in Range(printed), ~Logs!Before(last, l)
        PROVE  l \in Range(batch')
    <2>1. CASE cursor = NoLine \/ Logs!Before(cursor, l)
      <3>1. l \in Logs!Rest
        BY <1>5, <1>9, <2>1
      <3>2. l \in Range(p)
        BY <1>3, <1>9, <3>1
      <3> QED BY <1>2, <1>4, <3>2
    <2>2. CASE cursor # NoLine /\ ~Logs!Before(cursor, l)
      BY <1>1, <1>2, <1>4, <1>9, <2>2 DEF BatchWhole
    <2> QED BY <2>1, <2>2
  <1>10. BatchWhole'
    BY <1>1, <1>2, <1>9 DEF BatchWhole, Logs!Before
  <1>11. LinesNumbered' /\ LinesTimed' /\ SeenRemembered' /\ OnceEach' /\ NoneSkipped'
    BY <1>1, <1>2 DEF LinesNumbered, LinesTimed, SeenRemembered, OnceEach, NoneSkipped
  <1> QED BY <1>7, <1>8, <1>10, <1>11 DEF LogsInv

(* The tail is the end of the batch.                                       *)
LEMMA LogsShowsTail == LogsInv /\ Logs!ShowTail => LogsInv'
  <1> SUFFICES ASSUME LogsInv, Logs!ShowTail PROVE LogsInv'
    OBVIOUS
  <1> DEFINE W == Logs!Whole
             m == Len(W) - LogTail + 1
  <1>1. /\ LogsTyped /\ LinesNumbered /\ LinesTimed /\ BatchOrdered
    BY DEF LogsInv
  <1>2. /\ printed' = (IF Len(W) <= LogTail THEN W ELSE SubSeq(W, m, Len(W)))
        /\ seen' = Range(printed')
        /\ pc' \in {"pause", "ended"}
        /\ lastUntil' = clock /\ watching' = clock
        /\ cursor' = NoLine /\ batch' = <<>>
        /\ UNCHANGED <<clock, written, stored, since, until, begun, capped>>
    BY SameLogNames DEF Logs!ShowTail, Logs!NewWindow, Logs!backend
  <1>3. W \in Seq(stored) /\ \A i, j \in 1 .. Len(W) : W[i] = W[j] => i = j
    BY <1>1, WholeIs
  <1> HIDE DEF W
  <1>4. Len(W) \in Nat /\ \A i \in 1 .. Len(W) : W[i] \in stored
    BY <1>3, LenProperties, ElementOfSeq
  <1>5. /\ printed' \in Seq(stored)
        /\ \A i, j \in 1 .. Len(printed') : printed'[i] = printed'[j] => i = j
    <2>1. CASE Len(W) <= LogTail
      BY <1>2, <1>3, <2>1
    <2>2. CASE ~(Len(W) <= LogTail)
      <3>1. LogTail \in Nat \ {0}
        BY SameLogNames
      <3>2. m \in 1 .. Len(W) /\ m <= Len(W)
        BY <1>4, <2>2, <3>1
      <3> HIDE DEF m
      <3>3. printed' = SubSeq(W, m, Len(W))
        BY <1>2, <2>2
      <3>4. \A i \in m .. Len(W) : W[i] \in stored
        BY <1>4, <3>2
      <3>5. /\ printed' \in Seq(stored) /\ Len(printed') = Len(W) - m + 1
            /\ \A i \in 1 .. Len(W) - m + 1 : printed'[i] = W[m + i - 1]
        BY <1>4, <3>2, <3>3, <3>4, SubSeqProperties
      <3>6. ASSUME NEW i \in 1 .. Len(printed'), NEW j \in 1 .. Len(printed'),
                   printed'[i] = printed'[j]
            PROVE  i = j
        <4>1. printed'[i] = W[m + i - 1] /\ printed'[j] = W[m + j - 1]
          BY <3>5
        <4>2. m + i - 1 \in 1 .. Len(W) /\ m + j - 1 \in 1 .. Len(W)
          BY <1>4, <3>2, <3>5
        <4>3. m + i - 1 = m + j - 1
          BY <1>3, <3>6, <4>1, <4>2
        <4> QED BY <3>2, <4>3
      <3> QED BY <3>5, <3>6
    <2> QED BY <2>1, <2>2
  <1>6. Range(printed') \subseteq stored
    BY <1>5, RangeOfSeq
  <1>7. LogsTyped'
    BY <1>1, <1>2, <1>5, <1>6 DEF LogsTyped, Stored
  <1>8. /\ LinesNumbered' /\ LinesTimed' /\ BatchWhole' /\ SeenRemembered' /\ OnceEach'
        /\ NoneSkipped'
    <2>1. LinesNumbered'
      BY <1>1, <1>2 DEF LinesNumbered
    <2>2. LinesTimed'
      BY <1>1, <1>2 DEF LinesTimed, LogsTyped
    <2>3. BatchWhole'
      BY <1>2 DEF BatchWhole
    <2>4. SeenRemembered'
      BY <1>1, <1>2 DEF SeenRemembered, LogsTyped, LinesTimed
    <2>5. OnceEach'
      BY <1>5 DEF OnceEach
    <2>6. NoneSkipped'
      BY <1>1, <1>2 DEF NoneSkipped, LogsTyped
    <2> QED BY <2>1, <2>2, <2>3, <2>4, <2>5, <2>6
  <1>9. BatchOrdered'
    <2>1. Len(<<>>) = 0 /\ Range(<<>>) = {}
      BY DEF Range
    <2> QED BY <1>2, <2>1 DEF BatchOrdered
  <1> QED BY <1>7, <1>8, <1>9 DEF LogsInv

(* A poll that reached the end of its window has every line of it that is  *)
(* printed, so what it prints is not; and what came before the window had  *)
(* been printed by the polls before.                                       *)
LEMMA LogsShowsNew == LogsInv /\ Logs!ShowNew => LogsInv'
  <1> SUFFICES ASSUME LogsInv, Logs!ShowNew PROVE LogsInv'
    OBVIOUS
  <1> DEFINE W == Logs!Whole
             Q == Range(W)
             P == Range(Logs!PageOf(Logs!Items))
             K == Range(printed)
             new == Logs!InOrder(Q \ seen)
  <1>1. /\ LogsTyped /\ LinesNumbered /\ LinesTimed /\ BatchOrdered /\ BatchWhole
        /\ SeenRemembered /\ OnceEach /\ NoneSkipped
    BY DEF LogsInv
  <1>2. /\ pc = "poll" /\ pc' = "pause"
        /\ printed' = printed \o new /\ seen' = Q /\ lastUntil' = until
        /\ cursor' = NoLine /\ batch' = <<>>
        /\ capped' = (capped \/ ~Logs!ReachedEnd)
        /\ UNCHANGED <<clock, written, stored, since, until, begun, watching>>
    BY SameLogNames DEF Logs!ShowNew, Logs!NewWindow, Logs!backend
  <1>3. /\ W \in Seq(stored) /\ Q = Range(batch) \cup P /\ \A l \in Q : since <= l.time
    BY <1>1, WholeIs
  <1>4. Logs!ReachedEnd => P = Logs!Rest
    BY <1>1, LogPageIs
  <1>5. Q \subseteq stored
    BY <1>3, RangeOfSeq
  <1>6. \A l \in stored : /\ since <= l.time /\ l.time <= until
                          /\ cursor = NoLine \/ Logs!Before(cursor, l)
                          => l \in Logs!Rest
    BY DEF Logs!Rest
  <1>7. /\ clock \in Nat /\ begun \in Nat /\ watching \in Nat /\ lastUntil \in Nat
        /\ since \in Int /\ until \in Nat /\ LogOverlap \in Nat
        /\ capped \in BOOLEAN /\ printed \in Seq(stored) /\ K \subseteq stored /\ seen \subseteq stored
    BY <1>1, SameLogNames, RangeOfSeq DEF LogsTyped
  <1>8. \A l \in stored : l.time \in Nat /\ l.at \in Nat /\ l.time <= l.at /\ l.at <= clock
    BY <1>1 DEF LogsTyped, LinesTimed, Stored
  <1>9. Sorted(new, Q \ seen, BeforeOn(Q \ seen)) /\ Orders(BeforeOn(Q \ seen), Q \ seen)
    <2> HIDE DEF Q
    <2>1. Q \ seen \in SUBSET stored
      BY <1>5
    <2> QED BY <1>1, <2>1, InOrderIs, BeforeOrders
  <1> HIDE DEF W, Q, P, K, new
  <1>10. new \in Seq(Q \ seen) /\ new \in Seq(stored) /\ Range(new) = Q \ seen
    <2>1. new \in Seq(Q \ seen) /\ \A x \in Q \ seen : \E i \in 1 .. Len(new) : new[i] = x
      BY <1>9 DEF Sorted
    <2>2. Range(new) = {new[i] : i \in 1 .. Len(new)} /\ Range(new) \subseteq Q \ seen
      BY <2>1, RangeEquality, RangeOfSeq
    <2>3. Q \ seen \subseteq stored
      BY <1>5
    <2> QED BY <2>1, <2>2, <2>3, SeqMonotonic
  <1>11. \A i, j \in 1 .. Len(new) : new[i] = new[j] => i = j
    <2>1. Len(new) \in Nat /\ \A i \in 1 .. Len(new) : new[i] \in Q \ seen
      BY <1>10, LenProperties, ElementOfSeq
    <2>2. \A i, j \in 1 .. Len(new) : i < j => <<new[i], new[j]>> \in BeforeOn(Q \ seen)
      BY <1>9 DEF Sorted
    <2>3. \A i, j \in 1 .. Len(new) : i < j => new[i] # new[j]
      BY <1>9, <2>1, <2>2 DEF Orders
    <2>4. \A i, j \in 1 .. Len(new) : i < j \/ j < i \/ i = j
      BY <2>1
    <2> QED BY <2>3, <2>4
  <1>12. printed' \in Seq(stored) /\ Range(printed') = K \cup (Q \ seen)
    BY <1>2, <1>7, <1>10, ConcatProperties, RangeConcatenation DEF K
  <1>13. /\ since = lastUntil - LogOverlap /\ lastUntil <= until
         /\ \A l \in K : l.time <= until
         /\ begun <= watching /\ watching <= lastUntil /\ seen \subseteq K
    BY <1>1, <1>2 DEF BatchWhole, SeenRemembered, K
  <1>14. ASSUME ~capped', NEW l \in stored, since <= l.time, l.time <= until,
                l.at < until \/ l \in K
         PROVE  l \in Q
    <2>1. CASE cursor = NoLine \/ Logs!Before(cursor, l)
      BY <1>2, <1>3, <1>4, <1>6, <1>14, <2>1
    <2>2. CASE cursor # NoLine /\ ~Logs!Before(cursor, l)
      <3>1. l \in Range(batch)
        BY <1>1, <1>2, <1>14, <2>2 DEF BatchWhole, K
      <3> QED BY <1>3, <3>1
    <2> QED BY <2>1, <2>2
  <1>15. ~capped' => ~capped /\ \A l \in Q \ seen : l \notin K
    <2> SUFFICES ASSUME ~capped', NEW l \in Q \ seen, l \in K PROVE FALSE
      BY <1>2, <1>7
    <2>1. l.time >= lastUntil - LogOverlap
      BY <1>3, <1>5, <1>7, <1>8, <1>13
    <2> QED BY <1>1, <1>2, <1>7, <2>1 DEF SeenRemembered, K
  <1>16. LogsTyped'
    BY <1>1, <1>2, <1>5, <1>7, <1>12 DEF LogsTyped, Stored
  <1>17. LinesNumbered' /\ LinesTimed' /\ BatchWhole'
    BY <1>1, <1>2 DEF LinesNumbered, LinesTimed, BatchWhole
  <1>18. BatchOrdered'
    <2>1. Len(<<>>) = 0 /\ Range(<<>>) = {}
      BY DEF Range
    <2> QED BY <1>2, <2>1 DEF BatchOrdered
  <1>19. SeenRemembered'
    <2>1. begun <= watching /\ watching <= until
      BY <1>7, <1>13
    <2>2. Q \subseteq Range(printed')
      BY <1>12, <1>13
    <2>3. ASSUME ~capped', NEW l \in Range(printed'), l.time >= until - LogOverlap
          PROVE  l \in Q
      <3> SUFFICES ASSUME l \in K PROVE l \in Q
        BY <1>12
      <3>1. l \in stored /\ l.time \in Nat
        BY <1>7, <1>8
      <3>2. since <= l.time /\ l.time <= until
        BY <1>7, <1>13, <2>3, <3>1
      <3> QED BY <1>14, <2>3, <3>1, <3>2
    <2> QED BY <1>2, <2>1, <2>2, <2>3 DEF SeenRemembered
  <1>20. OnceEach'
    <2> SUFFICES ASSUME ~capped', NEW i \in 1 .. Len(printed'), NEW j \in 1 .. Len(printed'),
                        printed'[i] = printed'[j]
                 PROVE  i = j
      BY DEF OnceEach
    <2> DEFINE n == Len(printed)
               k == Len(new)
    <2>1. n \in Nat /\ k \in Nat
      BY <1>7, <1>10, LenProperties
    <2>2. /\ Len(printed') = n + k
          /\ \A x \in 1 .. n + k : printed'[x] = IF x <= n THEN printed[x] ELSE new[x - n]
      BY <1>2, <1>7, <1>10, ConcatProperties
    <2>3. \A x \in 1 .. n : printed[x] \in K
      BY <1>7, RangeEquality DEF K
    <2>4. \A x \in 1 .. k : new[x] \in Q \ seen
      BY <1>10, ElementOfSeq
    <2>5. \A x, y \in 1 .. n : printed[x] = printed[y] => x = y
      BY <1>1, <1>15 DEF OnceEach
    <2> HIDE DEF n, k
    <2>6. i \in 1 .. n + k /\ j \in 1 .. n + k
      BY <2>2
    <2>7. ASSUME NEW x \in 1 .. n + k PROVE \/ x \in 1 .. n /\ printed'[x] = printed[x]
                                            \/ x - n \in 1 .. k /\ printed'[x] = new[x - n]
      BY <2>1, <2>2
    <2>8. CASE i \in 1 .. n /\ printed'[i] = printed[i]
      BY <1>15, <2>3, <2>4, <2>5, <2>6, <2>7, <2>8
    <2>9. CASE i - n \in 1 .. k /\ printed'[i] = new[i - n]
      <3>1. j - n \in 1 .. k /\ printed'[j] = new[j - n]
        BY <1>15, <2>3, <2>4, <2>6, <2>7, <2>9
      <3>2. i - n = j - n
        BY <1>11, <2>9, <3>1 DEF k
      <3> QED BY <2>1, <2>6, <3>2
    <2> QED BY <2>6, <2>7, <2>8, <2>9
  <1>21. NoneSkipped'
    <2> SUFFICES ASSUME until > watching, ~capped', NEW l \in stored, begun < l.at, l.at < until,
                        (l.at - l.time) + (watching - begun) <= LogOverlap
                 PROVE  l \in K \cup Q
      BY <1>2, <1>12, <1>13 DEF NoneSkipped
    <2>1. l.time \in Nat /\ l.at \in Nat /\ l.time <= l.at
      BY <1>8
    <2>2. CASE since <= l.time
      <3>1. l.time <= until
        BY <1>7, <2>1
      <3> QED BY <1>14, <2>2, <3>1
    <2>3. CASE ~(since <= l.time)
      <3>1. l.at < lastUntil - (watching - begun)
        BY <1>7, <1>13, <2>1, <2>3
      <3>2. lastUntil > watching /\ l.at < lastUntil
        <4>1. \A a, b, c, x \in Nat :
                a <= b /\ b <= c /\ a < x /\ x < c - (b - a) => c > b /\ x < c
          OBVIOUS
        <4> QED BY <1>7, <1>13, <2>1, <3>1, <4>1
      <3> QED BY <1>1, <1>2, <1>15, <3>2 DEF NoneSkipped, K
    <2> QED BY <2>2, <2>3
  <1> QED BY <1>16, <1>17, <1>18, <1>19, <1>20, <1>21 DEF LogsInv

(* A line keeps its number when it is stored, and is a new one there.      *)
LEMMA LogsStore == LogsInv /\ Logs!Store => LogsInv'
  <1> SUFFICES ASSUME LogsInv, Logs!Store PROVE LogsInv'
    OBVIOUS
  <1>1. /\ LogsTyped /\ LinesNumbered /\ LinesTimed /\ BatchOrdered /\ BatchWhole
        /\ SeenRemembered /\ OnceEach /\ NoneSkipped
    BY DEF LogsInv
  <1>2. PICK l \in written :
          /\ written' = written \ {l}
          /\ stored' = stored \cup {[time |-> l.time, n |-> l.n, at |-> clock]}
    BY DEF Logs!Store
  <1>3. /\ UNCHANGED <<clock, pc, follow, since, until, cursor, batch, lastUntil, seen, printed>>
        /\ UNCHANGED <<begun, watching, capped>>
    BY DEF Logs!Store, Logs!reading, Logs!history
  <1> DEFINE m == [time |-> l.time, n |-> l.n, at |-> clock]
             U == written \cup stored
  <1>4. l \in [time : Nat, n : Nat] /\ clock \in Nat
    BY <1>1 DEF LogsTyped
  <1>5. m \in Stored /\ m.time = l.time /\ m.n = l.n /\ m.at = clock
    BY <1>4 DEF Stored
  <1>6. m # l
    <2>1. DOMAIN l = {"time", "n"} /\ DOMAIN m = {"time", "n", "at"}
      BY <1>4
    <2> QED BY <2>1
  <1> HIDE DEF m
  <1>7. m \notin U
    BY <1>1, <1>5, <1>6 DEF LinesNumbered
  <1>8. IsFiniteSet(written) /\ IsFiniteSet(stored) /\ IsFiniteSet(U)
    BY <1>1, FS_Union DEF LogsTyped
  <1>9. IsFiniteSet(written') /\ IsFiniteSet(stored')
    BY <1>2, <1>8, FS_RemoveElement, FS_AddElement DEF m
  <1>10. stored' = stored \cup {m} /\ (written \cup stored)' = (U \ {l}) \cup {m}
    <2>1. l \notin stored
      <3> SUFFICES ASSUME l \in stored PROVE FALSE
        OBVIOUS
      <3>1. l \in [time : Nat, n : Nat, at : Nat]
        BY <1>1 DEF LogsTyped, Stored
      <3>2. DOMAIN l = {"time", "n"} /\ DOMAIN l = {"time", "n", "at"}
        BY <1>4, <3>1
      <3> QED BY <3>2
    <2> QED BY <1>2, <2>1 DEF m
  <1>11. Cardinality((written \cup stored)') = Cardinality(U)
    <2> HIDE DEF U
    <2>1. IsFiniteSet(U \ {l}) /\ Cardinality(U \ {l}) = Cardinality(U) - 1 /\ Cardinality(U) \in Nat
      <3>1. l \in U
        BY DEF U
      <3> QED BY <1>8, <3>1, FS_RemoveElement, FS_CardinalityType
    <2>2. m \notin U \ {l}
      BY <1>7
    <2>3. Cardinality((U \ {l}) \cup {m}) = Cardinality(U \ {l}) + 1
      BY <2>1, <2>2, FS_AddElement
    <2>4. Cardinality((written \cup stored)') = Cardinality((U \ {l}) \cup {m})
      BY <1>10
    <2> QED BY <2>1, <2>3, <2>4
  <1>12. LinesNumbered'
    <2>1. \A x \in (written \cup stored)' : (x \in U /\ x # l) \/ x = m
      BY <1>10
    <2>2. \A x, y \in (written \cup stored)' : x.n = y.n => x = y
      <3>1. \A x, y \in U : x.n = y.n => x = y
        BY <1>1 DEF LinesNumbered
      <3>2. l \in U
        OBVIOUS
      <3> HIDE DEF U
      <3> QED BY <1>5, <2>1, <3>1, <3>2
    <2>3. \A x \in (written \cup stored)' : x.n <= Cardinality((written \cup stored)')
      <3>1. \A x \in U : x.n <= Cardinality(U)
        BY <1>1 DEF LinesNumbered
      <3>2. l \in U
        OBVIOUS
      <3> HIDE DEF U
      <3> QED BY <1>5, <1>11, <2>1, <3>1, <3>2
    <2> QED BY <2>2, <2>3 DEF LinesNumbered
  <1>13. LogsTyped'
    <2>1. stored \subseteq stored' /\ written' \subseteq written
      BY <1>2
    <2>2. batch \in Seq(stored') /\ printed \in Seq(stored')
      BY <1>1, <2>1, SeqMonotonic DEF LogsTyped
    <2>3. cursor \in stored' \cup {NoLine} /\ seen \subseteq stored'
      BY <1>1, <2>1 DEF LogsTyped
    <2>4. stored' \subseteq Stored /\ written' \subseteq [time : Nat, n : Nat]
      BY <1>1, <1>5, <1>10, <2>1 DEF LogsTyped
    <2> QED BY <1>1, <1>3, <1>9, <2>2, <2>3, <2>4 DEF LogsTyped, Stored
  <1>14. LinesTimed'
    BY <1>1, <1>2, <1>3, <1>4, <1>5, <1>10 DEF LinesTimed
  <1>15. BatchOrdered'
    BY <1>1, <1>3 DEF BatchOrdered, Logs!Before
  <1>16. m \notin Range(printed)
    BY <1>1, <1>7, RangeOfSeq DEF LogsTyped
  <1>17. until \in Nat /\ until <= clock /\ lastUntil \in Nat /\ lastUntil <= clock
    BY <1>1 DEF LogsTyped, LinesTimed
  <1>18. BatchWhole'
    <2>1. ~(m.at < until)
      BY <1>4, <1>5, <1>17
    <2> QED BY <1>1, <1>3, <1>10, <1>16, <2>1 DEF BatchWhole, Logs!Before
  <1>19. NoneSkipped'
    <2>1. ~(m.at < lastUntil)
      BY <1>4, <1>5, <1>17
    <2> QED BY <1>1, <1>3, <1>10, <2>1 DEF NoneSkipped
  <1>20. SeenRemembered' /\ OnceEach'
    BY <1>1, <1>3 DEF SeenRemembered, OnceEach
  <1> QED BY <1>12, <1>13, <1>14, <1>15, <1>18, <1>19, <1>20 DEF LogsInv

LEMMA LogsWrite == LogsInv /\ Logs!Write => LogsInv'
  <1> SUFFICES ASSUME LogsInv, Logs!Write PROVE LogsInv'
    OBVIOUS
  <1> DEFINE U == written \cup stored
             c == Cardinality(U)
             m == [time |-> clock, n |-> c + 1]
  <1>1. /\ LogsTyped /\ LinesNumbered /\ LinesTimed /\ BatchOrdered /\ BatchWhole
        /\ SeenRemembered /\ OnceEach /\ NoneSkipped
    BY DEF LogsInv
  <1>2. written' = written \cup {m}
    BY SameLogNames DEF Logs!Write
  <1>3. /\ UNCHANGED <<clock, stored, pc, follow, since, until, cursor, batch, lastUntil, seen>>
        /\ UNCHANGED <<printed, begun, watching, capped>>
    BY DEF Logs!Write, Logs!reading, Logs!history
  <1>4. IsFiniteSet(written) /\ IsFiniteSet(U) /\ c \in Nat
    BY <1>1, FS_Union, FS_CardinalityType DEF LogsTyped
  <1>5. m \in [time : Nat, n : Nat] /\ m.n = c + 1 /\ m.time = clock
    BY <1>1, <1>4 DEF LogsTyped
  <1>6. IsFiniteSet(written')
    <2> HIDE DEF m
    <2> QED BY <1>2, <1>4, FS_AddElement
  <1> HIDE DEF m
  <1>7. \A x \in U : x.n \in Nat /\ x.n <= c
    BY <1>1 DEF LogsTyped, LinesNumbered, Stored
  <1>8. m \notin U
    BY <1>4, <1>5, <1>7
  <1>9. (written \cup stored)' = U \cup {m}
    BY <1>2, <1>3
  <1> HIDE DEF U
  <1>10. Cardinality((written \cup stored)') = c + 1
    BY <1>4, <1>8, <1>9, FS_AddElement
  <1> HIDE DEF c
  <1>11. LinesNumbered'
    <2>1. \A x, y \in U \cup {m} : x.n = y.n => x = y
      <3>1. \A x, y \in U : x.n = y.n => x = y
        BY <1>1 DEF LinesNumbered, U
      <3>2. \A x \in U : x.n # m.n
        BY <1>4, <1>5, <1>7
      <3> QED BY <3>1, <3>2
    <2>2. \A x \in U \cup {m} : x.n <= c + 1
      BY <1>4, <1>5, <1>7
    <2> QED BY <1>9, <1>10, <2>1, <2>2 DEF LinesNumbered
  <1>12. LogsTyped'
    BY <1>1, <1>2, <1>3, <1>5, <1>6 DEF LogsTyped, Stored
  <1>13. LinesTimed'
    BY <1>1, <1>2, <1>3, <1>5 DEF LinesTimed, LogsTyped
  <1>14. /\ BatchOrdered' /\ BatchWhole' /\ SeenRemembered' /\ OnceEach' /\ NoneSkipped'
    BY <1>1, <1>3 DEF BatchOrdered, BatchWhole, SeenRemembered, OnceEach, NoneSkipped, Logs!Before
  <1> QED BY <1>11, <1>12, <1>13, <1>14 DEF LogsInv

LEMMA LogsWakes == LogsInv /\ Logs!Wake => LogsInv'
  <1> SUFFICES ASSUME LogsInv, Logs!Wake PROVE LogsInv'
    OBVIOUS
  <1>1. /\ LogsTyped /\ LinesNumbered /\ LinesTimed /\ SeenRemembered /\ OnceEach /\ NoneSkipped
    BY DEF LogsInv
  <1>2. /\ pc = "pause" /\ pc' = "poll"
        /\ since' = lastUntil - LogOverlap /\ until' = clock /\ cursor' = NoLine /\ batch' = <<>>
        /\ UNCHANGED <<clock, written, stored, lastUntil, seen, printed, begun, watching, capped>>
    BY DEF Logs!Wake, Logs!NewWindow, Logs!backend, Logs!history
  <1>3. clock \in Nat /\ lastUntil \in Nat /\ LogOverlap \in Nat /\ lastUntil <= clock
    BY <1>1, SameLogNames DEF LogsTyped, LinesTimed
  <1>4. Len(<<>>) = 0 /\ Range(<<>>) = {} /\ <<>> \in Seq(stored)
    BY DEF Range
  <1>5. LogsTyped'
    BY <1>1, <1>2, <1>3, <1>4 DEF LogsTyped, Stored
  <1>6. LinesNumbered' /\ LinesTimed'
    <2>1. LinesNumbered'
      BY <1>1, <1>2 DEF LinesNumbered
    <2>2. LinesTimed'
      BY <1>1, <1>2, <1>3 DEF LinesTimed
    <2> QED BY <2>1, <2>2
  <1>7. BatchOrdered'
    BY <1>2, <1>4 DEF BatchOrdered
  <1>8. BatchWhole'
    <2>1. \A l \in Range(printed) : l.time <= clock
      <3> TAKE l \in Range(printed)
      <3>1. l \in stored
        BY <1>1, RangeOfSeq DEF LogsTyped
      <3>2. l.time \in Nat /\ l.at \in Nat /\ l.time <= l.at /\ l.at <= clock
        BY <1>1, <3>1 DEF LogsTyped, LinesTimed, Stored
      <3> QED BY <1>3, <3>2
    <2> QED BY <1>2, <1>3, <2>1 DEF BatchWhole
  <1>9. SeenRemembered' /\ OnceEach' /\ NoneSkipped'
    BY <1>1, <1>2 DEF SeenRemembered, OnceEach, NoneSkipped
  <1> QED BY <1>5, <1>6, <1>7, <1>8, <1>9 DEF LogsInv

LEMMA LogsStart == LogsInv /\ Logs!Start => LogsInv'
  <1> SUFFICES ASSUME LogsInv, Logs!Start PROVE LogsInv'
    OBVIOUS
  <1>1. LogsTyped /\ LinesNumbered /\ LinesTimed /\ OnceEach
    BY DEF LogsInv
  <1>2. /\ pc' = "tail"
        /\ since' = clock - Window /\ until' = clock /\ cursor' = NoLine /\ batch' = <<>>
        /\ begun' = clock
        /\ UNCHANGED <<clock, written, stored, lastUntil, seen, printed, watching, capped>>
    BY DEF Logs!Start, Logs!NewWindow, Logs!backend
  <1>3. clock \in Nat /\ Window \in Nat
    BY <1>1, SameLogNames DEF LogsTyped
  <1>4. Len(<<>>) = 0 /\ Range(<<>>) = {} /\ <<>> \in Seq(stored)
    BY DEF Range
  <1>5. LogsTyped'
    BY <1>1, <1>2, <1>3, <1>4 DEF LogsTyped, Stored
  <1>6. LinesNumbered' /\ LinesTimed'
    <2>1. LinesNumbered'
      BY <1>1, <1>2 DEF LinesNumbered
    <2>2. LinesTimed'
      BY <1>1, <1>2, <1>3 DEF LinesTimed
    <2> QED BY <2>1, <2>2
  <1>7. BatchOrdered'
    BY <1>2, <1>4 DEF BatchOrdered
  <1>8. BatchWhole' /\ SeenRemembered' /\ OnceEach' /\ NoneSkipped'
    BY <1>1, <1>2 DEF BatchWhole, SeenRemembered, OnceEach, NoneSkipped
  <1> QED BY <1>5, <1>6, <1>7, <1>8 DEF LogsInv

LEMMA LogsInit == Logs!Init => LogsInv
  <1> SUFFICES ASSUME Logs!Init PROVE LogsInv
    OBVIOUS
  <1>1. /\ clock = 0 /\ written = {} /\ stored = {} /\ pc = "new" /\ since = 0 /\ until = 0
        /\ cursor = NoLine /\ batch = <<>> /\ lastUntil = 0 /\ seen = {} /\ printed = <<>>
        /\ begun = 0 /\ watching = 0 /\ capped = FALSE
    BY DEF Logs!Init
  <1>2. Len(<<>>) = 0 /\ Range(<<>>) = {} /\ <<>> \in Seq(stored) /\ IsFiniteSet({})
    BY FS_EmptySet DEF Range
  <1>3. LogsTyped
    <2>1. /\ clock \in Nat /\ begun \in Nat /\ watching \in Nat /\ lastUntil \in Nat
          /\ since \in Int /\ until \in Nat /\ capped \in BOOLEAN
      <3>1. /\ clock = 0 /\ begun = 0 /\ watching = 0 /\ lastUntil = 0
            /\ since = 0 /\ until = 0
        BY <1>1
      <3>2. capped \in BOOLEAN
        BY <1>1
      <3>3. 0 \in Nat /\ 0 \in Int
        OBVIOUS
      <3> QED BY ONLY <3>1, <3>2, <3>3
    <2>2. /\ written \subseteq [time : Nat, n : Nat] /\ stored \subseteq Stored /\ seen \subseteq stored
          /\ IsFiniteSet(written) /\ IsFiniteSet(stored) /\ cursor \in stored \cup {NoLine}
      BY <1>1, <1>2
    <2>3. batch \in Seq(stored) /\ printed \in Seq(stored)
      BY <1>1, <1>2
    <2>4. pc \in {"new", "tail", "pause", "poll", "ended"}
      BY <1>1
    <2> QED BY <2>1, <2>2, <2>3, <2>4 DEF LogsTyped
  <1>4. LinesNumbered /\ LinesTimed
    BY <1>1 DEF LinesNumbered, LinesTimed
  <1>5. BatchOrdered /\ OnceEach
    BY <1>1, <1>2 DEF BatchOrdered, OnceEach
  <1>6. BatchWhole /\ SeenRemembered /\ NoneSkipped
    BY <1>1 DEF BatchWhole, SeenRemembered, NoneSkipped
  <1> QED BY <1>3, <1>4, <1>5, <1>6 DEF LogsInv

(* What the parts of the invariant depend on.                              *)
LEMMA LogsQuiet ==
  /\ LinesNumbered /\ UNCHANGED <<written, stored>> => LinesNumbered'
  /\ LinesTimed /\ UNCHANGED <<clock, written, stored, until, begun, watching, lastUntil>>
       => LinesTimed'
  /\ BatchOrdered /\ UNCHANGED <<batch, cursor, since>> => BatchOrdered'
  /\ BatchWhole /\ UNCHANGED <<pc, since, until, lastUntil, stored, printed, cursor, batch>>
       => BatchWhole'
  /\ SeenRemembered /\ UNCHANGED <<pc, begun, watching, lastUntil, seen, printed, capped>>
       => SeenRemembered'
  /\ OnceEach /\ UNCHANGED <<printed, capped>> => OnceEach'
  /\ NoneSkipped /\ UNCHANGED <<pc, lastUntil, watching, begun, capped, stored, printed>>
       => NoneSkipped'
  <1>1. LinesNumbered /\ UNCHANGED <<written, stored>> => LinesNumbered'
    BY DEF LinesNumbered
  <1>2. LinesTimed /\ UNCHANGED <<clock, written, stored, until, begun, watching, lastUntil>>
          => LinesTimed'
    BY DEF LinesTimed
  <1>3. BatchOrdered /\ UNCHANGED <<batch, cursor, since>> => BatchOrdered'
    BY DEF BatchOrdered, Logs!Before
  <1>4. BatchWhole /\ UNCHANGED <<pc, since, until, lastUntil, stored, printed, cursor, batch>>
          => BatchWhole'
    BY DEF BatchWhole, Logs!Before
  <1>5. SeenRemembered /\ UNCHANGED <<pc, begun, watching, lastUntil, seen, printed, capped>>
          => SeenRemembered'
    BY DEF SeenRemembered
  <1>6. OnceEach /\ UNCHANGED <<printed, capped>> => OnceEach'
    BY DEF OnceEach
  <1>7. NoneSkipped /\ UNCHANGED <<pc, lastUntil, watching, begun, capped, stored, printed>>
          => NoneSkipped'
    BY DEF NoneSkipped
  <1> QED BY <1>1, <1>2, <1>3, <1>4, <1>5, <1>6, <1>7

LEMMA LogsStep == LogsInv /\ Logs!Next => LogsInv'
  <1> SUFFICES ASSUME LogsInv, Logs!Next PROVE LogsInv'
    OBVIOUS
  <1>1. CASE Logs!Start
    BY <1>1, LogsStart
  <1>2. CASE Logs!NextPage
    BY <1>2, LogsReadsPage
  <1>3. CASE Logs!ShowTail
    BY <1>3, LogsShowsTail
  <1>4. CASE Logs!Wake
    BY <1>4, LogsWakes
  <1>5. CASE Logs!ShowNew
    BY <1>5, LogsShowsNew
  <1>6. CASE Logs!End
    <2>1. /\ pc' = "ended"
          /\ UNCHANGED <<clock, written, stored, since, until, cursor, batch, lastUntil, seen>>
          /\ UNCHANGED <<printed, begun, watching, capped>>
      BY <1>6 DEF Logs!End, Logs!backend, Logs!reading, Logs!history
    <2>2. LogsTyped'
      BY <2>1 DEF LogsInv, LogsTyped, Stored
    <2>3. LinesNumbered' /\ LinesTimed'
      BY <2>1, LogsQuiet DEF LogsInv
    <2>4. BatchOrdered' /\ OnceEach'
      BY <2>1, LogsQuiet DEF LogsInv
    <2>5. BatchWhole' /\ SeenRemembered' /\ NoneSkipped'
      BY <2>1 DEF BatchWhole, SeenRemembered, NoneSkipped
    <2> QED BY <2>2, <2>3, <2>4, <2>5 DEF LogsInv
  <1>7. CASE Logs!Tick
    <2>1. /\ clock' = clock + 1
          /\ UNCHANGED <<written, stored, pc, since, until, cursor, batch, lastUntil, seen>>
          /\ UNCHANGED <<printed, begun, watching, capped>>
      BY <1>7 DEF Logs!Tick, Logs!backend, Logs!reading, Logs!history
    <2>2. LogsTyped'
      BY <2>1 DEF LogsInv, LogsTyped, Stored
    <2>3. LinesTimed'
      <3>1. \A x \in Nat : x <= clock => x <= clock'
        BY <2>1 DEF LogsInv, LogsTyped
      <3>2. \A l \in written : l.time \in Nat
        BY DEF LogsInv, LogsTyped
      <3>3. \A l \in stored : l.at \in Nat
        BY DEF LogsInv, LogsTyped, Stored
      <3> QED BY <2>1, <3>1, <3>2, <3>3 DEF LogsInv, LogsTyped, LinesTimed
    <2>4. LinesNumbered' /\ BatchOrdered' /\ OnceEach'
      BY <2>1, LogsQuiet DEF LogsInv
    <2>5. BatchWhole' /\ SeenRemembered' /\ NoneSkipped'
      BY <2>1, LogsQuiet DEF LogsInv
    <2> QED BY <2>2, <2>3, <2>4, <2>5 DEF LogsInv
  <1>8. CASE Logs!Write
    BY <1>8, LogsWrite
  <1>9. CASE Logs!Store
    BY <1>9, LogsStore
  <1> QED BY <1>1, <1>2, <1>3, <1>4, <1>5, <1>6, <1>7, <1>8, <1>9
          DEF Logs!Next, Logs!Command, Logs!World

LEMMA LogsSafe == LogsInv => Logs!PrintedOnce /\ Logs!NoneMissed
  <1> SUFFICES ASSUME LogsInv PROVE Logs!PrintedOnce /\ Logs!NoneMissed
    OBVIOUS
  <1>1. Logs!PrintedOnce
    <2>1. DOMAIN printed = 1 .. Len(printed)
      BY LenProperties DEF LogsInv, LogsTyped
    <2> QED BY <2>1 DEF LogsInv, OnceEach, Logs!PrintedOnce, Logs!IsInjective
  <1>2. Logs!NoneMissed
    BY SameLogNames DEF LogsInv, NoneSkipped, Logs!NoneMissed
  <1> QED BY <1>1, <1>2

(* `app logs --follow` prints no line twice, and between two polls has     *)
(* printed every line that was stored in time, unless a poll was cut short *)
(* by the page cap: for every tail, page, overlap and window.              *)
THEOREM LogsPrintedWhole == MCSpec => []LogsWhole
  <1> DEFINE I == command = "app logs" => LogsInv
  <1>1. MCInit => I
    BY LogsInit DEF MCInit
  <1>2. I /\ [MCNext]_MCvars => I'
    <2> SUFFICES ASSUME I, [MCNext]_MCvars PROVE I'
      OBVIOUS
    <2>1. CASE FollowLogs
      BY <2>1, LogsStep DEF FollowLogs
    <2>2. CASE UNCHANGED MCvars
      <3>1. /\ UNCHANGED <<command, clock, written, stored, since, until, cursor, batch, pc>>
            /\ UNCHANGED <<lastUntil, seen, printed, begun, watching, capped>>
        BY <2>2 DEF MCvars, onlyLogs
      <3>2. LogsInv => LogsTyped'
        BY <3>1 DEF LogsInv, LogsTyped, Stored
      <3>3. LogsInv => LogsInv'
        BY <3>1, <3>2, LogsQuiet DEF LogsInv
      <3> QED BY <3>1, <3>3
    <2>3. CASE MCNext /\ ~FollowLogs
      BY <2>3 DEF MCNext, FollowTask, FollowInbox, SettingUp, Bootstrapping, Deciding, Planning
    <2> QED BY <2>1, <2>2, <2>3
  <1>3. I => LogsWhole
    BY LogsSafe DEF LogsWhole
  <1> QED BY <1>1, <1>2, <1>3, PTL DEF MCSpec
=============================================================================
