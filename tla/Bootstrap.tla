----------------------------- MODULE Bootstrap -----------------------------
(***************************************************************************)
(* `astro operator cluster bootstrap`: the chart of the prerequisites is   *)
(* installed in a cluster, or upgraded there, with helm, through a         *)
(* kubeconfig that may be a temporary file; what came of it is recorded on *)
(* the control plane. Several operators work on one release; a run may be  *)
(* killed at any step, and helm's release then stays as it is. People      *)
(* uninstall a release, as they are told to or of their own accord.        *)
(*                                                                         *)
(* Helm installs under a name that has no release, and upgrades a release  *)
(* that no operation is pending on and that has been deployed once. Its    *)
(* work on a release may be cut off at any point: the run is killed, or    *)
(* the cluster is lost, so that not even its undoing gets through.         *)
(***************************************************************************)
EXTENDS Naturals

CONSTANTS
  Operators,
  MaxRevision,  \* bound: revisions of a release
  NoRelease

RevisionsAssumption == MaxRevision \in Nat \ {0}

VARIABLES
  namespace,    \* it exists
  release,      \* the last revision: number, status, deployed once, owner, cut
  badge,        \* the last record: "none", "succeeded", "failed"
  pc,           \* per operator: the step its run takes next; "idle"
  options,      \* --upgrade, --dry-run
  temp,         \* a kubeconfig of the run is in the temporary directory
  found,        \* the release that stopped the run
  result,       \* of Install: "none", "succeeded", "failed"
  advice,       \* that goes with it: "none", "upgrade", "uninstall"
  killed,       \* history: runs of the operator have been killed
  deployed      \* history: a release has been deployed

cluster == <<namespace, release, deployed>>
run == <<pc, options, temp, found, result, advice, killed>>
vars == <<cluster, badge, run>>

(* cut is history: what was done to the release last did not get through.  *)
Rev(n, status, good, by) ==
  [rev |-> n, status |-> status, good |-> good, by |-> by, cut |-> FALSE]
Pending == {"pending-install", "pending-upgrade"}
Statuses == Pending \cup {"deployed", "failed", "uninstalling"}

NoOptions == [upgrade |-> FALSE, dry |-> FALSE]

-----------------------------------------------------------------------------
Goto(o, next) == pc' = [pc EXCEPT ![o] = next] /\ UNCHANGED <<options, temp, killed>>

(* Install has returned; a dry run has nothing to record. *)
Returns(o, what) ==
  /\ Goto(o, "record")
  /\ result' = [result EXCEPT ![o] = what]

(* The run ends, and the temporary file with it. *)
Forget(o) ==
  /\ pc' = [pc EXCEPT ![o] = "idle"]
  /\ options' = [options EXCEPT ![o] = NoOptions]
  /\ found' = [found EXCEPT ![o] = NoRelease]
  /\ result' = [result EXCEPT ![o] = "none"] /\ advice' = [advice EXCEPT ![o] = "none"]

(* A plausible slip: the file is removed only after a success. *)
EndIfGood(o) ==
  Forget(o) /\ temp' = [temp EXCEPT ![o] = @ /\ result[o] # "succeeded"] /\ UNCHANGED killed
End(o) ==
  Forget(o) /\ temp' = [temp EXCEPT ![o] = FALSE] /\ UNCHANGED killed

(* The cluster is looked up, and the kubeconfig written if it came inline. *)
Begin(o) ==
  /\ pc[o] = "idle"
  /\ \E upgrade, dry, inline \in BOOLEAN :
       /\ options' = [options EXCEPT ![o] = [upgrade |-> upgrade, dry |-> dry]]
       /\ temp' = [temp EXCEPT ![o] = @ \/ inline]
       /\ pc' = [pc EXCEPT ![o] = IF dry THEN "render" ELSE "namespace"]
  /\ UNCHANGED <<cluster, badge, found, result, advice, killed>>

(* Unreadable values or chart, before Install: nothing is recorded.        *)
Unprepared(o) ==
  /\ pc[o] \in {"render", "namespace"} /\ End(o)
  /\ UNCHANGED <<cluster, badge>>

Render(o) == pc[o] = "render" /\ End(o) /\ UNCHANGED <<cluster, badge>>

(* ensureNamespace: a look, and a request that fails if another has made it. *)
LookNamespace(o) ==
  /\ pc[o] = "namespace" /\ Goto(o, IF namespace THEN "look" ELSE "create")
  /\ UNCHANGED <<cluster, badge, found, result, advice>>

CreateNamespace(o) ==
  /\ pc[o] = "create" /\ namespace' = TRUE
  /\ IF namespace THEN Returns(o, "failed") ELSE Goto(o, "look") /\ UNCHANGED result
  /\ UNCHANGED <<release, deployed, badge, found, advice>>

(* A cluster that cannot be reached: reported and recorded as failed. One   *)
(* that is lost while helm is at work: InstallFails and UpgradeFails.      *)
Unreachable(o) ==
  /\ pc[o] \in {"namespace", "create", "look", "install", "upgrade"} /\ Returns(o, "failed")
  /\ UNCHANGED <<cluster, badge, found, advice>>

(* A plausible slip: an install that was interrupted is not counted. *)
IsFailedFirst(r) == r.rev = 1 /\ r.status = "failed"
IsWedged(r) == r.rev = 1 /\ r.status \in {"failed", "pending-install", "uninstalling"}

Look(o) ==
  /\ pc[o] = "look"
  /\ \/ /\ release = NoRelease /\ Goto(o, "install")
        /\ UNCHANGED <<found, result, advice>>
     \/ /\ release # NoRelease /\ options[o].upgrade /\ Goto(o, "upgrade")
        /\ UNCHANGED <<found, result, advice>>
     \/ /\ release # NoRelease /\ ~options[o].upgrade /\ Returns(o, "failed")
        /\ found' = [found EXCEPT ![o] = release]
        /\ advice' =
             [advice EXCEPT ![o] = IF IsWedged(release) THEN "uninstall" ELSE "upgrade"]
  /\ UNCHANGED <<cluster, badge>>

-----------------------------------------------------------------------------
(* Helm. *)
StartInstall(o) ==
  /\ pc[o] = "install"
  /\ \/ /\ release # NoRelease /\ Returns(o, "failed") /\ UNCHANGED release
     \/ /\ release = NoRelease /\ Goto(o, "installing") /\ UNCHANGED result
        /\ release' = Rev(1, "pending-install", FALSE, o)
  /\ UNCHANGED <<namespace, deployed, badge, found, advice>>

Upgradable(r) ==
  r # NoRelease /\ r.status \notin Pending \cup {"uninstalling"} /\ r.good

StartUpgrade(o) ==
  /\ pc[o] = "upgrade"
  /\ \/ /\ ~Upgradable(release) /\ Returns(o, "failed") /\ UNCHANGED release
     \/ /\ Upgradable(release) /\ release.rev < MaxRevision
        /\ Goto(o, "upgrading") /\ UNCHANGED result
        /\ release' = Rev(release.rev + 1, "pending-upgrade", TRUE, o)
  /\ UNCHANGED <<namespace, deployed, badge, found, advice>>

Mine(o) == release # NoRelease /\ release.by = o /\ release.status \in Pending

Deployed(o) ==
  /\ pc[o] \in {"installing", "upgrading"} /\ Mine(o)
  /\ release' = Rev(release.rev, "deployed", TRUE, o) /\ deployed' = TRUE
  /\ Returns(o, "succeeded")
  /\ UNCHANGED <<namespace, badge, found, advice>>

(* A plausible slip: a failed install is not rolled back (Atomic). *)
LeaveFailed(o) ==
  release' = IF Mine(o) THEN [release EXCEPT !.status = "failed"] ELSE release

(* An uninstall of what is under the name, whoever made it. *)
Cut(r, statuses) ==
  IF r = NoRelease THEN {} ELSE {[r EXCEPT !.status = s, !.cut = TRUE] : s \in statuses}
StillThere(r) == Cut(r, {r.status, "uninstalling"})

RollBack(o) ==
  release' \in {NoRelease} \cup StillThere(release)
                 \cup IF Mine(o) THEN Cut(release, {"failed"}) ELSE {}

(* An install that fails, or times out, is removed again, if that gets     *)
(* through: the cluster may be what has failed.                            *)
InstallFails(o) ==
  /\ pc[o] = "installing" /\ RollBack(o)
  /\ Returns(o, "failed")
  /\ UNCHANGED <<namespace, deployed, badge, found, advice>>

(* An upgrade that fails is marked so, if that gets through. *)
UpgradeFails(o) ==
  /\ pc[o] = "upgrading"
  /\ release' \in IF Mine(o)
                   THEN {[release EXCEPT !.status = "failed"], [release EXCEPT !.cut = TRUE]}
                   ELSE {release}
  /\ Returns(o, "failed")
  /\ UNCHANGED <<namespace, deployed, badge, found, advice>>

(* recordBootstrapRun; a record that cannot be made is warned about. *)
Record(o) ==
  /\ pc[o] = "record" /\ End(o)
  /\ badge' \in {badge, result[o]}
  /\ UNCHANGED cluster

Working(o) == pc[o] \in {"installing", "upgrading"}

Kill(o) ==
  /\ pc[o] # "idle" /\ Forget(o)
  /\ killed' = [killed EXCEPT ![o] = TRUE]
  /\ release' = IF Working(o) /\ Mine(o) THEN [release EXCEPT !.cut = TRUE] ELSE release
  /\ UNCHANGED <<namespace, deployed, badge, temp>>

(* Somebody clears a release, or sets about it. *)
Uninstall ==
  /\ release # NoRelease
  /\ release' \in {NoRelease} \cup Cut(release, {"uninstalling"})
  /\ UNCHANGED <<namespace, deployed, badge, run>>

(* What earlier runs have left in the cluster: nothing, or a first install *)
(* that came to nothing and was not removed.                               *)
LeftBefore ==
  {NoRelease} \cup
  UNION {Cut(Rev(1, "pending-install", FALSE, o), {"pending-install", "failed", "uninstalling"}) :
           o \in Operators}

Init ==
  /\ namespace \in BOOLEAN /\ badge = "none" /\ release \in LeftBefore /\ deployed = FALSE
  /\ pc = [o \in Operators |-> "idle"]
  /\ options = [o \in Operators |-> NoOptions]
  /\ temp = [o \in Operators |-> FALSE] /\ found = [o \in Operators |-> NoRelease]
  /\ result = [o \in Operators |-> "none"] /\ advice = [o \in Operators |-> "none"]
  /\ killed = [o \in Operators |-> FALSE]

Command(o) ==
  \/ Begin(o)
  \/ Unprepared(o)
  \/ Render(o)
  \/ LookNamespace(o)
  \/ CreateNamespace(o)
  \/ Unreachable(o)
  \/ Look(o)
  \/ StartInstall(o)
  \/ StartUpgrade(o)
  \/ Deployed(o)
  \/ InstallFails(o)
  \/ UpgradeFails(o)
  \/ Record(o)
  \/ Kill(o)

Next == Uninstall \/ \E o \in Operators : Command(o)

Spec == Init /\ [][Next]_vars

-----------------------------------------------------------------------------
(* A release that nobody is at work on can be gone on from, or what was    *)
(* done to it last was cut off: an install that merely fails leaves none   *)
(* behind, and an upgrade that fails one that can be upgraded (#1707).     *)
NoWedge ==
  release # NoRelease /\ ~Working(release.by) => Upgradable(release) \/ release.cut

(* Where it was cut off, the advice leads out and not in a circle. Who is  *)
(* pointed at --upgrade has found a release that was deployed once, and    *)
(* that can be upgraded unless an upgrade of it or the uninstall of a later *)
(* revision was under way or cut off; who is told to uninstall has found a *)
(* first revision that cannot be upgraded.                                 *)
AdviceLeadsOut ==
  \A o \in Operators :
    /\ advice[o] = "upgrade" =>
         /\ found[o].good
         /\ \/ Upgradable(found[o])
            \/ found[o].status = "pending-upgrade"
            \/ found[o].status = "uninstalling" /\ found[o].rev > 1
    /\ advice[o] = "uninstall" => found[o].rev = 1 /\ ~Upgradable(found[o])

(* Runs that end of themselves leave no kubeconfig behind, and what the    *)
(* control plane shows as a success was one.                               *)
NoTrace ==
  /\ \A o \in Operators : pc[o] = "idle" /\ ~killed[o] => ~temp[o]
  /\ badge = "succeeded" => deployed
=============================================================================
