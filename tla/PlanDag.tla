------------------------------ MODULE PlanDag ------------------------------
(***************************************************************************)
(* `astro plan` and `agent dispatch --spec`: the stories of a brain's      *)
(* manifest, which of them are ready, and the dispatch of one that is. The *)
(* manifest is read at one commit; by the time a story of it is dispatched *)
(* others may have been started, finished, parked or given up in later     *)
(* commits.                                                                *)
(***************************************************************************)
EXTENDS Naturals, FiniteSets

CONSTANTS
  Stories, Groups,
  Unknown,      \* an id that is not in the manifest
  None,         \* no parent
  MaxDeps       \* bound: dependencies of one node

PlanAssumption ==
  /\ IsFiniteSet(Stories) /\ Stories \cap Groups = {}
  /\ Unknown \notin Stories \cup Groups /\ None \notin Stories \cup Groups

Nodes == Stories \cup Groups
SmallSets(S) == {D \in SUBSET S : Cardinality(D) <= MaxDeps}

VARIABLES
  parent,       \* per node
  dependsOn,    \* per node
  labelled,     \* the stories with exactly one repo label
  status,       \* per story, at the latest commit
  read,         \* the statuses at the commit that was read, or None
  sent          \* history: a story is dispatched that had been before

manifest == <<parent, dependsOn, labelled>>
vars == <<manifest, status, read, sent>>

-----------------------------------------------------------------------------
(* Decode. *)
UpOnce(S) == {parent[n] : n \in S \cap Nodes} \ {None}
(* The loops up the parents: what is in every set they cannot leave. *)
Ancestors(n) ==
  {g \in Groups : \A C \in SUBSET Groups : UpOnce({n} \cup C) \subseteq C => g \in C}

Descendants(g) == {s \in Stories : g \in Ancestors(s)}

(* A plausible slip: what a group depends on is not inherited. *)
NotInherited(s) == dependsOn[s]
Inherited(s) == dependsOn[s] \cup UNION {dependsOn[a] : a \in Ancestors(s) \cap Nodes}

(* A plausible slip: a group stands for the stories right under it. *)
Children(d) == IF d \in Stories THEN {d} ELSE {s \in Stories : parent[s] = d}
Expanded(d) == IF d \in Stories THEN {d} ELSE Descendants(d)

Dependencies(s) == UNION {Expanded(d) : d \in Inherited(s) \ {Unknown}}

NoParentCycle == \A n \in Nodes : n \notin Ancestors(n)
Resolved ==
  \A s \in Stories : \A d \in Inherited(s) : d # Unknown /\ Expanded(d) # {}

(* The walk over the stories, as what it finds: one that depends on itself. *)
Behind(s) ==
  {t \in Stories :
    \A C \in SUBSET Stories :
      Dependencies(s) \cup UNION {Dependencies(u) : u \in C} \subseteq C => t \in C}

(* A plausible slip: only a story that names itself is found. *)
NotOnItself == \A s \in Stories : s \notin Dependencies(s)
NoCycle == \A s \in Stories : s \notin Behind(s)

Decodes == NoParentCycle /\ Resolved /\ NoCycle

BlockedBy(s, at) == {d \in Dependencies(s) : at[d] # "done"}

StateOf(s, at) ==
  IF at[s] # "planned" THEN at[s]
  ELSE IF BlockedBy(s, at) = {} /\ s \in labelled THEN "ready" ELSE "blocked"

-----------------------------------------------------------------------------
(* openPlanSource and readPlan: one commit, and everything read is of it.  *)
ReadPlan ==
  /\ read' = status
  /\ UNCHANGED <<manifest, status, sent>>

(* specEnvelope, and the dispatch of what it compiled. *)
Dispatch ==
  /\ read # None
  /\ \E s \in Stories :
       /\ StateOf(s, read) = "ready"
       /\ sent' = sent \cup {s}
       /\ status' = IF status[s] = "planned" THEN [status EXCEPT ![s] = "running"] ELSE status
  /\ UNCHANGED <<manifest, read>>

(* What later commits say. *)
Commit(s, from, to) ==
  /\ status[s] = from
  /\ status' = [status EXCEPT ![s] = to]
  /\ UNCHANGED <<manifest, read, sent>>

Finish == \E s \in Stories : Commit(s, "running", "done")
GiveUp == \E s \in Stories : Commit(s, "running", "planned")
Park == \E s \in Stories : Commit(s, "planned", "parked")

(* A manifest that does not decode is an error, and nothing follows from   *)
(* it; nor from one with an unknown parent, or a second node of an id.     *)
Init ==
  /\ parent \in [Nodes -> Groups \cup {None}] /\ \A n \in Nodes : parent[n] # n
  /\ dependsOn \in [Nodes -> SmallSets(Nodes \cup {Unknown})]
  /\ Decodes
  /\ labelled \in {Stories, Stories \ {CHOOSE s \in Stories : TRUE}}
  /\ status = [s \in Stories |-> "planned"] /\ read = None /\ sent = {}

Next ==
  \/ ReadPlan
  \/ Dispatch
  \/ Finish
  \/ GiveUp
  \/ Park

Spec == Init /\ [][Next]_vars

-----------------------------------------------------------------------------
(* What the manifest says: a story waits for every story that it, or a     *)
(* group it is in, names, or that is in a group so named.                  *)
Within(n) == {n} \cup Ancestors(n)
MustWait(s, t) == \E x \in Within(s) : \E y \in Within(t) : y \in dependsOn[x]

(* A story is dispatched only when all it waits for is done, and what that *)
(* waited for before it: though the manifest it is looked up in is stale.  *)
InDependencyOrder ==
  \A s \in sent : \A t \in Stories : MustWait(s, t) => status[t] = "done" /\ t \in sent

(* A manifest that is accepted can be worked off: while no story runs, is  *)
(* parked or lacks its label, one that is not done is ready.               *)
NeverStuck ==
  labelled = Stories /\ (\A s \in Stories : status[s] \in {"planned", "done"}) =>
    \/ \A s \in Stories : status[s] = "done"
    \/ \E s \in Stories : StateOf(s, status) = "ready"
=============================================================================
