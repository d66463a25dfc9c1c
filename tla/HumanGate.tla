----------------------------- MODULE HumanGate -----------------------------
(***************************************************************************)
(* `astro workflow gate`: people decide about one human gate of a run,     *)
(* again and again if need be (gate-status only reads). A request for a    *)
(* decision may be lost, applied after its sender gave up, or answered     *)
(* with what somebody else decided; the stage may be started anew, as      *)
(* another Temporal run, between a review and the decision. The server     *)
(* admits one decision for a Temporal run and records it later; its answer *)
(* carries the gate's state.                                               *)
(***************************************************************************)
EXTENDS Naturals, FiniteSets

CONSTANTS
  People,
  Notes,
  None,
  MaxRuns,      \* bound: Temporal runs of the stage
  MaxCalls      \* bound: decisions sent

ASSUME BoundsAssumption == MaxRuns \in Nat \ {0} /\ MaxCalls \in Nat
ASSUME NoneAssumption == None \notin People /\ None \notin Notes

Decisions == {"approved", "rejected"}
TemporalRuns == 1 .. MaxRuns
Calls == 1 .. MaxCalls
Review == [by : People, run : TemporalRuns, decision : Decisions, note : Notes]

VARIABLES
  current,      \* the stage's Temporal run
  admitted,     \* per Temporal run: the review admitted, or None
  recorded,     \* per Temporal run: the outcome persisted, or None
  closed,       \* the Temporal runs that no longer take a decision
  calls,        \* the reviews sent, in order: what became of each
  inFlight,     \* the calls whose request is on its way
  answers       \* per call: the runs its answer may be about, or None

gate == <<current, admitted, recorded, closed>>
vars == <<gate, calls, inFlight, answers>>

NoReview == [by |-> None, run |-> 0, decision |-> None, note |-> None]
NoCall == [review |-> NoReview, outcome |-> "none"]

-----------------------------------------------------------------------------
(* requestState, for somebody who asks. *)
StateOf(run) ==
  IF recorded[run] # None THEN "recorded"
  ELSE IF admitted[run] # None THEN "requested"
  ELSE IF run \in closed THEN "closed" ELSE "not_requested"

Receipt(run, asker) ==
  [run |-> run, state |-> StateOf(run), recorded |-> recorded[run],
   requested |-> IF admitted[run] = None THEN None ELSE admitted[run].decision,
   note |-> IF admitted[run] = None THEN None ELSE admitted[run].note,
   mine |-> admitted[run] # None /\ admitted[run].by = asker]

NotShown(run) ==
  [run |-> run, state |-> "unknown", recorded |-> None, requested |-> None,
   note |-> None, mine |-> FALSE]

(* runWorkflowGate: one request, for the Temporal run that was reviewed.   *)
Decide ==
  /\ \E n \in Calls, r \in Review :
       /\ calls[n] = NoCall /\ \A k \in Calls : k < n => calls[k] # NoCall
       /\ r.run <= current
       /\ calls' = [calls EXCEPT ![n] = [review |-> r, outcome |-> "sent"]]
       /\ inFlight' = inFlight \cup {n}
  /\ UNCHANGED <<gate, answers>>

(* The server. *)
Admits(r) == r.run = current /\ r.run \notin closed /\ admitted[r.run] = None

Serve ==
  /\ \E n \in inFlight :
       LET r == calls[n].review IN
       /\ admitted' = IF Admits(r) THEN [admitted EXCEPT ![r.run] = r] ELSE admitted
       /\ inFlight' = inFlight \ {n}
       /\ answers' = [answers EXCEPT ![n] = {r.run, current}]
  /\ UNCHANGED <<current, recorded, closed, calls>>

Record ==
  /\ \E r \in TemporalRuns :
       /\ admitted[r] # None /\ recorded[r] = None
       /\ recorded' = [recorded EXCEPT ![r] = admitted[r].decision]
  /\ UNCHANGED <<current, admitted, closed, calls, inFlight, answers>>

(* The gate times out, or its run is over. *)
Close ==
  /\ closed' = closed \cup {current}
  /\ UNCHANGED <<current, admitted, recorded, calls, inFlight, answers>>

StartAnew ==
  /\ current < MaxRuns
  /\ current' = current + 1
  /\ closed' = closed \cup {current}
  /\ UNCHANGED <<admitted, recorded, calls, inFlight, answers>>

-----------------------------------------------------------------------------
(* What the command makes of a receipt. *)
SameRun(g, r) == g.run = r.run

(* A plausible slip: it is enough that the decision is the same. *)
ConfirmsDecision(g, r) ==
  /\ g.requested = r.decision
  /\ g.state \in {"requested", "recorded"}
  /\ g.state = "recorded" => g.recorded = r.decision
Confirms(g, r) ==
  /\ g.requested = r.decision /\ g.note = r.note /\ g.mine
  /\ g.state \in {"requested", "recorded"}
  /\ g.state = "recorded" => g.recorded = r.decision

Reports(n, outcome) ==
  /\ calls' = [calls EXCEPT ![n].outcome = outcome]
  /\ UNCHANGED <<gate, inFlight, answers>>

(* The answer arrives: as the gate is by then, of the run reviewed or, from *)
(* a server that has started it anew, of the current one.                  *)
Answered ==
  \E n \in Calls :
    /\ calls[n].outcome = "sent" /\ answers[n] # None
    /\ \E run \in answers[n] :
         \E g \in {Receipt(run, calls[n].review.by), NotShown(run)} :
           Reports(n, IF SameRun(g, calls[n].review) /\ Confirms(g, calls[n].review)
                        THEN "confirmed" ELSE "unconfirmed")

(* Refused, or no answer in time: "decision delivery is unconfirmed". *)
GiveUp ==
  \E n \in Calls : calls[n].outcome = "sent" /\ Reports(n, "unconfirmed")

Init ==
  /\ current = 1 /\ closed = {}
  /\ admitted = [r \in TemporalRuns |-> None] /\ recorded = [r \in TemporalRuns |-> None]
  /\ calls = [n \in Calls |-> NoCall] /\ inFlight = {}
  /\ answers = [n \in Calls |-> None]

Command ==
  \/ Decide
  \/ Answered
  \/ GiveUp

Server ==
  \/ Serve
  \/ Record
  \/ Close
  \/ StartAnew

Next == Command \/ Server

Spec == Init /\ [][Next]_vars

-----------------------------------------------------------------------------
(* A person whose decision is confirmed has decided the gate: the decision *)
(* admitted for the Temporal run that was reviewed is theirs, with their   *)
(* note, nothing else is ever recorded for it, and no other person has     *)
(* been told the same: whatever was lost, late or sent again in between.   *)
ConfirmedIsAdmitted ==
  \A n \in Calls :
    calls[n].outcome = "confirmed" =>
      LET r == calls[n].review IN
      /\ admitted[r.run] = r /\ recorded[r.run] \in {None, r.decision}
      /\ \A k \in Calls : calls[k].outcome = "confirmed" /\ calls[k].review.run = r.run =>
           calls[k].review.by = r.by
=============================================================================
