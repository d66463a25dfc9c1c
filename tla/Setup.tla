------------------------------- MODULE Setup -------------------------------
(***************************************************************************)
(* A command that makes several changes, one after the other, and stops at *)
(* the first that fails; it is then run again. A request whose answer is   *)
(* lost may still be carried out, before or after the next run; a process  *)
(* may be killed; others change the same things. What a step does:         *)
(*                                                                         *)
(*   "new"    a request that makes a new object every time                 *)
(*   "set"    a request after which the thing is as wanted                 *)
(*   "either" the thing is read first: a request to change it, if it is    *)
(*            there and not as wanted, or to make it, whose name is taken  *)
(*            once                                                         *)
(*   "upsert" the same, with a request to change it also if it is as wanted*)
(*   "file"   a file is written unless one is there, or with --force       *)
(*                                                                         *)
(* `planned`: all reads come before the first change. `stops`: the sets of *)
(* steps that flags select (--dry-run, --no-run, --skip-..., --only).      *)
(***************************************************************************)
EXTENDS Naturals, Sequences, FiniteSets

CONSTANTS
  MaxRuns,      \* bound: runs of the command
  MaxTurns      \* bound: changes by others

SetupBounds == MaxRuns \in Nat \ {0} /\ MaxTurns \in Nat

Kinds == {"new", "set", "either", "upsert", "file"}
Looks == {"either", "upsert", "file"}
Row == [steps : Seq(Kinds), planned : BOOLEAN, stops : SUBSET SUBSET Nat]

(* Preview and bindings are read; import, create, enable, start. *)
RunManifest ==
  [steps |-> <<"new", "new", "set", "new">>, planned |-> TRUE,
   stops |-> {{}, {1, 2}, {1, 2, 3, 4}}]
(* Webhook, secrets, workflow file. *)
CiSetup == [steps |-> <<"set", "set", "set">>, planned |-> FALSE, stops |-> SUBSET (1 .. 3)]
Apply == [steps |-> <<"either", "either">>, planned |-> TRUE, stops |-> {{}, {1, 2}}]
EnvSpecUpsert == [steps |-> <<"upsert">>, planned |-> FALSE, stops |-> {{1}}]
WriteComponents ==
  [steps |-> <<"file", "file">>, planned |-> FALSE, stops |-> SUBSET (1 .. 2)]

AllSetups == {RunManifest, CiSetup, Apply, EnvSpecUpsert, WriteComponents}

VARIABLES
  row,
  wanted,       \* the steps its flags select
  force,        \* --force
  things,       \* per step: "absent", "other", "half" or "wanted"
  run,          \* the current run
  at,           \* its next step
  pc,           \* "read", "go", "sent", "ended"
  plan,         \* per step: what the run found there, or "?"
  late,         \* requests on their way: run, step, what is asked
  applied,      \* history: per run, the steps carried out for it
  outcome,      \* per run: "none", "done", "failed"
  turns,        \* changes by others so far
  before        \* history: the things when the run began, with others' changes

server == <<things, late, applied>>
vars == <<row, wanted, force, server, run, at, pc, plan, outcome, turns, before>>

Steps == 1 .. Len(row.steps)
Runs == 1 .. MaxRuns
Kind == row.steps[at]

-----------------------------------------------------------------------------
Ends(what) ==
  /\ pc' = "ended" /\ outcome' = [outcome EXCEPT ![run] = what]
  /\ UNCHANGED <<row, wanted, force, server, run, at, plan, turns, before>>

(* The next step that the flags select. *)
After(k) == {j \in Steps : j > k /\ j \in wanted}
GoOn ==
  IF After(at) = {}
    THEN pc' = "ended" /\ outcome' = [outcome EXCEPT ![run] = "done"] /\ UNCHANGED at
    ELSE /\ \E j \in After(at) : (\A i \in After(at) : j <= i) /\ at' = j
         /\ pc' = "go" /\ UNCHANGED outcome

(* What is read before the first change; nothing, of what is read later.   *)
Reads ==
  /\ pc = "read"
  /\ plan' = [k \in Steps |-> IF row.planned THEN things[k] ELSE "?"]
  /\ GoOn
  /\ UNCHANGED <<row, wanted, force, server, run, turns, before>>

ReadStep ==
  /\ pc = "go" /\ plan[at] = "?" /\ Kind \in Looks
  /\ plan' = [plan EXCEPT ![at] = things[at]]
  /\ UNCHANGED <<row, wanted, force, server, run, at, pc, outcome, turns, before>>

Known == Kind \in Looks => plan[at] # "?"

(* A plausible slip: what is there is not compared with what is wanted. *)
SkipsWhatIsThere == Kind \in {"either", "file"} /\ plan[at] # "absent" /\ ~force
(* A plausible slip: a file that is there is written again. *)
NeverSkips == Kind = "either" /\ plan[at] = "wanted"
Skips ==
  \/ Kind = "either" /\ plan[at] = "wanted"
  \/ Kind = "file" /\ plan[at] # "absent" /\ ~force

Skip ==
  /\ pc = "go" /\ Known /\ Skips
  /\ GoOn
  /\ UNCHANGED <<row, wanted, force, server, run, plan, turns, before>>

Request ==
  [run |-> run, step |-> at,
   asks |-> CASE Kind \in {"either", "upsert"} -> IF plan[at] = "absent" THEN "make" ELSE "change"
              [] OTHER           -> Kind]

Send ==
  /\ pc = "go" /\ Known /\ ~Skips /\ Kind # "file"
  /\ late' = late \cup {Request} /\ pc' = "sent"
  /\ UNCHANGED <<row, wanted, force, things, applied, run, at, plan, outcome, turns, before>>

(* The file is created or emptied, and then filled. *)
Open ==
  /\ pc = "go" /\ Known /\ ~Skips /\ Kind = "file"
  /\ things' = [things EXCEPT ![at] = "half"] /\ pc' = "sent"
  /\ UNCHANGED <<row, wanted, force, late, applied, run, at, plan, outcome, turns, before>>

Fill ==
  /\ pc = "sent" /\ Kind = "file"
  /\ things' = [things EXCEPT ![at] = "wanted"]
  /\ applied' = [applied EXCEPT ![run] = @ \cup {at}]
  /\ GoOn
  /\ UNCHANGED <<row, wanted, force, late, run, plan, turns, before>>

-----------------------------------------------------------------------------
(* The server: what is asked and admitted is carried out, once. *)
Admitted(r) ==
  CASE r.asks = "make"   -> things[r.step] = "absent"
    [] r.asks = "change" -> things[r.step] # "absent"
    [] OTHER             -> TRUE

CarryOut ==
  /\ \E r \in late :
       /\ late' = late \ {r}
       /\ IF Admitted(r)
            THEN /\ things' = [things EXCEPT ![r.step] = "wanted"]
                 /\ applied' = [applied EXCEPT ![r.run] = @ \cup {r.step}]
            ELSE UNCHANGED <<things, applied>>
  /\ UNCHANGED <<row, wanted, force, run, at, pc, plan, outcome, turns, before>>

Refuse ==
  /\ \E r \in late : late' = late \ {r}
  /\ UNCHANGED <<row, wanted, force, things, applied, run, at, pc, plan, outcome,
                 turns, before>>

(* A plausible slip: a refused step is reported, and the next one begun.   *)
AnsweredAnyhow == pc = "sent" /\ Kind # "file" /\ Request \notin late
Answered ==
  /\ pc = "sent" /\ Kind # "file" /\ Request \notin late
  /\ at \in applied[run]

Confirmed ==
  /\ Answered
  /\ GoOn
  /\ UNCHANGED <<row, wanted, force, server, run, plan, turns, before>>

(* A read or a request refused or unanswered, a signal, a full disk: also  *)
(* one whose request is still on its way, or was carried out.              *)
Fail == pc # "ended" /\ Ends("failed")

RunAgain ==
  /\ pc = "ended" /\ run < MaxRuns
  /\ run' = run + 1 /\ pc' = "read" /\ at' = 0
  /\ plan' = [k \in Steps |-> "?"] /\ before' = things
  /\ \E s \in row.stops : wanted' = s
  /\ UNCHANGED <<row, force, server, outcome, turns>>

(* Others make, change or remove what the steps are about. *)
Others ==
  /\ turns < MaxTurns /\ turns' = turns + 1
  /\ \E k \in Steps, t \in {"absent", "other"} :
       /\ things[k] # t
       /\ things' = [things EXCEPT ![k] = t]
       /\ before' = [before EXCEPT ![k] = t]
  /\ UNCHANGED <<row, wanted, force, late, applied, run, at, pc, plan, outcome>>

Init ==
  /\ row \in AllSetups /\ wanted \in row.stops /\ force \in BOOLEAN
  /\ things \in [Steps -> {"absent", "other"}]
  /\ before = things
  /\ late = {}
  /\ run = 1 /\ at = 0 /\ pc = "read" /\ plan = [k \in Steps |-> "?"]
  /\ applied = [r \in Runs |-> {}] /\ outcome = [r \in Runs |-> "none"] /\ turns = 0

Command ==
  \/ Reads
  \/ ReadStep
  \/ Skip
  \/ Send
  \/ Open
  \/ Fill
  \/ Confirmed
  \/ Fail
  \/ RunAgain

Server == CarryOut \/ Refuse

Next == Command \/ Server \/ Others

Spec == Init /\ [][Next]_vars

-----------------------------------------------------------------------------
(* A change is never made before those it follows: a definition is not     *)
(* enabled, or a run of it started, by a command whose import failed. A    *)
(* run that reports success has made every change its flags select, or     *)
(* found it there; and nothing is done that a flag left out.               *)
Settled(k) ==
  \/ k \in applied[run]
  \/ row.steps[k] = "either" /\ plan[k] = "wanted"
  \/ row.steps[k] = "file" /\ plan[k] \notin {"?", "absent"}

InOrder ==
  /\ applied[run] \subseteq wanted
  /\ \A k \in applied[run] : \A j \in wanted : j < k => Settled(j)
  /\ outcome[run] = "done" => \A k \in wanted : Settled(k)

(* Where nobody else interferes, a run that reports success leaves things  *)
(* as wanted, however many runs failed before it and whichever of their    *)
(* requests arrive late; but a file that is there is left as it is.        *)
DoneMeansAll ==
  turns = 0 /\ outcome[run] = "done" =>
    \A k \in wanted :
      things[k] = "wanted" \/ (row.steps[k] = "file" /\ ~force /\ things[k] # "absent")

(* Without --force a file that somebody else wrote is left alone, unless   *)
(* it appears between the look and the write.                              *)
NothingClobbered ==
  turns = 0 /\ ~force =>
    \A k \in Steps : row.steps[k] = "file" /\ before[k] = "other" => things[k] = "other"
=============================================================================
