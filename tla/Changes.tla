------------------------------ MODULE Changes ------------------------------
(***************************************************************************)
(* One command that changes something on the server, any row of Table, run *)
(* again and again by a person who may not know what became of the run     *)
(* before. The server's objects are edited, removed and renamed by others  *)
(* at any time; a request may be applied long after the command gave up.   *)
(*                                                                         *)
(* The rows are translated from the commands (AppCommands, AgentCommands,  *)
(* WorkflowCommands, AdminCommands). The steps below are those the commands*)
(* share; the server's part is what its requests and answers rely on.      *)
(***************************************************************************)
EXTENDS CommandRows, Naturals, FiniteSets

CONSTANTS
  Table,        \* the commands
  Replacing,    \* those known to send a whole value
  Recomputing,  \* those known to send a value computed from what they read
  Objects,      \* what the name typed may come to denote
  Twins,        \* the objects with one display name
  Edits,        \* what others put into an object
  Nothing,      \* no object
  MaxRuns,      \* bound: runs of the command
  MaxTurns      \* bound: changes by others

ASSUME RowsAssumption == Table \subseteq Row /\ \A r \in Table : r.checks => r.bare # "done"
ASSUME ObjectsAssumption ==
  /\ Nothing \notin Objects /\ Twins \subseteq Objects
  /\ {"none", "refused", "bare"} \cap Objects = {}
ASSUME EditsAssumption == "mine" \notin Edits
ASSUME BoundsAssumption == MaxRuns \in Nat /\ MaxTurns \in Nat

VARIABLES
  row,          \* the command
  bearers,      \* the live objects the name denotes
  live,         \* the objects that exist
  content,      \* of each object: the edits it carries
  version,      \* of each object
  turns,        \* changes by others so far
  card,         \* what the person reviewed before: an object as it was
  run,          \* runs begun
  pc,           \* "idle", "begun", "read", "sent"
  yes, prompts, \* --yes; a terminal and no --no-prompt
  seen,         \* what this run has read, or was given
  aims,         \* per run: what its request was made from
  requests,     \* the runs whose request is on its way
  receipts,     \* per run: "none", "refused", "bare" (an ok without its
                \* object), or the object of the receipt
  effects,      \* history: what the server applied
  said          \* per run: "unknown", "nothing" (was sent), "failed",
                \* "unchanged" or "done"

things == <<bearers, live, content, version>>
wire == <<aims, requests, receipts, effects>>
server == <<things, wire>>
person == <<card, run, yes, prompts>>
vars == <<row, server, turns, person, pc, seen, said>>

Runs == 1 .. MaxRuns
Shown(o) == [id |-> o, version |-> version[o], content |-> content[o]]
Unread == [id |-> Nothing, version |-> 0, content |-> {}]
Reviewed == row.look \in {"given", "review"}

-----------------------------------------------------------------------------
(* The person looks at an object and keeps its id and version. *)
Review ==
  /\ Reviewed /\ pc = "idle"
  /\ \E o \in live : card' = Shown(o)
  /\ UNCHANGED <<row, server, turns, run, yes, prompts, pc, seen, said>>

Begin ==
  /\ pc = "idle" /\ run < MaxRuns
  /\ Reviewed => card.id # Nothing
  /\ run' = run + 1
  /\ yes' \in BOOLEAN /\ prompts' \in BOOLEAN
  /\ seen' = IF Reviewed THEN card ELSE Unread
  /\ pc' = "begun"
  /\ UNCHANGED <<row, server, turns, card, said>>

(* The lookups before the change. *)
Look ==
  /\ pc = "begun"
  /\ row.confirm = "flag" => yes
  /\ \/ row.look \in {"none", "given"} /\ seen' = seen
     \/ row.look = "review" /\ bearers = {seen.id} /\ seen' = seen
     \/ row.look = "unique" /\ Cardinality(bearers) = 1 /\ \E o \in bearers : seen' = Shown(o)
     \/ row.look = "first" /\ \E o \in bearers : seen' = Shown(o)
  /\ pc' = "read"
  /\ UNCHANGED <<row, server, turns, person, said>>

AlreadySo == "mine" \in seen.content

(* The run ends, with what it says of its outcome; nothing it read lasts. *)
Ends(what) ==
  /\ said' = [said EXCEPT ![run] = what]
  /\ pc' = "idle" /\ seen' = Unread
  /\ yes' = FALSE /\ prompts' = FALSE
  /\ UNCHANGED <<row, server, turns, card, run>>

(* A missing flag, a failed read, a name that is unknown or ambiguous, a   *)
(* question answered with anything but y or not to be asked, a change that *)
(* is already there: the command ends before it has sent anything.         *)
Stop ==
  /\ pc \in {"begun", "read"}
  /\ Ends("nothing")

(* The question has been answered with y, or is not to be asked. *)
MayGoOn ==
  \/ yes \/ row.confirm \in {"no", "losing"}
  \/ prompts
  \/ row.alone = "proceed"

Send ==
  /\ pc = "read" /\ MayGoOn
  /\ row.same = "skip" => ~AlreadySo
  /\ aims' = [aims EXCEPT ![run] = seen]
  /\ requests' = requests \cup {run}
  /\ pc' = "sent"
  /\ UNCHANGED <<row, things, turns, person, seen, receipts, effects, said>>

-----------------------------------------------------------------------------
(* The server. A request id that is repeated makes one request of several. *)
(* A plausible slip: a fresh request id for every run. *)
KeyOfEachRun(n) == n
KeyOf(n) == IF row.key = "given" THEN 0 ELSE n
Before(n) == {e \in effects : KeyOf(e.run) = KeyOf(n)}

(* What the request addresses: the object of its id, or whatever bears the *)
(* name by now.                                                            *)
Addressed(n) == IF row.sends = "id" THEN {aims[n].id} \cap live ELSE bearers

Accepts(n, o) ==
  /\ row.pins = "version" => version[o] = aims[n].version
  /\ row.pins = "label" => (o = aims[n].id \/ {o, aims[n].id} \subseteq Twins)

Wanted(n, o) ==
  IF row.does # "set" THEN content[o]
  ELSE {"mine"} \cup CASE row.base = "server" -> content[o]
                       [] row.base = "read"   -> aims[n].content
                       [] row.base = "whole"  -> {}

(* What may be answered when a request has been applied. *)
Receipts(o) == {o, "bare"} \cup (IF row.partial THEN {"refused"} ELSE {})

Applies(n, o) ==
  /\ Before(n) = {}
  /\ o \in Addressed(n) /\ Accepts(n, o)
  /\ content' = [content EXCEPT ![o] = Wanted(n, o)]
  /\ version' = [version EXCEPT ![o] = @ + 1]
  /\ live' = IF row.does = "delete" THEN live \ {o} ELSE live
  /\ bearers' = bearers \cap live'
  /\ requests' = requests \ {n}
  /\ \E answer \in Receipts(o) : receipts' = [receipts EXCEPT ![n] = answer]
  /\ effects' = effects \cup
       {[run |-> n, id |-> o, at |-> version[o],
         changed |-> row.does # "set" \/ Wanted(n, o) # content[o]]}
  /\ UNCHANGED <<row, turns, person, pc, seen, aims, said>>

Answered(n, answer) ==
  /\ receipts' = [receipts EXCEPT ![n] = answer]
  /\ requests' = requests \ {n}
  /\ UNCHANGED <<row, things, turns, person, pc, seen, aims, effects, said>>

Apply == \E n \in requests, o \in Objects : Applies(n, o)

(* A request id used before: the answer is that of a request applied. *)
Replay ==
  \E n \in requests : \E e \in Before(n) : \E answer \in Receipts(e.id) : Answered(n, answer)

(* Refused, for what has changed or for any reason of its own. *)
Refuse == \E n \in requests : Answered(n, "refused")

-----------------------------------------------------------------------------
(* The answer arrives. *)
Meant(o) == row.checks => o = seen.id

Done ==
  /\ pc = "sent" /\ receipts[run] \in Objects
  /\ Ends(IF ~Meant(receipts[run]) THEN "unknown"
          ELSE IF row.same = "after" /\ AlreadySo THEN "unchanged" ELSE "done")

(* An ok without the object it is about. *)
Bare ==
  /\ pc = "sent" /\ receipts[run] = "bare"
  /\ Ends(CASE row.bare = "done"           -> "done"
            [] row.bare = "failed"         -> "failed"
            [] row.bare \in {"told", "mute"} -> "unknown")

(* Not ok, with or without errors. *)
Denied ==
  /\ pc = "sent" /\ receipts[run] = "refused"
  /\ Ends(IF row.bare = "mute" THEN "unknown" ELSE "failed")

(* A plausible slip: no answer is taken for a refusal. *)
GiveUpAsRefused ==
  /\ pc = "sent"
  /\ Ends("failed")

(* A timeout, a lost connection, an answer that cannot be read: the        *)
(* outcome is unknown.                                                     *)
GiveUp ==
  /\ pc = "sent"
  /\ Ends("unknown")

-----------------------------------------------------------------------------
(* Others. A name is unique where it is sent or looked up as one. *)
MayShare == row.look \in {"unique", "first"}

Rename ==
  /\ turns < MaxTurns /\ turns' = turns + 1
  /\ bearers' \in SUBSET live /\ bearers' # bearers
  /\ ~MayShare => Cardinality(bearers') <= 1
  /\ UNCHANGED <<row, live, content, version, person, pc, seen, wire, said>>

Edit ==
  /\ turns < MaxTurns /\ turns' = turns + 1
  /\ \E o \in live, e \in Edits, keep \in SUBSET {"mine"} :
       /\ content' = [content EXCEPT ![o] = (@ \cap (Edits \cup keep)) \cup {e}]
       /\ version' = [version EXCEPT ![o] = @ + 1]
  /\ UNCHANGED <<row, bearers, live, person, pc, seen, wire, said>>

Remove ==
  /\ turns < MaxTurns /\ turns' = turns + 1
  /\ \E o \in live : live' = live \ {o}
  /\ bearers' = bearers \cap live'
  /\ UNCHANGED <<row, content, version, person, pc, seen, wire, said>>

Init ==
  /\ row \in Table
  /\ live = Objects
  /\ bearers \in SUBSET Objects /\ (~MayShare => Cardinality(bearers) <= 1)
  /\ content \in [Objects -> SUBSET {"mine"}] /\ version = [o \in Objects |-> 1]
  /\ turns = 0 /\ card = Unread /\ run = 0 /\ pc = "idle" /\ yes = FALSE /\ prompts = FALSE
  /\ seen = Unread /\ aims = [n \in Runs |-> Unread] /\ requests = {}
  /\ receipts = [n \in Runs |-> "none"] /\ effects = {}
  /\ said = [n \in Runs |-> "unknown"]

Command ==
  \/ Review
  \/ Begin
  \/ Look
  \/ Stop
  \/ Send
  \/ Done
  \/ Bare
  \/ Denied
  \/ GiveUp

Server ==
  \/ Apply
  \/ Replay
  \/ Refuse

Others ==
  \/ Rename
  \/ Edit
  \/ Remove

Next == Command \/ Server \/ Others

Spec == Init /\ [][Next]_vars

-----------------------------------------------------------------------------
(* A command that resolved a name, or was given an id, and sends the id    *)
(* changes the object it showed and no other, whatever the name has come   *)
(* to denote, and however late the request arrives; one that pins the      *)
(* version changes it as it was shown. What is deleted after it was shown  *)
(* is what was shown, or, where the name is sent with the label read, has  *)
(* the same label.                                                         *)
HitsWhatWasShown ==
  \A e \in effects :
    LET shown == aims[e.run] IN
    /\ row.sends = "id" => e.id = shown.id
    /\ row.pins = "version" => e.at = shown.version
    /\ row.does = "delete" /\ row.look # "none" =>
         (e.id = shown.id \/ {e.id, shown.id} \subseteq Twins)

(* What a run says of its outcome is so, and stays so. After an end before *)
(* anything was sent its request is not on its way and none is applied     *)
(* later. After a failure no request is on its way either, and none of its *)
(* own was applied; but where an ok without the object is told as a        *)
(* failure, or the server may save and report a failed part, the change    *)
(* may have been made. After success the change was made, by this run or   *)
(* one with the same request id, and where the receipt is checked to the   *)
(* object this run meant; "unchanged" means, besides, that what it read    *)
(* was as asked for.                                                       *)
ReportIsTrue ==
  \A n \in Runs :
    /\ said[n] \in {"nothing", "failed"} => n \notin requests
    /\ said[n] = "nothing" \/ (said[n] = "failed" /\ row.bare # "failed" /\ ~row.partial) =>
         \A e \in effects : e.run # n
    /\ said[n] \in {"unchanged", "done"} =>
         \E e \in Before(n) : row.checks => e.id = aims[n].id
    /\ said[n] = "unchanged" => "mine" \in aims[n].content

(* However often a person repeats a command with its request id, after     *)
(* lost answers and with earlier requests still on their way, it takes     *)
(* effect once.                                                            *)
AtMostOnce ==
  row.key = "given" => \A e, f \in effects : e = f

(* What others had put into an object and a step takes out of it. *)
Lost(o) == (content[o] \cap Edits) \ content'[o]

(* What somebody else put into an object is undone by no command but those *)
(* known to send a whole value, and those known to compute the value from  *)
(* what they read; and these undo nothing that they had read.              *)
NothingUndone ==
  [][\A o \in Objects :
       \/ Lost(o) = {}
       \/ row \in Replacing
       \/ /\ row \in Recomputing
          /\ \E n \in requests \ requests' : Lost(o) \cap aims[n].content = {}]_vars
=============================================================================
