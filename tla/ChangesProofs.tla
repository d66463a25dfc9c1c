--------------------------- MODULE ChangesProofs ---------------------------
(***************************************************************************)
(* What Changes.tla promises, for every table of commands, any number of   *)
(* objects, of runs and of changes by others.                              *)
(*                                                                         *)
(* A run's request is made once, from what the run had read (Aims), and    *)
(* what the server did with it is known from the receipt alone (Answers).  *)
(* What a run has said is final because no later run can send for it       *)
(* (Numbered).                                                             *)
(***************************************************************************)
EXTENDS Changes, TLAPS

Card == [id : Objects \cup {Nothing}, version : Nat, content : SUBSET (Edits \cup {"mine"})]
Effect == [run : Runs, id : Objects, at : Nat, changed : BOOLEAN]

TypeOK ==
  /\ row \in Table
  /\ run \in 0 .. MaxRuns
  /\ pc \in {"idle", "begun", "read", "sent"}
  /\ content \in [Objects -> SUBSET (Edits \cup {"mine"})]
  /\ version \in [Objects -> Nat]
  /\ live \subseteq Objects /\ bearers \subseteq Objects
  /\ card \in Card /\ seen \in Card
  /\ aims \in [Runs -> Card]
  /\ requests \subseteq Runs
  /\ receipts \in [Runs -> Objects \cup {"none", "refused", "bare"}]
  /\ effects \subseteq Effect
  /\ said \in [Runs -> {"unknown", "nothing", "failed", "unchanged", "done"}]

(* Runs are numbered: a run that has not sent has left no trace. *)
Numbered ==
  /\ pc # "idle" => run \in Runs /\ said[run] = "unknown"
  /\ \A n \in requests : n <= run
  /\ \A e \in effects : e.run <= run
  /\ pc \in {"begun", "read"} =>
       run \notin requests /\ receipts[run] = "none" /\ \A e \in effects : e.run # run
  /\ \A n \in Runs : n > run =>
       receipts[n] = "none" /\ said[n] = "unknown"

(* A request has one answer, and the answer says what was done. *)
Answers ==
  /\ \A n \in requests : receipts[n] = "none" /\ \A e \in effects : e.run # n
  /\ \A n \in Runs : receipts[n] = "refused" => row.partial \/ \A e \in effects : e.run # n
  /\ \A n \in Runs : receipts[n] = "bare" => Before(n) # {}
  /\ \A n \in Runs : receipts[n] \in Objects => \E e \in Before(n) : e.id = receipts[n]

(* A request is made from what its run had read. *)
Aims ==
  /\ pc = "sent" => aims[run] = seen
  /\ \A e \in effects :
       /\ row.sends = "id" => e.id = aims[e.run].id
       /\ row.pins = "version" => e.at = aims[e.run].version
       /\ row.pins = "label" =>
            (e.id = aims[e.run].id \/ {e.id, aims[e.run].id} \subseteq Twins)

IInv == TypeOK /\ Numbered /\ Answers /\ Aims /\ ReportIsTrue

(* Of the tables: what is deleted after it was resolved is deleted by id,  *)
(* or with the label read.                                                 *)
DeletesResolved ==
  \A r \in Table : r.does = "delete" /\ r.look # "none" => r.sends = "id" \/ r.pins = "label"

(* Of the tables: the other commands send the change and not the value,    *)
(* or lay it over the value they read.                                     *)
OthersNameTheChange ==
  \A r \in Table \ Replacing : r.base = "server" \/ (r.base = "read" /\ r \in Recomputing)

LEMMA InitInv == Init => IInv
<1> SUFFICES ASSUME Init PROVE IInv
  OBVIOUS
<1> USE DEF Init
<1>1. Unread \in Card
  BY DEF Unread, Card
<1>2. TypeOK
  BY <1>1, BoundsAssumption DEF TypeOK, Runs
<1>3. Numbered /\ Answers /\ Aims /\ ReportIsTrue
  BY ObjectsAssumption, BoundsAssumption DEF Numbered, Answers, Aims, ReportIsTrue, Before, Runs
<1> QED
  BY <1>2, <1>3 DEF IInv

LEMMA ShownType == ASSUME TypeOK, NEW o \in Objects PROVE Shown(o) \in Card
  BY DEF TypeOK, Shown, Card

LEMMA WantedType ==
  ASSUME TypeOK, NEW n \in Runs, NEW o \in Objects
  PROVE  Wanted(n, o) \subseteq Edits \cup {"mine"}
<1>1. row \in Row
  BY RowsAssumption DEF TypeOK
<1>2. row.base \in {"server", "read", "whole"}
  BY <1>1 DEF Row
<1>3. content[o] \subseteq Edits \cup {"mine"} /\ aims[n].content \subseteq Edits \cup {"mine"}
  BY DEF TypeOK, Card
<1> QED
  BY <1>2, <1>3 DEF Wanted

LEMMA TypeStep == TypeOK /\ Numbered /\ [Next]_vars => TypeOK'
<1> SUFFICES ASSUME TypeOK, Numbered, [Next]_vars PROVE TypeOK'
  OBVIOUS
<1> USE BoundsAssumption DEF TypeOK
<1>0. Unread \in Card
  BY DEF Unread, Card
<1>1. CASE Review
  BY <1>1, ShownType DEF Review, server, things, wire
<1>2. CASE Begin
  BY <1>0, <1>2 DEF Begin, server, things, wire, Runs
<1>3. CASE Look
  BY <1>3, ShownType DEF Look, server, things, wire, person
<1>4. CASE Stop
  BY <1>0, <1>4 DEF Stop, Ends, server, things, wire
<1>5. CASE Send
  <2>1. run \in Runs
    BY <1>5 DEF Send, Numbered
  <2> QED
    BY <1>5, <2>1 DEF Send, things, person
<1>6. CASE Done
  BY <1>0, <1>6 DEF Done, Ends, server, things, wire
<1>16. CASE Bare
  <2>1. row.bare \in {"done", "told", "failed", "mute"}
    BY RowsAssumption DEF Row
  <2> QED
    BY <1>0, <1>16, <2>1 DEF Bare, Ends, server, things, wire
<1>7. CASE Denied
  BY <1>0, <1>7 DEF Denied, Ends, server, things, wire
<1>8. CASE GiveUp
  BY <1>0, <1>8 DEF GiveUp, Ends, server, things, wire
<1>9. CASE Apply
  <2> PICK n \in requests, o \in Objects : Applies(n, o)
    BY <1>9 DEF Apply
  <2>1. Wanted(n, o) \subseteq Edits \cup {"mine"}
    BY WantedType
  <2>2. (row.does # "set" \/ Wanted(n, o) # content[o]) \in BOOLEAN
    OBVIOUS
  <2>3. \A b \in BOOLEAN : [run |-> n, id |-> o, at |-> version[o], changed |-> b] \in Effect
    BY DEF Effect
  <2>4. effects' \subseteq Effect
    BY <2>2, <2>3 DEF Applies
  <2>5. receipts' \in [Runs -> Objects \cup {"none", "refused", "bare"}]
    BY DEF Applies, Receipts
  <2> QED
    BY <2>1, <2>4, <2>5 DEF Applies, person
<1>10. CASE Replay
  <2> PICK n \in requests, e \in effects : \E answer \in Receipts(e.id) : Answered(n, answer)
    BY <1>10 DEF Replay, Before
  <2>1. e.id \in Objects
    BY DEF Effect
  <2> QED
    BY <2>1 DEF Answered, Receipts, things, person
<1>11. CASE Refuse
  BY <1>11 DEF Refuse, Answered, things, person
<1>12. CASE Rename
  BY <1>12 DEF Rename, person, wire
<1>13. CASE Edit
  BY <1>13 DEF Edit, person, wire
<1>14. CASE Remove
  BY <1>14 DEF Remove, person, wire
<1>15. CASE UNCHANGED vars
  BY <1>15 DEF vars, server, things, wire, person
<1> QED
  BY <1>1, <1>2, <1>3, <1>4, <1>5, <1>6, <1>7, <1>8, <1>9, <1>10, <1>11, <1>12, <1>13,
     <1>14, <1>15, <1>16 DEF Next, Command, Server, Others

-----------------------------------------------------------------------------
LEMMA NumberedStep == TypeOK /\ Numbered /\ [Next]_vars => Numbered'
<1> SUFFICES ASSUME TypeOK, Numbered, [Next]_vars PROVE Numbered'
  OBVIOUS
<1> USE BoundsAssumption DEF Numbered
<1>r. \A n \in Runs : n \in Nat /\ n <= MaxRuns
  BY DEF Runs
<1>t. run \in Nat /\ (\A n \in requests : n \in Nat) /\ (\A e \in effects : e.run \in Nat)
  BY <1>r DEF TypeOK, Effect
<1>1. CASE Review
  BY <1>1 DEF Review, server, things, wire
<1>2. CASE Begin
  <2>1. run' = run + 1 /\ run' \in Runs /\ pc' = "begun"
    BY <1>2, <1>t DEF Begin, Runs
  <2>2. UNCHANGED <<requests, effects, receipts, said>>
    BY <1>2 DEF Begin, server, wire
  <2>3. said'[run'] = "unknown" /\ receipts'[run'] = "none"
    BY <2>1, <2>2, <1>t
  <2>4. (\A n \in requests : n < run') /\ (\A e \in effects : e.run < run')
    BY <2>1, <1>t
  <2>5. run' \notin requests' /\ \A e \in effects' : e.run # run'
    BY <2>2, <2>4, <2>1, <1>t
  <2>6. \A n \in Runs : n > run' => receipts'[n] = "none" /\ said'[n] = "unknown"
    BY <2>1, <2>2, <1>t, <1>r
  <2> QED
    BY <2>1, <2>2, <2>3, <2>4, <2>5, <2>6, <1>t
<1>3. CASE Look
  BY <1>3 DEF Look, server, things, wire, person
<1>4. CASE Stop
  BY <1>4, <1>t, <1>r DEF Stop, Ends, server, things, wire, TypeOK
<1>5. CASE Send
  BY <1>5, <1>t DEF Send, things, person
<1>6. CASE Done
  BY <1>6, <1>t, <1>r DEF Done, Ends, server, things, wire, TypeOK
<1>16. CASE Bare
  BY <1>16, <1>t, <1>r DEF Bare, Ends, server, things, wire, TypeOK
<1>7. CASE Denied
  BY <1>7, <1>t, <1>r DEF Denied, Ends, server, things, wire, TypeOK
<1>8. CASE GiveUp
  BY <1>8, <1>t, <1>r DEF GiveUp, Ends, server, things, wire, TypeOK
<1>9. CASE Apply
  <2> PICK n \in requests, o \in Objects : Applies(n, o)
    BY <1>9 DEF Apply
  <2>1. n \in Runs /\ n <= run
    BY DEF TypeOK
  <2>2. \A e \in effects' : e \in effects \/ e.run = n
    BY DEF Applies
  <2>3. \A m \in Runs : m # n => receipts'[m] = receipts[m]
    BY DEF Applies, TypeOK
  <2> QED
    BY <2>1, <2>2, <2>3, <1>t, <1>r DEF Applies, person
<1>10. CASE Replay
  <2> PICK n \in requests, answer \in Objects \cup {"refused", "bare"} : Answered(n, answer)
    BY <1>10 DEF Replay, Before, Receipts, TypeOK, Effect
  <2>1. n \in Runs /\ n <= run /\ \A m \in Runs : m # n => receipts'[m] = receipts[m]
    BY DEF Answered, TypeOK
  <2> QED
    BY <2>1, <1>t, <1>r DEF Answered, person
<1>11. CASE Refuse
  <2> PICK n \in requests : Answered(n, "refused")
    BY <1>11 DEF Refuse
  <2>1. n \in Runs /\ n <= run /\ \A m \in Runs : m # n => receipts'[m] = receipts[m]
    BY DEF Answered, TypeOK
  <2> QED
    BY <2>1, <1>t, <1>r DEF Answered, person
<1>12. CASE Rename
  BY <1>12 DEF Rename, person, wire
<1>13. CASE Edit
  BY <1>13 DEF Edit, person, wire
<1>14. CASE Remove
  BY <1>14 DEF Remove, person, wire
<1>15. CASE UNCHANGED vars
  BY <1>15 DEF vars, server, things, wire, person
<1> QED
  BY <1>1, <1>2, <1>3, <1>4, <1>5, <1>6, <1>7, <1>8, <1>9, <1>10, <1>11, <1>12, <1>13,
     <1>14, <1>15, <1>16 DEF Next, Command, Server, Others

-----------------------------------------------------------------------------
(* Steps that concern neither requests nor what has been said. *)
Quiet == UNCHANGED <<row, aims, requests, receipts, effects, said, run>>

LEMMA QuietStep ==
  \/ Review \/ Look \/ Rename \/ Edit \/ Remove \/ UNCHANGED vars => Quiet
BY DEF Quiet, Review, Look, Rename, Edit, Remove, vars, server, things, wire, person

LEMMA PartialReceipts ==
  ASSUME row \in Table, NEW o, NEW answer \in Receipts(o)
  PROVE  answer = o \/ answer = "bare" \/ (answer = "refused" /\ row.partial)
<1>1. row.partial \in BOOLEAN
  BY RowsAssumption DEF Row
<1>2. CASE row.partial = TRUE
  BY <1>2 DEF Receipts
<1>3. CASE row.partial = FALSE
  <2>1. Receipts(o) = {o, "bare"} \cup {}
    BY <1>3 DEF Receipts
  <2> QED
    BY <2>1
<1> QED
  BY <1>1, <1>2, <1>3

LEMMA AnswersStep == TypeOK /\ Numbered /\ Answers /\ [Next]_vars => Answers'
<1> SUFFICES ASSUME TypeOK, Numbered, Answers, [Next]_vars PROVE Answers'
  OBVIOUS
<1> USE DEF Answers
<1>1. CASE Quiet
  BY <1>1 DEF Quiet, Before, KeyOf
<1>2. CASE Begin \/ Stop \/ Done \/ Bare \/ Denied \/ GiveUp
  BY <1>2 DEF Begin, Stop, Done, Bare, Denied, GiveUp, Ends, server, wire, Before, KeyOf
<1>3. CASE Send
  BY <1>3 DEF Send, Numbered, Before, KeyOf
<1>4. CASE Apply
  <2> PICK n \in requests, o \in Objects : Applies(n, o)
    BY <1>4 DEF Apply
  <2> PICK answer \in Receipts(o) : receipts' = [receipts EXCEPT ![n] = answer]
    BY DEF Applies
  <2>1. n \in Runs /\ receipts' = [receipts EXCEPT ![n] = answer] /\ row' = row
    BY DEF TypeOK, Applies
  <2>2. \E e \in effects' : e.run = n /\ e.id = o
    <3> DEFINE new == [run |-> n, id |-> o, at |-> version[o],
                       changed |-> row.does # "set" \/ Wanted(n, o) # content[o]]
    <3>1. new \in effects'
      BY DEF Applies
    <3>2. new.run = n /\ new.id = o
      OBVIOUS
    <3> HIDE DEF new
    <3> QED
      BY <3>1, <3>2
  <2>3. effects \subseteq effects' /\ (\A e \in effects' : e \in effects \/ e.run = n)
    BY DEF Applies
  <2>4. requests' = requests \ {n}
    BY DEF Applies
  <2>5. \A m \in Runs : m # n => receipts'[m] = receipts[m]
    BY <2>1 DEF TypeOK
  <2>6. receipts'[n] = answer /\ (answer = o \/ answer = "bare" \/ (answer = "refused" /\ row.partial))
    BY <2>1, PartialReceipts DEF TypeOK
  <2>7. ASSUME NEW m \in requests'
        PROVE  receipts'[m] = "none" /\ \A e \in effects' : e.run # m
    <3>1. m \in requests /\ m \in Runs /\ m # n
      BY <2>4, <2>7 DEF TypeOK
    <3> QED
      BY <3>1, <2>3, <2>5
  <2>8. ASSUME NEW m \in Runs, receipts'[m] = "refused", ~row'.partial
        PROVE  \A e \in effects' : e.run # m
    <3>1. m # n
      BY <2>1, <2>6, <2>8, ObjectsAssumption
    <3> QED
      BY <3>1, <2>1, <2>3, <2>5, <2>8
  <2>10. ASSUME NEW m \in Runs, receipts'[m] = "bare"
         PROVE  Before(m)' # {}
    <3>1. CASE m = n
      BY <3>1, <2>1, <2>2 DEF Before, KeyOf
    <3>2. CASE m # n
      BY <3>2, <2>1, <2>3, <2>5, <2>10 DEF Before, KeyOf
    <3> QED
      BY <3>1, <3>2
  <2>9. ASSUME NEW m \in Runs, receipts'[m] \in Objects
        PROVE  \E e \in Before(m)' : e.id = receipts'[m]
    <3>1. CASE m = n
      BY <3>1, <2>1, <2>2, <2>6, <2>9, ObjectsAssumption DEF Before, KeyOf
    <3>2. CASE m # n
      BY <3>2, <2>1, <2>3, <2>5, <2>9 DEF Before, KeyOf
    <3> QED
      BY <3>1, <3>2
  <2> QED
    BY <2>7, <2>8, <2>9, <2>10
<1>5. CASE Replay
  <2> PICK n \in requests : \E f \in Before(n) : \E answer \in Receipts(f.id) : Answered(n, answer)
    BY <1>5 DEF Replay
  <2> PICK f \in Before(n) : \E answer \in Receipts(f.id) : Answered(n, answer)
    OBVIOUS
  <2> PICK answer \in Receipts(f.id) : Answered(n, answer)
    OBVIOUS
  <2>1. n \in Runs /\ (\A m \in Runs : m # n => receipts'[m] = receipts[m]) /\ receipts'[n] = answer
    BY DEF TypeOK, Answered
  <2>5. answer = f.id \/ answer = "bare" \/ (answer = "refused" /\ row.partial)
    BY PartialReceipts DEF TypeOK
  <2>2. effects' = effects /\ row' = row /\ requests' = requests \ {n}
    BY DEF Answered
  <2>3. \A m \in Runs : Before(m)' = Before(m)
    BY <2>2 DEF Before, KeyOf
  <2>4. f.id \in Objects
    BY DEF Before, TypeOK, Effect
  <2> QED
    BY <2>1, <2>2, <2>3, <2>4, <2>5, ObjectsAssumption DEF TypeOK
<1>6. CASE Refuse
  <2> PICK n \in requests : Answered(n, "refused")
    BY <1>6 DEF Refuse
  <2>1. n \in Runs /\ (\A m \in Runs : m # n => receipts'[m] = receipts[m]) /\ receipts'[n] = "refused"
    BY DEF TypeOK, Answered
  <2>2. effects' = effects /\ row' = row /\ requests' = requests \ {n}
    BY DEF Answered
  <2>3. \A m \in Runs : Before(m)' = Before(m)
    BY <2>2 DEF Before, KeyOf
  <2> QED
    BY <2>1, <2>2, <2>3, ObjectsAssumption DEF TypeOK
<1> QED
  BY QuietStep, <1>1, <1>2, <1>3, <1>4, <1>5, <1>6 DEF Next, Command, Server, Others

-----------------------------------------------------------------------------
LEMMA AimsStep == TypeOK /\ Numbered /\ Aims /\ [Next]_vars => Aims'
<1> SUFFICES ASSUME TypeOK, Numbered, Aims, [Next]_vars PROVE Aims'
  OBVIOUS
<1> USE DEF Aims
<1>1. CASE Review \/ Look \/ Rename \/ Edit \/ Remove \/ UNCHANGED vars
  BY <1>1 DEF Review, Look, Rename, Edit, Remove, vars, server, things, wire, person
<1>2. CASE Begin \/ Stop \/ Done \/ Bare \/ Denied \/ GiveUp
  BY <1>2 DEF Begin, Stop, Done, Bare, Denied, GiveUp, Ends, server, wire
<1>3. CASE Send
  <2>1. run \in Runs /\ \A e \in effects : e.run # run
    BY <1>3 DEF Send, Numbered
  <2>2. aims' = [aims EXCEPT ![run] = seen] /\ UNCHANGED <<row, effects, seen, run>>
    BY <1>3 DEF Send, person
  <2>3. aims'[run] = seen
    BY <2>1, <2>2 DEF TypeOK
  <2>4. \A e \in effects : aims'[e.run] = aims[e.run]
    BY <2>1, <2>2 DEF TypeOK, Effect
  <2> QED
    BY <2>2, <2>3, <2>4
<1>4. CASE Apply
  <2> PICK n \in requests, o \in Objects : Applies(n, o)
    BY <1>4 DEF Apply
  <2>1. UNCHANGED <<row, aims, pc, seen, run>>
    BY DEF Applies, person
  <2>2. ASSUME NEW e \in effects', e \notin effects
        PROVE  e.run = n /\ e.id = o /\ e.at = version[o]
    BY <2>2 DEF Applies
  <2>3. row.sends = "id" => o = aims[n].id
    BY DEF Applies, Addressed
  <2>4. /\ row.pins = "version" => version[o] = aims[n].version
        /\ row.pins = "label" => (o = aims[n].id \/ {o, aims[n].id} \subseteq Twins)
    BY DEF Applies, Accepts
  <2> QED
    BY <2>1, <2>2, <2>3, <2>4
<1>5. CASE Replay \/ Refuse
  BY <1>5 DEF Replay, Refuse, Answered, person
<1> QED
  BY <1>1, <1>2, <1>3, <1>4, <1>5 DEF Next, Command, Server, Others

(* What a run has said stays true while its own part of the wire stands. *)
Told(n) ==
  /\ said[n] \in {"nothing", "failed"} => n \notin requests
  /\ said[n] = "nothing" \/ (said[n] = "failed" /\ row.bare # "failed" /\ ~row.partial) =>
       \A e \in effects : e.run # n
  /\ said[n] \in {"unchanged", "done"} =>
       \E e \in Before(n) : row.checks => e.id = aims[n].id
  /\ said[n] = "unchanged" => "mine" \in aims[n].content

LEMMA ReportStep ==
  TypeOK /\ Numbered /\ Answers /\ Aims /\ ReportIsTrue /\ [Next]_vars => ReportIsTrue'
<1> SUFFICES ASSUME TypeOK, Numbered, Answers, Aims, ReportIsTrue, [Next]_vars, NEW n \in Runs
             PROVE  Told(n)'
  BY DEF ReportIsTrue, Told
<1>0. row' = row
  BY DEF Next, Command, Server, Others, Review, Begin, Look, Stop, Send, Done, Bare, Denied,
         GiveUp, Ends, Apply, Applies, Replay, Refuse, Answered, Rename, Edit, Remove, vars
<1>a. \A m \in Runs : Told(m)
  BY DEF ReportIsTrue, Told
<1>k. ASSUME UNCHANGED <<aims, requests, effects>>, said'[n] = said[n]
      PROVE  Told(n)'
  BY <1>0, <1>a, <1>k DEF Told, Before, KeyOf
<1>1. CASE Quiet
  BY <1>1, <1>k DEF Quiet
<1>2. CASE Begin
  BY <1>2, <1>k DEF Begin, server, wire
<1>e. ASSUME NEW what, Ends(what), run \in Runs
      PROVE  /\ UNCHANGED <<aims, requests, effects>>
             /\ said'[n] = IF n = run THEN what ELSE said[n]
  BY <1>e DEF Ends, server, wire, TypeOK
<1>3. CASE Stop
  <2>1. run \notin requests /\ (\A e \in effects : e.run # run) /\ run \in Runs
    BY <1>3 DEF Stop, Numbered
  <2>2. UNCHANGED <<aims, requests, effects>> /\ said'[n] = IF n = run THEN "nothing" ELSE said[n]
    BY <1>3, <1>e, <2>1 DEF Stop
  <2> QED
    BY <1>k, <2>1, <2>2 DEF Told
<1>4. CASE Send
  <2>1. run \in Runs /\ said[run] = "unknown" /\ \A e \in effects : e.run # run
    BY <1>4 DEF Send, Numbered
  <2>2. /\ aims' = [aims EXCEPT ![run] = seen] /\ requests' = requests \cup {run}
        /\ UNCHANGED <<said, effects>>
    BY <1>4 DEF Send
  <2>3. n # run => aims'[n] = aims[n]
    BY <2>2 DEF TypeOK
  <2> QED
    BY <1>0, <2>1, <2>2, <2>3, <1>a DEF Told, Before, KeyOf
<1>5. CASE Done
  <2>1. run \in Runs /\ receipts[run] \in Objects /\ aims[run] = seen
    BY <1>5 DEF Done, Numbered, Aims
  <2>2. PICK what : Ends(what) /\ what = IF ~Meant(receipts[run]) THEN "unknown"
                         ELSE IF row.same = "after" /\ AlreadySo THEN "unchanged" ELSE "done"
    BY <1>5 DEF Done
  <2>3. UNCHANGED <<aims, requests, effects>> /\ said'[n] = IF n = run THEN what ELSE said[n]
    BY <1>e, <2>1, <2>2
  <2>4. Meant(receipts[run]) => \E e \in Before(run) : row.checks => e.id = aims[run].id
    BY <2>1 DEF Answers, Meant
  <2>5. CASE n # run
    BY <1>k, <2>3, <2>5
  <2>6. CASE n = run
    BY <1>0, <2>1, <2>2, <2>3, <2>4, <2>6 DEF Told, Before, KeyOf, AlreadySo
  <2> QED
    BY <2>5, <2>6
<1>6. CASE Bare
  <2>1. run \in Runs /\ receipts[run] = "bare"
    BY <1>6 DEF Bare, Numbered
  <2>2. run \notin requests /\ Before(run) # {}
    BY <2>1 DEF Answers
  <2>3. row.checks => row.bare # "done"
    BY RowsAssumption DEF TypeOK
  <2>4. row.bare \in {"done", "told", "failed", "mute"}
    BY RowsAssumption DEF TypeOK, Row
  <2>5. PICK what : Ends(what) /\ what = CASE row.bare = "done"           -> "done"
                                           [] row.bare = "failed"         -> "failed"
                                           [] row.bare \in {"told", "mute"} -> "unknown"
    BY <1>6 DEF Bare
  <2>6. UNCHANGED <<aims, requests, effects>> /\ said'[n] = IF n = run THEN what ELSE said[n]
    BY <1>e, <2>1, <2>5
  <2>7. CASE n # run
    BY <1>k, <2>6, <2>7
  <2>8. CASE n = run
    <3>1. \/ row.bare = "done" /\ said'[n] = "done"
          \/ row.bare = "failed" /\ said'[n] = "failed"
          \/ said'[n] = "unknown"
      BY <2>4, <2>5, <2>6, <2>8
    <3> QED
      BY <3>1, <1>0, <2>2, <2>3, <2>6, <2>8 DEF Told, Before, KeyOf
  <2> QED
    BY <2>7, <2>8
<1>7. CASE Denied
  <2>1. run \in Runs /\ receipts[run] = "refused"
    BY <1>7 DEF Denied, Numbered
  <2>2. run \notin requests /\ (row.partial \/ \A e \in effects : e.run # run)
    BY <2>1 DEF Answers
  <2>3. PICK what \in {"unknown", "failed"} : Ends(what)
    BY <1>7 DEF Denied
  <2>4. UNCHANGED <<aims, requests, effects>> /\ said'[n] = IF n = run THEN what ELSE said[n]
    BY <1>e, <2>1, <2>3
  <2> QED
    BY <1>0, <1>k, <2>2, <2>3, <2>4 DEF Told
<1>8. CASE GiveUp
  <2>1. run \in Runs /\ Ends("unknown")
    BY <1>8 DEF GiveUp, Numbered
  <2>2. UNCHANGED <<aims, requests, effects>> /\ said'[n] = IF n = run THEN "unknown" ELSE said[n]
    BY <1>e, <2>1
  <2> QED
    BY <1>k, <2>2 DEF Told
<1>9. CASE Apply
  <2> PICK m \in requests, o \in Objects : Applies(m, o)
    BY <1>9 DEF Apply
  <2>1. UNCHANGED <<aims, said>> /\ requests' \subseteq requests
    BY DEF Applies
  <2>2. effects \subseteq effects' /\ (\A e \in effects' : e \in effects \/ e.run = m)
    BY DEF Applies
  <2>3. m \in Runs /\ said[m] \notin {"nothing", "failed"}
    BY <1>a DEF Told, TypeOK
  <2> QED
    BY <1>0, <2>1, <2>2, <2>3, <1>a DEF Told, Before, KeyOf
<1>10. CASE Replay \/ Refuse
  <2>1. UNCHANGED <<aims, said, effects>> /\ requests' \subseteq requests
    BY <1>10 DEF Replay, Refuse, Answered
  <2> QED
    BY <1>0, <2>1, <1>a DEF Told, Before, KeyOf
<1> QED
  BY QuietStep, <1>1, <1>2, <1>3, <1>4, <1>5, <1>6, <1>7, <1>8, <1>9, <1>10
     DEF Next, Command, Server, Others

-----------------------------------------------------------------------------
(* The strengthening is an invariant. *)
THEOREM Inductive == Spec => []IInv
<1>1. Init => IInv
  BY InitInv
<1>2. IInv /\ [Next]_vars => IInv'
  BY TypeStep, NumberedStep, AnswersStep, AimsStep, ReportStep DEF IInv
<1> QED
  BY <1>1, <1>2, PTL DEF Spec

(* Every command hits what it showed, whatever the name it was given has   *)
(* come to denote when its request is applied.                             *)
THEOREM HitsWhatWasShownHolds ==
  ASSUME DeletesResolved PROVE Spec => []HitsWhatWasShown
<1>1. IInv => HitsWhatWasShown
  <2> SUFFICES ASSUME IInv, NEW e \in effects
               PROVE  /\ row.sends = "id" => e.id = aims[e.run].id
                      /\ row.pins = "version" => e.at = aims[e.run].version
                      /\ row.does = "delete" /\ row.look # "none" =>
                           (e.id = aims[e.run].id \/ {e.id, aims[e.run].id} \subseteq Twins)
    BY DEF HitsWhatWasShown
  <2>1. row \in Table
    BY DEF IInv, TypeOK
  <2> QED
    BY <2>1 DEF IInv, Aims, DeletesResolved
<1> QED
  BY <1>1, Inductive, PTL

(* What a run said of its outcome stays true. *)
THEOREM ReportIsTrueHolds == Spec => []ReportIsTrue
<1>1. IInv => ReportIsTrue
  BY DEF IInv
<1> QED
  BY <1>1, Inductive, PTL

(* A request id takes effect once, however often and late it is sent. *)
THEOREM AtMostOnceHolds == Spec => []AtMostOnce
<1>1. Init => AtMostOnce
  BY DEF Init, AtMostOnce
<1>2. AtMostOnce /\ [Next]_vars => AtMostOnce'
  <2> SUFFICES ASSUME AtMostOnce, [Next]_vars PROVE AtMostOnce'
    OBVIOUS
  <2>1. CASE Apply
    <3> PICK n \in requests, o \in Objects : Applies(n, o)
      BY <2>1 DEF Apply
    <3>1. row.key = "given" => effects = {}
      BY DEF Applies, Before, KeyOf
    <3>2. \A e, f \in effects' : e \notin effects /\ f \notin effects => e = f
      BY DEF Applies
    <3> QED
      BY <3>1, <3>2 DEF AtMostOnce, Applies
  <2>2. CASE ~Apply
    <3>1. UNCHANGED <<row, effects>>
      BY <2>2 DEF Next, Command, Server, Others, Review, Begin, Look, Stop, Send, Done, Bare, Denied,
         GiveUp, Ends, Replay, Refuse, Answered, Rename, Edit, Remove, vars, server, wire
    <3> QED
      BY <3>1 DEF AtMostOnce
  <2> QED
    BY <2>1, <2>2
<1> QED
  BY <1>1, <1>2, PTL DEF Spec

(* Nothing others put into an object is undone, if the commands not known  *)
(* to send a whole value send the change alone; those known to send what   *)
(* they read undo nothing they had read.                                   *)
THEOREM NothingUndoneHolds ==
  ASSUME OthersNameTheChange PROVE Spec => NothingUndone
<1> DEFINE Kept == \A o \in Objects :
                     \/ Lost(o) = {}
                     \/ row \in Replacing
                     \/ /\ row \in Recomputing
                        /\ \E n \in requests \ requests' : Lost(o) \cap aims[n].content = {}
<1>1. IInv /\ [Next]_vars => [Kept]_vars
  <2> SUFFICES ASSUME IInv, [Next]_vars, row \notin Replacing, NEW o \in Objects
               PROVE  \/ Lost(o) = {}
                      \/ /\ row \in Recomputing
                         /\ \E n \in requests \ requests' : Lost(o) \cap aims[n].content = {}
    OBVIOUS
  <2> USE DEF IInv, TypeOK, Lost
  <2>1. CASE Apply
    <3> PICK n \in requests, q \in Objects : Applies(n, q)
      BY <2>1 DEF Apply
    <3>1. n \in requests \ requests'
      BY DEF Applies
    <3>2. content'[q] = Wanted(n, q) /\ \A p \in Objects : p # q => content'[p] = content[p]
      BY DEF Applies
    <3>3. CASE row.does # "set" \/ row.base = "server"
      <4>1. content[q] \subseteq content'[q]
        BY <3>2, <3>3 DEF Wanted
      <4> QED
        BY <3>2, <4>1
    <3>4. CASE row.does = "set" /\ row.base = "read"
      <4>1. aims[n].content \subseteq content'[q] /\ row \in Recomputing
        BY <3>2, <3>4 DEF Wanted, OthersNameTheChange
      <4>2. CASE o = q
        <5>1. Lost(o) \cap aims[n].content = {}
          BY <4>1, <4>2
        <5> QED
          BY <5>1, <4>1, <3>1
      <4> QED
        BY <3>2, <4>2
    <3> QED
      BY <3>3, <3>4 DEF OthersNameTheChange
  <2>2. CASE Edit
    BY <2>2 DEF Edit
  <2>3. CASE ~Apply /\ ~Edit
    BY <2>3 DEF Next, Command, Server, Others, Review, Begin, Look, Stop, Send, Done, Bare, Denied,
       GiveUp, Ends, Replay, Refuse, Answered, Rename, Remove, vars, server, things
  <2> QED
    BY <2>1, <2>2, <2>3
<1> QED
  BY <1>1, Inductive, PTL DEF Spec, NothingUndone
=============================================================================
