------------------------------- MODULE Walks -------------------------------
(***************************************************************************)
(* A command that reads a list of the server page by page, for the whole   *)
(* of it or to find something by name, while the list changes. A server    *)
(* may answer with the cursor it was sent. The walks of the repository     *)
(* differ in:                                                              *)
(*                                                                         *)
(*   repeat   "refused" or "followed": a cursor seen before                *)
(*   cap      "error", "told" (what was read so far, with a note) or       *)
(*            "none": more pages than MaxPages                             *)
(*   wants    "all", "window" (all up to a moment: it stops at the first   *)
(*            item past it), "one" (the only item of a name) or "first"    *)
(*            (the item of an id: it stops there)                          *)
(*   distinct items already read are passed over                           *)
(*                                                                         *)
(* A list is a range of positions in the server's order, of which some are *)
(* there; a page covers PageSize positions, and may be empty.              *)
(***************************************************************************)
EXTENDS Naturals, FiniteSets

CONSTANTS
  Size,         \* positions of the list
  PageSize,
  MaxPages,     \* the cap: 4 (previews), 40, 200 or 1000 pages, or 1 page
  MaxTurns      \* bound: changes of the list by others

SizesAssumption ==
  /\ {Size, PageSize, MaxPages} \subseteq Nat \ {0} /\ MaxTurns \in Nat

Walk ==
  [repeat : {"refused", "followed"}, cap : {"error", "told", "none"},
   wants : {"all", "window", "one", "first"}, distinct : BOOLEAN]

Careful == [repeat |-> "refused", cap |-> "error", wants |-> "all", distinct |-> FALSE]

AppServicesList == Careful
ProjectResourceList == Careful
FetchPendingHumanGates == [Careful EXCEPT !.cap = "none"]
ResolvePipelineID == [Careful EXCEPT !.wants = "one"]
FindInboxMessage == [Careful EXCEPT !.wants = "first"]
FetchAppPreviews == [Careful EXCEPT !.repeat = "followed", !.cap = "told"]
LoadReviewedPreview == [FetchAppPreviews EXCEPT !.wants = "one"]
ReadAgentGovernance ==
  [Careful EXCEPT !.repeat = "followed", !.cap = "none", !.wants = "window"]
AuditTail ==
  [Careful EXCEPT !.repeat = "followed", !.cap = "none", !.distinct = TRUE]

AllWalks ==
  {AppServicesList, FetchPendingHumanGates, ResolvePipelineID, FindInboxMessage,
   FetchAppPreviews, LoadReviewedPreview, ReadAgentGovernance, AuditTail}

VARIABLES
  walk,         \* the row
  live,         \* the items there
  wanted,       \* those of the name or id looked for; the window's, for "window"
  cursor,       \* where the next page begins
  seen,         \* the cursors received
  pages,        \* pages read; without a cap, whether odd
  got,          \* how often each item has been taken: 2 for more than once
  outcome,      \* "none", "complete", "cut", "found", "absent", "ambiguous", "error"
  turns,        \* changes so far
  throughout,   \* history: the items there since the walk began
  ever          \* history: the items there at some time

list == <<live, throughout, ever, turns>>
reading == <<cursor, seen, pages, got>>
vars == <<walk, list, wanted, reading, outcome>>

Positions == 1 .. Size
Walking == outcome = "none"

-----------------------------------------------------------------------------
PageAt(c) == live \cap (c + 1 .. c + PageSize)
(* A plausible slip: a short page is taken for the last. *)
ShortIsFinal(c) == Cardinality(PageAt(c)) < PageSize \/ c + PageSize >= Size
Final(c) == c + PageSize >= Size

(* What a walk takes of a page. *)
Past == live \ wanted
Wants(c) ==
  CASE walk.wants = "all"    -> PageAt(c)
    [] walk.wants = "window" ->
         {i \in PageAt(c) : \A j \in PageAt(c) \cap Past : i < j}
    [] OTHER                 -> PageAt(c) \cap wanted

Found == {i \in Positions : got'[i] > 0}

Once(n) == IF n = 2 THEN 2 ELSE n + 1

(* A plausible slip: items read before are taken again. *)
TakesAgain ==
  got' = [i \in Positions |-> IF i \in Wants(cursor) THEN Once(got[i]) ELSE got[i]]
Takes ==
  got' = [i \in Positions |->
            IF i \in Wants(cursor) /\ ~(walk.distinct /\ got[i] > 0)
              THEN Once(got[i]) ELSE got[i]]

(* A plausible slip: the first item of the name will do. *)
HasAny ==
  \/ Final(cursor)
  \/ walk.wants = "window" /\ PageAt(cursor) \cap Past # {}
  \/ walk.wants \in {"one", "first"} /\ Found # {}

(* The walk needs no further page. *)
HasAll ==
  \/ Final(cursor)
  \/ walk.wants = "window" /\ PageAt(cursor) \cap Past # {}
  \/ walk.wants = "first" /\ Found # {}

Capped == walk.cap # "none" /\ pages + 1 >= MaxPages

(* What it says of what it found. *)
Verdict(cut) ==
  CASE walk.wants \in {"all", "window"} -> IF cut THEN "cut" ELSE "complete"
    [] Cardinality(Found) = 1           -> "found"
    [] Cardinality(Found) > 1           -> "ambiguous"
    [] OTHER                            -> IF cut THEN "cut" ELSE "absent"

(* The last page. *)
Finish ==
  /\ Walking
  /\ Takes /\ HasAll
  /\ outcome' = Verdict(FALSE)
  /\ UNCHANGED <<walk, list, wanted, cursor, seen, pages>>

(* A page with a cursor, at the cap. Whether the cap or the repetition is  *)
(* looked at first makes no difference to the outcome.                     *)
Stopped ==
  /\ Walking
  /\ Takes /\ ~HasAll /\ Capped
  /\ outcome' = IF walk.cap = "error" THEN "error" ELSE Verdict(TRUE)
  /\ UNCHANGED <<walk, list, wanted, cursor, seen, pages>>

(* A plausible slip: the cursor is not looked up among those received. *)
Trusts(c) == TRUE
Follows(c) == walk.repeat = "followed" \/ c \notin seen

Goes(next) ==
  /\ Walking
  /\ Takes /\ ~HasAll /\ ~Capped
  /\ IF Follows(next)
       THEN /\ cursor' = next /\ seen' = seen \cup {next}
            /\ pages' = IF walk.cap = "none" THEN 1 - pages ELSE pages + 1
            /\ UNCHANGED outcome
       ELSE outcome' = "error" /\ UNCHANGED <<cursor, seen, pages>>

GoOn ==
  /\ Goes(cursor + PageSize)
  /\ UNCHANGED <<walk, list, wanted>>

(* The server answers with the cursor it was sent, once or for ever. *)
Repeat ==
  /\ cursor > 0
  /\ Goes(cursor)
  /\ UNCHANGED <<walk, list, wanted>>

(* A failed read, a context that is over, Ctrl-C. *)
Fail ==
  /\ Walking
  /\ outcome' = "error"
  /\ UNCHANGED <<walk, list, wanted, reading>>

(* Others change the list. *)
Add ==
  /\ Walking /\ turns < MaxTurns /\ turns' = turns + 1
  /\ \E i \in Positions \ ever : live' = live \cup {i} /\ ever' = ever \cup {i}
  /\ UNCHANGED <<walk, wanted, throughout, reading, outcome>>

Remove ==
  /\ Walking /\ turns < MaxTurns /\ turns' = turns + 1
  /\ \E i \in live : live' = live \ {i} /\ throughout' = throughout \ {i}
  /\ UNCHANGED <<walk, wanted, ever, reading, outcome>>

Init ==
  /\ walk \in AllWalks
  /\ live \in SUBSET Positions /\ throughout = live /\ ever = live
  /\ CASE walk.wants = "window" -> \E n \in 0 .. Size : wanted = 1 .. n
       [] walk.wants = "first"  -> \E i \in Positions : wanted = {i}
       [] walk.wants = "one"    -> wanted \in SUBSET Positions
       [] OTHER                 -> wanted = Positions
  /\ cursor = 0 /\ seen = {} /\ pages = 0 /\ got = [i \in Positions |-> 0]
  /\ outcome = "none" /\ turns = 0

Command ==
  \/ Finish
  \/ Stopped
  \/ GoOn
  \/ Repeat
  \/ Fail

Others ==
  \/ Add
  \/ Remove

Next == Command \/ Others

Spec == Init /\ [][Next]_vars

(* A read that is not answered ends with an error: the walk goes on. *)
FairSpec == Spec /\ WF_vars(Command)

-----------------------------------------------------------------------------
Taken == {i \in Positions : got[i] > 0}

(* A list that is shown as complete holds everything that was there all    *)
(* the while, and nothing that never was: however the list changes between *)
(* two pages, whatever pages are empty, and whatever cursor comes back.    *)
CompleteOrSaysSo ==
  outcome = "complete" => throughout \cap wanted \subseteq Taken /\ Taken \subseteq ever

(* Nothing is shown or counted twice by a walk that refuses a cursor it    *)
(* has had, or passes over what it has read.                               *)
NothingTwice ==
  walk.repeat = "refused" \/ walk.distinct => \A i \in Positions : got[i] <= 1

(* The one item found by a name is the only one that has been there all    *)
(* the while, and nothing is called absent that was: except a preview      *)
(* found before the cap, whose walk is not told that it was cut.           *)
TheOneFound ==
  walk.wants = "one" =>
    /\ outcome = "found" /\ walk.cap = "error" => throughout \cap wanted \subseteq Taken
    /\ outcome = "absent" => throughout \cap wanted = {}

(* Every walk with a cap, or that refuses a cursor it has had, ends, even  *)
(* with a server that repeats one for ever.                                *)
WalkEnds == walk.cap # "none" \/ walk.repeat = "refused" => <>~Walking
=============================================================================
