---------------------------- MODULE InboxFollow ----------------------------
(***************************************************************************)
(* `astro inbox follow`. Every cycle reads the inbox from its newest       *)
(* message back, page by page, to a message printed before, and prints     *)
(* what it passed, oldest first. Reads that fail are tried again a few     *)
(* times, from the newest message; messages come in at any time.           *)
(***************************************************************************)
EXTENDS Integers, Sequences, SequencesExt, FiniteSetsExt

CONSTANTS
  PageSize,     \* --limit
  MaxPages,     \* inboxMaxPages: 40
  MaxSeen,      \* 10000
  MaxRetries,   \* 4
  MaxMessages   \* bound: messages

SizesAssumption ==
  {PageSize, MaxPages, MaxSeen, MaxRetries, MaxMessages} \subseteq Nat \ {0}

VARIABLES
  inbox,        \* the messages there
  pc,           \* "walk", "print", "wait", "retry", "ended"
  exit,         \* "none", "ok" (Ctrl-C), or why it ended: "error", "pages", "seen"
  after,        \* the cursor; 0: from the newest
  pages,        \* pages read in this cycle
  fresh,        \* messages passed in this cycle, newest first
  printed,      \* the messages printed, in order; those seen
  failures,     \* retries since the last cycle that ended
  behind,       \* history: messages that came in behind a newer one
  there         \* history: the messages there when the cycle began

cycle == <<after, pages, fresh, there>>
vars == <<inbox, behind, pc, exit, cycle, printed, failures>>

-----------------------------------------------------------------------------
(* In the order the server lists them. *)
Messages == 1 .. MaxMessages
Seen == Range(printed)
NewerThan(m, S) == {k \in S : k > m}
Newest(S) ==
  [i \in 1 .. Cardinality(S) |-> CHOOSE m \in S : Cardinality(NewerThan(m, S)) = i - 1]
Rest == {m \in inbox : after = 0 \/ m < after}
Page == SubSeq(Newest(Rest), 1, IF Cardinality(Rest) < PageSize THEN Cardinality(Rest) ELSE PageSize)

(* The part of the page before the first message seen. *)
Passed == {m \in Range(Page) : \A k \in Range(Page) \cap Seen : m > k}

(* A plausible slip: the page limit is taken for the end of the inbox. *)
CompleteAtLimit ==
  \/ Range(Page) \cap Seen # {}
  \/ Cardinality(Rest) <= PageSize
  \/ pages + 1 = MaxPages
Complete ==
  \/ Range(Page) \cap Seen # {}
  \/ Cardinality(Rest) <= PageSize

Restart == after' = 0 /\ pages' = 0 /\ fresh' = <<>> /\ there' = inbox

End(why) ==
  /\ pc' = "ended" /\ exit' = why
  /\ UNCHANGED <<inbox, behind, cycle, printed, failures>>

(* One page of a cycle. *)
ReadPage ==
  /\ pc = "walk" /\ pages < MaxPages
  /\ fresh' = fresh \o Newest(Passed)
  /\ pages' = pages + 1
  /\ IF Complete THEN pc' = "print" /\ after' = after
                 ELSE pc' = "walk" /\ after' = Last(Page)
  /\ UNCHANGED <<inbox, behind, there, exit, printed, failures>>

TooManyPages == pc = "walk" /\ pages = MaxPages /\ End("pages")

(* A read that fails: too many requests, a server error or no connection   *)
(* may be passed over; what the cycle has read is dropped.                 *)
Retry ==
  /\ pc = "walk" /\ pages < MaxPages
  /\ failures < MaxRetries
  /\ failures' = failures + 1
  /\ pc' = "retry"
  /\ UNCHANGED <<inbox, behind, cycle, exit, printed>>

Fail == pc = "walk" /\ pages < MaxPages /\ End("error")

(* A plausible slip: newest first, as they were read. *)
PrintAsRead ==
  /\ pc = "print" /\ fresh # <<>> /\ Len(printed) < MaxSeen
  /\ printed' = Append(printed, Head(fresh))
  /\ fresh' = Tail(fresh)
  /\ UNCHANGED <<inbox, behind, pc, exit, after, pages, there, failures>>
PrintNext ==
  /\ pc = "print" /\ fresh # <<>> /\ Len(printed) < MaxSeen
  /\ printed' = Append(printed, Last(fresh))
  /\ fresh' = Front(fresh)
  /\ UNCHANGED <<inbox, behind, pc, exit, after, pages, there, failures>>

TooManySeen == pc = "print" /\ fresh # <<>> /\ Len(printed) >= MaxSeen /\ End("seen")

PrintedAll ==
  /\ pc = "print" /\ fresh = <<>>
  /\ pc' = "wait" /\ failures' = 0
  /\ UNCHANGED <<inbox, behind, cycle, exit, printed>>

(* The interval, or the backoff, has passed. *)
Wake ==
  /\ pc \in {"wait", "retry"}
  /\ pc' = "walk"
  /\ Restart
  /\ UNCHANGED <<inbox, behind, exit, printed, failures>>

(* Ctrl-C, looked at when a read fails and while waiting. *)
Interrupt == pc \in {"walk", "wait", "retry"} /\ End("ok")

(* A message comes in; now and then behind a newer one. *)
Arrive ==
  /\ \E m \in Messages \ inbox :
       /\ inbox' = inbox \cup {m}
       /\ behind' = IF \E k \in inbox : k > m THEN behind \cup {m} ELSE behind
  /\ UNCHANGED <<pc, exit, cycle, printed, failures>>

Init ==
  /\ \E n \in 0 .. MaxMessages : inbox = 1 .. n
  /\ behind = {}
  /\ pc = "walk" /\ exit = "none" /\ printed = <<>> /\ failures = 0
  /\ after = 0 /\ pages = 0 /\ fresh = <<>> /\ there = inbox

Command ==
  \/ ReadPage
  \/ TooManyPages
  \/ Retry
  \/ Fail
  \/ PrintNext
  \/ TooManySeen
  \/ PrintedAll
  \/ Wake
  \/ Interrupt

Next == Command \/ Arrive

Spec == Init /\ [][Next]_vars

-----------------------------------------------------------------------------
(* Messages are printed once and oldest first, across pages, cycles and    *)
(* retries, while others come in at the head of what is being read.        *)
PrintedInOrder == \A i, j \in DOMAIN printed : i < j => printed[i] < printed[j]

(* When a cycle is over, every message that was there when it began has    *)
(* been printed, except one that came in behind a newer one. A walk cut    *)
(* short by the page limit is no cycle: it ends the command.               *)
NoneMissed == pc = "wait" => there \ behind \subseteq Seen
=============================================================================
