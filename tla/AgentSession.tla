---------------------------- MODULE AgentSession ----------------------------
(***************************************************************************)
(* `astro agent session attach`: clients attached to one task or box over  *)
(* the Agent Host Protocol (internal/api/agent_host.go and                 *)
(* cmd/agent_session.go).  An attachment prints the session's history,     *)
(* follows its actions and may send actions of its own, each of which      *)
(* waits for the host's echo.  Two goroutines share it: the transport's    *)
(* Recv fills a bounded channel, blocking when it is full, and the main    *)
(* goroutine drains it.  An observer of a task whose host is unavailable   *)
(* polls the durable events of the task instead.                           *)
(*                                                                         *)
(* The host is external: it orders all actions in one log, answers a       *)
(* subscription with a snapshot of it, and then sends what follows.  A     *)
(* connection may break at any moment, losing what is on its way.  Every   *)
(* attachment has a --client-id of its own, the default.                   *)
(***************************************************************************)
EXTENDS Naturals, Sequences, SequencesExt

CONSTANTS
  Attachments,  \* the clients
  Agent,        \* the origin of actions no client dispatched
  Modes,        \* what they were run for: "follow", "snapshot", "steer", "interactive"
  Capacity,     \* of the channel actions: 256
  PageSize,     \* of the event query: 100
  MaxActions,   \* bound: actions of the agent
  MaxInput,     \* bound: reads of the keyboard
  MaxSizes,     \* bound: sizes of the terminal sent
  MaxEvents     \* bound: durable events of the task

ASSUME AgentIsNoClient == Agent \notin Attachments
ASSUME Sizes == {Capacity, PageSize} \subseteq Nat \ {0}
ASSUME KnownModes == Modes \subseteq {"follow", "snapshot", "steer", "interactive"}

VARIABLES
  mode,         \* the flags of the command
  pc,           \* main goroutine
  nextSeq,      \* nextClientSeq, relative to the one the host supplied
  typed,        \* chunks read from the keyboard
  actions,      \* the channel from Recv to the main goroutine
  closed,       \* that channel is closed
  at,           \* the last action taken from it, or that of the snapshot
  shown,        \* the actions emitted, in order
  result,       \* how the command ended
  cursor,       \* durable events printed so far
  watched,      \* those events, in order
  up,           \* the connection is up
  toHost,       \* actions dispatched and not yet with the host
  toClient,     \* the snapshot reply (0) and actions on their way
  subscribed,   \* the host has answered the subscription
  from,         \* the snapshot covers the log up to here (fromSeq)
  log,          \* host: its actions, in order
  events,       \* task: durable events recorded
  trimmed,      \* task: how many of the first of them are no longer there
  over          \* task: its status is terminal

host == <<subscribed, from>>
local == <<nextSeq, typed, at, shown, result>>
channel == <<actions, closed>>
watch == <<cursor, watched>>
net == <<up, toHost, toClient, host>>
task == <<events, trimmed, over>>
vars == <<mode, pc, local, channel, watch, net, log, task>>

-----------------------------------------------------------------------------
(* Set f[a] and keep the rest. *)
To(f, a, v) == [f EXCEPT ![a] = v]

(* The command ends, and with it the connection and its goroutines.        *)
Ends(a, r) ==
  /\ pc' = To(pc, a, "ended")
  /\ result' = To(result, a, r)
  /\ actions' = To(actions, a, <<>>) /\ closed' = To(closed, a, TRUE)
  /\ toClient' = To(toClient, a, <<>>) /\ up' = To(up, a, FALSE)

Goes(a, there) ==
  /\ pc' = To(pc, a, there)
  /\ UNCHANGED <<result, channel, toClient, up>>

Stays == UNCHANGED <<pc, result, channel, toClient, up>>

Attaching == {"initializing", "subscribing"}

(* Initialize has returned; the channel is selected, then subscribed to.   *)
Subscribe(a) ==
  /\ pc[a] = "initializing" /\ up[a]
  /\ pc' = To(pc, a, "subscribing")
  /\ UNCHANGED <<mode, local, channel, watch, net, log, task>>

(* A plausible slip: every client falls back to the events of the task.    *)
UnavailableWatched(a) ==
  /\ pc[a] \in Attaching /\ up[a] /\ toClient[a] = <<>>
  /\ Goes(a, "watching")
  /\ UNCHANGED <<mode, nextSeq, typed, at, shown, watch, toHost, host, log, task>>

(* AgentHostUnavailable: an observer of a task falls back to its durable   *)
(* events; a controller action, or a box, does not.                        *)
Unavailable(a) ==
  /\ pc[a] \in Attaching /\ up[a] /\ toClient[a] = <<>>
  /\ IF mode[a] \in {"follow", "snapshot"}
     THEN Goes(a, "watching")
     ELSE Ends(a, "error")
  /\ UNCHANGED <<mode, nextSeq, typed, at, shown, watch, toHost, host, log, task>>

(* Any other refusal, or the connection breaks while attaching.            *)
AttachFails(a) ==
  /\ pc[a] \in Attaching /\ toClient[a] = <<>>
  /\ Ends(a, "error")
  /\ UNCHANGED <<mode, nextSeq, typed, at, shown, watch, toHost, host, log, task>>

-----------------------------------------------------------------------------
(* Recv runs as long as the command does. *)
Receives(a) == pc[a] # "ended" /\ toClient[a] # <<>>

RecvReply(a) ==
  /\ Receives(a) /\ Head(toClient[a]) = 0
  /\ toClient' = To(toClient, a, Tail(toClient[a]))
  /\ pc' = To(pc, a, "attached")
  /\ at' = To(at, a, from[a])
  /\ UNCHANGED <<mode, nextSeq, typed, shown, result, channel, watch, up, toHost, host,
                 log, task>>

(* A plausible slip: an action that finds the channel full is dropped, as  *)
(* by the SDK's own subscriptions.                                         *)
RecvActionDropping(a) ==
  /\ Receives(a) /\ Head(toClient[a]) > 0
  /\ toClient' = To(toClient, a, Tail(toClient[a]))
  /\ actions' = IF Len(actions[a]) < Capacity
                THEN To(actions, a, Append(actions[a], Head(toClient[a])))
                ELSE actions
  /\ UNCHANGED <<mode, pc, local, closed, watch, up, toHost, host, log, task>>

(* Delivery blocks until the channel has room. *)
RecvAction(a) ==
  /\ Receives(a) /\ Head(toClient[a]) > 0
  /\ Len(actions[a]) < Capacity
  /\ toClient' = To(toClient, a, Tail(toClient[a]))
  /\ actions' = To(actions, a, Append(actions[a], Head(toClient[a])))
  /\ UNCHANGED <<mode, pc, local, closed, watch, up, toHost, host, log, task>>

(* A plausible slip: the channel stays open. *)
RecvFailsOpen(a) ==
  /\ pc[a] # "ended" /\ ~up[a] /\ toClient[a] = <<>> /\ ~closed[a]
  /\ UNCHANGED vars

(* The transport fails once everything received has been read. *)
RecvFails(a) ==
  /\ pc[a] # "ended" /\ ~up[a] /\ toClient[a] = <<>> /\ ~closed[a]
  /\ closed' = To(closed, a, TRUE)
  /\ UNCHANGED <<mode, pc, local, actions, watch, net, log, task>>

-----------------------------------------------------------------------------
(* Dispatch: write the action, then wait for its echo.  A write on a       *)
(* broken connection fails, or is lost if the break is not yet noticed.    *)
Dispatch(a, body) ==
  \/ /\ nextSeq' = To(nextSeq, a, nextSeq[a] + 1)
     /\ Goes(a, "waiting")
     /\ toHost' = IF up[a]
                  THEN To(toHost, a, Append(toHost[a], [seq |-> nextSeq[a], body |-> body]))
                  ELSE toHost
  \/ ~up[a] /\ Ends(a, "error") /\ UNCHANGED <<nextSeq, toHost>>

(* The history is printed, and the command does what it was run for.  A    *)
(* verdict on a tool call needs an active turn in the snapshot.            *)
ShowSnapshot(a) ==
  /\ pc[a] = "attached"
  /\ \/ mode[a] = "snapshot" /\ Ends(a, "done") /\ UNCHANGED <<nextSeq, toHost>>
     \/ mode[a] = "steer" /\ Dispatch(a, 1)
     \/ mode[a] = "steer" /\ Ends(a, "error") /\ UNCHANGED <<nextSeq, toHost>>
     \/ /\ mode[a] \in {"follow", "interactive"}
        /\ Goes(a, "loop") /\ UNCHANGED <<nextSeq, toHost>>
  /\ UNCHANGED <<mode, typed, at, shown, watch, host, log, task>>

(* A plausible slip: the sequence alone identifies the action. *)
AcknowledgesSeq(a, n) == log[n].seq = nextSeq[a] - 1

(* Origin.ClientId and Origin.ClientSeq name the action that waits.        *)
Acknowledges(a, n) == log[n].by = a /\ log[n].seq = nextSeq[a] - 1

Takes(a) == actions[a] # <<>>

Emit(a, n) == shown' = To(shown, a, Append(shown[a], n))

Continues(a) ==
  /\ pc' = To(pc, a, "loop")
  /\ actions' = To(actions, a, Tail(actions[a]))
  /\ UNCHANGED <<shown, result, closed, toClient, up>>

Concludes(a, n) == Ends(a, IF log[n].ok THEN "accepted" ELSE "rejected")

(* A plausible slip: after a rejected input the next one is read. *)
ReceiptTolerant(a) ==
  LET n == Head(actions[a]) IN
  /\ pc[a] = "waiting" /\ Takes(a) /\ Acknowledges(a, n)
  /\ at' = To(at, a, n)
  /\ IF mode[a] = "interactive" THEN Continues(a) ELSE Concludes(a, n) /\ Emit(a, n)
  /\ UNCHANGED <<mode, nextSeq, typed, watch, toHost, host, log, task>>

(* The echo: a controller prints it and ends; keyboard input goes on       *)
(* unless the host rejected it, and does not print it.                     *)
Receipt(a) ==
  LET n == Head(actions[a]) IN
  /\ pc[a] = "waiting" /\ Takes(a) /\ Acknowledges(a, n)
  /\ at' = To(at, a, n)
  /\ IF mode[a] # "interactive" THEN Concludes(a, n) /\ Emit(a, n)
     ELSE IF log[n].ok THEN Continues(a)
     ELSE Concludes(a, n) /\ UNCHANGED shown
  /\ UNCHANGED <<mode, nextSeq, typed, watch, toHost, host, log, task>>

(* Any other action, while waiting or following, is printed.               *)
Other(a) ==
  LET n == Head(actions[a]) IN
  /\ pc[a] \in {"waiting", "loop"} /\ Takes(a)
  /\ pc[a] = "waiting" => ~Acknowledges(a, n)
  /\ actions' = To(actions, a, Tail(actions[a]))
  /\ at' = To(at, a, n)
  /\ Emit(a, n)
  /\ UNCHANGED <<mode, pc, nextSeq, typed, result, closed, watch, net, log, task>>

(* 30 s, or a signal: the action may have been accepted. *)
Expire(a) ==
  /\ pc[a] = "waiting"
  /\ Ends(a, "uncertain")
  /\ UNCHANGED <<mode, nextSeq, typed, at, shown, watch, toHost, host, log, task>>

(* The channel is closed and drained. *)
Disconnected(a) ==
  /\ pc[a] \in {"waiting", "loop"} /\ closed[a] /\ ~Takes(a)
  /\ Ends(a, IF pc[a] = "waiting" THEN "uncertain" ELSE "error")
  /\ UNCHANGED <<mode, nextSeq, typed, at, shown, watch, toHost, host, log, task>>

(* A chunk of the keyboard, or the size of the terminal, which counts as 0. *)
Input(a) ==
  /\ pc[a] = "loop" /\ mode[a] = "interactive"
  /\ \/ /\ typed[a] < MaxInput
        /\ typed' = To(typed, a, typed[a] + 1)
        /\ Dispatch(a, typed[a] + 1)
     \/ nextSeq[a] <= typed[a] + MaxSizes /\ Dispatch(a, 0) /\ UNCHANGED typed
  /\ UNCHANGED <<mode, at, shown, watch, host, log, task>>

(* Ctrl-], the end of stdin, or a signal. *)
Detach(a) ==
  /\ pc[a] \in {"loop", "watching"}
  /\ Ends(a, "done")
  /\ UNCHANGED <<mode, nextSeq, typed, at, shown, watch, toHost, host, log, task>>

-----------------------------------------------------------------------------
(* watchAgentTaskEvents: one query reads the task and a page of events     *)
(* after the cursor.                                                       *)
Page(a) ==
  LET after == IF trimmed > cursor[a] THEN trimmed ELSE cursor[a] IN
  [i \in 1 .. (IF events - after < PageSize THEN events - after ELSE PageSize) |-> after + i]

(* What follows the page's events: the result, another page at once, or,   *)
(* but for --snapshot, a second's wait.                                    *)
AfterPage(a, page) ==
  IF over /\ cursor'[a] >= events THEN Ends(a, "outcome")
  ELSE IF Len(page) < PageSize /\ mode[a] = "snapshot" THEN Ends(a, "done")
  ELSE Stays

(* A plausible slip: the numbers of the events are not looked at. *)
PollUnchecked(a) ==
  /\ pc[a] = "watching"
  /\ cursor' = To(cursor, a, IF Page(a) = <<>> THEN cursor[a] ELSE Last(Page(a)))
  /\ watched' = To(watched, a, watched[a] \o Page(a))
  /\ AfterPage(a, Page(a))
  /\ UNCHANGED <<mode, nextSeq, typed, at, shown, toHost, host, log, task>>

Poll(a) ==
  /\ pc[a] = "watching"
  /\ IF Page(a) # <<>> /\ Head(Page(a)) # cursor[a] + 1
     THEN Ends(a, "error") /\ UNCHANGED watch
     ELSE /\ cursor' = To(cursor, a, cursor[a] + Len(Page(a)))
          /\ watched' = To(watched, a, watched[a] \o Page(a))
          /\ AfterPage(a, Page(a))
  /\ UNCHANGED <<mode, nextSeq, typed, at, shown, toHost, host, log, task>>

(* The query fails, or the task is no longer visible. *)
PollFails(a) ==
  /\ pc[a] = "watching"
  /\ Ends(a, "error")
  /\ UNCHANGED <<mode, nextSeq, typed, at, shown, watch, toHost, host, log, task>>

-----------------------------------------------------------------------------
(* The host, the task and the network. *)
Hears(a) == subscribed[a] /\ up[a] /\ pc[a] # "ended"

HostSnapshot(a) ==
  /\ pc[a] = "subscribing" /\ up[a] /\ ~subscribed[a]
  /\ subscribed' = To(subscribed, a, TRUE)
  /\ from' = To(from, a, Len(log))
  /\ toClient' = To(toClient, a, <<0>>)
  /\ UNCHANGED <<mode, pc, local, channel, watch, up, toHost, log, task>>

(* An action joins the log and is sent to all who subscribed.              *)
Record(entry) ==
  /\ log' = Append(log, entry)
  /\ toClient' = [a \in Attachments |-> IF Hears(a)
                                    THEN Append(toClient[a], Len(log) + 1)
                                    ELSE toClient[a]]

AgentActs ==
  /\ Cardinality({n \in DOMAIN log : log[n].by = Agent}) < MaxActions
  /\ Record([by |-> Agent, seq |-> 0, body |-> 0, ok |-> TRUE])
  /\ UNCHANGED <<mode, pc, local, channel, watch, up, toHost, host, task>>

(* A dispatched action is accepted, or rejected for lack of permission, of *)
(* a tool call that waits, and so on.                                      *)
HostReceive(a) ==
  /\ toHost[a] # <<>>
  /\ toHost' = To(toHost, a, Tail(toHost[a]))
  /\ \E ok \in BOOLEAN :
       Record([by |-> a, seq |-> Head(toHost[a]).seq, body |-> Head(toHost[a]).body, ok |-> ok])
  /\ UNCHANGED <<mode, pc, local, channel, watch, up, host, task>>

Break(a) ==
  /\ up[a] /\ pc[a] \notin {"ended", "watching"}
  /\ up' = To(up, a, FALSE)
  /\ \E n \in 0 .. Len(toClient[a]) : toClient' = To(toClient, a, SubSeq(toClient[a], 1, n))
  /\ \E n \in 0 .. Len(toHost[a]) : toHost' = To(toHost, a, SubSeq(toHost[a], 1, n))
  /\ UNCHANGED <<mode, pc, local, channel, watch, host, log, task>>

(* Events recorded before a watch begins are as good as recorded between   *)
(* its beginning and its first query, so the task runs only while watched. *)
TaskRuns ==
  /\ ~over /\ \E a \in Attachments : pc[a] = "watching"
  /\ \/ events < MaxEvents /\ events' = events + 1 /\ UNCHANGED <<trimmed, over>>
     \/ over' = TRUE /\ UNCHANGED <<events, trimmed>>
  /\ UNCHANGED <<mode, pc, local, channel, watch, net, log>>

(* The first of the events are no longer kept; the last one always is.     *)
Trim ==
  /\ trimmed + 1 < events
  /\ trimmed' = trimmed + 1
  /\ UNCHANGED <<mode, pc, local, channel, watch, net, log, events, over>>

-----------------------------------------------------------------------------
Init ==
  /\ mode \in [Attachments -> Modes]
  /\ pc = [a \in Attachments |-> "initializing"]
  /\ nextSeq = [a \in Attachments |-> 1]
  /\ typed = [a \in Attachments |-> 0]
  /\ actions = [a \in Attachments |-> <<>>]
  /\ closed = [a \in Attachments |-> FALSE]
  /\ at = [a \in Attachments |-> 0]
  /\ shown = [a \in Attachments |-> <<>>]
  /\ result = [a \in Attachments |-> "none"]
  /\ cursor = [a \in Attachments |-> 0]
  /\ watched = [a \in Attachments |-> <<>>]
  /\ up = [a \in Attachments |-> TRUE]
  /\ toHost = [a \in Attachments |-> <<>>]
  /\ toClient = [a \in Attachments |-> <<>>]
  /\ subscribed = [a \in Attachments |-> FALSE]
  /\ from = [a \in Attachments |-> 0]
  /\ log = <<>>
  /\ events = 0 /\ trimmed = 0 /\ over = FALSE

(* Steps a client takes by itself once they are possible. *)
Runs(a) ==
  \/ RecvReply(a)
  \/ RecvAction(a)
  \/ RecvFails(a)
  \/ ShowSnapshot(a)
  \/ Receipt(a)
  \/ Other(a)
  \/ Disconnected(a)
  \/ ~up[a] /\ AttachFails(a)
  \/ Poll(a)

Client(a) ==
  \/ Subscribe(a)
  \/ Unavailable(a)
  \/ AttachFails(a)
  \/ RecvReply(a)
  \/ RecvAction(a)
  \/ RecvFails(a)
  \/ ShowSnapshot(a)
  \/ Receipt(a)
  \/ Other(a)
  \/ Expire(a)
  \/ Disconnected(a)
  \/ Input(a)
  \/ Detach(a)
  \/ Poll(a)
  \/ PollFails(a)

World ==
  \/ AgentActs
  \/ \E a \in Attachments : HostSnapshot(a) \/ HostReceive(a) \/ Break(a)
  \/ TaskRuns
  \/ Trim

Next == World \/ \E a \in Attachments : Client(a)

(* The goroutines of a client run, and the time of a wait comes.           *)
Fairness == \A a \in Attachments : WF_vars(Runs(a)) /\ WF_vars(Expire(a))

Spec == Init /\ [][Next]_vars /\ Fairness

-----------------------------------------------------------------------------
(* Every variable holds a value of its type; the channel keeps its         *)
(* capacity, and nothing of the session is printed before its snapshot.    *)
TypeOK ==
  /\ mode \in [Attachments -> Modes]
  /\ pc \in [Attachments -> Attaching \cup {"attached", "waiting", "loop", "watching", "ended"}]
  /\ result \in [Attachments -> {"none", "done", "accepted", "rejected", "uncertain",
                                 "outcome", "error"}]
  /\ closed \in [Attachments -> BOOLEAN] /\ up \in [Attachments -> BOOLEAN]
  /\ subscribed \in [Attachments -> BOOLEAN] /\ over \in BOOLEAN
  /\ \A i \in DOMAIN log : log[i].by \in Attachments \cup {Agent} /\ log[i].ok \in BOOLEAN
  /\ trimmed \in 0 .. events /\ events \in 0 .. MaxEvents
  /\ \A a \in Attachments :
       /\ Len(actions[a]) <= Capacity /\ Range(actions[a]) \subseteq DOMAIN log
       /\ Range(toClient[a]) \subseteq {0} \cup DOMAIN log
       /\ typed[a] \in 0 .. MaxInput /\ nextSeq[a] \in Nat \ {0}
       /\ Range(toHost[a]) \subseteq [seq : 1 .. nextSeq[a] - 1, body : 0 .. MaxInput + 1]
       /\ from[a] \in 0 .. Len(log) /\ at[a] \in 0 .. Len(log) /\ cursor[a] \in 0 .. events
       /\ pc[a] \in Attaching => shown[a] = <<>>

(* "The initial snapshot contains history, followed by live actions": what *)
(* an attachment prints is everything that followed its snapshot, each     *)
(* action once and in the host's order, up to the last it has taken; only  *)
(* the echoes of its own keyboard input are left out.                      *)
HistoryWhole ==
  \A a \in Attachments :
    pc[a] \notin Attaching /\ subscribed[a] =>
      /\ Range(shown[a]) = {n \in from[a] + 1 .. at[a] :
                             ~(mode[a] = "interactive" /\ log[n].by = a)}
      /\ \A i, j \in DOMAIN shown[a] : i < j => shown[a][i] < shown[a][j]

(* "Dispatch awaits the authoritative echo": a controller is told that its *)
(* action was accepted, or rejected, only if the host did so, to this very *)
(* action; whatever else happens it ends with an error or uncertain, and   *)
(* it never ends as an observer.                                           *)
VerdictIsTheHosts ==
  \A a \in Attachments :
    mode[a] = "steer" /\ pc[a] = "ended" =>
      \/ result[a] \in {"error", "uncertain"}
      \/ \E n \in DOMAIN log :
           log[n].by = a /\ log[n].ok = (result[a] = "accepted")

(* Keyboard input reaches the terminal without gaps: what the host has     *)
(* accepted of it is always what was typed first, in order.                *)
InputWithoutGaps ==
  \A a \in Attachments :
    mode[a] = "interactive" =>
      LET accepted == {n \in DOMAIN log : log[n].by = a /\ log[n].ok /\ log[n].body > 0} IN
      /\ \E last \in 0 .. typed[a] : {log[n].body : n \in accepted} = 1 .. last
      /\ \A m, n \in accepted : m < n => log[m].body < log[n].body

(* A watch prints the events of a task from the first one on, in order and *)
(* without gaps, and its result only after all of them.                    *)
WatchWhole ==
  \A a \in Attachments :
    /\ watched[a] = [i \in 1 .. cursor[a] |-> i]
    /\ result[a] = "outcome" => over /\ cursor[a] = events

(* Whatever an attachment prints, of the session or of the task's events,  *)
(* it prints whole, once and in order.                                     *)
ShownWhole == HistoryWhole /\ WatchWhole

(* No command stays behind: one whose connection breaks ends, after what   *)
(* has arrived, and so does the watch of a task that is over.              *)
AttachmentEnds ==
  \A a \in Attachments :
    (~up[a] \/ (over /\ pc[a] = "watching")) ~> (pc[a] = "ended")
=============================================================================
