------------------------ MODULE AgentSessionProofs ------------------------
(***************************************************************************)
(* What an attachment prints, is told and sends, whatever else the host    *)
(* hears, for every number of clients and every size.                      *)
(***************************************************************************)
EXTENDS AgentSession, TLAPS

-----------------------------------------------------------------------------
(***************************************************************************)
(* The shape of the state.                                                 *)
(***************************************************************************)
Live == {"attached", "waiting", "loop"}

Positions == Attaching \cup Live \cup {"watching", "ended"}

Results == {"none", "done", "accepted", "rejected", "uncertain", "outcome", "error"}

Orders == [seq : Nat, body : Nat]

Entries == [by : Attachments \cup {Agent}, seq : Nat, body : Nat, ok : BOOLEAN]

Flags ==
  /\ closed \in [Attachments -> BOOLEAN] /\ up \in [Attachments -> BOOLEAN]
  /\ subscribed \in [Attachments -> BOOLEAN] /\ over \in BOOLEAN

Places ==
  /\ pc \in [Attachments -> Positions] /\ mode \in [Attachments -> Modes]
  /\ result \in [Attachments -> Results]

Counters ==
  /\ nextSeq \in [Attachments -> Nat] /\ typed \in [Attachments -> Nat]
  /\ at \in [Attachments -> Nat] /\ cursor \in [Attachments -> Nat]
  /\ from \in [Attachments -> Nat]
  /\ events \in Nat /\ trimmed \in Nat

Streams ==
  /\ actions \in [Attachments -> Seq(Nat)] /\ toClient \in [Attachments -> Seq(Nat)]
  /\ shown \in [Attachments -> Seq(Nat)] /\ watched \in [Attachments -> Seq(Nat)]

Requests == toHost \in [Attachments -> Seq(Orders)] /\ log \in Seq(Entries)

TypeInv == Flags /\ Places /\ Counters /\ Streams /\ Requests

(* How a command goes on, ends, or stays where it is. *)
LEMMA EndsTyped ==
  ASSUME Flags, Places, Streams, NEW a \in Attachments, NEW r \in Results, Ends(a, r)
  PROVE  /\ pc' \in [Attachments -> Positions] /\ result' \in [Attachments -> Results]
         /\ actions' \in [Attachments -> Seq(Nat)] /\ toClient' \in [Attachments -> Seq(Nat)]
         /\ closed' \in [Attachments -> BOOLEAN] /\ up' \in [Attachments -> BOOLEAN]
         /\ pc'[a] = "ended" /\ result'[a] = r /\ actions'[a] = <<>> /\ toClient'[a] = <<>>
         /\ up'[a] = FALSE
         /\ \A b \in Attachments : b # a =>
              /\ pc'[b] = pc[b] /\ result'[b] = result[b] /\ actions'[b] = actions[b]
              /\ toClient'[b] = toClient[b] /\ up'[b] = up[b]
  <1>1. "ended" \in Positions /\ <<>> \in Seq(Nat) /\ TRUE \in BOOLEAN /\ FALSE \in BOOLEAN
    BY DEF Positions
  <1>2. /\ pc' = [pc EXCEPT ![a] = "ended"] /\ result' = [result EXCEPT ![a] = r]
        /\ actions' = [actions EXCEPT ![a] = <<>>] /\ toClient' = [toClient EXCEPT ![a] = <<>>]
        /\ closed' = [closed EXCEPT ![a] = TRUE] /\ up' = [up EXCEPT ![a] = FALSE]
    BY DEF Ends, To
  <1>3. /\ pc \in [Attachments -> Positions] /\ result \in [Attachments -> Results]
        /\ actions \in [Attachments -> Seq(Nat)] /\ toClient \in [Attachments -> Seq(Nat)]
        /\ closed \in [Attachments -> BOOLEAN] /\ up \in [Attachments -> BOOLEAN]
    BY DEF Flags, Places, Streams
  <1>4. /\ pc' \in [Attachments -> Positions] /\ result' \in [Attachments -> Results]
        /\ actions' \in [Attachments -> Seq(Nat)] /\ toClient' \in [Attachments -> Seq(Nat)]
    BY <1>1, <1>2, <1>3
  <1>5. closed' \in [Attachments -> BOOLEAN] /\ up' \in [Attachments -> BOOLEAN]
    BY <1>2, <1>3
  <1>6. /\ pc'[a] = "ended" /\ result'[a] = r /\ actions'[a] = <<>> /\ toClient'[a] = <<>>
        /\ up'[a] = FALSE
    BY <1>2, <1>3
  <1>7. \A b \in Attachments : b # a =>
          /\ pc'[b] = pc[b] /\ result'[b] = result[b] /\ actions'[b] = actions[b]
          /\ toClient'[b] = toClient[b] /\ up'[b] = up[b]
    BY <1>2, <1>3
  <1> QED BY <1>4, <1>5, <1>6, <1>7

LEMMA GoesTyped ==
  ASSUME Flags, Places, Streams, NEW a \in Attachments, NEW there \in Positions, Goes(a, there)
  PROVE  /\ pc' \in [Attachments -> Positions]
         /\ UNCHANGED <<result, actions, closed, toClient, up>>
         /\ pc'[a] = there
         /\ \A b \in Attachments : b # a => pc'[b] = pc[b]
  <1>1. pc' = To(pc, a, there) /\ UNCHANGED <<result, actions, closed, toClient, up>>
    BY DEF Goes, channel
  <1> QED BY <1>1 DEF To, Places

(* What one client does leaves the other clients as they are. *)
Alone(a) ==
  /\ UNCHANGED <<mode, subscribed, from, log, events, trimmed, over>>
  /\ \A b \in Attachments : b # a =>
       /\ pc'[b] = pc[b] /\ result'[b] = result[b] /\ up'[b] = up[b]
       /\ nextSeq'[b] = nextSeq[b] /\ typed'[b] = typed[b] /\ at'[b] = at[b]
       /\ cursor'[b] = cursor[b] /\ actions'[b] = actions[b] /\ toClient'[b] = toClient[b]
       /\ shown'[b] = shown[b] /\ watched'[b] = watched[b] /\ toHost'[b] = toHost[b]

(***************************************************************************)
(* The moves a client makes, in the terms of its own state.                *)
(***************************************************************************)
(* What it has been given and has sent stays. *)
Rests(a) ==
  /\ nextSeq'[a] = nextSeq[a] /\ typed'[a] = typed[a] /\ toHost'[a] = toHost[a]
  /\ cursor'[a] = cursor[a] /\ watched'[a] = watched[a]

Quits(a, r) ==
  /\ pc[a] # "ended" /\ pc'[a] = "ended" /\ result'[a] = r
  /\ actions'[a] = <<>> /\ toClient'[a] = <<>> /\ up'[a] = FALSE

(* Where it is, it goes on to another place, and nothing else changes. *)
Turns(a, there) ==
  /\ pc'[a] = there /\ result'[a] = result[a] /\ up'[a] = up[a]
  /\ actions'[a] = actions[a] /\ toClient'[a] = toClient[a]

Unmoved(a) == at'[a] = at[a] /\ shown'[a] = shown[a]

Dispatched(a, b) ==
  /\ nextSeq'[a] = nextSeq[a] + 1
  /\ toHost'[a] = IF up[a] THEN Append(toHost[a], [seq |-> nextSeq[a], body |-> b])
                  ELSE toHost[a]
  /\ cursor'[a] = cursor[a] /\ watched'[a] = watched[a]
  /\ Turns(a, "waiting")

LEMMA Quitting ==
  ASSUME TypeInv, NEW a \in Attachments, NEW r \in Results, pc[a] # "ended", Ends(a, r),
         UNCHANGED <<mode, nextSeq, typed, at, shown, cursor, watched, toHost, subscribed, from,
                     log, events, trimmed, over>>
  PROVE  TypeInv' /\ Alone(a) /\ Quits(a, r) /\ Rests(a) /\ Unmoved(a)
  <1>1. /\ pc' \in [Attachments -> Positions] /\ result' \in [Attachments -> Results]
        /\ actions' \in [Attachments -> Seq(Nat)] /\ toClient' \in [Attachments -> Seq(Nat)]
        /\ closed' \in [Attachments -> BOOLEAN] /\ up' \in [Attachments -> BOOLEAN]
        /\ pc'[a] = "ended" /\ result'[a] = r /\ actions'[a] = <<>> /\ toClient'[a] = <<>>
        /\ up'[a] = FALSE
        /\ \A b \in Attachments : b # a =>
             /\ pc'[b] = pc[b] /\ result'[b] = result[b] /\ actions'[b] = actions[b]
             /\ toClient'[b] = toClient[b] /\ up'[b] = up[b]
    BY EndsTyped DEF TypeInv
  <1>2. TypeInv'
    <2>1. Flags'
      BY <1>1 DEF TypeInv, Flags
    <2>2. Places'
      BY <1>1 DEF TypeInv, Places
    <2>3. Counters'
      BY <1>1 DEF TypeInv, Counters
    <2>4. Streams'
      BY <1>1 DEF TypeInv, Streams
    <2>5. Requests'
      BY <1>1 DEF TypeInv, Requests
    <2> QED BY <2>1, <2>2, <2>3, <2>4, <2>5 DEF TypeInv
  <1>3. Alone(a) /\ Quits(a, r) /\ Rests(a) /\ Unmoved(a)
    BY <1>1 DEF Alone, Quits, Rests, Unmoved
  <1> QED BY <1>2, <1>3

LEMMA Turning ==
  ASSUME TypeInv, NEW a \in Attachments, NEW there \in Positions, Goes(a, there),
         UNCHANGED <<mode, nextSeq, typed, at, shown, cursor, watched, toHost, subscribed, from,
                     log, events, trimmed, over>>
  PROVE  TypeInv' /\ Alone(a) /\ Turns(a, there) /\ Rests(a) /\ Unmoved(a)
  <1>1. /\ pc' \in [Attachments -> Positions]
        /\ UNCHANGED <<result, actions, closed, toClient, up>>
        /\ pc'[a] = there
        /\ \A b \in Attachments : b # a => pc'[b] = pc[b]
    BY GoesTyped DEF TypeInv
  <1>2. TypeInv'
    <2>1. Flags'
      BY <1>1 DEF TypeInv, Flags
    <2>2. Places'
      BY <1>1 DEF TypeInv, Places
    <2>3. Counters'
      BY <1>1 DEF TypeInv, Counters
    <2>4. Streams'
      BY <1>1 DEF TypeInv, Streams
    <2>5. Requests'
      BY <1>1 DEF TypeInv, Requests
    <2> QED BY <2>1, <2>2, <2>3, <2>4, <2>5 DEF TypeInv
  <1>3. Alone(a) /\ Turns(a, there) /\ Rests(a) /\ Unmoved(a)
    BY <1>1 DEF Alone, Turns, Rests, Unmoved
  <1> QED BY <1>2, <1>3

(* An action is written, or the write fails. *)
LEMMA Dispatching ==
  ASSUME TypeInv, NEW a \in Attachments, NEW b \in Nat, Dispatch(a, b), pc[a] # "ended",
         typed' = typed \/ typed' = [typed EXCEPT ![a] = @ + 1],
         UNCHANGED <<mode, at, shown, cursor, watched, subscribed, from, log, events, trimmed,
                     over>>
  PROVE  /\ TypeInv' /\ Alone(a) /\ Unmoved(a)
         /\ typed' = typed => typed'[a] = typed[a]
         /\ typed' # typed => typed'[a] = typed[a] + 1
         /\ \/ Dispatched(a, b)
            \/ /\ Quits(a, "error") /\ up[a] = FALSE /\ nextSeq'[a] = nextSeq[a]
               /\ toHost'[a] = toHost[a] /\ cursor'[a] = cursor[a] /\ watched'[a] = watched[a]
  <1>1. /\ typed' \in [Attachments -> Nat]
        /\ typed' = typed => typed'[a] = typed[a]
        /\ typed' # typed => typed'[a] = typed[a] + 1
        /\ \A c \in Attachments : c # a => typed'[c] = typed[c]
    BY DEF TypeInv, Counters
  <1>2. CASE /\ nextSeq' = To(nextSeq, a, nextSeq[a] + 1)
             /\ Goes(a, "waiting")
             /\ toHost' = IF up[a]
                          THEN To(toHost, a, Append(toHost[a], [seq |-> nextSeq[a], body |-> b]))
                          ELSE toHost
    <2>1. /\ pc' \in [Attachments -> Positions]
          /\ UNCHANGED <<result, actions, closed, toClient, up>>
          /\ pc'[a] = "waiting"
          /\ \A c \in Attachments : c # a => pc'[c] = pc[c]
      BY <1>2, GoesTyped DEF TypeInv, Positions, Live
    <2>2. /\ nextSeq' \in [Attachments -> Nat] /\ nextSeq'[a] = nextSeq[a] + 1
          /\ \A c \in Attachments : c # a => nextSeq'[c] = nextSeq[c]
      BY <1>2 DEF To, TypeInv, Counters
    <2>3. /\ toHost \in [Attachments -> Seq(Orders)]
          /\ [seq |-> nextSeq[a], body |-> b] \in Orders
      BY DEF TypeInv, Counters, Requests, Orders
    <2>4. Append(toHost[a], [seq |-> nextSeq[a], body |-> b]) \in Seq(Orders)
      BY <2>3
    <2>5. /\ toHost' \in [Attachments -> Seq(Orders)]
          /\ toHost'[a] = IF up[a] THEN Append(toHost[a], [seq |-> nextSeq[a], body |-> b])
                          ELSE toHost[a]
          /\ \A c \in Attachments : c # a => toHost'[c] = toHost[c]
      BY <1>2, <2>3, <2>4 DEF To
    <2>6. TypeInv'
      <3>1. Flags'
        BY <1>1, <2>1, <2>2, <2>5 DEF TypeInv, Flags
      <3>2. Places'
        BY <1>1, <2>1, <2>2, <2>5 DEF TypeInv, Places
      <3>3. Counters'
        BY <1>1, <2>1, <2>2, <2>5 DEF TypeInv, Counters
      <3>4. Streams'
        BY <1>1, <2>1, <2>2, <2>5 DEF TypeInv, Streams
      <3>5. Requests'
        BY <1>1, <2>1, <2>2, <2>5 DEF TypeInv, Requests
      <3> QED BY <3>1, <3>2, <3>3, <3>4, <3>5 DEF TypeInv
    <2>7. Alone(a) /\ Unmoved(a) /\ Dispatched(a, b)
      BY <1>1, <2>1, <2>2, <2>5 DEF Alone, Unmoved, Dispatched, Turns
    <2> QED BY <1>1, <2>6, <2>7
  <1>3. CASE ~up[a] /\ Ends(a, "error") /\ UNCHANGED <<nextSeq, toHost>>
    <2>1. /\ pc' \in [Attachments -> Positions] /\ result' \in [Attachments -> Results]
          /\ actions' \in [Attachments -> Seq(Nat)] /\ toClient' \in [Attachments -> Seq(Nat)]
          /\ closed' \in [Attachments -> BOOLEAN] /\ up' \in [Attachments -> BOOLEAN]
          /\ pc'[a] = "ended" /\ result'[a] = "error" /\ actions'[a] = <<>> /\ toClient'[a] = <<>>
          /\ up'[a] = FALSE
          /\ \A c \in Attachments : c # a =>
               /\ pc'[c] = pc[c] /\ result'[c] = result[c] /\ actions'[c] = actions[c]
               /\ toClient'[c] = toClient[c] /\ up'[c] = up[c]
      BY <1>3, EndsTyped DEF TypeInv, Results
    <2>2. TypeInv'
      <3>1. Flags'
        BY <1>1, <1>3, <2>1 DEF TypeInv, Flags
      <3>2. Places'
        BY <1>1, <1>3, <2>1 DEF TypeInv, Places
      <3>3. Counters'
        BY <1>1, <1>3, <2>1 DEF TypeInv, Counters
      <3>4. Streams'
        BY <1>1, <1>3, <2>1 DEF TypeInv, Streams
      <3>5. Requests'
        BY <1>1, <1>3, <2>1 DEF TypeInv, Requests
      <3> QED BY <3>1, <3>2, <3>3, <3>4, <3>5 DEF TypeInv
    <2>3. Alone(a) /\ Unmoved(a) /\ Quits(a, "error") /\ up[a] = FALSE
      BY <1>1, <1>3, <2>1 DEF Alone, Unmoved, Quits, TypeInv, Flags
    <2> QED BY <1>1, <1>3, <2>2, <2>3
  <1> QED BY <1>2, <1>3 DEF Dispatch

(* The goroutine of the transport. *)
RepliedTo(a) ==
  /\ pc[a] # "ended" /\ toClient[a] # <<>> /\ Head(toClient[a]) = 0
  /\ toClient'[a] = Tail(toClient[a]) /\ pc'[a] = "attached" /\ at'[a] = from[a]
  /\ shown'[a] = shown[a] /\ actions'[a] = actions[a] /\ up'[a] = up[a]
  /\ result'[a] = result[a]

Received(a) ==
  /\ pc[a] # "ended" /\ toClient[a] # <<>> /\ Head(toClient[a]) > 0
  /\ toClient'[a] = Tail(toClient[a])
  /\ actions'[a] = Append(actions[a], Head(toClient[a]))
  /\ pc'[a] = pc[a] /\ up'[a] = up[a] /\ result'[a] = result[a]

LEMMA Replies ==
  ASSUME TypeInv, NEW a \in Attachments, RecvReply(a)
  PROVE  TypeInv' /\ Alone(a) /\ RepliedTo(a) /\ Rests(a)
  <1>1. /\ pc[a] # "ended" /\ toClient[a] # <<>> /\ Head(toClient[a]) = 0
        /\ toClient' = [toClient EXCEPT ![a] = Tail(toClient[a])]
        /\ pc' = [pc EXCEPT ![a] = "attached"] /\ at' = [at EXCEPT ![a] = from[a]]
        /\ UNCHANGED <<mode, nextSeq, typed, shown, result, actions, closed, cursor, watched, up,
                       toHost, subscribed, from, log, events, trimmed, over>>
    BY DEF RecvReply, Receives, To, channel, watch, host, task
  <1>2. /\ toClient[a] \in Seq(Nat) /\ "attached" \in Positions /\ from[a] \in Nat
    BY DEF TypeInv, Streams, Counters, Positions, Live
  <1>3. Tail(toClient[a]) \in Seq(Nat)
    BY <1>1, <1>2
  <1>4. TypeInv'
    <2>1. Flags'
      BY <1>1, <1>2, <1>3 DEF TypeInv, Flags
    <2>2. Places'
      BY <1>1, <1>2, <1>3 DEF TypeInv, Places
    <2>3. Counters'
      BY <1>1, <1>2, <1>3 DEF TypeInv, Counters
    <2>4. Streams'
      BY <1>1, <1>2, <1>3 DEF TypeInv, Streams
    <2>5. Requests'
      BY <1>1, <1>2, <1>3 DEF TypeInv, Requests
    <2> QED BY <2>1, <2>2, <2>3, <2>4, <2>5 DEF TypeInv
  <1>5. RepliedTo(a) /\ Rests(a)
    BY <1>1 DEF RepliedTo, Rests, TypeInv, Places, Counters, Streams
  <1>6. Alone(a)
    BY <1>1 DEF Alone, TypeInv, Places, Counters, Streams
  <1> QED BY <1>4, <1>5, <1>6

LEMMA TakesIn ==
  ASSUME TypeInv, NEW a \in Attachments, RecvAction(a)
  PROVE  TypeInv' /\ Alone(a) /\ Received(a) /\ Rests(a) /\ Unmoved(a)
  <1>1. /\ pc[a] # "ended" /\ toClient[a] # <<>> /\ Head(toClient[a]) > 0
        /\ toClient' = [toClient EXCEPT ![a] = Tail(toClient[a])]
        /\ actions' = [actions EXCEPT ![a] = Append(actions[a], Head(toClient[a]))]
        /\ UNCHANGED <<mode, pc, nextSeq, typed, at, shown, result, closed, cursor, watched, up,
                       toHost, subscribed, from, log, events, trimmed, over>>
    BY DEF RecvAction, Receives, To, local, watch, host, task
  <1>2. toClient[a] \in Seq(Nat) /\ actions[a] \in Seq(Nat)
    BY DEF TypeInv, Streams
  <1>3. Tail(toClient[a]) \in Seq(Nat) /\ Append(actions[a], Head(toClient[a])) \in Seq(Nat)
    BY <1>1, <1>2
  <1>4. TypeInv'
    <2>1. Flags'
      BY <1>1, <1>2, <1>3 DEF TypeInv, Flags
    <2>2. Places'
      BY <1>1, <1>2, <1>3 DEF TypeInv, Places
    <2>3. Counters'
      BY <1>1, <1>2, <1>3 DEF TypeInv, Counters
    <2>4. Streams'
      BY <1>1, <1>2, <1>3 DEF TypeInv, Streams
    <2>5. Requests'
      BY <1>1, <1>2, <1>3 DEF TypeInv, Requests
    <2> QED BY <2>1, <2>2, <2>3, <2>4, <2>5 DEF TypeInv
  <1>5. Received(a) /\ Rests(a) /\ Unmoved(a)
    BY <1>1 DEF Received, Rests, Unmoved, TypeInv, Places, Counters, Streams
  <1>6. Alone(a)
    BY <1>1 DEF Alone, TypeInv, Places, Counters, Streams
  <1> QED BY <1>4, <1>5, <1>6

(* An action is taken from the channel: the echo that is waited for, or    *)
(* another.                                                                *)
Taken(a) ==
  /\ actions[a] # <<>> /\ at'[a] = Head(actions[a])

Echoed(a) ==
  LET n == Head(actions[a]) IN
  /\ pc[a] = "waiting" /\ Taken(a) /\ Acknowledges(a, n)
  /\ \/ /\ mode[a] = "interactive" /\ log[n].ok
        /\ pc'[a] = "loop" /\ actions'[a] = Tail(actions[a])
        /\ shown'[a] = shown[a] /\ result'[a] = result[a]
        /\ toClient'[a] = toClient[a] /\ up'[a] = up[a]
     \/ /\ Quits(a, IF log[n].ok THEN "accepted" ELSE "rejected")
        /\ shown'[a] = IF mode[a] = "interactive" THEN shown[a] ELSE Append(shown[a], n)

Printed(a) ==
  LET n == Head(actions[a]) IN
  /\ pc[a] \in {"waiting", "loop"} /\ Taken(a)
  /\ pc[a] = "waiting" => ~Acknowledges(a, n)
  /\ actions'[a] = Tail(actions[a]) /\ shown'[a] = Append(shown[a], n)
  /\ pc'[a] = pc[a] /\ result'[a] = result[a] /\ toClient'[a] = toClient[a] /\ up'[a] = up[a]

LEMMA Echoes ==
  ASSUME TypeInv, NEW a \in Attachments, Receipt(a)
  PROVE  TypeInv' /\ Alone(a) /\ Echoed(a) /\ Rests(a)
  <1> DEFINE n == Head(actions[a])
  <1>1. /\ pc[a] = "waiting" /\ actions[a] # <<>> /\ Acknowledges(a, n)
        /\ at' = [at EXCEPT ![a] = n]
        /\ UNCHANGED <<mode, nextSeq, typed, cursor, watched, toHost, subscribed, from, log,
                       events, trimmed, over>>
    BY DEF Receipt, Takes, To, watch, host, task
  <1>2. /\ actions[a] \in Seq(Nat) /\ shown[a] \in Seq(Nat)
    BY DEF TypeInv, Streams
  <1>3. n \in Nat /\ Tail(actions[a]) \in Seq(Nat)
    BY <1>1, <1>2
  <1>4. Append(shown[a], n) \in Seq(Nat)
    BY <1>2, <1>3
  <1>5. /\ at' \in [Attachments -> Nat] /\ at'[a] = n
        /\ \A b \in Attachments : b # a => at'[b] = at[b]
    BY <1>1, <1>3 DEF TypeInv, Counters
  <1>6. CASE mode[a] = "interactive" /\ log[n].ok
    <2>1. /\ pc' = [pc EXCEPT ![a] = "loop"] /\ actions' = [actions EXCEPT ![a] = Tail(actions[a])]
          /\ UNCHANGED <<shown, result, closed, toClient, up>>
      BY <1>6 DEF Receipt, Continues, To
    <2>2. "loop" \in Positions
      BY DEF Positions, Live
    <2>3. TypeInv'
      <3>1. Flags'
        BY <1>1, <1>3, <1>5, <2>1, <2>2 DEF TypeInv, Flags
      <3>2. Places'
        BY <1>1, <1>3, <1>5, <2>1, <2>2 DEF TypeInv, Places
      <3>3. Counters'
        BY <1>1, <1>3, <1>5, <2>1, <2>2 DEF TypeInv, Counters
      <3>4. Streams'
        BY <1>1, <1>3, <1>5, <2>1, <2>2 DEF TypeInv, Streams
      <3>5. Requests'
        BY <1>1, <1>3, <1>5, <2>1, <2>2 DEF TypeInv, Requests
      <3> QED BY <3>1, <3>2, <3>3, <3>4, <3>5 DEF TypeInv
    <2>4. Echoed(a) /\ Rests(a)
      BY <1>1, <1>5, <1>6, <2>1 DEF Echoed, Taken, Rests, TypeInv, Places, Streams
    <2>5. Alone(a)
      BY <1>1, <1>5, <2>1 DEF Alone, TypeInv, Places, Streams
    <2> QED BY <2>3, <2>4, <2>5
  <1>7. CASE ~(mode[a] = "interactive" /\ log[n].ok)
    <2> DEFINE r == IF log[n].ok THEN "accepted" ELSE "rejected"
    <2>1. /\ Ends(a, r)
          /\ shown' = IF mode[a] = "interactive" THEN shown
                      ELSE [shown EXCEPT ![a] = Append(shown[a], n)]
      BY <1>7 DEF Receipt, Concludes, Emit, To
    <2>2. r \in Results
      BY DEF Results
    <2> HIDE DEF r
    <2>3. /\ pc' \in [Attachments -> Positions] /\ result' \in [Attachments -> Results]
          /\ actions' \in [Attachments -> Seq(Nat)] /\ toClient' \in [Attachments -> Seq(Nat)]
          /\ closed' \in [Attachments -> BOOLEAN] /\ up' \in [Attachments -> BOOLEAN]
          /\ pc'[a] = "ended" /\ result'[a] = r /\ actions'[a] = <<>> /\ toClient'[a] = <<>>
          /\ up'[a] = FALSE
          /\ \A b \in Attachments : b # a =>
               /\ pc'[b] = pc[b] /\ result'[b] = result[b] /\ actions'[b] = actions[b]
               /\ toClient'[b] = toClient[b] /\ up'[b] = up[b]
      BY <2>1, <2>2, EndsTyped DEF TypeInv
    <2>4. /\ shown' \in [Attachments -> Seq(Nat)]
          /\ shown'[a] = IF mode[a] = "interactive" THEN shown[a] ELSE Append(shown[a], n)
          /\ \A b \in Attachments : b # a => shown'[b] = shown[b]
      BY <1>4, <2>1 DEF TypeInv, Streams
    <2>5. TypeInv'
      <3>1. Flags'
        BY <1>1, <1>5, <2>3, <2>4 DEF TypeInv, Flags
      <3>2. Places'
        BY <1>1, <1>5, <2>3, <2>4 DEF TypeInv, Places
      <3>3. Counters'
        BY <1>1, <1>5, <2>3, <2>4 DEF TypeInv, Counters
      <3>4. Streams'
        BY <1>1, <1>5, <2>3, <2>4 DEF TypeInv, Streams
      <3>5. Requests'
        BY <1>1, <1>5, <2>3, <2>4 DEF TypeInv, Requests
      <3> QED BY <3>1, <3>2, <3>3, <3>4, <3>5 DEF TypeInv
    <2>6. Quits(a, r) /\ Rests(a)
      BY <1>1, <2>3 DEF Quits, Rests
    <2>7. Echoed(a)
      BY <1>1, <1>5, <2>4, <2>6 DEF Echoed, Taken, r
    <2>8. Alone(a)
      BY <1>1, <1>5, <2>3, <2>4 DEF Alone
    <2> QED BY <2>5, <2>6, <2>7, <2>8
  <1> QED BY <1>6, <1>7

LEMMA Prints ==
  ASSUME TypeInv, NEW a \in Attachments, Other(a)
  PROVE  TypeInv' /\ Alone(a) /\ Printed(a) /\ Rests(a)
  <1> DEFINE n == Head(actions[a])
  <1>1. /\ pc[a] \in {"waiting", "loop"} /\ actions[a] # <<>>
        /\ pc[a] = "waiting" => ~Acknowledges(a, n)
        /\ at' = [at EXCEPT ![a] = n] /\ actions' = [actions EXCEPT ![a] = Tail(actions[a])]
        /\ shown' = [shown EXCEPT ![a] = Append(shown[a], n)]
        /\ UNCHANGED <<mode, pc, nextSeq, typed, result, closed, cursor, watched, up, toHost,
                       toClient, subscribed, from, log, events, trimmed, over>>
    BY DEF Other, Takes, Emit, To, watch, net, host, task
  <1>2. /\ actions[a] \in Seq(Nat) /\ shown[a] \in Seq(Nat)
    BY DEF TypeInv, Streams
  <1>3. n \in Nat /\ Tail(actions[a]) \in Seq(Nat)
    BY <1>1, <1>2
  <1>4. Append(shown[a], n) \in Seq(Nat)
    BY <1>2, <1>3
  <1>5. TypeInv'
    <2>1. Flags'
      BY <1>1, <1>3, <1>4 DEF TypeInv, Flags
    <2>2. Places'
      BY <1>1, <1>3, <1>4 DEF TypeInv, Places
    <2>3. Counters'
      BY <1>1, <1>3, <1>4 DEF TypeInv, Counters
    <2>4. Streams'
      BY <1>1, <1>3, <1>4 DEF TypeInv, Streams
    <2>5. Requests'
      BY <1>1, <1>3, <1>4 DEF TypeInv, Requests
    <2> QED BY <2>1, <2>2, <2>3, <2>4, <2>5 DEF TypeInv
  <1>6. Printed(a) /\ Rests(a)
    BY <1>1 DEF Printed, Taken, Rests, TypeInv, Places, Counters, Streams
  <1>7. Alone(a)
    BY <1>1 DEF Alone, TypeInv, Places, Counters, Streams
  <1> QED BY <1>5, <1>6, <1>7

(* The events of the task. *)
TaskInv == trimmed <= events /\ \A a \in Attachments : cursor[a] <= events

(* k more events are printed, and then the watch ends or goes on. *)
Polled(a) ==
  /\ pc[a] = "watching"
  /\ \/ Quits(a, "error") /\ cursor'[a] = cursor[a] /\ watched'[a] = watched[a]
     \/ /\ \E k \in Nat :
             /\ cursor[a] + k <= events
             /\ cursor'[a] = cursor[a] + k
             /\ watched'[a] = watched[a] \o [i \in 1 .. k |-> cursor[a] + i]
        /\ \/ Quits(a, "outcome") /\ over /\ cursor'[a] >= events
           \/ Quits(a, "done") /\ mode[a] = "snapshot"
           \/ Turns(a, "watching")
  /\ nextSeq'[a] = nextSeq[a] /\ typed'[a] = typed[a] /\ toHost'[a] = toHost[a]

LEMMA PageIs ==
  ASSUME TypeInv, TaskInv, NEW a \in Attachments
  PROVE  /\ Page(a) \in Seq(Nat) /\ Len(Page(a)) \in Nat
         /\ Page(a) = <<>> \/ Head(Page(a)) = cursor[a] + 1 =>
              /\ cursor[a] + Len(Page(a)) <= events
              /\ Page(a) = [i \in 1 .. Len(Page(a)) |-> cursor[a] + i]
  <1> DEFINE after == IF trimmed > cursor[a] THEN trimmed ELSE cursor[a]
             k == IF events - after < PageSize THEN events - after ELSE PageSize
  <1>1. /\ cursor[a] \in Nat /\ trimmed \in Nat /\ events \in Nat /\ PageSize \in Nat
        /\ cursor[a] <= events /\ trimmed <= events
    BY Sizes DEF TypeInv, Counters, TaskInv
  <1>2. after \in Nat /\ after <= events /\ k \in Nat /\ after + k <= events
    BY <1>1
  <1>3. Page(a) = [i \in 1 .. k |-> after + i]
    BY DEF Page
  <1> HIDE DEF after, k
  <1>4. Page(a) \in Seq(Nat) /\ Len(Page(a)) = k
    BY <1>2, <1>3
  <1>5. CASE k = 0
    <2>1. Page(a) = [i \in 1 .. Len(Page(a)) |-> cursor[a] + i]
      <3>1. \A i \in 1 .. k : FALSE
        BY <1>5
      <3> QED BY <1>3, <1>4, <3>1
    <2> QED BY <1>1, <1>2, <1>4, <1>5, <2>1
  <1>6. CASE k > 0
    <2>1. Page(a) # <<>> /\ Head(Page(a)) = after + 1
      BY <1>2, <1>3, <1>4, <1>6
    <2>2. Head(Page(a)) = cursor[a] + 1 => after = cursor[a]
      BY <1>1, <1>2, <2>1
    <2> QED BY <1>2, <1>3, <1>4, <2>1, <2>2
  <1> QED BY <1>2, <1>5, <1>6

LEMMA Polls ==
  ASSUME TypeInv, TaskInv, NEW a \in Attachments, Poll(a)
  PROVE  TypeInv' /\ Alone(a) /\ Polled(a) /\ Unmoved(a)
  <1>1. /\ pc[a] = "watching" /\ "error" \in Results /\ "outcome" \in Results
        /\ "done" \in Results /\ pc[a] # "ended"
        /\ UNCHANGED <<mode, nextSeq, typed, at, shown, toHost, subscribed, from, log, events,
                       trimmed, over>>
    BY DEF Poll, host, task, Results
  <1>2. CASE Page(a) # <<>> /\ Head(Page(a)) # cursor[a] + 1
    <2>1. Ends(a, "error") /\ UNCHANGED <<cursor, watched>>
      BY <1>2 DEF Poll, watch
    <2>2. TypeInv' /\ Alone(a) /\ Quits(a, "error") /\ Rests(a) /\ Unmoved(a)
      BY <1>1, <2>1, Quitting
    <2> QED BY <1>1, <2>2 DEF Polled, Rests
  <1>3. CASE Page(a) = <<>> \/ Head(Page(a)) = cursor[a] + 1
    <2> DEFINE k == Len(Page(a))
    <2>1. /\ cursor' = [cursor EXCEPT ![a] = cursor[a] + k]
          /\ watched' = [watched EXCEPT ![a] = watched[a] \o Page(a)]
          /\ AfterPage(a, Page(a))
      BY <1>3 DEF Poll, To
    <2>2. /\ k \in Nat /\ cursor[a] + k <= events /\ cursor[a] + k \in Nat
          /\ Page(a) = [i \in 1 .. k |-> cursor[a] + i] /\ Page(a) \in Seq(Nat)
          /\ cursor[a] \in Nat
      <3>1. cursor[a] \in Nat /\ events \in Nat
        BY DEF TypeInv, Counters
      <3>2. /\ Page(a) \in Seq(Nat) /\ k \in Nat /\ cursor[a] + k <= events
            /\ Page(a) = [i \in 1 .. k |-> cursor[a] + i]
        BY <1>3, PageIs
      <3> HIDE DEF k
      <3> QED BY <3>1, <3>2
    <2>3. AfterPage(a, Page(a)) <=>
            IF over /\ cursor'[a] >= events THEN Ends(a, "outcome")
            ELSE IF k < PageSize /\ mode[a] = "snapshot" THEN Ends(a, "done")
            ELSE Stays
      BY DEF AfterPage
    <2> HIDE DEF k
    <2>4. /\ cursor' \in [Attachments -> Nat] /\ cursor'[a] = cursor[a] + k
          /\ \A b \in Attachments : b # a => cursor'[b] = cursor[b]
      BY <2>1, <2>2 DEF TypeInv, Counters
    <2>5. watched[a] \o Page(a) \in Seq(Nat)
      BY <2>2 DEF TypeInv, Streams
    <2>6. /\ watched' \in [Attachments -> Seq(Nat)]
          /\ watched'[a] = watched[a] \o [i \in 1 .. k |-> cursor[a] + i]
          /\ \A b \in Attachments : b # a => watched'[b] = watched[b]
      BY <2>1, <2>2, <2>5 DEF TypeInv, Streams
    <2>7. ASSUME NEW r \in Results, Ends(a, r)
          PROVE  TypeInv' /\ Alone(a) /\ Quits(a, r) /\ Unmoved(a)
      <3>1. /\ pc' \in [Attachments -> Positions] /\ result' \in [Attachments -> Results]
            /\ actions' \in [Attachments -> Seq(Nat)] /\ toClient' \in [Attachments -> Seq(Nat)]
            /\ closed' \in [Attachments -> BOOLEAN] /\ up' \in [Attachments -> BOOLEAN]
            /\ pc'[a] = "ended" /\ result'[a] = r /\ actions'[a] = <<>> /\ toClient'[a] = <<>>
            /\ up'[a] = FALSE
            /\ \A b \in Attachments : b # a =>
                 /\ pc'[b] = pc[b] /\ result'[b] = result[b] /\ actions'[b] = actions[b]
                 /\ toClient'[b] = toClient[b] /\ up'[b] = up[b]
        BY <2>7, EndsTyped DEF TypeInv
      <3>2. TypeInv'
        <4>1. Flags'
          BY <1>1, <2>4, <2>6, <3>1 DEF TypeInv, Flags
        <4>2. Places'
          BY <1>1, <2>4, <2>6, <3>1 DEF TypeInv, Places
        <4>3. Counters'
          BY <1>1, <2>4, <2>6, <3>1 DEF TypeInv, Counters
        <4>4. Streams'
          BY <1>1, <2>4, <2>6, <3>1 DEF TypeInv, Streams
        <4>5. Requests'
          BY <1>1, <2>4, <2>6, <3>1 DEF TypeInv, Requests
        <4> QED BY <4>1, <4>2, <4>3, <4>4, <4>5 DEF TypeInv
      <3>3. Alone(a) /\ Quits(a, r) /\ Unmoved(a)
        BY <1>1, <2>4, <2>6, <3>1 DEF Alone, Quits, Unmoved
      <3> QED BY <3>2, <3>3
    <2>8. ASSUME Stays
          PROVE  TypeInv' /\ Alone(a) /\ Turns(a, "watching") /\ Unmoved(a)
      <3>1. UNCHANGED <<pc, result, actions, closed, toClient, up>>
        BY <2>8 DEF Stays, channel
      <3>2. TypeInv'
        <4>1. Flags'
          BY <1>1, <2>4, <2>6, <3>1 DEF TypeInv, Flags
        <4>2. Places'
          BY <1>1, <2>4, <2>6, <3>1 DEF TypeInv, Places
        <4>3. Counters'
          BY <1>1, <2>4, <2>6, <3>1 DEF TypeInv, Counters
        <4>4. Streams'
          BY <1>1, <2>4, <2>6, <3>1 DEF TypeInv, Streams
        <4>5. Requests'
          BY <1>1, <2>4, <2>6, <3>1 DEF TypeInv, Requests
        <4> QED BY <4>1, <4>2, <4>3, <4>4, <4>5 DEF TypeInv
      <3>3. Alone(a) /\ Turns(a, "watching") /\ Unmoved(a)
        BY <1>1, <2>4, <2>6, <3>1 DEF Alone, Turns, Unmoved
      <3> QED BY <3>2, <3>3
    <2>9. \/ Ends(a, "outcome") /\ over /\ cursor'[a] >= events
          \/ Ends(a, "done") /\ mode[a] = "snapshot"
          \/ Stays
      BY <2>1, <2>3
    <2>10. \E l \in Nat :
             /\ cursor[a] + l <= events /\ cursor'[a] = cursor[a] + l
             /\ watched'[a] = watched[a] \o [i \in 1 .. l |-> cursor[a] + i]
      BY <2>2, <2>4, <2>6
    <2>11. nextSeq'[a] = nextSeq[a] /\ typed'[a] = typed[a] /\ toHost'[a] = toHost[a]
      BY <1>1
    <2> QED BY <1>1, <2>7, <2>8, <2>9, <2>10, <2>11 DEF Polled
  <1> QED BY <1>2, <1>3

(* Whatever a client does. *)
Began(a) ==
  /\ \/ pc[a] = "initializing" /\ Turns(a, "subscribing")
     \/ /\ pc[a] \in Attaching /\ up[a] /\ toClient[a] = <<>>
        /\ mode[a] \in {"follow", "snapshot"} /\ Turns(a, "watching")
     \/ /\ pc[a] = "attached" /\ mode[a] \in {"follow", "interactive"}
        /\ Turns(a, "loop")
     \/ Turns(a, pc[a])
  /\ Rests(a) /\ Unmoved(a)

Stopped(a) ==
  /\ \E r \in {"error", "uncertain", "done"} :
       /\ Quits(a, r)
       /\ r = "done" => mode[a] = "snapshot" \/ pc[a] \in {"loop", "watching"}
  /\ Rests(a) /\ Unmoved(a)

Asked(a) ==
  /\ Unmoved(a)
  /\ \/ pc[a] = "attached" /\ mode[a] = "steer" /\ typed'[a] = typed[a] /\ Dispatched(a, 1)
     \/ /\ pc[a] = "loop" /\ mode[a] = "interactive"
        /\ \/ /\ typed'[a] = typed[a] + 1
              /\ \/ Dispatched(a, typed[a] + 1)
                 \/ Quits(a, "error") /\ toHost'[a] = toHost[a] /\ nextSeq'[a] = nextSeq[a]
                    /\ cursor'[a] = cursor[a] /\ watched'[a] = watched[a]
           \/ typed'[a] = typed[a] /\ Dispatched(a, 0)
     \/ /\ pc[a] = "attached" \/ pc[a] = "loop"
        /\ Quits(a, "error") /\ toHost'[a] = toHost[a] /\ nextSeq'[a] = nextSeq[a]
        /\ cursor'[a] = cursor[a] /\ watched'[a] = watched[a] /\ typed'[a] = typed[a]

Moved(a) ==
  \/ Began(a)
  \/ Stopped(a)
  \/ Asked(a)
  \/ RepliedTo(a) /\ Rests(a)
  \/ Received(a) /\ Rests(a) /\ Unmoved(a)
  \/ Echoed(a) /\ Rests(a)
  \/ Printed(a) /\ Rests(a)
  \/ Polled(a) /\ Unmoved(a)

LEMMA Moves ==
  ASSUME TypeInv, TaskInv, NEW a \in Attachments, Client(a)
  PROVE  TypeInv' /\ Alone(a) /\ Moved(a)
  <1> DEFINE same == UNCHANGED <<mode, nextSeq, typed, at, shown, cursor, watched, toHost,
                                 subscribed, from, log, events, trimmed, over>>
  <1>0. /\ {"error", "uncertain", "done"} \subseteq Results
        /\ {"subscribing", "watching", "loop", "ended"} \subseteq Positions
        /\ pc[a] \in Positions /\ typed[a] \in Nat
        /\ "ended" \notin Attaching
    BY DEF Results, Positions, Attaching, Live, TypeInv, Places, Counters
  <1>1. CASE Subscribe(a)
    <2>1. Goes(a, "subscribing") /\ same /\ pc[a] = "initializing"
      BY <1>1 DEF Subscribe, Goes, local, channel, watch, net, host, task
    <2>2. TypeInv' /\ Alone(a) /\ Turns(a, "subscribing") /\ Rests(a) /\ Unmoved(a)
      BY <1>0, <2>1, Turning
    <2> QED BY <2>1, <2>2 DEF Moved, Began
  <1>2. CASE Unavailable(a)
    <2>1. /\ same /\ pc[a] \in Attaching /\ up[a] /\ toClient[a] = <<>>
          /\ \/ mode[a] \in {"follow", "snapshot"} /\ Goes(a, "watching")
             \/ Ends(a, "error")
      BY <1>2 DEF Unavailable, watch, host, task
    <2>2. CASE mode[a] \in {"follow", "snapshot"} /\ Goes(a, "watching")
      <3>1. TypeInv' /\ Alone(a) /\ Turns(a, "watching") /\ Rests(a) /\ Unmoved(a)
        BY <1>0, <2>1, <2>2, Turning
      <3> QED BY <2>1, <2>2, <3>1 DEF Moved, Began
    <2>3. CASE Ends(a, "error")
      <3>1. TypeInv' /\ Alone(a) /\ Quits(a, "error") /\ Rests(a) /\ Unmoved(a)
        BY <1>0, <2>1, <2>3, Quitting
      <3> QED BY <3>1 DEF Moved, Stopped
    <2> QED BY <2>1, <2>2, <2>3
  <1>3. CASE AttachFails(a) \/ Expire(a) \/ Disconnected(a) \/ PollFails(a)
    <2>1. /\ same /\ pc[a] # "ended"
          /\ Ends(a, "error") \/ Ends(a, "uncertain")
      BY <1>0, <1>3 DEF AttachFails, Expire, Disconnected, PollFails, watch, host, task
    <2>2. /\ TypeInv' /\ Alone(a) /\ Rests(a) /\ Unmoved(a)
          /\ Quits(a, "error") \/ Quits(a, "uncertain")
      BY <1>0, <2>1, Quitting
    <2> QED BY <2>2 DEF Moved, Stopped
  <1>4. CASE Detach(a)
    <2>1. same /\ pc[a] # "ended" /\ Ends(a, "done") /\ pc[a] \in {"loop", "watching"}
      BY <1>4 DEF Detach, watch, host, task
    <2>2. TypeInv' /\ Alone(a) /\ Rests(a) /\ Unmoved(a) /\ Quits(a, "done")
      BY <1>0, <2>1, Quitting
    <2> QED BY <2>1, <2>2 DEF Moved, Stopped
  <1>5. CASE RecvReply(a)
    BY <1>5, Replies DEF Moved
  <1>6. CASE RecvAction(a)
    BY <1>6, TakesIn DEF Moved
  <1>7. CASE RecvFails(a)
    <2>1. /\ same /\ closed' = [closed EXCEPT ![a] = TRUE]
          /\ UNCHANGED <<pc, result, actions, toClient, up>>
      BY <1>7 DEF RecvFails, To, local, watch, net, host, task
    <2>2. TypeInv'
      <3>1. Flags'
        BY <2>1 DEF TypeInv, Flags
      <3>2. Places'
        BY <2>1 DEF TypeInv, Places
      <3>3. Counters'
        BY <2>1 DEF TypeInv, Counters
      <3>4. Streams'
        BY <2>1 DEF TypeInv, Streams
      <3>5. Requests'
        BY <2>1 DEF TypeInv, Requests
      <3> QED BY <3>1, <3>2, <3>3, <3>4, <3>5 DEF TypeInv
    <2>3. Alone(a) /\ Turns(a, pc[a]) /\ Rests(a) /\ Unmoved(a)
      BY <2>1 DEF Alone, Turns, Rests, Unmoved
    <2> QED BY <2>2, <2>3 DEF Moved, Began
  <1>8. CASE ShowSnapshot(a)
    <2>1. /\ pc[a] = "attached"
          /\ UNCHANGED <<mode, typed, at, shown, cursor, watched, subscribed, from, log, events,
                         trimmed, over>>
          /\ \/ mode[a] = "snapshot" /\ Ends(a, "done") /\ UNCHANGED <<nextSeq, toHost>>
             \/ mode[a] = "steer" /\ Dispatch(a, 1)
             \/ Ends(a, "error") /\ UNCHANGED <<nextSeq, toHost>>
             \/ /\ mode[a] \in {"follow", "interactive"}
                /\ Goes(a, "loop") /\ UNCHANGED <<nextSeq, toHost>>
      BY <1>8 DEF ShowSnapshot, watch, host, task
    <2>2. CASE mode[a] = "snapshot" /\ Ends(a, "done") /\ UNCHANGED <<nextSeq, toHost>>
      <3>1. TypeInv' /\ Alone(a) /\ Rests(a) /\ Unmoved(a) /\ Quits(a, "done")
        BY <1>0, <2>1, <2>2, Quitting
      <3> QED BY <2>2, <3>1 DEF Moved, Stopped
    <2>3. CASE mode[a] = "steer" /\ Dispatch(a, 1)
      <3>1. /\ TypeInv' /\ Alone(a) /\ Unmoved(a) /\ typed'[a] = typed[a]
            /\ \/ Dispatched(a, 1)
               \/ /\ Quits(a, "error") /\ up[a] = FALSE /\ nextSeq'[a] = nextSeq[a]
                  /\ toHost'[a] = toHost[a] /\ cursor'[a] = cursor[a] /\ watched'[a] = watched[a]
        BY <2>1, <2>3, Dispatching
      <3> QED BY <2>1, <2>3, <3>1 DEF Moved, Asked
    <2>4. CASE Ends(a, "error") /\ UNCHANGED <<nextSeq, toHost>>
      <3>1. TypeInv' /\ Alone(a) /\ Rests(a) /\ Unmoved(a) /\ Quits(a, "error")
        BY <1>0, <2>1, <2>4, Quitting
      <3> QED BY <3>1 DEF Moved, Stopped
    <2>5. CASE mode[a] \in {"follow", "interactive"} /\ Goes(a, "loop")
               /\ UNCHANGED <<nextSeq, toHost>>
      <3>1. TypeInv' /\ Alone(a) /\ Turns(a, "loop") /\ Rests(a) /\ Unmoved(a)
        BY <1>0, <2>1, <2>5, Turning
      <3> QED BY <2>1, <2>5, <3>1 DEF Moved, Began
    <2> QED BY <2>1, <2>2, <2>3, <2>4, <2>5
  <1>9. CASE Receipt(a)
    BY <1>9, Echoes DEF Moved
  <1>10. CASE Other(a)
    BY <1>10, Prints DEF Moved
  <1>11. CASE Input(a)
    <2>1. /\ pc[a] = "loop" /\ mode[a] = "interactive"
          /\ UNCHANGED <<mode, at, shown, cursor, watched, subscribed, from, log, events, trimmed,
                         over>>
          /\ \/ typed' = [typed EXCEPT ![a] = @ + 1] /\ Dispatch(a, typed[a] + 1)
             \/ typed' = typed /\ Dispatch(a, 0)
      BY <1>11 DEF Input, To, watch, host, task
    <2>2. typed' = [typed EXCEPT ![a] = @ + 1] => typed'[a] = typed[a] + 1 /\ typed' # typed
      BY <1>0 DEF TypeInv, Counters
    <2>3. CASE typed' = [typed EXCEPT ![a] = @ + 1] /\ Dispatch(a, typed[a] + 1)
      <3>1. /\ TypeInv' /\ Alone(a) /\ Unmoved(a) /\ typed'[a] = typed[a] + 1
            /\ \/ Dispatched(a, typed[a] + 1)
               \/ /\ Quits(a, "error") /\ up[a] = FALSE /\ nextSeq'[a] = nextSeq[a]
                  /\ toHost'[a] = toHost[a] /\ cursor'[a] = cursor[a] /\ watched'[a] = watched[a]
        <4>1. typed[a] + 1 \in Nat /\ pc[a] # "ended"
          BY <1>0, <2>1
        <4>2. typed'[a] = typed[a] + 1 /\ typed' # typed
          BY <2>2, <2>3
        <4> QED BY <2>1, <2>3, <4>1, <4>2, Dispatching
      <3> QED BY <2>1, <3>1 DEF Moved, Asked
    <2>4. CASE typed' = typed /\ Dispatch(a, 0)
      <3>1. /\ TypeInv' /\ Alone(a) /\ Unmoved(a) /\ typed'[a] = typed[a]
            /\ \/ Dispatched(a, 0)
               \/ /\ Quits(a, "error") /\ up[a] = FALSE /\ nextSeq'[a] = nextSeq[a]
                  /\ toHost'[a] = toHost[a] /\ cursor'[a] = cursor[a] /\ watched'[a] = watched[a]
        BY <2>1, <2>4, Dispatching
      <3> QED BY <2>1, <3>1 DEF Moved, Asked
    <2> QED BY <2>1, <2>3, <2>4
  <1>12. CASE Poll(a)
    BY <1>12, Polls DEF Moved
  <1> QED
    BY <1>1, <1>2, <1>3, <1>4, <1>5, <1>6, <1>7, <1>8, <1>9, <1>10, <1>11, <1>12 DEF Client

(***************************************************************************)
(* What happens to one client in a step of the whole.                      *)
(***************************************************************************)
Idle(a) ==
  /\ Turns(a, pc[a]) /\ Rests(a) /\ Unmoved(a)

SameWorld == UNCHANGED <<log, events, trimmed, over>>

(* The host records an action, perhaps this client's. *)
Recorded(a) ==
  /\ \E e \in Entries :
       /\ log' = Append(log, e)
       /\ IF e.by = a
          THEN /\ toHost[a] # <<>> /\ toHost'[a] = Tail(toHost[a])
               /\ e.seq = Head(toHost[a]).seq /\ e.body = Head(toHost[a]).body
          ELSE toHost'[a] = toHost[a]
  /\ toClient'[a] = IF Hears(a) THEN Append(toClient[a], Len(log) + 1) ELSE toClient[a]
  /\ pc'[a] = pc[a] /\ result'[a] = result[a] /\ up'[a] = up[a] /\ actions'[a] = actions[a]
  /\ nextSeq'[a] = nextSeq[a] /\ typed'[a] = typed[a]
  /\ cursor'[a] = cursor[a] /\ watched'[a] = watched[a]
  /\ Unmoved(a) /\ subscribed'[a] = subscribed[a] /\ from'[a] = from[a]
  /\ UNCHANGED <<events, trimmed, over>>

Snapshotted(a) ==
  /\ pc[a] = "subscribing" /\ up[a] /\ ~subscribed[a]
  /\ subscribed'[a] = TRUE /\ from'[a] = Len(log) /\ toClient'[a] = <<0>>
  /\ pc'[a] = pc[a] /\ result'[a] = result[a] /\ up'[a] = up[a] /\ actions'[a] = actions[a]
  /\ Rests(a) /\ Unmoved(a) /\ SameWorld

Broken(a) ==
  /\ pc[a] \notin {"ended", "watching"} /\ up'[a] = FALSE
  /\ \E n \in 0 .. Len(toClient[a]) : toClient'[a] = SubSeq(toClient[a], 1, n)
  /\ \E n \in 0 .. Len(toHost[a]) : toHost'[a] = SubSeq(toHost[a], 1, n)
  /\ pc'[a] = pc[a] /\ result'[a] = result[a] /\ actions'[a] = actions[a]
  /\ nextSeq'[a] = nextSeq[a] /\ typed'[a] = typed[a]
  /\ cursor'[a] = cursor[a] /\ watched'[a] = watched[a]
  /\ Unmoved(a) /\ subscribed'[a] = subscribed[a] /\ from'[a] = from[a] /\ SameWorld

TaskGoesOn(a) ==
  /\ Idle(a) /\ subscribed'[a] = subscribed[a] /\ from'[a] = from[a] /\ UNCHANGED log
  /\ \/ ~over /\ events' = events + 1 /\ UNCHANGED <<trimmed, over>>
     \/ ~over /\ over' = TRUE /\ UNCHANGED <<events, trimmed>>
     \/ trimmed + 1 < events /\ trimmed' = trimmed + 1 /\ UNCHANGED <<events, over>>

Happens(a) ==
  \/ /\ Moved(a) \/ Idle(a)
     /\ subscribed'[a] = subscribed[a] /\ from'[a] = from[a] /\ SameWorld
  \/ Recorded(a)
  \/ Snapshotted(a)
  \/ Broken(a)
  \/ TaskGoesOn(a)

LEMMA Recording ==
  ASSUME TypeInv, NEW e \in Entries, Record(e),
         UNCHANGED <<mode, pc, nextSeq, typed, at, shown, result, actions, closed, cursor, watched,
                     up, subscribed, from, events, trimmed, over>>,
         \/ e.by = Agent /\ UNCHANGED toHost
         \/ \E b \in Attachments :
              /\ e.by = b /\ toHost[b] # <<>>
              /\ toHost' = To(toHost, b, Tail(toHost[b]))
              /\ e.seq = Head(toHost[b]).seq /\ e.body = Head(toHost[b]).body
  PROVE  TypeInv' /\ \A a \in Attachments : Recorded(a)
  <1>1. /\ log' = Append(log, e) /\ log \in Seq(Entries) /\ Len(log) + 1 \in Nat
        /\ toClient' = [a \in Attachments |-> IF Hears(a) THEN Append(toClient[a], Len(log) + 1)
                                          ELSE toClient[a]]
        /\ toClient \in [Attachments -> Seq(Nat)]
    BY DEF Record, TypeInv, Requests, Streams
  <1>2. log' \in Seq(Entries)
    BY <1>1
  <1>3. \A a \in Attachments :
          /\ toClient'[a] = IF Hears(a) THEN Append(toClient[a], Len(log) + 1) ELSE toClient[a]
          /\ toClient'[a] \in Seq(Nat)
    BY <1>1
  <1>4. toClient' \in [Attachments -> Seq(Nat)]
    BY <1>1, <1>3
  <1>5. /\ toHost' \in [Attachments -> Seq(Orders)]
        /\ \A a \in Attachments :
             IF e.by = a
             THEN /\ toHost[a] # <<>> /\ toHost'[a] = Tail(toHost[a])
                  /\ e.seq = Head(toHost[a]).seq /\ e.body = Head(toHost[a]).body
             ELSE toHost'[a] = toHost[a]
    <2>1. toHost \in [Attachments -> Seq(Orders)]
      BY DEF TypeInv, Requests
    <2>2. CASE e.by = Agent /\ UNCHANGED toHost
      BY <2>1, <2>2, AgentIsNoClient
    <2>3. ASSUME NEW b \in Attachments, e.by = b, toHost[b] # <<>>,
                 toHost' = To(toHost, b, Tail(toHost[b])),
                 e.seq = Head(toHost[b]).seq /\ e.body = Head(toHost[b]).body
          PROVE  /\ toHost' \in [Attachments -> Seq(Orders)]
                 /\ \A a \in Attachments :
                      IF e.by = a
                      THEN /\ toHost[a] # <<>> /\ toHost'[a] = Tail(toHost[a])
                           /\ e.seq = Head(toHost[a]).seq /\ e.body = Head(toHost[a]).body
                      ELSE toHost'[a] = toHost[a]
      <3>1. Tail(toHost[b]) \in Seq(Orders) /\ toHost' = [toHost EXCEPT ![b] = Tail(toHost[b])]
        BY <2>1, <2>3 DEF To
      <3>2. toHost' \in [Attachments -> Seq(Orders)]
        BY <2>1, <3>1
      <3>3. toHost'[b] = Tail(toHost[b]) /\ \A a \in Attachments : a # b => toHost'[a] = toHost[a]
        BY <2>1, <3>1
      <3> QED BY <2>3, <3>2, <3>3
    <2> QED BY <2>2, <2>3
  <1>6. TypeInv'
    <2>1. Flags'
      BY <1>2, <1>4, <1>5 DEF TypeInv, Flags
    <2>2. Places'
      BY <1>2, <1>4, <1>5 DEF TypeInv, Places
    <2>3. Counters'
      BY <1>2, <1>4, <1>5 DEF TypeInv, Counters
    <2>4. Streams'
      BY <1>2, <1>4, <1>5 DEF TypeInv, Streams
    <2>5. Requests'
      BY <1>2, <1>4, <1>5 DEF TypeInv, Requests
    <2> QED BY <2>1, <2>2, <2>3, <2>4, <2>5 DEF TypeInv
  <1>7. ASSUME NEW a \in Attachments PROVE Recorded(a)
    BY <1>1, <1>3, <1>5 DEF Recorded, Unmoved
  <1> QED BY <1>6, <1>7

LEMMA WorldMoves ==
  ASSUME TypeInv, World
  PROVE  TypeInv' /\ UNCHANGED mode /\ \A a \in Attachments : Happens(a)
  <1>1. CASE AgentActs
    <2>1. /\ [by |-> Agent, seq |-> 0, body |-> 0, ok |-> TRUE] \in Entries
          /\ Record([by |-> Agent, seq |-> 0, body |-> 0, ok |-> TRUE])
          /\ UNCHANGED <<mode, pc, nextSeq, typed, at, shown, result, actions, closed, cursor,
                         watched, up, toHost, subscribed, from, events, trimmed, over>>
      BY <1>1 DEF AgentActs, Entries, local, channel, watch, host, task
    <2> QED BY <2>1, Recording DEF Happens
  <1>2. ASSUME NEW b \in Attachments, HostReceive(b)
        PROVE  TypeInv' /\ UNCHANGED mode /\ \A a \in Attachments : Happens(a)
    <2>1. PICK ok \in BOOLEAN :
            Record([by |-> b, seq |-> Head(toHost[b]).seq, body |-> Head(toHost[b]).body,
                    ok |-> ok])
      BY <1>2 DEF HostReceive
    <2>2. /\ toHost[b] # <<>> /\ toHost' = To(toHost, b, Tail(toHost[b]))
          /\ UNCHANGED <<mode, pc, nextSeq, typed, at, shown, result, actions, closed, cursor,
                         watched, up, subscribed, from, events, trimmed, over>>
      BY <1>2 DEF HostReceive, local, channel, watch, host, task
    <2>3. Head(toHost[b]) \in Orders
      BY <2>2 DEF TypeInv, Requests
    <2>4. PICK e : e = [by |-> b, seq |-> Head(toHost[b]).seq, body |-> Head(toHost[b]).body,
                        ok |-> ok]
      OBVIOUS
    <2>5. e \in Entries /\ e.by = b /\ e.seq = Head(toHost[b]).seq /\ e.body = Head(toHost[b]).body
      BY <2>3, <2>4 DEF Entries, Orders
    <2>6. Record(e)
      BY <2>1, <2>4
    <2> HIDE DEF Happens
    <2>7. TypeInv' /\ \A a \in Attachments : Recorded(a)
      BY <2>2, <2>5, <2>6, Recording
    <2> QED BY <2>2, <2>7 DEF Happens
  <1>3. ASSUME NEW b \in Attachments, HostSnapshot(b)
        PROVE  TypeInv' /\ UNCHANGED mode /\ \A a \in Attachments : Happens(a)
    <2>1. /\ pc[b] = "subscribing" /\ up[b] /\ ~subscribed[b]
          /\ subscribed' = [subscribed EXCEPT ![b] = TRUE]
          /\ from' = [from EXCEPT ![b] = Len(log)]
          /\ toClient' = [toClient EXCEPT ![b] = <<0>>]
          /\ UNCHANGED <<mode, pc, nextSeq, typed, at, shown, result, actions, closed, cursor,
                         watched, up, toHost, log, events, trimmed, over>>
      BY <1>3 DEF HostSnapshot, To, local, channel, watch, task
    <2>2. Len(log) \in Nat /\ <<0>> \in Seq(Nat)
      BY DEF TypeInv, Requests
    <2>3. TypeInv'
      <3>1. Flags'
        BY <2>1, <2>2 DEF TypeInv, Flags
      <3>2. Places'
        BY <2>1, <2>2 DEF TypeInv, Places
      <3>3. Counters'
        BY <2>1, <2>2 DEF TypeInv, Counters
      <3>4. Streams'
        BY <2>1, <2>2 DEF TypeInv, Streams
      <3>5. Requests'
        BY <2>1, <2>2 DEF TypeInv, Requests
      <3> QED BY <3>1, <3>2, <3>3, <3>4, <3>5 DEF TypeInv
    <2>4. ASSUME NEW a \in Attachments PROVE Happens(a)
      <3>1. CASE a = b
        <4>1. subscribed'[a] = TRUE /\ from'[a] = Len(log) /\ toClient'[a] = <<0>>
          BY <2>1, <3>1 DEF TypeInv, Flags, Counters, Streams
        <4>2. Snapshotted(a)
          BY <2>1, <3>1, <4>1 DEF Snapshotted, Rests, Unmoved, SameWorld
        <4> QED BY <4>2 DEF Happens
      <3>2. CASE a # b
        <4>1. /\ subscribed'[a] = subscribed[a] /\ from'[a] = from[a]
              /\ toClient'[a] = toClient[a]
          BY <2>1, <3>2 DEF TypeInv, Flags, Counters, Streams
        <4>2. Idle(a) /\ SameWorld
          BY <2>1, <4>1 DEF Idle, Turns, Rests, Unmoved, SameWorld
        <4> QED BY <4>1, <4>2 DEF Happens
      <3> QED BY <3>1, <3>2
    <2> QED BY <2>1, <2>3, <2>4
  <1>4. ASSUME NEW b \in Attachments, Break(b)
        PROVE  TypeInv' /\ UNCHANGED mode /\ \A a \in Attachments : Happens(a)
    <2>1. /\ pc[b] \notin {"ended", "watching"} /\ up' = [up EXCEPT ![b] = FALSE]
          /\ UNCHANGED <<mode, pc, nextSeq, typed, at, shown, result, actions, closed, cursor,
                         watched, subscribed, from, log, events, trimmed, over>>
      BY <1>4 DEF Break, To, local, channel, watch, host, task
    <2>2. PICK n \in 0 .. Len(toClient[b]) :
            toClient' = [toClient EXCEPT ![b] = SubSeq(toClient[b], 1, n)]
      BY <1>4 DEF Break, To
    <2>3. PICK m \in 0 .. Len(toHost[b]) :
            toHost' = [toHost EXCEPT ![b] = SubSeq(toHost[b], 1, m)]
      BY <1>4 DEF Break, To
    <2>4. SubSeq(toClient[b], 1, n) \in Seq(Nat) /\ SubSeq(toHost[b], 1, m) \in Seq(Orders)
      <3>1. toClient[b] \in Seq(Nat) /\ toHost[b] \in Seq(Orders)
        BY DEF TypeInv, Streams, Requests
      <3> QED BY <3>1
    <2>5. TypeInv'
      <3>1. Flags'
        BY <2>1, <2>2, <2>3, <2>4 DEF TypeInv, Flags
      <3>2. Places'
        BY <2>1, <2>2, <2>3, <2>4 DEF TypeInv, Places
      <3>3. Counters'
        BY <2>1, <2>2, <2>3, <2>4 DEF TypeInv, Counters
      <3>4. Streams'
        BY <2>1, <2>2, <2>3, <2>4 DEF TypeInv, Streams
      <3>5. Requests'
        BY <2>1, <2>2, <2>3, <2>4 DEF TypeInv, Requests
      <3> QED BY <3>1, <3>2, <3>3, <3>4, <3>5 DEF TypeInv
    <2>6. ASSUME NEW a \in Attachments PROVE Happens(a)
      <3>1. CASE a = b
        <4>1. /\ up'[a] = FALSE /\ toClient'[a] = SubSeq(toClient[a], 1, n)
              /\ toHost'[a] = SubSeq(toHost[a], 1, m)
          BY <2>1, <2>2, <2>3, <3>1 DEF TypeInv, Flags, Requests, Streams
        <4>2. Broken(a)
          BY <2>1, <3>1, <4>1 DEF Broken, Unmoved, SameWorld
        <4> QED BY <4>2 DEF Happens
      <3>2. CASE a # b
        <4>1. up'[a] = up[a] /\ toClient'[a] = toClient[a] /\ toHost'[a] = toHost[a]
          BY <2>1, <2>2, <2>3, <3>2 DEF TypeInv, Flags, Requests, Streams
        <4>2. Idle(a) /\ SameWorld
          BY <2>1, <4>1 DEF Idle, Turns, Rests, Unmoved, SameWorld
        <4> QED BY <2>1, <4>2 DEF Happens
      <3> QED BY <3>1, <3>2
    <2> QED BY <2>1, <2>5, <2>6
  <1>5. CASE TaskRuns \/ Trim
    <2>1. /\ UNCHANGED <<mode, pc, nextSeq, typed, at, shown, result, actions, closed, cursor,
                         watched, up, toHost, toClient, subscribed, from, log>>
          /\ \/ ~over /\ events' = events + 1 /\ UNCHANGED <<trimmed, over>>
             \/ ~over /\ over' = TRUE /\ UNCHANGED <<events, trimmed>>
             \/ trimmed + 1 < events /\ trimmed' = trimmed + 1 /\ UNCHANGED <<events, over>>
      BY <1>5 DEF TaskRuns, Trim, local, channel, watch, net, host
    <2>2. TypeInv'
      <3>1. Flags'
        BY <2>1 DEF TypeInv, Flags
      <3>2. Places'
        BY <2>1 DEF TypeInv, Places
      <3>3. Counters'
        BY <2>1 DEF TypeInv, Counters
      <3>4. Streams'
        BY <2>1 DEF TypeInv, Streams
      <3>5. Requests'
        BY <2>1 DEF TypeInv, Requests
      <3> QED BY <3>1, <3>2, <3>3, <3>4, <3>5 DEF TypeInv
    <2>3. ASSUME NEW a \in Attachments PROVE TaskGoesOn(a)
      BY <2>1 DEF TaskGoesOn, Idle, Turns, Rests, Unmoved
    <2> QED BY <2>1, <2>2, <2>3 DEF Happens
  <1> QED BY <1>1, <1>2, <1>3, <1>4, <1>5 DEF World

LEMMA Steps ==
  ASSUME TypeInv, TaskInv, [Next]_vars
  PROVE  TypeInv' /\ UNCHANGED mode /\ \A a \in Attachments : Happens(a)
  <1>1. CASE UNCHANGED vars
    <2>1. UNCHANGED <<mode, pc, nextSeq, typed, at, shown, result, actions, closed, cursor,
                      watched, up, toHost, toClient, subscribed, from, log, events, trimmed, over>>
      BY <1>1 DEF vars, local, channel, watch, net, host, task
    <2>2. TypeInv'
      <3>1. Flags'
        BY <2>1 DEF TypeInv, Flags
      <3>2. Places'
        BY <2>1 DEF TypeInv, Places
      <3>3. Counters'
        BY <2>1 DEF TypeInv, Counters
      <3>4. Streams'
        BY <2>1 DEF TypeInv, Streams
      <3>5. Requests'
        BY <2>1 DEF TypeInv, Requests
      <3> QED BY <3>1, <3>2, <3>3, <3>4, <3>5 DEF TypeInv
    <2>3. ASSUME NEW a \in Attachments
          PROVE  Idle(a) /\ SameWorld /\ subscribed'[a] = subscribed[a] /\ from'[a] = from[a]
      BY <2>1 DEF Idle, Turns, Rests, Unmoved, SameWorld
    <2> QED BY <2>1, <2>2, <2>3 DEF Happens
  <1>2. CASE World
    BY <1>2, WorldMoves
  <1>3. ASSUME NEW b \in Attachments, Client(b)
        PROVE  TypeInv' /\ UNCHANGED mode /\ \A a \in Attachments : Happens(a)
    <2>1. TypeInv' /\ Alone(b) /\ Moved(b)
      BY <1>3, Moves
    <2>2. UNCHANGED <<mode, subscribed, from>> /\ SameWorld
      BY <2>1 DEF Alone, SameWorld
    <2>3. ASSUME NEW a \in Attachments PROVE Happens(a)
      <3>1. CASE a = b
        BY <2>1, <2>2, <3>1 DEF Happens
      <3>2. CASE a # b
        <4>1. Idle(a)
          BY <2>1, <3>2 DEF Alone, Idle, Turns, Rests, Unmoved
        <4> QED BY <2>2, <4>1 DEF Happens
      <3> QED BY <3>1, <3>2
    <2> QED BY <2>1, <2>2, <2>3
  <1> QED BY <1>1, <1>2, <1>3 DEF Next

(***************************************************************************)
(* What is on its way to a client: after the snapshot, the host's actions  *)
(* from the one it took last, without a gap.                               *)
(***************************************************************************)
(* The numbers that follow b, and the reply before those that follow f.    *)
Run(s, b) == \A i \in 1 .. Len(s) : s[i] = b + i

Reply(s, f) == \A i \in 1 .. Len(s) : s[i] = IF i = 1 THEN 0 ELSE f + i - 1

Beginning(a) ==
  /\ pc[a] \in Attaching \cup {"watching"} => at[a] = 0 /\ actions[a] = <<>> /\ shown[a] = <<>>
  /\ pc[a] \in {"initializing", "watching"} => subscribed[a] = FALSE
  /\ subscribed[a] = FALSE => toClient[a] = <<>>

Answered(a) ==
  pc[a] = "subscribing" /\ subscribed[a] =>
    /\ Reply(toClient[a], from[a])
    /\ from[a] + Len(toClient[a]) <= Len(log) + 1
    /\ up[a] => from[a] + Len(toClient[a]) = Len(log) + 1

Following(a) ==
  pc[a] \in Live =>
    /\ subscribed[a] /\ from[a] <= at[a]
    /\ Run(actions[a], at[a])
    /\ Run(toClient[a], at[a] + Len(actions[a]))
    /\ at[a] + Len(actions[a]) + Len(toClient[a]) <= Len(log)
    /\ up[a] => at[a] + Len(actions[a]) + Len(toClient[a]) = Len(log)

Within(a) == at[a] <= Len(log) /\ from[a] <= Len(log)

StreamInv(a) == Beginning(a) /\ Answered(a) /\ Following(a) /\ Within(a)

LEMMA Typed ==
  ASSUME TypeInv, NEW a \in Attachments
  PROVE  /\ pc[a] \in Positions /\ mode[a] \in {"follow", "snapshot", "steer", "interactive"}
         /\ at[a] \in Nat /\ from[a] \in Nat /\ nextSeq[a] \in Nat /\ typed[a] \in Nat
         /\ cursor[a] \in Nat /\ events \in Nat
         /\ up[a] \in BOOLEAN /\ subscribed[a] \in BOOLEAN
         /\ actions[a] \in Seq(Nat) /\ toClient[a] \in Seq(Nat) /\ shown[a] \in Seq(Nat)
         /\ watched[a] \in Seq(Nat) /\ toHost[a] \in Seq(Orders)
         /\ log \in Seq(Entries) /\ Len(log) \in Nat
  <1>1. pc[a] \in Positions /\ mode[a] \in {"follow", "snapshot", "steer", "interactive"}
    BY KnownModes DEF TypeInv, Places
  <1>2. /\ at[a] \in Nat /\ from[a] \in Nat /\ nextSeq[a] \in Nat /\ typed[a] \in Nat
        /\ cursor[a] \in Nat /\ events \in Nat
    BY DEF TypeInv, Counters
  <1>3. up[a] \in BOOLEAN /\ subscribed[a] \in BOOLEAN
    BY DEF TypeInv, Flags
  <1>4. /\ actions[a] \in Seq(Nat) /\ toClient[a] \in Seq(Nat) /\ shown[a] \in Seq(Nat)
        /\ watched[a] \in Seq(Nat)
    BY DEF TypeInv, Streams
  <1>5. toHost[a] \in Seq(Orders) /\ log \in Seq(Entries) /\ Len(log) \in Nat
    BY DEF TypeInv, Requests
  <1> QED BY <1>1, <1>2, <1>3, <1>4, <1>5

(* The first of a run is taken, the next is added, the rest is lost. *)
(* Lengths. *)
LEMMA Sums ==
  /\ \A n \in Nat : n # 0 /\ n <= 1 => n = 1
  /\ \A n \in Nat, m \in Nat : n <= m /\ n >= m => n = m
  /\ \A b \in Nat, n \in Nat, m \in Nat : b + n = m => b + (n + 1) = m + 1
  OBVIOUS

LEMMA RunTaken ==
  ASSUME NEW s \in Seq(Nat), NEW b \in Nat, Run(s, b), s # <<>>
  PROVE  /\ Head(s) = b + 1 /\ Run(Tail(s), b + 1)
         /\ Tail(s) \in Seq(Nat) /\ Len(Tail(s)) = Len(s) - 1 /\ Len(s) >= 1
  <1>1. Len(s) \in Nat /\ Len(s) >= 1 /\ Head(s) = s[1]
    OBVIOUS
  <1>2. Tail(s) \in Seq(Nat) /\ Len(Tail(s)) = Len(s) - 1
    OBVIOUS
  <1>3. \A i \in 1 .. Len(s) - 1 : Tail(s)[i] = s[i + 1]
    OBVIOUS
  <1> QED BY <1>1, <1>2, <1>3 DEF Run

LEMMA RunGrows ==
  ASSUME NEW s \in Seq(Nat), NEW b \in Nat, Run(s, b)
  PROVE  /\ Run(Append(s, b + Len(s) + 1), b)
         /\ Append(s, b + Len(s) + 1) \in Seq(Nat)
         /\ Len(Append(s, b + Len(s) + 1)) = Len(s) + 1
  <1>1. Len(s) \in Nat /\ b + Len(s) + 1 \in Nat
    OBVIOUS
  <1> DEFINE t == Append(s, b + Len(s) + 1)
  <1>2. t \in Seq(Nat) /\ Len(t) = Len(s) + 1
    BY <1>1
  <1>3. \A i \in 1 .. Len(s) : t[i] = s[i]
    BY <1>1
  <1>4. t[Len(s) + 1] = b + Len(s) + 1
    BY <1>1
  <1> HIDE DEF t
  <1>5. ASSUME NEW i \in 1 .. Len(s) + 1 PROVE t[i] = b + i
    <2>1. CASE i = Len(s) + 1
      BY <1>1, <1>4, <2>1
    <2>2. CASE i # Len(s) + 1
      <3>1. i \in 1 .. Len(s)
        BY <1>1, <2>2
      <3> QED BY <1>3, <3>1 DEF Run
    <2> QED BY <2>1, <2>2
  <1> QED BY <1>2, <1>5 DEF t, Run

LEMMA RunCut ==
  ASSUME NEW s \in Seq(Nat), NEW b \in Nat, Run(s, b), NEW n \in 0 .. Len(s)
  PROVE  /\ Run(SubSeq(s, 1, n), b) /\ SubSeq(s, 1, n) \in Seq(Nat)
         /\ Len(SubSeq(s, 1, n)) = n
  BY DEF Run

LEMMA ReplyTaken ==
  ASSUME NEW s \in Seq(Nat), NEW f \in Nat, Reply(s, f), s # <<>>
  PROVE  /\ Head(s) = 0 /\ Run(Tail(s), f)
         /\ Tail(s) \in Seq(Nat) /\ Len(Tail(s)) = Len(s) - 1 /\ Len(s) >= 1
  <1>1. Len(s) \in Nat /\ Len(s) >= 1 /\ Head(s) = s[1]
    OBVIOUS
  <1>2. Tail(s) \in Seq(Nat) /\ Len(Tail(s)) = Len(s) - 1
    OBVIOUS
  <1>3. \A i \in 1 .. Len(s) - 1 : Tail(s)[i] = s[i + 1]
    OBVIOUS
  <1> QED BY <1>1, <1>2, <1>3 DEF Run, Reply

LEMMA ReplyGrows ==
  ASSUME NEW s \in Seq(Nat), NEW f \in Nat, Reply(s, f), s # <<>>
  PROVE  /\ Reply(Append(s, f + Len(s)), f)
         /\ Append(s, f + Len(s)) \in Seq(Nat) /\ Len(Append(s, f + Len(s))) = Len(s) + 1
  <1>1. Len(s) \in Nat /\ Len(s) >= 1 /\ f + Len(s) \in Nat
    OBVIOUS
  <1> DEFINE t == Append(s, f + Len(s))
  <1>2. t \in Seq(Nat) /\ Len(t) = Len(s) + 1
    BY <1>1
  <1>3. \A i \in 1 .. Len(s) : t[i] = s[i]
    BY <1>1
  <1>4. t[Len(s) + 1] = f + Len(s)
    BY <1>1
  <1> HIDE DEF t
  <1>5. ASSUME NEW i \in 1 .. Len(s) + 1 PROVE t[i] = IF i = 1 THEN 0 ELSE f + i - 1
    <2>1. CASE i = Len(s) + 1
      BY <1>1, <1>4, <2>1
    <2>2. CASE i # Len(s) + 1
      <3>1. i \in 1 .. Len(s)
        BY <1>1, <2>2
      <3> QED BY <1>3, <3>1 DEF Reply
    <2> QED BY <2>1, <2>2
  <1> QED BY <1>2, <1>5 DEF t, Reply

LEMMA ReplyCut ==
  ASSUME NEW s \in Seq(Nat), NEW f \in Nat, Reply(s, f), NEW n \in 0 .. Len(s)
  PROVE  /\ Reply(SubSeq(s, 1, n), f) /\ SubSeq(s, 1, n) \in Seq(Nat)
         /\ Len(SubSeq(s, 1, n)) = n
  BY DEF Reply

LEMMA StreamKept ==
  ASSUME TypeInv, NEW a \in Attachments, StreamInv(a), Happens(a)
  PROVE  StreamInv(a)'
  <1> DEFINE same == subscribed'[a] = subscribed[a] /\ from'[a] = from[a] /\ log' = log
  <1>0. /\ pc[a] \in Positions /\ at[a] \in Nat /\ from[a] \in Nat
        /\ up[a] \in BOOLEAN /\ subscribed[a] \in BOOLEAN
        /\ actions[a] \in Seq(Nat) /\ toClient[a] \in Seq(Nat)
        /\ log \in Seq(Entries) /\ Len(log) \in Nat
    BY Typed
  <1>1. Within(a) => at[a] <= Len(log) /\ from[a] <= Len(log)
    BY DEF Within
  <1>2. ASSUME same, pc'[a] = "ended", toClient'[a] = <<>>, at'[a] <= Len(log)
        PROVE  StreamInv(a)'
    BY <1>0, <1>2
    DEF StreamInv, Beginning, Answered, Following, Within, Attaching, Live
  <1>3. ASSUME same, Turns(a, pc[a]), Unmoved(a)
        PROVE  StreamInv(a)'
    BY <1>0, <1>3
    DEF StreamInv, Beginning, Answered, Following, Within, Attaching, Live, Turns, Unmoved
  <1>4. CASE Began(a) /\ same
    <2>1. CASE Turns(a, pc[a])
      BY <1>3, <1>4, <2>1 DEF Began
    <2>2. CASE pc[a] = "initializing" /\ Turns(a, "subscribing")
      BY <1>0, <1>4, <2>2
      DEF Began, StreamInv, Beginning, Answered, Following, Within, Attaching, Live, Turns, Unmoved
    <2>3. CASE pc[a] \in Attaching /\ up[a] /\ toClient[a] = <<>> /\ Turns(a, "watching")
      <3>1. subscribed[a] = FALSE
        <4>1. CASE pc[a] = "initializing"
          BY <4>1 DEF StreamInv, Beginning
        <4>2. CASE pc[a] = "subscribing"
          BY <1>0, <2>3, <4>2 DEF StreamInv, Answered, Within
        <4> QED BY <2>3, <4>1, <4>2 DEF Attaching
      <3> QED
        BY <1>0, <1>4, <2>3, <3>1
        DEF Began, StreamInv, Beginning, Answered, Following, Within, Attaching, Live, Turns,
            Unmoved
    <2>4. CASE pc[a] = "attached" /\ Turns(a, "loop")
      BY <1>0, <1>4, <2>4
      DEF Began, StreamInv, Beginning, Answered, Following, Within, Attaching, Live, Turns, Unmoved
    <2> QED BY <1>4, <2>1, <2>2, <2>3, <2>4 DEF Began
  <1>5. CASE Stopped(a) /\ same
    BY <1>2, <1>5 DEF Stopped, Quits, Unmoved, StreamInv, Within
  <1>6. CASE Asked(a) /\ same
    <2>1. /\ pc[a] \in Live
          /\ Turns(a, "waiting") \/ Quits(a, "error")
          /\ Unmoved(a)
      BY <1>6 DEF Asked, Dispatched, Live
    <2>2. CASE Quits(a, "error")
      BY <1>2, <1>6, <2>1, <2>2 DEF Quits, Unmoved, StreamInv, Within
    <2>3. CASE Turns(a, "waiting")
      BY <1>0, <1>6, <2>1, <2>3
      DEF StreamInv, Beginning, Answered, Following, Within, Attaching, Live, Turns, Unmoved
    <2> QED BY <2>1, <2>2, <2>3
  <1>7. CASE RepliedTo(a) /\ same
    <2>1. /\ toClient[a] # <<>> /\ Head(toClient[a]) = 0 /\ pc[a] # "ended"
          /\ toClient'[a] = Tail(toClient[a])
          /\ pc'[a] = "attached" /\ at'[a] = from[a] /\ actions'[a] = actions[a]
          /\ up'[a] = up[a] /\ shown'[a] = shown[a]
      BY <1>7 DEF RepliedTo
    <2>2. pc[a] \notin Live
      <3>1. ASSUME pc[a] \in Live PROVE Head(toClient[a]) > 0
        <4>1. Run(toClient[a], at[a] + Len(actions[a])) /\ at[a] + Len(actions[a]) \in Nat
          BY <1>0, <3>1 DEF StreamInv, Following
        <4> QED BY <1>0, <2>1, <4>1, RunTaken
      <3> QED BY <2>1, <3>1
    <2>3. pc[a] = "subscribing" /\ subscribed[a] = TRUE
      BY <1>0, <2>1, <2>2 DEF StreamInv, Beginning, Positions, Attaching
    <2>4. /\ Reply(toClient[a], from[a])
          /\ from[a] + Len(toClient[a]) <= Len(log) + 1
          /\ up[a] => from[a] + Len(toClient[a]) = Len(log) + 1
          /\ actions[a] = <<>>
      BY <2>3 DEF StreamInv, Answered, Beginning, Attaching
    <2>5. /\ Run(toClient'[a], from[a]) /\ Len(toClient[a]) >= 1
          /\ Len(toClient'[a]) = Len(toClient[a]) - 1 /\ Len(toClient[a]) \in Nat
      BY <1>0, <2>1, <2>4, ReplyTaken
    <2>6. Run(actions'[a], at'[a]) /\ Len(actions'[a]) = 0
      BY <2>1, <2>4 DEF Run
    <2>7. Run(toClient'[a], at'[a] + Len(actions'[a]))
      BY <1>0, <2>1, <2>5, <2>6
    <2>8. Following(a)'
      <3>1. Len(log') = Len(log) /\ from'[a] = from[a] /\ subscribed'[a] = TRUE
        BY <1>7, <2>3
      <3>2. at'[a] + Len(actions'[a]) + Len(toClient'[a]) = from[a] + Len(toClient[a]) - 1
        BY <1>0, <2>1, <2>5, <2>6
      <3> QED BY <1>0, <2>1, <2>4, <2>5, <2>6, <2>7, <3>1, <3>2 DEF Following
    <2> QED
      BY <1>0, <1>7, <2>1, <2>3, <2>8 DEF StreamInv, Beginning, Answered, Within, Attaching
  <1>8. CASE Received(a) /\ Unmoved(a) /\ same
    <2>1. /\ toClient[a] # <<>> /\ Head(toClient[a]) > 0 /\ pc[a] # "ended"
          /\ toClient'[a] = Tail(toClient[a])
          /\ actions'[a] = Append(actions[a], Head(toClient[a]))
          /\ pc'[a] = pc[a] /\ up'[a] = up[a] /\ at'[a] = at[a]
      BY <1>8 DEF Received, Unmoved
    <2>2. pc[a] \in Live
      <3>1. ASSUME pc[a] = "subscribing", subscribed[a] PROVE FALSE
        <4>1. Reply(toClient[a], from[a])
          BY <3>1 DEF StreamInv, Answered
        <4> QED BY <1>0, <2>1, <4>1, ReplyTaken
      <3> QED BY <1>0, <2>1, <3>1 DEF StreamInv, Beginning, Positions, Attaching
    <2>3. /\ subscribed[a] /\ from[a] <= at[a]
          /\ Run(actions[a], at[a]) /\ Run(toClient[a], at[a] + Len(actions[a]))
          /\ at[a] + Len(actions[a]) + Len(toClient[a]) <= Len(log)
          /\ up[a] => at[a] + Len(actions[a]) + Len(toClient[a]) = Len(log)
      BY <2>2 DEF StreamInv, Following
    <2>4. Len(actions[a]) \in Nat /\ Len(toClient[a]) \in Nat /\ at[a] + Len(actions[a]) \in Nat
      BY <1>0
    <2>5. /\ Head(toClient[a]) = at[a] + Len(actions[a]) + 1
          /\ Run(toClient'[a], at[a] + Len(actions[a]) + 1)
          /\ Len(toClient'[a]) = Len(toClient[a]) - 1 /\ Len(toClient[a]) >= 1
      BY <1>0, <2>1, <2>3, <2>4, RunTaken
    <2>6. /\ Run(actions'[a], at[a]) /\ Len(actions'[a]) = Len(actions[a]) + 1
          /\ actions'[a] \in Seq(Nat)
      <3>1. actions'[a] = Append(actions[a], at[a] + Len(actions[a]) + 1)
        BY <2>1, <2>5
      <3>2. actions[a] \in Seq(Nat) /\ at[a] \in Nat /\ Run(actions[a], at[a])
        BY <1>0, <2>3
      <3> QED BY <3>1, <3>2, RunGrows
    <2>7. at[a] + Len(actions'[a]) = at[a] + Len(actions[a]) + 1
      BY <1>0, <2>4, <2>6
    <2>8. Run(toClient'[a], at[a] + Len(actions'[a]))
      BY <2>5, <2>7
    <2>9. Following(a)'
      <3>1. Len(log') = Len(log) /\ from'[a] = from[a] /\ subscribed'[a] = subscribed[a]
        BY <1>8
      <3>2. at'[a] + Len(actions'[a]) + Len(toClient'[a])
              = at[a] + Len(actions[a]) + Len(toClient[a])
        <4>1. /\ at'[a] = at[a] /\ Len(actions'[a]) = Len(actions[a]) + 1
              /\ Len(toClient'[a]) = Len(toClient[a]) - 1
          BY <2>1, <2>5, <2>6
        <4>2. at[a] \in Nat /\ Len(actions[a]) \in Nat /\ Len(toClient[a]) \in Nat
          BY <1>0
        <4>3. \A x, y, z \in Nat : x + (y + 1) + (z - 1) = x + y + z
          OBVIOUS
        <4>4. at[a] + (Len(actions[a]) + 1) + (Len(toClient[a]) - 1)
                = at[a] + Len(actions[a]) + Len(toClient[a])
          BY <4>2, <4>3
        <4> QED BY <4>1, <4>4
      <3> QED BY <1>0, <2>1, <2>3, <2>6, <2>8, <3>1, <3>2 DEF Following
    <2> QED
      BY <1>0, <1>8, <2>1, <2>2, <2>3, <2>9
      DEF StreamInv, Beginning, Answered, Within, Attaching, Live
  <1>9. ASSUME same, Taken(a), pc[a] \in Live, pc'[a] \in Live, actions'[a] = Tail(actions[a]),
               toClient'[a] = toClient[a], up'[a] = up[a]
        PROVE  StreamInv(a)'
    <2>1. actions[a] # <<>> /\ at'[a] = Head(actions[a])
      BY <1>9 DEF Taken
    <2>2. /\ subscribed[a] /\ from[a] <= at[a]
          /\ Run(actions[a], at[a]) /\ Run(toClient[a], at[a] + Len(actions[a]))
          /\ at[a] + Len(actions[a]) + Len(toClient[a]) <= Len(log)
          /\ up[a] => at[a] + Len(actions[a]) + Len(toClient[a]) = Len(log)
      BY <1>9 DEF StreamInv, Following
    <2>3. /\ at'[a] = at[a] + 1 /\ Run(actions'[a], at'[a])
          /\ Len(actions'[a]) = Len(actions[a]) - 1 /\ Len(actions[a]) >= 1
      BY <1>0, <1>9, <2>1, <2>2, RunTaken
    <2>4. Len(actions[a]) \in Nat /\ Len(toClient[a]) \in Nat
      BY <1>0
    <2>5. at'[a] + Len(actions'[a]) = at[a] + Len(actions[a])
      BY <1>0, <2>3, <2>4
    <2>6. Run(toClient'[a], at'[a] + Len(actions'[a]))
      BY <1>9, <2>2, <2>5
    <2>7. Following(a)'
      BY <1>0, <1>9, <2>2, <2>3, <2>4, <2>5, <2>6 DEF Following
    <2> QED
      BY <1>0, <1>9, <2>2, <2>3, <2>4, <2>7, SMTT(30)
      DEF StreamInv, Beginning, Answered, Within, Attaching, Live
  <1>10. CASE Echoed(a) /\ same
    <2>1. /\ Taken(a) /\ pc[a] = "waiting"
          /\ \/ /\ pc'[a] = "loop" /\ actions'[a] = Tail(actions[a])
                /\ toClient'[a] = toClient[a] /\ up'[a] = up[a]
             \/ pc'[a] = "ended" /\ toClient'[a] = <<>>
      BY <1>10 DEF Echoed, Quits
    <2>2. at'[a] <= Len(log)
      <3>1. /\ Run(actions[a], at[a])
            /\ at[a] + Len(actions[a]) + Len(toClient[a]) <= Len(log)
        BY <2>1 DEF StreamInv, Following, Live
      <3>2. at'[a] = at[a] + 1 /\ Len(actions[a]) >= 1
        BY <1>0, <2>1, <3>1, RunTaken DEF Taken
      <3>3. Len(actions[a]) \in Nat /\ Len(toClient[a]) \in Nat
        BY <1>0
      <3> QED BY <1>0, <3>1, <3>2, <3>3
    <2> QED BY <1>2, <1>9, <1>10, <2>1, <2>2 DEF Live
  <1>11. CASE Printed(a) /\ same
    BY <1>9, <1>11 DEF Printed, Live
  <1>12. CASE Polled(a) /\ Unmoved(a) /\ same
    <2>1. \/ pc'[a] = "ended" /\ toClient'[a] = <<>>
          \/ Turns(a, pc[a])
      BY <1>12 DEF Polled, Quits
    <2> QED BY <1>2, <1>3, <1>12, <2>1 DEF Unmoved, StreamInv, Within
  <1>13. CASE Idle(a) /\ same
    BY <1>3, <1>13 DEF Idle
  <1>14. CASE Recorded(a)
    <2>1. /\ Len(log') = Len(log) + 1
          /\ pc'[a] = pc[a] /\ up'[a] = up[a] /\ actions'[a] = actions[a] /\ at'[a] = at[a]
          /\ shown'[a] = shown[a] /\ subscribed'[a] = subscribed[a] /\ from'[a] = from[a]
      BY <1>0, <1>14 DEF Recorded, Unmoved
    <2>2. CASE Hears(a)
      <3>1. /\ toClient'[a] = Append(toClient[a], Len(log) + 1) /\ Len(log) + 1 \in Nat
            /\ Len(toClient[a]) \in Nat /\ Len(actions[a]) \in Nat
            /\ up[a] /\ subscribed[a] /\ pc[a] # "ended"
        BY <1>0, <1>14, <2>2 DEF Recorded, Hears
      <3>3. CASE pc[a] = "subscribing"
        <4>1. /\ Reply(toClient[a], from[a]) /\ from[a] + Len(toClient[a]) = Len(log) + 1
              /\ from[a] <= Len(log)
          BY <3>1, <3>3 DEF StreamInv, Answered, Within
        <4>2. toClient[a] # <<>>
          BY <1>0, <4>1
        <4>3. /\ Reply(toClient'[a], from[a]) /\ Len(toClient'[a]) = Len(toClient[a]) + 1
          BY <1>0, <3>1, <4>1, <4>2, ReplyGrows
        <4>4. Answered(a)'
          BY <1>0, <2>1, <3>1, <4>1, <4>3 DEF Answered
        <4> QED
          BY <1>0, <2>1, <3>1, <3>3, <4>4
          DEF StreamInv, Beginning, Following, Within, Attaching, Live
      <3>4. CASE pc[a] \in Live
        <4>1. /\ subscribed[a] /\ from[a] <= at[a] /\ Run(actions[a], at[a])
              /\ Run(toClient[a], at[a] + Len(actions[a]))
              /\ at[a] + Len(actions[a]) + Len(toClient[a]) = Len(log)
          BY <3>1, <3>4 DEF StreamInv, Following
        <4>2. PICK b : b = at[a] + Len(actions[a])
          OBVIOUS
        <4>3. b \in Nat /\ Run(toClient[a], b) /\ b + Len(toClient[a]) = Len(log)
          BY <1>0, <3>1, <4>1, <4>2
        <4>4. /\ Run(toClient'[a], b) /\ Len(toClient'[a]) = Len(toClient[a]) + 1
          BY <1>0, <3>1, <4>3, RunGrows
        <4>5. Following(a)'
          <5>1. b + Len(toClient'[a]) = Len(log')
            <6>1. Len(toClient[a]) \in Nat /\ Len(log') = Len(log) + 1
              BY <1>0, <2>1
            <6>2. b + (Len(toClient[a]) + 1) = Len(log) + 1
              <7>1. /\ b \in Nat /\ Len(toClient[a]) \in Nat /\ Len(log) \in Nat
                    /\ b + Len(toClient[a]) = Len(log)
                BY <1>0, <4>3
              <7> QED BY <7>1, Sums
            <6> QED BY <4>4, <6>1, <6>2
          <5>2. b = at'[a] + Len(actions'[a]) /\ Run(actions'[a], at'[a])
            BY <2>1, <4>1, <4>2
          <5>3. subscribed'[a] /\ from'[a] <= at'[a]
            BY <2>1, <4>1
          <5>4. b + Len(toClient'[a]) <= Len(log')
            BY <1>0, <2>1, <5>1
          <5> QED BY <4>4, <5>1, <5>2, <5>3, <5>4 DEF Following
        <4> QED
          BY <1>0, <2>1, <3>1, <3>4, <4>5, SMTT(30)
          DEF StreamInv, Beginning, Answered, Within, Attaching, Live
      <3> QED
        BY <1>0, <2>2, <3>3, <3>4 DEF Hears, StreamInv, Beginning, Positions, Attaching
    <2>3. CASE ~Hears(a)
      <3>1. toClient'[a] = toClient[a]
        BY <1>14, <2>3 DEF Recorded
      <3>2. subscribed[a] /\ pc[a] # "ended" => up[a] = FALSE
        BY <1>0, <2>3 DEF Hears
      <3>3. Beginning(a)' /\ Within(a)'
        BY <1>0, <2>1, <3>1 DEF StreamInv, Beginning, Within
      <3>4. Answered(a)'
        BY <1>0, <2>1, <3>1, <3>2 DEF StreamInv, Answered
      <3>5. Following(a)'
        <4>1. Len(actions[a]) \in Nat /\ Len(toClient[a]) \in Nat
          BY <1>0
        <4> QED BY <1>0, <2>1, <3>1, <3>2, <4>1 DEF StreamInv, Following, Live
      <3> QED BY <3>3, <3>4, <3>5 DEF StreamInv
    <2> QED BY <2>2, <2>3
  <1>15. CASE Snapshotted(a)
    <2>1. Reply(<<0>>, Len(log)) /\ Len(<<0>>) = 1
      BY DEF Reply
    <2> QED
      BY <1>0, <1>15, <2>1
      DEF Snapshotted, Unmoved, SameWorld, StreamInv, Beginning, Answered, Following, Within,
          Attaching, Live
  <1>16. CASE Broken(a)
    <2>1. PICK n \in 0 .. Len(toClient[a]) : toClient'[a] = SubSeq(toClient[a], 1, n)
      BY <1>16 DEF Broken
    <2>2. /\ toClient'[a] \in Seq(Nat) /\ Len(toClient'[a]) = n
          /\ n \in Nat /\ n <= Len(toClient[a]) /\ Len(toClient[a]) \in Nat
          /\ \A b \in Nat : Run(toClient[a], b) => Run(toClient'[a], b)
          /\ \A b \in Nat : Reply(toClient[a], b) => Reply(toClient'[a], b)
      <3>1. toClient[a] \in Seq(Nat) /\ Len(toClient[a]) \in Nat
        BY <1>0
      <3>2. toClient'[a] \in Seq(Nat) /\ Len(toClient'[a]) = n
        BY <2>1, <3>1
      <3>3. \A b \in Nat : Run(toClient[a], b) => Run(toClient'[a], b)
        BY <2>1, <3>1, RunCut
      <3>4. \A b \in Nat : Reply(toClient[a], b) => Reply(toClient'[a], b)
        BY <2>1, <3>1, ReplyCut
      <3> QED BY <3>1, <3>2, <3>3, <3>4
    <2>3. toClient[a] = <<>> => toClient'[a] = <<>>
      BY <1>0, <2>1, <2>2
    <2>4. /\ pc'[a] = pc[a] /\ actions'[a] = actions[a] /\ at'[a] = at[a] /\ shown'[a] = shown[a]
          /\ subscribed'[a] = subscribed[a] /\ from'[a] = from[a] /\ log' = log
          /\ up'[a] = FALSE
      BY <1>16 DEF Broken, Unmoved, SameWorld
    <2>5. Beginning(a)' /\ Within(a)'
      BY <1>0, <2>3, <2>4 DEF StreamInv, Beginning, Within
    <2>6. Answered(a)'
      BY <1>0, <2>2, <2>4 DEF StreamInv, Answered
    <2>7. Following(a)'
      <3>1. at[a] + Len(actions[a]) \in Nat /\ Len(actions[a]) \in Nat
        BY <1>0
      <3> QED BY <1>0, <2>2, <2>4, <3>1 DEF StreamInv, Following
    <2> QED BY <2>5, <2>6, <2>7 DEF StreamInv
  <1>17. CASE TaskGoesOn(a)
    BY <1>3, <1>17 DEF TaskGoesOn, Idle
  <1> QED
    BY <1>4, <1>5, <1>6, <1>7, <1>8, <1>10, <1>11, <1>12, <1>13, <1>14, <1>15, <1>16, <1>17
    DEF Happens, Moved, SameWorld

(* A client takes what follows the last it took; the reply finds it where  *)
(* it subscribed.                                                          *)
LEMMA TakenNext ==
  ASSUME TypeInv, NEW a \in Attachments, StreamInv(a), pc[a] \in Live, Taken(a)
  PROVE  at'[a] = at[a] + 1 /\ at[a] + 1 <= Len(log) /\ from[a] <= at[a]
  <1>0. /\ at[a] \in Nat /\ actions[a] \in Seq(Nat) /\ toClient[a] \in Seq(Nat)
        /\ Len(log) \in Nat /\ Len(actions[a]) \in Nat /\ Len(toClient[a]) \in Nat
    BY Typed
  <1>1. /\ Run(actions[a], at[a]) /\ from[a] <= at[a]
        /\ at[a] + Len(actions[a]) + Len(toClient[a]) <= Len(log)
    BY DEF StreamInv, Following
  <1>2. actions[a] # <<>> /\ at'[a] = Head(actions[a])
    BY DEF Taken
  <1>3. at'[a] = at[a] + 1 /\ Len(actions[a]) >= 1
    BY <1>0, <1>1, <1>2, RunTaken
  <1> QED BY <1>0, <1>1, <1>3

LEMMA RepliedFrom ==
  ASSUME TypeInv, NEW a \in Attachments, StreamInv(a), RepliedTo(a)
  PROVE  /\ pc[a] = "subscribing" /\ at[a] = 0 /\ shown[a] = <<>>
         /\ pc'[a] = "attached" /\ at'[a] = from[a] /\ from[a] <= Len(log)
  <1>0. /\ pc[a] \in Positions /\ at[a] \in Nat /\ from[a] \in Nat /\ subscribed[a] \in BOOLEAN
        /\ actions[a] \in Seq(Nat) /\ toClient[a] \in Seq(Nat)
    BY Typed
  <1>1. /\ toClient[a] # <<>> /\ Head(toClient[a]) = 0 /\ pc[a] # "ended"
        /\ pc'[a] = "attached" /\ at'[a] = from[a]
    BY DEF RepliedTo
  <1>2. pc[a] \notin Live
    <2>1. ASSUME pc[a] \in Live PROVE Head(toClient[a]) > 0
      <3>1. Run(toClient[a], at[a] + Len(actions[a])) /\ at[a] + Len(actions[a]) \in Nat
        BY <1>0, <2>1 DEF StreamInv, Following
      <3> QED BY <1>0, <1>1, <3>1, RunTaken
    <2> QED BY <1>1, <2>1
  <1> QED BY <1>0, <1>1, <1>2 DEF StreamInv, Beginning, Within, Positions, Attaching

(***************************************************************************)
(* The client's own actions: all but the last of them are behind it.       *)
(***************************************************************************)
Own(a, n) == log[n].by = a

Numbered(a) ==
  /\ nextSeq[a] >= 1
  /\ \A n \in 1 .. Len(log) : Own(a, n) => log[n].seq < nextSeq[a]
  /\ Len(toHost[a]) <= 1
  /\ toHost[a] # <<>> => toHost[a][1].seq + 1 = nextSeq[a]

Seen(a) == \A n \in 1 .. Len(log) : Own(a, n) => n <= at[a]

Outstanding(a) ==
  /\ pc[a] \notin {"waiting", "ended"} => toHost[a] = <<>> /\ Seen(a)
  /\ pc[a] = "waiting" =>
       /\ toHost[a] # <<>> => Seen(a)
       /\ \A n \in 1 .. Len(log) : Own(a, n) /\ n > at[a] => log[n].seq + 1 = nextSeq[a]
       /\ \A m, n \in 1 .. Len(log) :
            Own(a, m) /\ Own(a, n) /\ m > at[a] /\ n > at[a] => m = n

OwnInv(a) == Numbered(a) /\ Outstanding(a)

LEMMA Nothing ==
  ASSUME NEW S, NEW s \in Seq(S), Len(s) = 0
  PROVE  s = <<>>
  OBVIOUS

LEMMA OwnKept ==
  ASSUME TypeInv, NEW a \in Attachments, StreamInv(a), OwnInv(a), Happens(a)
  PROVE  OwnInv(a)'
  <1> DEFINE same == log' = log /\ nextSeq'[a] = nextSeq[a] /\ toHost'[a] = toHost[a]
  <1>0. /\ pc[a] \in Positions /\ at[a] \in Nat /\ from[a] \in Nat /\ nextSeq[a] \in Nat
        /\ up[a] \in BOOLEAN /\ toHost[a] \in Seq(Orders)
        /\ log \in Seq(Entries) /\ Len(log) \in Nat
    BY Typed
  <1>1. ASSUME same PROVE Numbered(a)'
    BY <1>1 DEF OwnInv, Numbered, Own
  <1>2. ASSUME same, pc'[a] = "ended" PROVE OwnInv(a)'
    BY <1>1, <1>2 DEF OwnInv, Outstanding
  <1>3. ASSUME same, pc'[a] = pc[a], at'[a] = at[a] PROVE OwnInv(a)'
    BY <1>1, <1>3 DEF OwnInv, Outstanding, Seen, Own
  <1>4. ASSUME same, pc[a] \notin {"waiting", "ended"}, pc'[a] \notin {"waiting", "ended"},
               at'[a] \in Nat, at[a] <= at'[a]
        PROVE  OwnInv(a)'
    BY <1>0, <1>1, <1>4 DEF OwnInv, Outstanding, Seen, Own
  <1>5. CASE Began(a) /\ log' = log
    <2>1. same /\ at'[a] = at[a]
      BY <1>5 DEF Began, Rests, Unmoved
    <2>2. \/ pc'[a] = pc[a]
          \/ /\ pc[a] \notin {"waiting", "ended"} /\ pc'[a] \notin {"waiting", "ended"}
      BY <1>5 DEF Began, Turns, Attaching
    <2> QED BY <1>0, <1>3, <1>4, <2>1, <2>2
  <1>6. CASE Stopped(a) /\ log' = log
    BY <1>2, <1>6 DEF Stopped, Rests, Quits
  <1>7. CASE Asked(a) /\ log' = log
    <2>1. CASE Quits(a, "error") /\ nextSeq'[a] = nextSeq[a] /\ toHost'[a] = toHost[a]
      BY <1>2, <1>7, <2>1 DEF Quits
    <2>2. ASSUME NEW b \in Nat, Dispatched(a, b), pc[a] \in {"attached", "loop"}
          PROVE  OwnInv(a)'
      <3>1. /\ nextSeq'[a] = nextSeq[a] + 1 /\ pc'[a] = "waiting" /\ at'[a] = at[a]
            /\ toHost'[a] = IF up[a] THEN Append(toHost[a], [seq |-> nextSeq[a], body |-> b])
                            ELSE toHost[a]
        BY <1>7, <2>2 DEF Dispatched, Turns, Asked, Unmoved
      <3>2. toHost[a] = <<>> /\ Seen(a)
        BY <2>2 DEF OwnInv, Outstanding
      <3>3. /\ Len(toHost'[a]) <= 1
            /\ toHost'[a] # <<>> => toHost'[a][1].seq = nextSeq[a]
        BY <3>1, <3>2
      <3>4. Seen(a)'
        BY <1>7, <3>1, <3>2 DEF Seen, Own
      <3>5. Numbered(a)'
        <4>1. \A n \in 1 .. Len(log) : log[n] \in Entries
          BY <1>0
        <4> QED BY <1>0, <1>7, <3>1, <3>3, <4>1 DEF OwnInv, Numbered, Own, Entries
      <3>6. Outstanding(a)'
        <4>1. \A n \in 1 .. Len(log') : Own(a, n)' => n <= at'[a] /\ ~(n > at'[a])
          BY <1>0, <3>1, <3>4 DEF Seen
        <4> QED BY <3>1, <3>4, <4>1 DEF Outstanding
      <3> QED BY <3>5, <3>6 DEF OwnInv
    <2>3. typed[a] + 1 \in Nat
      BY Typed
    <2> QED BY <1>7, <2>1, <2>2, <2>3 DEF Asked
  <1>8. CASE RepliedTo(a) /\ Rests(a) /\ log' = log
    BY <1>0, <1>4, <1>8, RepliedFrom DEF Rests
  <1>9. CASE Received(a) /\ Rests(a) /\ Unmoved(a) /\ log' = log
    BY <1>3, <1>9 DEF Received, Rests, Unmoved
  <1>10. CASE Echoed(a) /\ Rests(a) /\ log' = log
    <2>1. /\ same /\ pc[a] = "waiting" /\ Taken(a) /\ Acknowledges(a, Head(actions[a]))
          /\ pc'[a] = "loop" \/ pc'[a] = "ended"
      BY <1>10 DEF Echoed, Rests, Quits
    <2>2. at'[a] = at[a] + 1 /\ at[a] + 1 <= Len(log) /\ at'[a] = Head(actions[a])
      BY <2>1, TakenNext DEF Live, Taken
    <2>3. CASE pc'[a] = "loop"
      <3>1. Own(a, at[a] + 1) /\ at[a] + 1 \in 1 .. Len(log) /\ at[a] + 1 > at[a]
        BY <1>0, <2>1, <2>2 DEF Acknowledges, Own
      <3>2. toHost[a] = <<>>
        BY <1>0, <2>1, <3>1 DEF OwnInv, Outstanding, Seen
      <3>3. \A n \in 1 .. Len(log) : Own(a, n) /\ n > at[a] => n = at[a] + 1
        BY <2>1, <3>1 DEF OwnInv, Outstanding
      <3>4. \A n \in 1 .. Len(log) : Own(a, n) => n <= at[a] + 1
        BY <1>0, <3>3
      <3>5. Outstanding(a)'
        BY <2>1, <2>2, <2>3, <3>2, <3>4 DEF Outstanding, Seen, Own
      <3> QED BY <1>1, <2>1, <3>5 DEF OwnInv
    <2> QED BY <1>2, <2>1, <2>3
  <1>11. CASE Printed(a) /\ Rests(a) /\ log' = log
    <2>1. /\ same /\ pc'[a] = pc[a] /\ pc[a] \in {"waiting", "loop"} /\ Taken(a)
      BY <1>11 DEF Printed, Rests
    <2>2. at'[a] = at[a] + 1
      BY <2>1, TakenNext DEF Live
    <2>3. CASE pc[a] = "loop"
      BY <1>0, <1>4, <2>1, <2>2, <2>3
    <2>4. CASE pc[a] = "waiting"
      <3>1. \A n \in 1 .. Len(log) :
              /\ Own(a, n)' <=> Own(a, n)
              /\ n > at'[a] => n > at[a]
              /\ n <= at[a] => n <= at'[a]
        BY <1>0, <2>1, <2>2 DEF Own
      <3>2. Seen(a) => Seen(a)'
        BY <2>1, <3>1 DEF Seen
      <3>3. Outstanding(a)'
        BY <2>1, <2>4, <3>1, <3>2 DEF OwnInv, Outstanding
      <3> QED BY <1>1, <2>1, <3>3 DEF OwnInv
    <2> QED BY <2>1, <2>3, <2>4
  <1>12. CASE Polled(a) /\ Unmoved(a) /\ log' = log
    BY <1>2, <1>3, <1>12 DEF Polled, Quits, Turns, Unmoved
  <1>13. CASE Idle(a) /\ log' = log
    BY <1>3, <1>13 DEF Idle, Turns, Rests, Unmoved
  <1>14. CASE Recorded(a)
    <2>1. PICK e \in Entries :
            /\ log' = Append(log, e)
            /\ IF e.by = a
               THEN /\ toHost[a] # <<>> /\ toHost'[a] = Tail(toHost[a])
                    /\ e.seq = Head(toHost[a]).seq /\ e.body = Head(toHost[a]).body
               ELSE toHost'[a] = toHost[a]
      BY <1>14 DEF Recorded
    <2>2. /\ Len(log') = Len(log) + 1 /\ log'[Len(log) + 1] = e
          /\ \A n \in 1 .. Len(log) : log'[n] = log[n]
      BY <1>0, <2>1
    <2>3. pc'[a] = pc[a] /\ at'[a] = at[a] /\ nextSeq'[a] = nextSeq[a] /\ at[a] <= Len(log)
      BY <1>14 DEF Recorded, Unmoved, StreamInv, Within
    <2>4. CASE e.by # a
      <3>1. toHost'[a] = toHost[a]
        BY <2>1, <2>4
      <3>2. /\ \A n \in 1 .. Len(log') : log'[n].by = a => n \in 1 .. Len(log) /\ Own(a, n)
        BY <1>0, <2>2, <2>4 DEF Own
      <3>3. Numbered(a)'
        BY <2>2, <2>3, <3>1, <3>2 DEF OwnInv, Numbered, Own
      <3>4. Outstanding(a)'
        BY <2>2, <2>3, <3>1, <3>2 DEF OwnInv, Outstanding, Seen, Own
      <3> QED BY <3>3, <3>4 DEF OwnInv
    <2>5. CASE e.by = a
      <3>1. /\ toHost[a] # <<>> /\ Len(toHost[a]) = 1 /\ toHost'[a] = <<>>
            /\ e.seq + 1 = nextSeq[a]
        <4>1. toHost[a] # <<>> /\ toHost'[a] = Tail(toHost[a]) /\ e.seq = Head(toHost[a]).seq
          BY <2>1, <2>5
        <4>2. Len(toHost[a]) <= 1 /\ toHost[a][1].seq + 1 = nextSeq[a]
          BY <4>1 DEF OwnInv, Numbered
        <4>3. Head(toHost[a]) = toHost[a][1] /\ Tail(toHost[a]) \in Seq(Orders)
          BY <1>0, <4>1
        <4>4. Len(toHost[a]) = 1
          <5>1. Len(toHost[a]) \in Nat /\ Len(toHost[a]) # 0
            BY <1>0, <4>1
          <5>2. Len(toHost[a]) <= 1
            BY <4>2
          <5> QED BY <5>1, <5>2, Sums
        <4>5. Tail(toHost[a]) = <<>>
          <5>1. Len(Tail(toHost[a])) = 0
            BY <1>0, <4>1, <4>4
          <5> QED BY <4>3, <5>1, Nothing
        <4> QED BY <4>1, <4>2, <4>3, <4>4, <4>5
      <3>2. \A n \in 1 .. Len(log') : n \in 1 .. Len(log) \/ n = Len(log) + 1
        BY <1>0, <2>2
      <3>3. Numbered(a)'
        <4>1. e.seq < nextSeq[a] /\ nextSeq'[a] >= 1
          BY <1>0, <2>3, <3>1 DEF Entries
        <4>2. \A n \in 1 .. Len(log') : Own(a, n)' => log'[n].seq < nextSeq'[a]
          BY <2>2, <2>3, <3>2, <4>1 DEF OwnInv, Numbered, Own
        <4> QED BY <3>1, <4>1, <4>2 DEF Numbered
      <3>4. Outstanding(a)'
        <4>1. pc[a] \in {"waiting", "ended"}
          BY <3>1 DEF OwnInv, Outstanding
        <4>2. CASE pc[a] = "waiting"
          <5>1. \A n \in 1 .. Len(log) : Own(a, n) => ~(n > at[a])
            BY <1>0, <3>1, <4>2 DEF OwnInv, Outstanding, Seen
          <5>2. \A n \in 1 .. Len(log') : Own(a, n)' /\ n > at'[a] => n = Len(log) + 1
            BY <2>2, <2>3, <3>2, <5>1 DEF Own
          <5> QED BY <2>2, <2>3, <3>1, <4>2, <5>2 DEF Outstanding
        <4> QED BY <2>3, <4>1, <4>2 DEF Outstanding
      <3> QED BY <3>3, <3>4 DEF OwnInv
    <2> QED BY <2>4, <2>5
  <1>15. CASE Snapshotted(a)
    BY <1>3, <1>15 DEF Snapshotted, Rests, Unmoved, SameWorld
  <1>16. CASE Broken(a)
    <2>1. PICK n \in 0 .. Len(toHost[a]) : toHost'[a] = SubSeq(toHost[a], 1, n)
      BY <1>16 DEF Broken
    <2>2. toHost'[a] = <<>> \/ toHost'[a] = toHost[a]
      <3>1. Len(toHost[a]) <= 1 /\ Len(toHost[a]) \in Nat
        BY <1>0 DEF OwnInv, Numbered
      <3>2. CASE n = 0
        BY <1>0, <2>1, <3>2
      <3>3. CASE n = Len(toHost[a])
        BY <1>0, <2>1, <3>3
      <3> QED BY <3>1, <3>2, <3>3
    <2>3. /\ pc'[a] = pc[a] /\ at'[a] = at[a] /\ nextSeq'[a] = nextSeq[a] /\ log' = log
      BY <1>16 DEF Broken, Unmoved, SameWorld
    <2>4. Numbered(a)'
      BY <1>0, <2>2, <2>3 DEF OwnInv, Numbered, Own
    <2>5. Outstanding(a)'
      BY <2>2, <2>3 DEF OwnInv, Outstanding, Seen, Own
    <2> QED BY <2>4, <2>5 DEF OwnInv
  <1>17. CASE TaskGoesOn(a)
    BY <1>3, <1>17 DEF TaskGoesOn, Idle, Turns, Rests, Unmoved
  <1> QED
    BY <1>5, <1>6, <1>7, <1>8, <1>9, <1>10, <1>11, <1>12, <1>13, <1>14, <1>15, <1>16, <1>17
    DEF Happens, Moved, SameWorld

(***************************************************************************)
(* What is printed, and what is told.                                      *)
(***************************************************************************)
(* An echo of its own that the keyboard does not print. *)
Silent(a, n) == mode[a] = "interactive" /\ Own(a, n)

HistoryInv(a) ==
  /\ \A i \in 1 .. Len(shown[a]) : shown[a][i] \in from[a] + 1 .. at[a] /\ ~Silent(a, shown[a][i])
  /\ \A n \in from[a] + 1 .. at[a] :
       ~Silent(a, n) => \E i \in 1 .. Len(shown[a]) : shown[a][i] = n
  /\ \A i, j \in 1 .. Len(shown[a]) : i < j => shown[a][i] < shown[a][j]

WatchInv(a) ==
  /\ watched[a] = [i \in 1 .. cursor[a] |-> i]
  /\ result[a] = "outcome" => pc[a] = "ended" /\ over /\ cursor[a] = events

Judged(a) ==
  \/ result[a] \in {"error", "uncertain"}
  \/ \E n \in 1 .. Len(log) : Own(a, n) /\ log[n].ok = (result[a] = "accepted")

VerdictInv(a) ==
  mode[a] = "steer" =>
    /\ pc[a] \notin {"loop", "watching"}
    /\ pc[a] = "ended" => Judged(a)

LEMMA HistoryKept ==
  ASSUME TypeInv, NEW a \in Attachments, StreamInv(a), OwnInv(a), HistoryInv(a), Happens(a),
         UNCHANGED mode
  PROVE  HistoryInv(a)'
  <1> DEFINE same == from'[a] = from[a] /\ log' = log
  <1>0. /\ pc[a] \in Positions /\ at[a] \in Nat /\ from[a] \in Nat /\ nextSeq[a] \in Nat
        /\ shown[a] \in Seq(Nat) /\ log \in Seq(Entries) /\ Len(log) \in Nat
        /\ at[a] <= Len(log) /\ from[a] <= Len(log)
    BY Typed DEF StreamInv, Within
  <1>1. ASSUME Unmoved(a), from'[a] = from[a], \A n \in 1 .. Len(log) : log'[n] = log[n]
        PROVE  HistoryInv(a)'
    <2>1. \A n \in from[a] + 1 .. at[a] : n \in 1 .. Len(log)
      BY <1>0
    <2>2. \A n \in from[a] + 1 .. at[a] : Silent(a, n)' <=> Silent(a, n)
      BY <1>1, <2>1 DEF Silent, Own
    <2> QED BY <1>1, <2>2 DEF HistoryInv, Unmoved
  <1>2. ASSUME at'[a] <= from'[a], at'[a] \in Nat, from'[a] \in Nat, shown'[a] = <<>>
        PROVE  HistoryInv(a)'
    BY <1>2 DEF HistoryInv
  <1>3. ASSUME same, pc[a] \in Live, Taken(a), shown'[a] = shown[a], Silent(a, at[a] + 1)
        PROVE  HistoryInv(a)'
    <2>1. at'[a] = at[a] + 1 /\ from[a] <= at[a]
      BY <1>3, TakenNext
    <2>2. \A n : Silent(a, n)' <=> Silent(a, n)
      BY <1>3 DEF Silent, Own
    <2>3. \A n \in from[a] + 1 .. at'[a] : n = at[a] + 1 \/ n \in from[a] + 1 .. at[a]
      BY <1>0, <2>1
    <2>4. \A n \in from[a] + 1 .. at[a] : n \in from[a] + 1 .. at'[a]
      BY <1>0, <2>1
    <2> QED BY <1>3, <2>1, <2>2, <2>3, <2>4 DEF HistoryInv
  <1>4. ASSUME same, pc[a] \in Live, Taken(a), shown'[a] = Append(shown[a], Head(actions[a])),
               ~Silent(a, at[a] + 1)
        PROVE  HistoryInv(a)'
    <2>1. at'[a] = at[a] + 1 /\ from[a] <= at[a] /\ Head(actions[a]) = at[a] + 1
      BY <1>4, TakenNext DEF Taken
    <2>2. \A n : Silent(a, n)' <=> Silent(a, n)
      BY <1>4 DEF Silent, Own
    <2>3. \A n \in from[a] + 1 .. at'[a] : n = at[a] + 1 \/ n \in from[a] + 1 .. at[a]
      BY <1>0, <2>1
    <2>4. /\ at[a] + 1 \in from[a] + 1 .. at'[a]
          /\ \A n \in from[a] + 1 .. at[a] : n \in from[a] + 1 .. at'[a] /\ n < at[a] + 1
      BY <1>0, <2>1
    <2>5. /\ Len(shown[a]) \in Nat /\ Len(shown'[a]) = Len(shown[a]) + 1
          /\ \A i \in 1 .. Len(shown[a]) : shown'[a][i] = shown[a][i]
          /\ shown'[a][Len(shown[a]) + 1] = at[a] + 1
      BY <1>0, <1>4, <2>1
    <2>6. /\ \A i \in 1 .. Len(shown'[a]) : i \in 1 .. Len(shown[a]) \/ i = Len(shown[a]) + 1
          /\ \A i \in 1 .. Len(shown[a]) : i \in 1 .. Len(shown'[a])
          /\ Len(shown[a]) + 1 \in 1 .. Len(shown'[a])
      BY <2>5
    <2>7. \A i \in 1 .. Len(shown'[a]) :
            shown'[a][i] \in from[a] + 1 .. at'[a] /\ ~Silent(a, shown'[a][i])
      BY <1>4, <2>4, <2>5, <2>6 DEF HistoryInv
    <2>8. \A n \in from[a] + 1 .. at'[a] :
            ~Silent(a, n) => \E i \in 1 .. Len(shown'[a]) : shown'[a][i] = n
      BY <2>3, <2>5, <2>6 DEF HistoryInv
    <2>9. ASSUME NEW i \in 1 .. Len(shown'[a]), NEW j \in 1 .. Len(shown'[a]), i < j
          PROVE  shown'[a][i] < shown'[a][j]
      <3>1. i \in 1 .. Len(shown[a])
        BY <2>5, <2>6, <2>9
      <3>2. CASE j \in 1 .. Len(shown[a])
        BY <2>5, <2>9, <3>1, <3>2 DEF HistoryInv
      <3>3. CASE j = Len(shown[a]) + 1
        BY <2>4, <2>5, <3>1, <3>3 DEF HistoryInv
      <3> QED BY <2>6, <3>2, <3>3
    <2> QED BY <1>4, <2>2, <2>7, <2>8, <2>9 DEF HistoryInv
  <1>5. CASE Unmoved(a) /\ same
    BY <1>1, <1>5
  <1>6. CASE RepliedTo(a) /\ same
    <2>1. shown'[a] = <<>> /\ at'[a] = from'[a]
      BY <1>6, RepliedFrom DEF RepliedTo
    <2> QED BY <1>0, <1>2, <1>6, <2>1
  <1>7. CASE Echoed(a) /\ same
    <2>1. /\ pc[a] \in Live /\ Taken(a) /\ Own(a, Head(actions[a]))
          /\ shown'[a] = IF mode[a] = "interactive" THEN shown[a]
                         ELSE Append(shown[a], Head(actions[a]))
      BY <1>7 DEF Echoed, Live, Acknowledges, Own
    <2>2. Head(actions[a]) = at[a] + 1
      BY <2>1, TakenNext DEF Taken
    <2> QED BY <1>3, <1>4, <1>7, <2>1, <2>2 DEF Silent
  <1>8. CASE Printed(a) /\ same
    <2>1. /\ pc[a] \in {"waiting", "loop"} /\ Taken(a) /\ pc[a] \in Live
          /\ pc[a] = "waiting" => ~Acknowledges(a, Head(actions[a]))
          /\ shown'[a] = Append(shown[a], Head(actions[a]))
      BY <1>8 DEF Printed, Live
    <2>2. Head(actions[a]) = at[a] + 1 /\ at[a] + 1 \in 1 .. Len(log) /\ at[a] + 1 > at[a]
      BY <1>0, <2>1, TakenNext DEF Taken
    <2>3. ~Own(a, at[a] + 1)
      <3>1. CASE pc[a] = "loop"
        BY <1>0, <2>2, <3>1 DEF OwnInv, Outstanding, Seen
      <3>2. CASE pc[a] = "waiting"
        <4>1. Own(a, at[a] + 1) => log[at[a] + 1].seq + 1 = nextSeq[a]
          BY <2>2, <3>2 DEF OwnInv, Outstanding
        <4>2. log[at[a] + 1].seq \in Nat
          <5>1. log[at[a] + 1] \in Entries
            BY <1>0, <2>2
          <5> QED BY <5>1 DEF Entries
        <4>3. Own(a, at[a] + 1) => log[at[a] + 1].seq = nextSeq[a] - 1
          BY <1>0, <4>1, <4>2
        <4> QED BY <2>1, <2>2, <3>2, <4>3 DEF Acknowledges, Own
      <3> QED BY <2>1, <3>1, <3>2
    <2> QED BY <1>4, <1>8, <2>1, <2>3 DEF Silent
  <1>9. CASE Recorded(a)
    <2>1. \A n \in 1 .. Len(log) : log'[n] = log[n]
      BY <1>0, <1>9 DEF Recorded
    <2> QED BY <1>1, <1>9, <2>1 DEF Recorded
  <1>10. CASE Snapshotted(a)
    <2>1. shown'[a] = <<>> /\ at'[a] = 0 /\ from'[a] = Len(log)
      BY <1>10 DEF Snapshotted, Unmoved, StreamInv, Beginning, Attaching
    <2> QED BY <1>0, <1>2, <2>1
  <1>11. CASE Broken(a) \/ TaskGoesOn(a)
    BY <1>5, <1>11 DEF Broken, TaskGoesOn, SameWorld, Idle
  <1> QED
    BY <1>5, <1>6, <1>7, <1>8, <1>9, <1>10, <1>11
    DEF Happens, Moved, SameWorld, Began, Stopped, Asked, Idle

LEMMA WatchKept ==
  ASSUME TypeInv, TaskInv, NEW a \in Attachments, WatchInv(a), Happens(a)
  PROVE  WatchInv(a)' /\ cursor'[a] <= events'
  <1>0. /\ cursor[a] \in Nat /\ events \in Nat /\ cursor[a] <= events
        /\ watched[a] = [i \in 1 .. cursor[a] |-> i]
    BY Typed DEF TaskInv, WatchInv
  <1>1. ASSUME cursor'[a] = cursor[a], watched'[a] = watched[a], events' = events, over' = over,
               \/ result'[a] \in {"done", "error", "uncertain", "accepted", "rejected"}
               \/ result'[a] = result[a] /\ pc'[a] = pc[a]
               \/ result'[a] = result[a] /\ pc[a] # "ended"
        PROVE  WatchInv(a)' /\ cursor'[a] <= events'
    BY <1>0, <1>1 DEF WatchInv
  <1>2. CASE Began(a) /\ SameWorld
    BY <1>1, <1>2 DEF Began, Turns, Rests, SameWorld, Attaching
  <1>3. CASE Stopped(a) /\ SameWorld
    BY <1>1, <1>3 DEF Stopped, Quits, Rests, SameWorld
  <1>4. CASE Asked(a) /\ SameWorld
    <2>1. /\ cursor'[a] = cursor[a] /\ watched'[a] = watched[a] /\ pc[a] # "ended"
          /\ result'[a] = "error" \/ result'[a] = result[a]
      BY <1>4 DEF Asked, Dispatched, Turns, Quits
    <2> QED BY <1>1, <1>4, <2>1 DEF SameWorld
  <1>5. CASE (RepliedTo(a) \/ Received(a) \/ Echoed(a) \/ Printed(a)) /\ Rests(a) /\ SameWorld
    <2>1. /\ cursor'[a] = cursor[a] /\ watched'[a] = watched[a] /\ pc[a] # "ended"
          /\ \/ result'[a] = result[a]
             \/ result'[a] \in {"accepted", "rejected"}
      BY <1>5 DEF RepliedTo, Received, Echoed, Printed, Rests, Quits
    <2> QED BY <1>1, <1>5, <2>1 DEF SameWorld
  <1>6. CASE Polled(a) /\ SameWorld
    <2>1. CASE Quits(a, "error") /\ cursor'[a] = cursor[a] /\ watched'[a] = watched[a]
      BY <1>1, <1>6, <2>1 DEF Quits, SameWorld
    <2>2. ASSUME NEW k \in Nat, cursor[a] + k <= events, cursor'[a] = cursor[a] + k,
                 watched'[a] = watched[a] \o [i \in 1 .. k |-> cursor[a] + i],
                 \/ Quits(a, "outcome") /\ over /\ cursor'[a] >= events
                 \/ Quits(a, "done") /\ mode[a] = "snapshot"
                 \/ Turns(a, "watching")
          PROVE  WatchInv(a)' /\ cursor'[a] <= events'
      <3>1. watched'[a] = [i \in 1 .. cursor'[a] |-> i]
        BY <1>0, <2>2
      <3>2. CASE Quits(a, "outcome") /\ over /\ cursor'[a] >= events
        <4>1. events' = events /\ over' = over /\ pc'[a] = "ended" /\ over
          BY <1>6, <3>2 DEF Quits, SameWorld
        <4>2. cursor'[a] = events /\ cursor'[a] <= events'
          <5>1. cursor[a] + k \in Nat /\ cursor'[a] <= events
            BY <1>0, <2>2
          <5>2. cursor'[a] \in Nat /\ cursor'[a] >= events
            BY <2>2, <3>2, <5>1
          <5> QED BY <1>0, <4>1, <5>1, <5>2, Sums
        <4> QED BY <3>1, <4>1, <4>2 DEF WatchInv
      <3>3. CASE Quits(a, "done") \/ Turns(a, "watching")
        BY <1>0, <1>6, <2>2, <3>1, <3>3 DEF WatchInv, Quits, SameWorld, Turns, Polled
      <3> QED BY <2>2, <3>2, <3>3
    <2> QED BY <1>6, <2>1, <2>2 DEF Polled
  <1>7. CASE Idle(a) /\ SameWorld
    BY <1>1, <1>7 DEF Idle, Turns, Rests, SameWorld
  <1>8. CASE Recorded(a)
    BY <1>1, <1>8 DEF Recorded
  <1>9. CASE Snapshotted(a) \/ Broken(a)
    BY <1>1, <1>9 DEF Snapshotted, Broken, Rests, SameWorld
  <1>10. CASE TaskGoesOn(a)
    <2>1. /\ cursor'[a] = cursor[a] /\ watched'[a] = watched[a] /\ pc'[a] = pc[a]
          /\ result'[a] = result[a]
          /\ \/ ~over /\ events' = events + 1 /\ over' = over
             \/ ~over /\ over' = TRUE /\ events' = events
             \/ events' = events /\ over' = over
      BY <1>10 DEF TaskGoesOn, Idle, Turns, Rests
    <2> QED BY <1>0, <2>1 DEF WatchInv
  <1> QED
    BY <1>2, <1>3, <1>4, <1>5, <1>6, <1>7, <1>8, <1>9, <1>10
    DEF Happens, Moved

LEMMA VerdictKept ==
  ASSUME TypeInv, NEW a \in Attachments, StreamInv(a), VerdictInv(a), Happens(a), UNCHANGED mode
  PROVE  VerdictInv(a)'
  <1>0. /\ at[a] \in Nat /\ log \in Seq(Entries) /\ Len(log) \in Nat
    BY Typed
  <1>1. SUFFICES ASSUME mode[a] = "steer"
                 PROVE  /\ pc'[a] \notin {"loop", "watching"}
                        /\ pc'[a] = "ended" => Judged(a)'
    BY DEF VerdictInv
  <1>2. pc[a] \notin {"loop", "watching"} /\ (pc[a] = "ended" => Judged(a))
    BY <1>1 DEF VerdictInv
  <1>3. ASSUME pc'[a] = pc[a], result'[a] = result[a],
               \A n \in 1 .. Len(log) : n \in 1 .. Len(log') /\ log'[n] = log[n]
        PROVE  /\ pc'[a] \notin {"loop", "watching"}
               /\ pc'[a] = "ended" => Judged(a)'
    BY <1>2, <1>3 DEF Judged, Own
  <1>4. CASE log' = log /\ pc'[a] = pc[a] /\ result'[a] = result[a]
    BY <1>3, <1>4
  <1>5. CASE Quits(a, "error") \/ Quits(a, "uncertain")
    BY <1>5 DEF Quits, Judged
  <1>6. CASE Began(a) /\ log' = log
    BY <1>1, <1>3, <1>6 DEF Began, Turns
  <1>7. CASE Stopped(a)
    <2>1. PICK r \in {"error", "uncertain", "done"} :
            Quits(a, r) /\ (r = "done" => mode[a] = "snapshot" \/ pc[a] \in {"loop", "watching"})
      BY <1>7 DEF Stopped
    <2> QED BY <1>1, <1>2, <1>5, <2>1
  <1>8. CASE Asked(a)
    BY <1>1, <1>5, <1>8 DEF Asked, Dispatched, Turns
  <1>9. CASE RepliedTo(a)
    BY <1>9 DEF RepliedTo
  <1>10. CASE Received(a) /\ log' = log
    BY <1>4, <1>10 DEF Received
  <1>11. CASE Echoed(a) /\ log' = log
    <2> DEFINE n == Head(actions[a])
    <2>1. /\ pc[a] = "waiting" /\ Taken(a) /\ Own(a, n)
          /\ Quits(a, IF log[n].ok THEN "accepted" ELSE "rejected")
      BY <1>1, <1>11 DEF Echoed, Acknowledges, Own
    <2>2. n \in 1 .. Len(log)
      <3>1. n = at[a] + 1 /\ at[a] + 1 <= Len(log)
        BY <2>1, TakenNext DEF Live, Taken
      <3> QED BY <1>0, <3>1
    <2> HIDE DEF n
    <2>3. log[n].ok \in BOOLEAN
      <3>1. log[n] \in Entries
        BY <1>0, <2>2
      <3> QED BY <3>1 DEF Entries
    <2>4. log[n].ok = (result'[a] = "accepted")
      <3>1. CASE log[n].ok
        BY <2>1, <2>3, <3>1 DEF Quits
      <3>2. CASE ~log[n].ok
        <4>1. log[n].ok = FALSE /\ result'[a] = "rejected"
          BY <2>1, <2>3, <3>2 DEF Quits
        <4> QED BY <4>1
      <3> QED BY <3>1, <3>2
    <2>5. Judged(a)'
      BY <1>11, <2>1, <2>2, <2>4 DEF Judged, Own
    <2>6. pc'[a] = "ended"
      BY <2>1 DEF Quits
    <2> QED BY <2>5, <2>6
  <1>12. CASE Printed(a) /\ log' = log
    BY <1>4, <1>12 DEF Printed
  <1>13. CASE Polled(a)
    BY <1>2, <1>13 DEF Polled
  <1>14. CASE Recorded(a)
    <2>1. \A n \in 1 .. Len(log) : n \in 1 .. Len(log') /\ log'[n] = log[n]
      BY <1>0, <1>14 DEF Recorded
    <2> QED BY <1>3, <1>14, <2>1 DEF Recorded
  <1>15. CASE (Idle(a) /\ log' = log) \/ Snapshotted(a) \/ Broken(a) \/ TaskGoesOn(a)
    BY <1>4, <1>15 DEF Idle, Turns, Snapshotted, Broken, TaskGoesOn, SameWorld
  <1> QED
    BY <1>6, <1>7, <1>8, <1>9, <1>10, <1>11, <1>12, <1>13, <1>14, <1>15
    DEF Happens, Moved, SameWorld

(***************************************************************************)
(* The keyboard: the first k of what was typed have been accepted.         *)
(***************************************************************************)
Accepted(a, n) == Own(a, n) /\ log[n].ok /\ log[n].body > 0

FirstOnes(a, k) ==
  /\ \A n \in 1 .. Len(log) : Accepted(a, n) => log[n].body <= k
  /\ \A b \in 1 .. k : \E n \in 1 .. Len(log) : Accepted(a, n) /\ log[n].body = b
  /\ \A m, n \in 1 .. Len(log) :
       Accepted(a, m) /\ Accepted(a, n) /\ m < n => log[m].body < log[n].body

NextOne(a, k) ==
  /\ pc[a] \notin {"waiting", "ended"} => k = typed[a]
  /\ toHost[a] # <<>> =>
       \/ toHost[a][1].body = 0 /\ (pc[a] = "waiting" => k = typed[a])
       \/ toHost[a][1].body = k + 1 /\ k + 1 <= typed[a]
          /\ (pc[a] = "waiting" => k + 1 = typed[a])
  /\ pc[a] = "waiting" =>
       \A n \in 1 .. Len(log) : Own(a, n) /\ n > at[a] /\ log[n].ok => k = typed[a]

KeyInv(a) ==
  mode[a] = "interactive" =>
    \E k \in Nat : k <= typed[a] /\ FirstOnes(a, k) /\ NextOne(a, k)

LEMMA KeyKept ==
  ASSUME TypeInv, NEW a \in Attachments, StreamInv(a), OwnInv(a), KeyInv(a), Happens(a),
         UNCHANGED mode
  PROVE  KeyInv(a)'
  <1>0. /\ at[a] \in Nat /\ typed[a] \in Nat /\ nextSeq[a] \in Nat /\ toHost[a] \in Seq(Orders)
        /\ log \in Seq(Entries) /\ Len(log) \in Nat /\ at[a] <= Len(log)
    BY Typed DEF StreamInv, Within
  <1>1. SUFFICES ASSUME mode[a] = "interactive"
                 PROVE  \E k \in Nat :
                          k <= typed'[a] /\ FirstOnes(a, k)' /\ NextOne(a, k)'
    BY DEF KeyInv
  <1> DEFINE Kept == \E k \in Nat : k <= typed'[a] /\ FirstOnes(a, k)' /\ NextOne(a, k)'
  <1>2. PICK k \in Nat : k <= typed[a] /\ FirstOnes(a, k) /\ NextOne(a, k)
    BY <1>1 DEF KeyInv
  <1>3. ASSUME log' = log PROVE FirstOnes(a, k)'
    BY <1>2, <1>3 DEF FirstOnes, Accepted, Own
  <1>4. ASSUME log' = log, typed'[a] = typed[a], toHost'[a] = toHost[a] \/ toHost'[a] = <<>>,
               \/ pc'[a] = pc[a] /\ \A n \in Nat : n > at'[a] => n > at[a]
               \/ pc'[a] = "ended"
               \/ pc[a] \notin {"waiting", "ended"} /\ pc'[a] \notin {"waiting", "ended"}
        PROVE  Kept
    <2>1. \A n \in 1 .. Len(log) : n \in Nat
      BY <1>0
    <2>2. NextOne(a, k)'
      BY <1>2, <1>4, <2>1 DEF NextOne, Own
    <2> QED BY <1>2, <1>3, <1>4, <2>2
  <1>5. CASE Began(a) /\ log' = log
    <2>1. /\ typed'[a] = typed[a] /\ toHost'[a] = toHost[a] /\ at'[a] = at[a]
          /\ \/ pc'[a] = pc[a]
             \/ pc[a] \notin {"waiting", "ended"} /\ pc'[a] \notin {"waiting", "ended"}
      BY <1>5 DEF Began, Rests, Unmoved, Turns, Attaching
    <2> QED BY <1>4, <1>5, <2>1
  <1>6. CASE Stopped(a) /\ log' = log
    BY <1>4, <1>6 DEF Stopped, Rests, Quits
  <1>7. CASE Asked(a) /\ log' = log
    <2>1. ASSUME NEW b \in Nat, Dispatched(a, b), pc[a] = "loop", Unmoved(a),
                 \/ b = 0 /\ typed'[a] = typed[a]
                 \/ b = typed[a] + 1 /\ typed'[a] = typed[a] + 1
          PROVE  Kept
      <3>1. k = typed[a] /\ toHost[a] = <<>> /\ Seen(a)
        BY <1>2, <2>1 DEF NextOne, OwnInv, Outstanding
      <3>2. pc'[a] = "waiting" /\ at'[a] = at[a]
        BY <2>1 DEF Dispatched, Turns, Unmoved
      <3>3. toHost'[a] # <<>> => toHost'[a][1].body = b
        BY <2>1, <3>1 DEF Dispatched
      <3>4. \A n \in 1 .. Len(log') : Own(a, n)' => ~(n > at'[a])
        BY <1>0, <1>7, <3>1, <3>2 DEF Seen, Own
      <3>5. NextOne(a, k)'
        BY <1>0, <2>1, <3>1, <3>2, <3>3, <3>4 DEF NextOne
      <3>6. k <= typed'[a]
        BY <1>0, <2>1, <3>1
      <3> QED BY <1>3, <1>7, <3>5, <3>6
    <2>2. CASE Quits(a, "error") /\ toHost'[a] = toHost[a] /\ typed'[a] = typed[a]
      BY <1>4, <1>7, <2>2 DEF Quits
    <2>3. CASE Quits(a, "error") /\ toHost'[a] = toHost[a] /\ typed'[a] = typed[a] + 1
      <3>1. NextOne(a, k)'
        BY <1>0, <1>2, <2>3 DEF NextOne, Quits
      <3>2. k <= typed'[a]
        BY <1>0, <1>2, <2>3
      <3> QED BY <1>3, <1>7, <3>1, <3>2
    <2>4. \/ pc[a] = "loop" /\ typed'[a] = typed[a] + 1 /\ Dispatched(a, typed[a] + 1)
          \/ pc[a] = "loop" /\ typed'[a] = typed[a] /\ Dispatched(a, 0)
          \/ Quits(a, "error") /\ toHost'[a] = toHost[a] /\ typed'[a] = typed[a]
          \/ Quits(a, "error") /\ toHost'[a] = toHost[a] /\ typed'[a] = typed[a] + 1
      BY <1>1, <1>7 DEF Asked
    <2>5. typed[a] + 1 \in Nat /\ 0 \in Nat /\ Unmoved(a)
      BY <1>0, <1>7 DEF Asked
    <2> QED BY <2>1, <2>2, <2>3, <2>4, <2>5
  <1>8. CASE RepliedTo(a) /\ Rests(a) /\ log' = log
    BY <1>4, <1>8, RepliedFrom DEF Rests
  <1>9. CASE Received(a) /\ Rests(a) /\ Unmoved(a) /\ log' = log
    BY <1>4, <1>9 DEF Received, Rests, Unmoved
  <1>10. CASE Echoed(a) /\ Rests(a) /\ log' = log
    <2> DEFINE n == Head(actions[a])
    <2>1. /\ typed'[a] = typed[a] /\ toHost'[a] = toHost[a]
          /\ pc[a] = "waiting" /\ Taken(a) /\ Own(a, n)
          /\ (log[n].ok /\ pc'[a] = "loop") \/ pc'[a] = "ended"
      BY <1>10 DEF Echoed, Rests, Quits, Acknowledges, Own
    <2>2. n \in 1 .. Len(log) /\ n > at[a]
      <3>1. n = at[a] + 1 /\ at[a] + 1 <= Len(log)
        BY <2>1, TakenNext DEF Live, Taken
      <3> QED BY <1>0, <3>1
    <2> HIDE DEF n
    <2>3. CASE log[n].ok /\ pc'[a] = "loop"
      <3>1. k = typed[a]
        BY <1>2, <2>1, <2>2, <2>3 DEF NextOne
      <3>2. NextOne(a, k)'
        BY <1>2, <2>1, <2>3, <3>1 DEF NextOne
      <3> QED BY <1>2, <1>3, <1>10, <2>1, <3>2
    <2>4. CASE pc'[a] = "ended"
      BY <1>4, <1>10, <2>1, <2>4
    <2> QED BY <2>1, <2>3, <2>4
  <1>11. CASE Printed(a) /\ Rests(a) /\ log' = log
    <2>1. at'[a] = at[a] + 1 /\ pc'[a] = pc[a]
      BY <1>11, TakenNext DEF Printed, Live
    <2>2. \A n \in Nat : n > at'[a] => n > at[a]
      BY <1>0, <2>1
    <2> QED BY <1>4, <1>11, <2>1, <2>2 DEF Rests
  <1>12. CASE Polled(a) /\ Unmoved(a) /\ log' = log
    BY <1>4, <1>12 DEF Polled, Quits, Turns, Unmoved
  <1>13. CASE Idle(a) /\ log' = log
    BY <1>4, <1>13 DEF Idle, Turns, Rests, Unmoved
  <1>14. CASE Recorded(a)
    <2>1. PICK e \in Entries :
            /\ log' = Append(log, e)
            /\ IF e.by = a
               THEN /\ toHost[a] # <<>> /\ toHost'[a] = Tail(toHost[a])
                    /\ e.seq = Head(toHost[a]).seq /\ e.body = Head(toHost[a]).body
               ELSE toHost'[a] = toHost[a]
      BY <1>14 DEF Recorded
    <2>2. /\ Len(log') = Len(log) + 1 /\ log'[Len(log) + 1] = e
          /\ \A n \in 1 .. Len(log) : log'[n] = log[n]
      BY <1>0, <2>1
    <2>8. PICK z : z = Len(log) + 1
      OBVIOUS
    <2>9. z \in Nat /\ Len(log') = z /\ log'[z] = e
      BY <1>0, <2>2, <2>8
    <2>3. /\ pc'[a] = pc[a] /\ at'[a] = at[a] /\ typed'[a] = typed[a]
      BY <1>14 DEF Recorded, Unmoved
    <2>4. /\ \A n \in 1 .. Len(log') : n \in 1 .. Len(log) \/ n = z
          /\ \A n \in 1 .. Len(log) : n \in 1 .. Len(log') /\ n < z
          /\ z \in 1 .. Len(log')
      BY <1>0, <2>2, <2>8
    <2>5. ASSUME ~(e.by = a /\ e.ok /\ e.body > 0) PROVE FirstOnes(a, k)'
      <3>1. ~Accepted(a, z)'
        BY <2>5, <2>9 DEF Accepted, Own
      <3>2. \A n \in 1 .. Len(log) : Accepted(a, n)' <=> Accepted(a, n)
        BY <2>2 DEF Accepted, Own
      <3>3. \A n \in 1 .. Len(log') : Accepted(a, n)' => n \in 1 .. Len(log) /\ Accepted(a, n)
        BY <2>4, <3>1, <3>2
      <3> QED BY <1>2, <2>2, <2>4, <3>2, <3>3 DEF FirstOnes
    <2>6. CASE e.by # a
      <3>1. \A n \in 1 .. Len(log') : Own(a, n)' => n \in 1 .. Len(log) /\ Own(a, n)
        BY <2>2, <2>4, <2>6 DEF Own
      <3>2. NextOne(a, k)'
        BY <1>2, <2>1, <2>2, <2>3, <2>6, <3>1 DEF NextOne
      <3> QED BY <1>2, <2>3, <2>5, <2>6, <3>2
    <2>7. CASE e.by = a
      <3>1. toHost[a] # <<>> /\ Head(toHost[a]) = toHost[a][1] /\ Len(toHost[a]) <= 1
        BY <1>0, <2>1, <2>7 DEF OwnInv, Numbered
      <3>2. toHost'[a] = <<>> /\ e.body = toHost[a][1].body
        <4>1. toHost'[a] = Tail(toHost[a]) /\ e.body = Head(toHost[a]).body
          BY <2>1, <2>7
        <4>2. Tail(toHost[a]) \in Seq(Orders) /\ Len(Tail(toHost[a])) = Len(toHost[a]) - 1
              /\ Len(toHost[a]) \in Nat /\ Len(toHost[a]) # 0
          BY <1>0, <3>1
        <4>3. Len(Tail(toHost[a])) = 0
          <5>1. \A l \in Nat : l <= 1 /\ l # 0 => l - 1 = 0
            OBVIOUS
          <5> QED BY <3>1, <4>2, <5>1
        <4> QED BY <3>1, <4>1, <4>2, <4>3, Nothing
      <3>3. pc[a] \in {"waiting", "ended"}
        BY <3>1 DEF OwnInv, Outstanding
      <3>4. pc[a] = "waiting" => \A n \in 1 .. Len(log) : Own(a, n) => ~(n > at[a])
        BY <1>0, <3>1 DEF OwnInv, Outstanding, Seen
      <3>5. pc[a] = "waiting" =>
              \A n \in 1 .. Len(log') : Own(a, n)' /\ n > at'[a] => n = z
        BY <2>2, <2>3, <2>4, <3>4 DEF Own
      <3>6. CASE e.ok /\ e.body > 0
        <4>1. e.body = k + 1 /\ k + 1 <= typed[a] /\ (pc[a] = "waiting" => k + 1 = typed[a])
          BY <1>2, <3>1, <3>2, <3>6 DEF NextOne
        <4>2. k + 1 \in Nat /\ k + 1 <= typed'[a]
          BY <2>3, <4>1
        <4>3. NextOne(a, k + 1)'
          BY <2>3, <3>2, <3>3, <4>1 DEF NextOne
        <4>4. \A n \in 1 .. Len(log) : Accepted(a, n)' <=> Accepted(a, n)
          BY <2>2 DEF Accepted, Own
        <4>5. Accepted(a, z)' /\ log'[z].body = k + 1
          BY <2>7, <2>9, <3>6, <4>1 DEF Accepted, Own
        <4>6. \A n \in 1 .. Len(log) : log[n].body \in Nat
          <5>1. \A n \in 1 .. Len(log) : log[n] \in Entries
            BY <1>0
          <5> QED BY <5>1 DEF Entries
        <4>7. \A n \in 1 .. Len(log') : Accepted(a, n)' => log'[n].body <= k + 1
          <5>1. ASSUME NEW n \in 1 .. Len(log), Accepted(a, n)' PROVE log'[n].body <= k + 1
            <6>1. log'[n] = log[n] /\ log[n].body \in Nat /\ log[n].body <= k
              BY <1>2, <2>2, <4>4, <4>6, <5>1 DEF FirstOnes
            <6> QED BY <6>1
          <5>2. log'[z].body <= k + 1
            BY <4>5
          <5> QED BY <2>4, <5>1, <5>2
        <4>8. \A b \in 1 .. k + 1 :
                \E n \in 1 .. Len(log') : Accepted(a, n)' /\ log'[n].body = b
          <5>1. ASSUME NEW b \in 1 .. k + 1
                PROVE  \E n \in 1 .. Len(log') : Accepted(a, n)' /\ log'[n].body = b
            <6>1. CASE b = k + 1
              <7>1. z \in 1 .. Len(log') /\ Accepted(a, z)' /\ log'[z].body = b
                BY <2>4, <4>5, <6>1
              <7> QED BY <7>1
            <6>2. CASE b # k + 1
              <7>1. b \in 1 .. k
                BY <6>2
              <7>2. PICK n \in 1 .. Len(log) : Accepted(a, n) /\ log[n].body = b
                BY <1>2, <7>1 DEF FirstOnes
              <7> QED BY <2>2, <2>4, <4>4, <7>2
            <6> QED BY <6>1, <6>2
          <5> QED BY <5>1
        <4>9. ASSUME NEW m \in 1 .. Len(log'), NEW n \in 1 .. Len(log'),
                     Accepted(a, m)', Accepted(a, n)', m < n
              PROVE  log'[m].body < log'[n].body
          <5>1. m \in 1 .. Len(log)
            BY <1>0, <2>4, <2>9, <4>9
          <5>2. Accepted(a, m) /\ log'[m] = log[m] /\ log[m].body <= k /\ log[m].body \in Nat
            BY <1>2, <2>2, <4>4, <4>6, <4>9, <5>1 DEF FirstOnes
          <5>3. CASE n \in 1 .. Len(log)
            BY <1>2, <2>2, <4>4, <4>9, <5>1, <5>2, <5>3 DEF FirstOnes
          <5>4. CASE n = z
            BY <4>5, <5>2, <5>4
          <5> QED BY <2>4, <5>3, <5>4
        <4>10. FirstOnes(a, k + 1)'
          BY <4>7, <4>8, <4>9 DEF FirstOnes
        <4> QED BY <4>2, <4>3, <4>10
      <3>7. CASE ~(e.ok /\ e.body > 0)
        <4>1. pc[a] = "waiting" /\ e.ok => k = typed[a]
          <5>1. e.body \in Nat
            BY DEF Entries
          <5>2. e.ok => toHost[a][1].body = 0
            BY <3>2, <3>7, <5>1
          <5>3. ~(0 = k + 1)
            BY <1>2
          <5> QED BY <1>2, <3>1, <5>2, <5>3 DEF NextOne
        <4>2. NextOne(a, k)'
          <5>1. ASSUME pc'[a] = "waiting", NEW n \in 1 .. Len(log'),
                       Own(a, n)', n > at'[a], log'[n].ok
                PROVE  k = typed'[a]
            <6>1. n = z /\ pc[a] = "waiting"
              BY <2>3, <3>5, <5>1
            <6> QED BY <2>3, <2>9, <4>1, <5>1, <6>1
          <5> QED BY <2>3, <3>2, <3>3, <5>1 DEF NextOne
        <4> QED BY <1>2, <2>3, <2>5, <3>7, <4>2
      <3> QED BY <3>6, <3>7
    <2> QED BY <2>6, <2>7
  <1>15. CASE Snapshotted(a)
    BY <1>4, <1>15 DEF Snapshotted, Rests, Unmoved, SameWorld
  <1>16. CASE Broken(a)
    <2>1. PICK n \in 0 .. Len(toHost[a]) : toHost'[a] = SubSeq(toHost[a], 1, n)
      BY <1>16 DEF Broken
    <2>2. toHost'[a] = <<>> \/ toHost'[a] = toHost[a]
      <3>1. Len(toHost[a]) <= 1 /\ Len(toHost[a]) \in Nat
        BY <1>0 DEF OwnInv, Numbered
      <3>2. CASE n = 0
        BY <1>0, <2>1, <3>2
      <3>3. CASE n = Len(toHost[a])
        BY <1>0, <2>1, <3>3
      <3> QED BY <3>1, <3>2, <3>3
    <2> QED BY <1>4, <1>16, <2>2 DEF Broken, Unmoved, SameWorld
  <1>17. CASE TaskGoesOn(a)
    BY <1>4, <1>17 DEF TaskGoesOn, Idle, Turns, Rests, Unmoved
  <1>18. Kept
    BY <1>5, <1>6, <1>7, <1>8, <1>9, <1>10, <1>11, <1>12, <1>13, <1>14, <1>15, <1>16, <1>17
    DEF Happens, Moved, SameWorld
  <1> QED BY <1>18

(***************************************************************************)
(* The invariant, and what it says.                                        *)
(***************************************************************************)
EachInv(a) ==
  StreamInv(a) /\ OwnInv(a) /\ HistoryInv(a) /\ WatchInv(a) /\ VerdictInv(a) /\ KeyInv(a)

IInv == TypeInv /\ TaskInv /\ \A a \in Attachments : EachInv(a)

LEMMA Starts == Init => IInv
  <1> SUFFICES ASSUME Init PROVE IInv
    OBVIOUS
  <1>1. TypeInv
    <2>1. Flags
      BY DEF Init, Flags
    <2>2. Places
      BY DEF Init, Places, Positions, Attaching, Results
    <2>3. Counters
      BY DEF Init, Counters
    <2>4. Streams
      BY DEF Init, Streams
    <2>5. Requests
      BY DEF Init, Requests
    <2> QED BY <2>1, <2>2, <2>3, <2>4, <2>5 DEF TypeInv
  <1>2. TaskInv
    BY DEF Init, TaskInv
  <1>3. ASSUME NEW a \in Attachments PROVE EachInv(a)
    <2>1. /\ pc[a] = "initializing" /\ at[a] = 0 /\ from[a] = 0 /\ nextSeq[a] = 1
          /\ typed[a] = 0 /\ cursor[a] = 0 /\ result[a] = "none" /\ subscribed[a] = FALSE
          /\ actions[a] = <<>> /\ toClient[a] = <<>> /\ shown[a] = <<>> /\ watched[a] = <<>>
          /\ toHost[a] = <<>> /\ log = <<>> /\ Len(log) = 0 /\ events = 0
      BY DEF Init
    <2>2. StreamInv(a)
      BY <2>1 DEF StreamInv, Beginning, Answered, Following, Within, Attaching, Live
    <2>3. OwnInv(a)
      BY <2>1 DEF OwnInv, Numbered, Outstanding, Seen
    <2>4. HistoryInv(a)
      BY <2>1 DEF HistoryInv
    <2>5. WatchInv(a)
      BY <2>1 DEF WatchInv
    <2>6. VerdictInv(a)
      BY <2>1 DEF VerdictInv
    <2>7. KeyInv(a)
      <3>1. 0 \in Nat /\ 0 <= typed[a] /\ FirstOnes(a, 0) /\ NextOne(a, 0)
        BY <2>1 DEF FirstOnes, NextOne
      <3> QED BY <3>1 DEF KeyInv
    <2> QED BY <2>2, <2>3, <2>4, <2>5, <2>6, <2>7 DEF EachInv
  <1> QED BY <1>1, <1>2, <1>3 DEF IInv

LEMMA TrimmedKept ==
  ASSUME TypeInv, TaskInv, [Next]_vars
  PROVE  trimmed' <= events'
  <1>1. trimmed \in Nat /\ events \in Nat /\ trimmed <= events
    BY DEF TypeInv, Counters, TaskInv
  <1>2. \/ UNCHANGED <<events, trimmed>>
        \/ events' = events + 1 /\ trimmed' = trimmed
        \/ trimmed + 1 < events /\ trimmed' = trimmed + 1 /\ events' = events
    <2>1. CASE UNCHANGED vars \/ AgentActs
      BY <2>1 DEF vars, task, AgentActs
    <2>2. CASE TaskRuns \/ Trim
      BY <2>2 DEF TaskRuns, Trim
    <2>3. CASE \E a \in Attachments : Client(a) \/ HostSnapshot(a) \/ HostReceive(a) \/ Break(a)
      <3>1. PICK a \in Attachments : TRUE
        BY <2>3
      <3>2. Happens(a)
        BY <3>1, Steps
      <3> QED
        <4>1. CASE Recorded(a)
          BY <4>1 DEF Recorded
        <4>2. CASE Snapshotted(a)
          BY <4>2 DEF Snapshotted, SameWorld
        <4>3. CASE Broken(a)
          BY <4>3 DEF Broken, SameWorld
        <4>4. CASE TaskGoesOn(a)
          BY <4>4 DEF TaskGoesOn
        <4>5. CASE SameWorld
          BY <4>5 DEF SameWorld
        <4> QED BY <3>2, <4>1, <4>2, <4>3, <4>4, <4>5 DEF Happens
    <2> QED BY <2>1, <2>2, <2>3 DEF Next, World
  <1> QED BY <1>1, <1>2

LEMMA Keeps == IInv /\ [Next]_vars => IInv'
  <1> SUFFICES ASSUME IInv, [Next]_vars PROVE IInv'
    OBVIOUS
  <1>1. TypeInv /\ TaskInv /\ \A a \in Attachments : EachInv(a)
    BY DEF IInv
  <1>2. TypeInv' /\ UNCHANGED mode /\ \A a \in Attachments : Happens(a)
    BY <1>1, Steps
  <1>3. trimmed' <= events'
    BY <1>1, TrimmedKept
  <1>4. ASSUME NEW a \in Attachments PROVE EachInv(a)' /\ cursor'[a] <= events'
    <2>1. /\ StreamInv(a) /\ OwnInv(a) /\ HistoryInv(a) /\ WatchInv(a) /\ VerdictInv(a)
          /\ KeyInv(a) /\ Happens(a)
      BY <1>1, <1>2 DEF EachInv
    <2>2. StreamInv(a)' /\ OwnInv(a)'
      BY <1>1, <2>1, StreamKept, OwnKept
    <2>3. HistoryInv(a)'
      BY <1>1, <1>2, <2>1, HistoryKept
    <2>4. WatchInv(a)' /\ cursor'[a] <= events'
      BY <1>1, <2>1, WatchKept
    <2>5. VerdictInv(a)'
      BY <1>1, <1>2, <2>1, VerdictKept
    <2>6. KeyInv(a)'
      BY <1>1, <1>2, <2>1, KeyKept
    <2> QED BY <2>2, <2>3, <2>4, <2>5, <2>6 DEF EachInv
  <1> QED BY <1>2, <1>3, <1>4 DEF IInv, TaskInv

LEMMA ShownByInv == IInv => ShownWhole
  <1> SUFFICES ASSUME IInv, NEW a \in Attachments
               PROVE  /\ Range(shown[a]) = {n \in from[a] + 1 .. at[a] :
                                              ~(mode[a] = "interactive" /\ log[n].by = a)}
                      /\ \A i, j \in DOMAIN shown[a] : i < j => shown[a][i] < shown[a][j]
                      /\ watched[a] = [i \in 1 .. cursor[a] |-> i]
                      /\ result[a] = "outcome" => over /\ cursor[a] = events
    BY DEF ShownWhole, HistoryWhole, WatchWhole
  <1>1. HistoryInv(a) /\ WatchInv(a) /\ shown[a] \in Seq(Nat)
    BY DEF IInv, EachInv, TypeInv, Streams
  <1>2. DOMAIN shown[a] = 1 .. Len(shown[a])
    BY <1>1
  <1>3. Range(shown[a]) = {shown[a][i] : i \in 1 .. Len(shown[a])}
    BY <1>2 DEF Range
  <1>4. Range(shown[a]) = {n \in from[a] + 1 .. at[a] : ~Silent(a, n)}
    BY <1>1, <1>3 DEF HistoryInv
  <1> QED BY <1>1, <1>2, <1>4 DEF HistoryInv, WatchInv, Silent, Own

LEMMA VerdictByInv == IInv => VerdictIsTheHosts
  <1> SUFFICES ASSUME IInv, NEW a \in Attachments, mode[a] = "steer", pc[a] = "ended"
               PROVE  \/ result[a] \in {"error", "uncertain"}
                      \/ \E n \in DOMAIN log :
                           log[n].by = a /\ log[n].ok = (result[a] = "accepted")
    BY DEF VerdictIsTheHosts
  <1>1. Judged(a)
    BY DEF IInv, EachInv, VerdictInv
  <1>2. DOMAIN log = 1 .. Len(log)
    BY DEF IInv, TypeInv, Requests
  <1> QED BY <1>1, <1>2 DEF Judged, Own

LEMMA InputByInv == IInv => InputWithoutGaps
  <1> SUFFICES ASSUME IInv, NEW a \in Attachments, mode[a] = "interactive"
               PROVE  LET accepted == {n \in DOMAIN log :
                                         log[n].by = a /\ log[n].ok /\ log[n].body > 0} IN
                      /\ \E last \in 0 .. typed[a] : {log[n].body : n \in accepted} = 1 .. last
                      /\ \A m, n \in accepted : m < n => log[m].body < log[n].body
    BY DEF InputWithoutGaps
  <1> DEFINE accepted == {n \in DOMAIN log : log[n].by = a /\ log[n].ok /\ log[n].body > 0}
  <1>1. PICK k \in Nat : k <= typed[a] /\ FirstOnes(a, k)
    BY DEF IInv, EachInv, KeyInv
  <1>2. /\ DOMAIN log = 1 .. Len(log) /\ typed[a] \in Nat
        /\ \A n \in 1 .. Len(log) : log[n] \in Entries
    BY DEF IInv, TypeInv, Requests, Counters
  <1>3. accepted = {n \in 1 .. Len(log) : Accepted(a, n)}
    BY <1>2 DEF Accepted, Own
  <1> HIDE DEF accepted
  <1>4. {log[n].body : n \in accepted} = 1 .. k
    <2>1. \A n \in accepted : log[n].body \in 1 .. k
      <3>1. \A n \in 1 .. Len(log) : log[n].body \in Nat
        BY <1>2 DEF Entries
      <3> QED BY <1>1, <1>3, <3>1 DEF FirstOnes, Accepted
    <2>2. \A b \in 1 .. k : \E n \in accepted : log[n].body = b
      BY <1>1, <1>3 DEF FirstOnes
    <2> QED BY <2>1, <2>2
  <1>5. \A m, n \in accepted : m < n => log[m].body < log[n].body
    BY <1>1, <1>3 DEF FirstOnes
  <1>6. k \in 0 .. typed[a]
    BY <1>1, <1>2
  <1> QED BY <1>4, <1>5, <1>6 DEF accepted

(* "The initial snapshot contains history, followed by live actions":      *)
(* whatever else the host hears and whenever the connection breaks, what   *)
(* an attachment has printed is all that followed its snapshot, once and   *)
(* in the host's order, but for the echoes of its own keyboard; and the    *)
(* watch of a task prints its events from the first one on, without gaps,  *)
(* with a result only after the last (cmd/agent_session.go).               *)
THEOREM PrintedWhole == Spec => []ShownWhole
  <1>1. Init => IInv
    BY Starts
  <1>2. IInv /\ [Next]_vars => IInv'
    BY Keeps
  <1>3. IInv => ShownWhole
    BY ShownByInv
  <1> QED BY <1>1, <1>2, <1>3, PTL DEF Spec

(* "Dispatch awaits the authoritative echo": a controller is told that its *)
(* action was accepted, or rejected, only of an action of its own that the *)
(* host has accepted, or rejected (Dispatch in internal/api/agent_host.go).*)
THEOREM TheHostsVerdict == Spec => []VerdictIsTheHosts
  <1>1. Init => IInv
    BY Starts
  <1>2. IInv /\ [Next]_vars => IInv'
    BY Keeps
  <1>3. IInv => VerdictIsTheHosts
    BY VerdictByInv
  <1> QED BY <1>1, <1>2, <1>3, PTL DEF Spec

(* What the host has accepted of the keyboard's input is always what was   *)
(* typed first, in order, although inputs are dispatched one by one over   *)
(* a connection that may lose any of them and the host may refuse any      *)
(* (runAgentTerminalSession in cmd/agent_session.go).                      *)
THEOREM KeyboardInOrder == Spec => []InputWithoutGaps
  <1>1. Init => IInv
    BY Starts
  <1>2. IInv /\ [Next]_vars => IInv'
    BY Keeps
  <1>3. IInv => InputWithoutGaps
    BY InputByInv
  <1> QED BY <1>1, <1>2, <1>3, PTL DEF Spec
=============================================================================
