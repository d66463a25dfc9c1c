------------------------- MODULE ExecSessionProofs -------------------------
(***************************************************************************)
(* What one exec session guarantees, however much is typed and printed and *)
(* wherever it breaks off.                                                 *)
(***************************************************************************)
EXTENDS ExecSession, TLAPS

-----------------------------------------------------------------------------
(***************************************************************************)
(* The shape of the state.                                                 *)
(***************************************************************************)
Answers ==
  [type : {"ready"}, data : {"exact", "other"}] \cup [type : {"output"}, data : Nat]
    \cup [type : {"error"}, data : {0}] \cup [type : {"exit"}, data : Codes]

Sendings == [type : {"open", "resize", "stdin", "stdin_eof"}, data : Nat, session : BOOLEAN]

Flags ==
  /\ reviewed \in BOOLEAN /\ tty \in BOOLEAN /\ raw \in BOOLEAN
  /\ session \in BOOLEAN /\ started \in BOOLEAN
  /\ last \in BOOLEAN /\ interrupts \in BOOLEAN
  /\ up \in BOOLEAN /\ broken \in BOOLEAN /\ refused \in BOOLEAN /\ killed \in BOOLEAN

States ==
  /\ pc \in {"dialed", "reading", "ended"}
  /\ pump \in {"off", "reading", "read", "eof", "done"}
  /\ admitted \in {"no", "exact", "other"} /\ remote \in {"none", "running", "exited"}

Endings ==
  /\ pendingExit \in Codes \cup {NoCode} /\ exitCode \in Codes \cup {NoCode}
  /\ result \in Codes \cup {"none", "error"}

Streams ==
  /\ toRelay \in Seq(Sendings) /\ toClient \in Seq(Answers)
  /\ chunk \in Nat /\ made \in Nat

ShapeInv == Flags /\ States /\ Endings /\ Streams

(* How far the parts of the session have come, of one another.             *)
PhaseInv ==
  /\ pc = "dialed" => toRelay = <<>> /\ ~started /\ ~session /\ remote = "none"
  /\ pc = "ended" => ~up
  /\ pc # "ended" => result = "none"
  /\ ~up /\ pc # "ended" => broken \/ refused
  /\ remote = "none" => admitted = "no"
  /\ remote # "exited" => exitCode = NoCode
  /\ pump = "off" <=> ~started
  /\ reviewed /\ started => session
  /\ pc # "ended" /\ session => started
  /\ session => reviewed
  /\ interrupts => started

LEMMA AnswerTypes ==
  ASSUME NEW f \in Answers
  PROVE  /\ f.type \in {"ready", "output", "error", "exit"}
         /\ f.type = "ready" => f.data \in {"exact", "other"}
         /\ f.type = "output" => f.data \in Nat
         /\ f.type = "exit" => f.data \in Codes
  BY DEF Answers

(* What is done to the frames on their way to the client.                  *)
Taken == toClient # <<>> /\ toClient' = Tail(toClient)

Cut == \E n \in 0 .. Len(toClient) : toClient' = SubSeq(toClient, 1, n)

Replied(type, data) == toClient' = Append(toClient, [type |-> type, data |-> data])

LEMMA AfterTaken ==
  ASSUME toClient \in Seq(Answers), Taken
  PROVE  /\ toClient' \in Seq(Answers)
         /\ Len(toClient) \in Nat /\ Len(toClient) > 0
         /\ Len(toClient') = Len(toClient) - 1
         /\ toClient[1] = Head(toClient) /\ toClient[1] \in Answers
         /\ \A j \in 1 .. Len(toClient) - 1 : toClient'[j] = toClient[j + 1]
  BY DEF Taken

LEMMA AfterCut ==
  ASSUME toClient \in Seq(Answers), Cut
  PROVE  /\ toClient' \in Seq(Answers)
         /\ Len(toClient') <= Len(toClient)
         /\ \A j \in 1 .. Len(toClient') : toClient'[j] = toClient[j]
  BY DEF Cut

LEMMA AfterReplied ==
  ASSUME toClient \in Seq(Answers), NEW type, NEW data, Replied(type, data),
         [type |-> type, data |-> data] \in Answers
  PROVE  /\ toClient' \in Seq(Answers)
         /\ Len(toClient') = Len(toClient) + 1
         /\ \A j \in 1 .. Len(toClient) : toClient'[j] = toClient[j]
         /\ toClient'[Len(toClient) + 1].type = type
         /\ toClient'[Len(toClient) + 1].data = data
  BY DEF Replied

(* What is done to the frames sent to the relay.                           *)
LEMMA AfterSend ==
  ASSUME toRelay \in Seq(Sendings), NEW f \in Sendings, Send(f)
  PROVE  /\ toRelay' \in Seq(Sendings)
         /\ ~up => toRelay' = toRelay
         /\ up => /\ Len(toRelay') = Len(toRelay) + 1
                  /\ toRelay'[Len(toRelay) + 1] = f
                  /\ \A i \in 1 .. Len(toRelay) : toRelay'[i] = toRelay[i]
  BY DEF Send

LEMMA AfterOpen ==
  ASSUME ShapeInv, PhaseInv, Open
  PROVE  /\ toRelay' \in Seq(Sendings)
         /\ ~up => toRelay' = <<>>
         /\ up => /\ Len(toRelay') = IF tty /\ ~reviewed THEN 2 ELSE 1
                  /\ toRelay'[1].type = "open"
                  /\ tty /\ ~reviewed => toRelay'[2].type = "resize"
  <1>1. toRelay = <<>> /\ Frame("open", 0) \in Sendings /\ Frame("resize", 0) \in Sendings
    BY DEF ShapeInv, Flags, States, Endings, Streams, PhaseInv, Open, Frame, Sendings
  <1>2. toRelay' = IF ~up THEN <<>>
                   ELSE <<>> \o <<Frame("open", 0)>>
                          \o (IF tty /\ ~reviewed THEN <<Frame("resize", 0)>> ELSE <<>>)
    BY <1>1 DEF Open
  <1> QED BY <1>1, <1>2 DEF Frame

-----------------------------------------------------------------------------
(***************************************************************************)
(* Every step keeps the shape.                                             *)
(***************************************************************************)
LEMMA ShapeInit == Init => ShapeInv /\ PhaseInv
  <1> SUFFICES ASSUME Init PROVE ShapeInv /\ PhaseInv
    OBVIOUS
  <1>1. raw \in BOOLEAN /\ tty \in BOOLEAN /\ reviewed \in BOOLEAN
    BY DEF Init
  <1>2. toRelay \in Seq(Sendings) /\ toClient \in Seq(Answers)
    BY DEF Init
  <1>3. ShapeInv
    BY <1>1, <1>2 DEF Init, ShapeInv, Flags, States, Endings, Streams
  <1> QED BY <1>3 DEF Init, PhaseInv

(* The main goroutine takes a frame off the connection. *)
LEMMA Admitting ==
  ASSUME ShapeInv, PhaseInv, ReadReady
  PROVE  /\ Taken /\ toClient[1].type = "ready" /\ pc = "reading"
         /\ ShapeInv' /\ PhaseInv'
  <1> DEFINE same == UNCHANGED <<reviewed, tty, chunk, last, interrupts, broken, admitted,
                                 remote, exitCode, made, refused, signals, killed>>
  <1>1. Taken /\ pc = "reading" /\ Head(toClient).type = "ready" /\ same
    BY DEF ReadReady, Arrives, Taken, Quiet, relay
  <1>2. /\ toClient' \in Seq(Answers)
        /\ toClient[1] = Head(toClient)
        /\ Head(toClient).data \in {"exact", "other"}
    BY <1>1, AfterTaken, AnswerTypes DEF ShapeInv, Flags, States, Endings, Streams
  <1>3. CASE ~reviewed
    <2>1. UNCHANGED <<pc, raw, session, started, pendingExit, printed, result, pump, toRelay, up>>
      BY <1>3 DEF ReadReady, client
    <2> QED BY <1>1, <1>2, <2>1 DEF ShapeInv, Flags, States, Endings, Streams, PhaseInv
  <1>4. CASE reviewed /\ (started \/ Head(toClient).data # "exact")
    <2>1. /\ pc' = "ended" /\ result' = "error" /\ raw' = FALSE /\ up' = FALSE
          /\ UNCHANGED <<session, started, pendingExit, printed, pump, toRelay>>
      BY <1>4 DEF ReadReady, EndWith
    <2>2. ShapeInv'
      <3>1. Flags'
        BY <1>1, <2>1 DEF ShapeInv, Flags
      <3>2. States'
        BY <1>1, <2>1 DEF ShapeInv, States
      <3>3. Endings'
        BY <1>1, <2>1 DEF ShapeInv, Endings
      <3>4. Streams'
        BY <1>1, <1>2, <2>1 DEF ShapeInv, Streams
      <3> QED BY <3>1, <3>2, <3>3, <3>4 DEF ShapeInv
    <2>3. PhaseInv'
      BY <1>1, <2>1 DEF ShapeInv, Flags, States, Endings, Streams, PhaseInv
    <2> QED BY <1>1, <1>2, <2>2, <2>3
  <1>5. CASE reviewed /\ ~started /\ Head(toClient).data = "exact" /\ pendingExit # NoCode
    <2>1. /\ pc' = "ended" /\ result' = pendingExit /\ raw' = FALSE /\ up' = FALSE
          /\ session' = TRUE
          /\ UNCHANGED <<started, pendingExit, printed, pump, toRelay>>
      BY <1>5 DEF ReadReady, EndWith, FinishExit
    <2> QED BY <1>1, <1>2, <1>5, <2>1 DEF ShapeInv, Flags, States, Endings, Streams, PhaseInv
  <1>6. CASE reviewed /\ ~started /\ Head(toClient).data = "exact" /\ pendingExit = NoCode
    <2>1. /\ session' = TRUE /\ started' = TRUE /\ pump' = "reading"
          /\ IF tty THEN Send([type |-> "resize", data |-> 0, session |-> session'])
                    ELSE UNCHANGED toRelay
          /\ UNCHANGED <<pc, raw, result, up, pendingExit, printed>>
      BY <1>6 DEF ReadReady, StartIO
    <2>2. toRelay' \in Seq(Sendings)
      <3>1. [type |-> "resize", data |-> 0, session |-> session'] \in Sendings
        BY <2>1 DEF Sendings
      <3> QED BY <2>1, <3>1, AfterSend DEF ShapeInv, Flags, States, Endings, Streams
    <2> QED BY <1>1, <1>2, <1>6, <2>1, <2>2 DEF ShapeInv, Flags, States, Endings, Streams, PhaseInv
  <1> QED BY <1>1, <1>2, <1>3, <1>4, <1>5, <1>6

LEMMA Reading ==
  ASSUME ShapeInv, PhaseInv, ReadOutput \/ ReadError \/ ReadExit
  PROVE  Taken /\ ShapeInv' /\ PhaseInv'
  <1> DEFINE same == UNCHANGED <<reviewed, tty, chunk, last, interrupts, broken, admitted,
                                 remote, exitCode, made, refused, signals, killed,
                                 session, started, pump, toRelay>>
  <1>1. Taken /\ pc = "reading" /\ same
    BY DEF ReadOutput, ReadError, ReadExit, Arrives, Taken, Quiet, relay
  <1>2. /\ toClient' \in Seq(Answers)
        /\ Head(toClient).type = "exit" => Head(toClient).data \in Codes
    BY <1>1, AfterTaken, AnswerTypes DEF ShapeInv, Flags, States, Endings, Streams
  <1>3. \/ /\ pc' = "ended" /\ raw' = FALSE /\ up' = FALSE /\ result' \in Codes \cup {"error"}
           /\ UNCHANGED pendingExit
        \/ /\ UNCHANGED <<pc, raw, up, result>>
           /\ pendingExit' = pendingExit \/ pendingExit' \in Codes
    BY <1>1, <1>2 DEF ReadOutput, ReadError, ReadExit, Arrives, EndWith, FinishExit
  <1>4. ShapeInv'
    <2>1. Flags'
      <3>1. /\ UNCHANGED <<reviewed, tty, session, started, last, interrupts, broken, refused, killed>>
            /\ raw' \in {raw, FALSE} /\ up' \in {up, FALSE}
        BY <1>1, <1>3
      <3>2. raw' \in BOOLEAN /\ up' \in BOOLEAN
        BY <3>1 DEF ShapeInv, Flags
      <3>3. /\ reviewed' \in BOOLEAN /\ tty' \in BOOLEAN /\ session' \in BOOLEAN
            /\ started' \in BOOLEAN /\ last' \in BOOLEAN /\ interrupts' \in BOOLEAN
            /\ broken' \in BOOLEAN /\ refused' \in BOOLEAN /\ killed' \in BOOLEAN
        BY <3>1 DEF ShapeInv, Flags
      <3> QED BY <3>2, <3>3 DEF Flags
    <2>2. States'
      BY <1>1, <1>3 DEF ShapeInv, States
    <2>3. Endings'
      BY <1>1, <1>3 DEF ShapeInv, Endings
    <2>4. Streams'
      BY <1>1, <1>2, <1>3 DEF ShapeInv, Streams
    <2> QED BY <2>1, <2>2, <2>3, <2>4 DEF ShapeInv, Flags, States, Endings, Streams
  <1>5. PhaseInv'
    BY <1>1, <1>3 DEF ShapeInv, Flags, States, Endings, Streams, PhaseInv
  <1> QED BY <1>1, <1>4, <1>5

(* It gives up. *)
LEMMA GivingUp ==
  ASSUME ShapeInv, PhaseInv, ReadFails \/ Deadline
  PROVE  ShapeInv' /\ PhaseInv'
  <1>1. /\ pc' = "ended" /\ result' = "error" /\ raw' = FALSE /\ up' = FALSE
        /\ UNCHANGED <<reviewed, tty, chunk, last, interrupts, broken, admitted, remote,
                       exitCode, made, refused, signals, killed, session, started,
                       pendingExit, printed, pump, toRelay, toClient>>
    BY DEF ReadFails, Deadline, EndWith, Quiet, relay
  <1>a. ShapeInv'
    <2>1. Flags'
      BY <1>1 DEF ShapeInv, Flags
    <2>2. States'
      BY <1>1 DEF ShapeInv, States
    <2>3. Endings'
      BY <1>1 DEF ShapeInv, Endings, States
    <2>4. Streams'
      BY <1>1 DEF ShapeInv, Streams
    <2> QED BY <2>1, <2>2, <2>3, <2>4 DEF ShapeInv
  <1>b. PhaseInv'
    BY <1>1 DEF ShapeInv, Flags, States, PhaseInv
  <1> QED BY <1>a, <1>b

LEMMA Opening ==
  ASSUME ShapeInv, PhaseInv, Open
  PROVE  ShapeInv' /\ PhaseInv'
  <1>1. /\ pc = "dialed" /\ pc' = "reading" /\ started' = ~reviewed
        /\ pump' = IF reviewed THEN "off" ELSE "reading"
        /\ UNCHANGED <<reviewed, tty, raw, session, pendingExit, printed, result, chunk,
                       last, interrupts, toClient, up, broken, admitted, remote, exitCode,
                       made, refused, signals, killed>>
    BY DEF Open, world, relay
  <1>2. toRelay' \in Seq(Sendings)
    BY AfterOpen
  <1>a. ShapeInv'
    <2>1. Flags'
      BY <1>1, <1>2 DEF ShapeInv, Flags
    <2>2. States'
      BY <1>1, <1>2 DEF ShapeInv, States
    <2>3. Endings'
      BY <1>1, <1>2 DEF ShapeInv, Endings, States
    <2>4. Streams'
      BY <1>1, <1>2 DEF ShapeInv, Streams
    <2> QED BY <2>1, <2>2, <2>3, <2>4 DEF ShapeInv
  <1>b. PhaseInv'
    BY <1>1, <1>2 DEF ShapeInv, Flags, States, PhaseInv
  <1> QED BY <1>a, <1>b

(* A goroutine writes a frame. *)
Writing ==
  \/ PumpSend
  \/ PumpEof
  \/ ForwardInterrupt
  \/ Resize

LEMMA WhatIsWritten ==
  ASSUME ShapeInv, PhaseInv, Writing
  PROVE  /\ pc # "ended" /\ started
         /\ \/ /\ pump = "read" /\ pump' \in {"eof", "reading", "done"}
               /\ Send(Frame("stdin", chunk))
            \/ /\ pump = "eof" /\ pump' = "done"
               /\ Send(Frame("stdin_eof", 0))
            \/ /\ pump' = pump
               /\ Send(Frame("stdin", 0)) \/ Send(Frame("resize", 0))
         /\ UNCHANGED <<reviewed, tty, pc, raw, session, started, pendingExit, printed, result,
                        chunk, last, toClient, up, broken, admitted, remote, exitCode, made,
                        refused, killed>>
         /\ interrupts' = interrupts \/ interrupts' = FALSE
  <1>1. pc # "ended" /\ started
    BY DEF Writing, PumpSend, PumpEof, ForwardInterrupt, Resize, Trapped, PhaseInv
  <1>2. CASE PumpSend
    BY <1>1, <1>2 DEF PumpSend, client, world, relay
  <1>3. CASE PumpEof
    BY <1>1, <1>3 DEF PumpEof, client, world, relay
  <1>4. CASE ForwardInterrupt
    BY <1>1, <1>4 DEF ForwardInterrupt, client, world, relay
  <1>5. CASE Resize
    BY <1>1, <1>5 DEF Resize, client, pumps, world, relay
  <1> QED BY <1>2, <1>3, <1>4, <1>5 DEF Writing

LEMMA FrameTypes ==
  ASSUME ShapeInv
  PROVE  /\ Frame("stdin", chunk) \in Sendings /\ Frame("stdin", 0) \in Sendings
         /\ Frame("stdin_eof", 0) \in Sendings /\ Frame("resize", 0) \in Sendings
  BY DEF ShapeInv, Flags, Streams, Frame, Sendings

LEMMA WritingKeepsShape ==
  ASSUME ShapeInv, PhaseInv, Writing
  PROVE  ShapeInv' /\ PhaseInv'
  <1>1. /\ pc # "ended" /\ started
        /\ pump' \in {"eof", "reading", "done"} \/ pump' = pump
        /\ UNCHANGED <<reviewed, tty, pc, raw, session, started, pendingExit, printed, result,
                       chunk, last, toClient, up, broken, admitted, remote, exitCode, made,
                       refused, killed>>
        /\ interrupts' = interrupts \/ interrupts' = FALSE
    BY WhatIsWritten
  <1>2. toRelay' \in Seq(Sendings)
    BY WhatIsWritten, FrameTypes, AfterSend DEF ShapeInv, Streams
  <1>a. ShapeInv'
    <2>1. Flags'
      BY <1>1, <1>2 DEF ShapeInv, Flags
    <2>2. States'
      BY <1>1, <1>2 DEF ShapeInv, States
    <2>3. Endings'
      BY <1>1, <1>2 DEF ShapeInv, Endings, States
    <2>4. Streams'
      BY <1>1, <1>2 DEF ShapeInv, Streams
    <2> QED BY <2>1, <2>2, <2>3, <2>4 DEF ShapeInv
  <1>b. PhaseInv'
    BY <1>1, <1>2 DEF ShapeInv, Flags, States, PhaseInv
  <1> QED BY <1>a, <1>b

(* The goroutine that reads stdin, and what the world does to the client.  *)
LEMMA Typing ==
  ASSUME ShapeInv, PhaseInv, PumpRead
  PROVE  /\ pump = "reading" /\ pc # "ended"
         /\ \/ chunk' = chunk + 1 /\ pump' = "read" /\ last' \in BOOLEAN
            \/ chunk' = chunk /\ pump' = "eof" /\ last' = last
         /\ UNCHANGED <<reviewed, tty, pc, raw, session, started, pendingExit, printed, result,
                        interrupts, toRelay, toClient, up, broken, admitted, remote, exitCode,
                        made, refused, signals, killed>>
         /\ ShapeInv' /\ PhaseInv'
  <1>1. /\ pump = "reading" /\ pc # "ended"
        /\ \/ chunk' = chunk + 1 /\ pump' = "read" /\ last' \in BOOLEAN
           \/ chunk' = chunk /\ pump' = "eof" /\ last' = last
        /\ UNCHANGED <<reviewed, tty, pc, raw, session, started, pendingExit, printed, result,
                       interrupts, toRelay, toClient, up, broken, admitted, remote, exitCode,
                       made, refused, signals, killed>>
    BY DEF PumpRead, client, world, relay
  <1>a. ShapeInv'
    <2>1. Flags'
      BY <1>1 DEF ShapeInv, Flags
    <2>2. States'
      BY <1>1 DEF ShapeInv, States
    <2>3. Endings'
      BY <1>1 DEF ShapeInv, Endings, States
    <2>4. Streams'
      BY <1>1 DEF ShapeInv, Streams
    <2> QED BY <2>1, <2>2, <2>3, <2>4 DEF ShapeInv
  <1>b. PhaseInv'
    BY <1>1 DEF ShapeInv, Flags, States, PhaseInv
  <1> QED BY <1>1, <1>a, <1>b

LEMMA Interrupting ==
  ASSUME ShapeInv, PhaseInv, Interrupt
  PROVE  /\ UNCHANGED <<reviewed, tty, raw, session, started, pendingExit, printed, result,
                        pump, chunk, last, toRelay, toClient, broken, admitted, remote,
                        exitCode, made, refused>>
         /\ \/ UNCHANGED <<pc, up, killed>>
            \/ pc' = "ended" /\ up' = FALSE /\ killed' = TRUE
         /\ ShapeInv' /\ PhaseInv'
  <1>1. /\ UNCHANGED <<reviewed, tty, raw, session, started, pendingExit, printed, result,
                       pump, chunk, last, toRelay, toClient, broken, admitted, remote,
                       exitCode, made, refused>>
        /\ \/ started /\ interrupts' = TRUE /\ UNCHANGED <<pc, up, killed>>
           \/ pc' = "ended" /\ up' = FALSE /\ killed' = TRUE /\ UNCHANGED interrupts
    BY DEF Interrupt, Trapped, relay
  <1>a. ShapeInv'
    <2>1. Flags'
      BY <1>1 DEF ShapeInv, Flags
    <2>2. States'
      BY <1>1 DEF ShapeInv, States
    <2>3. Endings'
      BY <1>1 DEF ShapeInv, Endings, States
    <2>4. Streams'
      BY <1>1 DEF ShapeInv, Streams
    <2> QED BY <2>1, <2>2, <2>3, <2>4 DEF ShapeInv
  <1>b. PhaseInv'
    BY <1>1 DEF ShapeInv, Flags, States, PhaseInv
  <1> QED BY <1>1, <1>a, <1>b

(* The relay and the command answer. *)
Answering ==
  \/ \E verdict \in {"exact", "other"} : RelayReady(verdict)
  \/ RelayRefuse
  \/ RemoteOutput
  \/ \E code \in Codes : RemoteExit(code)

(* What they may answer, and what that says of them.                       *)
Admits(verdict) ==
  /\ remote # "none" /\ admitted = "no" /\ admitted' = verdict
  /\ Replied("ready", verdict)
  /\ UNCHANGED <<up, refused, made, remote, exitCode>>

Refuses ==
  /\ refused' = TRUE
  /\ \/ Replied("error", 0) /\ UNCHANGED up
     \/ admitted # "no" /\ Replied("ready", "exact") /\ UNCHANGED up
     \/ up' = FALSE /\ UNCHANGED toClient
  /\ UNCHANGED <<admitted, made, remote, exitCode>>

Prints ==
  /\ remote = "running" /\ made' = made + 1
  /\ Replied("output", made + 1)
  /\ UNCHANGED <<up, refused, admitted, remote, exitCode>>

Exits(code) ==
  /\ remote = "running" /\ remote' = "exited" /\ exitCode' = code
  /\ Replied("exit", code)
  /\ UNCHANGED <<up, refused, admitted, made>>

LEMMA WhatIsAnswered ==
  ASSUME Answering
  PROVE  /\ up
         /\ UNCHANGED <<reviewed, tty, pc, raw, session, started, pendingExit, printed, result,
                        pump, chunk, last, interrupts, toRelay, broken, signals, killed>>
         /\ \/ \E verdict \in {"exact", "other"} : Admits(verdict)
            \/ Refuses
            \/ Prints
            \/ \E code \in Codes : Exits(code)
  <1> USE DEF client, pumps, world, relay, Reply, Replied
  <1>1. ASSUME NEW verdict \in {"exact", "other"}, RelayReady(verdict)
        PROVE  /\ up /\ Admits(verdict)
               /\ UNCHANGED <<reviewed, tty, client, pumps, toRelay, broken, signals, killed>>
    BY <1>1 DEF RelayReady, Admits
  <1>2. CASE RelayRefuse
    BY <1>2 DEF RelayRefuse, Refuses
  <1>3. CASE RemoteOutput
    BY <1>3 DEF RemoteOutput, Prints
  <1>4. ASSUME NEW code \in Codes, RemoteExit(code)
        PROVE  /\ up /\ Exits(code)
               /\ UNCHANGED <<reviewed, tty, client, pumps, toRelay, broken, signals, killed>>
    BY <1>4 DEF RemoteExit, Exits
  <1> QED BY <1>1, <1>2, <1>3, <1>4 DEF Answering

LEMMA AnsweringKeepsShape ==
  ASSUME ShapeInv, PhaseInv, Answering
  PROVE  ShapeInv' /\ PhaseInv'
  <1>1. /\ up
        /\ UNCHANGED <<reviewed, tty, pc, raw, session, started, pendingExit, printed, result,
                       pump, chunk, last, interrupts, toRelay, broken, signals, killed>>
    BY WhatIsAnswered
  <1>2. /\ toClient \in Seq(Answers) /\ made \in Nat
        /\ [type |-> "error", data |-> 0] \in Answers
        /\ [type |-> "ready", data |-> "exact"] \in Answers
        /\ [type |-> "ready", data |-> "other"] \in Answers
        /\ [type |-> "output", data |-> made + 1] \in Answers
        /\ \A code \in Codes : [type |-> "exit", data |-> code] \in Answers
    BY DEF ShapeInv, Streams, Answers
  <1>3. ASSUME NEW verdict \in {"exact", "other"}, Admits(verdict)
        PROVE  ShapeInv' /\ PhaseInv'
    <2>1. /\ admitted' = verdict /\ remote # "none" /\ admitted = "no"
          /\ UNCHANGED <<up, refused, made, remote, exitCode>>
      BY <1>3 DEF Admits
    <2>2. toClient' \in Seq(Answers)
      BY <1>2, <1>3, AfterReplied DEF Admits
    <2>a. ShapeInv'
      <3>1. Flags'
        BY <1>1, <2>1, <2>2 DEF ShapeInv, Flags
      <3>2. States'
        BY <1>1, <2>1, <2>2 DEF ShapeInv, States
      <3>3. Endings'
        BY <1>1, <2>1, <2>2 DEF ShapeInv, Endings, States
      <3>4. Streams'
        BY <1>1, <2>1, <2>2 DEF ShapeInv, Streams
      <3> QED BY <3>1, <3>2, <3>3, <3>4 DEF ShapeInv
    <2>b. PhaseInv'
      BY <1>1, <2>1, <2>2 DEF ShapeInv, Flags, States, PhaseInv
    <2> QED BY <2>a, <2>b
  <1>4. CASE Refuses
    <2>1. /\ refused' = TRUE
          /\ up' = up \/ up' = FALSE
          /\ UNCHANGED <<admitted, made, remote, exitCode>>
      BY <1>4 DEF Refuses
    <2>2. toClient' \in Seq(Answers)
      BY <1>2, <1>4, AfterReplied DEF Refuses
    <2>a. ShapeInv'
      <3>1. Flags'
        BY <1>1, <2>1, <2>2 DEF ShapeInv, Flags
      <3>2. States'
        BY <1>1, <2>1, <2>2 DEF ShapeInv, States
      <3>3. Endings'
        BY <1>1, <2>1, <2>2 DEF ShapeInv, Endings, States
      <3>4. Streams'
        BY <1>1, <2>1, <2>2 DEF ShapeInv, Streams
      <3> QED BY <3>1, <3>2, <3>3, <3>4 DEF ShapeInv
    <2>b. PhaseInv'
      BY <1>1, <2>1, <2>2 DEF ShapeInv, Flags, States, PhaseInv
    <2> QED BY <2>a, <2>b
  <1>5. CASE Prints
    <2>1. /\ made' = made + 1
          /\ UNCHANGED <<up, refused, admitted, remote, exitCode>>
      BY <1>5 DEF Prints
    <2>2. toClient' \in Seq(Answers)
      BY <1>2, <1>5, AfterReplied DEF Prints
    <2>a. ShapeInv'
      <3>1. Flags'
        BY <1>1, <2>1, <2>2 DEF ShapeInv, Flags
      <3>2. States'
        BY <1>1, <2>1, <2>2 DEF ShapeInv, States
      <3>3. Endings'
        BY <1>1, <2>1, <2>2 DEF ShapeInv, Endings, States
      <3>4. Streams'
        BY <1>1, <2>1, <2>2 DEF ShapeInv, Streams
      <3> QED BY <3>1, <3>2, <3>3, <3>4 DEF ShapeInv
    <2>b. PhaseInv'
      BY <1>1, <2>1, <2>2 DEF ShapeInv, Flags, States, PhaseInv
    <2> QED BY <2>a, <2>b
  <1>6. ASSUME NEW code \in Codes, Exits(code)
        PROVE  ShapeInv' /\ PhaseInv'
    <2>1. /\ remote = "running" /\ remote' = "exited" /\ exitCode' = code
          /\ UNCHANGED <<up, refused, admitted, made>>
      BY <1>6 DEF Exits
    <2>2. toClient' \in Seq(Answers)
      BY <1>2, <1>6, AfterReplied DEF Exits
    <2>a. ShapeInv'
      <3>1. Flags'
        BY <1>1, <2>1, <2>2 DEF ShapeInv, Flags
      <3>2. States'
        BY <1>1, <2>1, <2>2 DEF ShapeInv, States
      <3>3. Endings'
        BY <1>1, <2>1, <2>2 DEF ShapeInv, Endings, States
      <3>4. Streams'
        BY <1>1, <2>1, <2>2 DEF ShapeInv, Streams
      <3> QED BY <3>1, <3>2, <3>3, <3>4 DEF ShapeInv
    <2>b. PhaseInv'
      BY <1>1, <2>1, <2>2 DEF ShapeInv, Flags, States, PhaseInv
    <2> QED BY <2>a, <2>b
  <1> QED BY <1>3, <1>4, <1>5, <1>6, WhatIsAnswered

(* The relay starts the command; the connection breaks.                    *)
LEMMA Receiving ==
  ASSUME ShapeInv, PhaseInv, RelayReceive
  PROVE  /\ up /\ pc # "dialed" /\ remote = "none" /\ remote' = "running"
         /\ UNCHANGED <<reviewed, tty, pc, raw, session, started, pendingExit, printed, result,
                        pump, chunk, last, interrupts, toRelay, toClient, up, broken, admitted,
                        exitCode, made, refused, signals, killed>>
         /\ ShapeInv' /\ PhaseInv'
  <1>1. \A i \in DOMAIN toRelay : toRelay[i] \in Sendings
    BY DEF ShapeInv, Streams
  <1>2. \A f \in Sendings : f.type # "close"
    BY DEF Sendings
  <1>3. /\ up /\ DOMAIN toRelay # {} /\ remote = "none" /\ remote' = "running"
        /\ UNCHANGED <<reviewed, tty, pc, raw, session, started, pendingExit, printed, result,
                       pump, chunk, last, interrupts, toRelay, toClient, up, broken, admitted,
                       exitCode, made, refused, signals, killed>>
    BY <1>1, <1>2 DEF RelayReceive, client, pumps
  <1>4. pc # "dialed"
    BY <1>3 DEF PhaseInv
  <1>a. ShapeInv'
    <2>1. Flags'
      BY <1>3, <1>4 DEF ShapeInv, Flags
    <2>2. States'
      BY <1>3, <1>4 DEF ShapeInv, States
    <2>3. Endings'
      BY <1>3, <1>4 DEF ShapeInv, Endings, States
    <2>4. Streams'
      BY <1>3, <1>4 DEF ShapeInv, Streams
    <2> QED BY <2>1, <2>2, <2>3, <2>4 DEF ShapeInv
  <1>b. PhaseInv'
    BY <1>3, <1>4 DEF ShapeInv, Flags, States, PhaseInv
  <1> QED BY <1>3, <1>4, <1>a, <1>b

LEMMA Breaking ==
  ASSUME ShapeInv, PhaseInv, Break
  PROVE  /\ up' = FALSE /\ broken' = TRUE /\ Cut
         /\ UNCHANGED <<reviewed, tty, pc, raw, session, started, pendingExit, printed, result,
                        pump, chunk, last, interrupts, toRelay, admitted, remote, exitCode, made,
                        refused, signals, killed>>
         /\ ShapeInv' /\ PhaseInv'
  <1>1. /\ up' = FALSE /\ broken' = TRUE /\ Cut
        /\ UNCHANGED <<reviewed, tty, pc, raw, session, started, pendingExit, printed, result,
                       pump, chunk, last, interrupts, toRelay, admitted, remote, exitCode, made,
                       refused, signals, killed>>
    BY DEF Break, Cut, client, pumps, relay
  <1>2. toClient' \in Seq(Answers)
    BY <1>1, AfterCut DEF ShapeInv, Streams
  <1>a. ShapeInv'
    <2>1. Flags'
      BY <1>1, <1>2 DEF ShapeInv, Flags
    <2>2. States'
      BY <1>1, <1>2 DEF ShapeInv, States
    <2>3. Endings'
      BY <1>1, <1>2 DEF ShapeInv, Endings, States
    <2>4. Streams'
      BY <1>1, <1>2 DEF ShapeInv, Streams
    <2> QED BY <2>1, <2>2, <2>3, <2>4 DEF ShapeInv
  <1>b. PhaseInv'
    BY <1>1, <1>2 DEF ShapeInv, Flags, States, PhaseInv
  <1> QED BY <1>1, <1>a, <1>b

LEMMA ShapeStep ==
  ASSUME ShapeInv, PhaseInv, [Next]_vars
  PROVE  ShapeInv' /\ PhaseInv'
  <1>1. CASE UNCHANGED vars
    BY <1>1 DEF vars, client, pumps, world, relay, ShapeInv, Flags, States, Endings, Streams,
                PhaseInv
  <1>2. CASE Main
    BY <1>2, Opening, Admitting, Reading, GivingUp DEF Main
  <1>3. CASE Goroutines
    BY <1>3, Typing, WritingKeepsShape DEF Goroutines, Writing
  <1>4. CASE World
    BY <1>4, Interrupting, WritingKeepsShape, Receiving, AnsweringKeepsShape, Breaking
       DEF World, Writing, Answering
  <1> QED BY <1>1, <1>2, <1>3, <1>4 DEF Next

-----------------------------------------------------------------------------
(***************************************************************************)
(* The terminal.                                                           *)
(***************************************************************************)
LEMMA TerminalStep ==
  ASSUME ShapeInv, PhaseInv, TerminalRestored, [Next]_vars
  PROVE  TerminalRestored'
  <1> USE DEF TerminalRestored
  <1>1. CASE UNCHANGED vars
    BY <1>1 DEF vars, client
  <1>2. CASE Open
    BY <1>2 DEF Open
  <1>3. CASE ReadReady \/ ReadOutput \/ ReadError \/ ReadExit
    BY <1>3 DEF ReadReady, ReadOutput, ReadError, ReadExit, Arrives, EndWith, FinishExit, client,
                Quiet
  <1>4. CASE ReadFails \/ Deadline
    BY <1>4 DEF ReadFails, Deadline, EndWith
  <1>5. CASE PumpRead
    BY <1>5, Typing
  <1>6. CASE Writing
    BY <1>6, WhatIsWritten
  <1>7. CASE Interrupt
    BY <1>7, Interrupting
  <1>8. CASE RelayReceive
    BY <1>8, Receiving
  <1>9. CASE Answering
    BY <1>9, WhatIsAnswered
  <1>10. CASE Break
    BY <1>10, Breaking
  <1> QED
    BY <1>1, <1>2, <1>3, <1>4, <1>5, <1>6, <1>7, <1>8, <1>9, <1>10
    DEF Next, Main, Goroutines, World, Writing, Answering

(* However the client ends, unless a signal kills it as it stands, the     *)
(* terminal is back in its mode: no path to os.Exit in runExec leaves it   *)
(* raw.                                                                    *)
THEOREM TerminalAlwaysRestored == Spec => []TerminalRestored
  <1>1. Init => ShapeInv /\ PhaseInv /\ TerminalRestored
    BY ShapeInit DEF Init, TerminalRestored
  <1>2. ShapeInv /\ PhaseInv /\ TerminalRestored /\ [Next]_vars
          => ShapeInv' /\ PhaseInv' /\ TerminalRestored'
    BY ShapeStep, TerminalStep
  <1> QED BY <1>1, <1>2, PTL DEF Spec

-----------------------------------------------------------------------------
(***************************************************************************)
(* The admission of a reviewed session.  The relay answers with a target,  *)
(* and may answer again: what counts is its first answer, wherever on the  *)
(* way it is.                                                              *)
(***************************************************************************)
Ready(i) == toClient[i].type = "ready"

OtherBefore(j) ==
  \E i \in DOMAIN toClient : i < j /\ Ready(i) /\ toClient[i].data = "other"

AdmissionInv ==
  reviewed =>
    /\ session => admitted = "exact"
    /\ pc # "ended" /\ ~session =>
         /\ admitted = "no" => \A i \in DOMAIN toClient : ~Ready(i)
         /\ admitted = "other" =>
              /\ \A j \in DOMAIN toClient :
                   Ready(j) /\ toClient[j].data = "exact" => OtherBefore(j)
              /\ up => OtherBefore(Len(toClient) + 1)

LEMMA SameAnswers ==
  ASSUME AdmissionInv, Flags, UNCHANGED <<reviewed, session, toClient, admitted>>,
         pc' = pc \/ pc' = "ended", up' = up \/ up' = FALSE
  PROVE  AdmissionInv'
  BY DEF AdmissionInv, OtherBefore, Ready, Flags

LEMMA AdmissionStep ==
  ASSUME ShapeInv, PhaseInv, AdmissionInv, [Next]_vars
  PROVE  AdmissionInv'
  <1> USE DEF Ready, OtherBefore
  <1>0. /\ toClient \in Seq(Answers)
        /\ admitted \in {"no", "exact", "other"} /\ pc \in {"dialed", "reading", "ended"}
    BY DEF ShapeInv, States, Streams
  <1>1. CASE UNCHANGED vars
    BY <1>1, SameAnswers DEF vars, client, world, relay, ShapeInv
  <1>2. CASE Open
    BY <1>2 DEF Open, PhaseInv, AdmissionInv, world, relay
  <1>3. CASE ReadReady
    <2>1. /\ toClient[1] \in Answers /\ Len(toClient) > 0 /\ Len(toClient) \in Nat
          /\ toClient[1].type = "ready" /\ toClient[1] = Head(toClient)
          /\ UNCHANGED <<reviewed, admitted>>
      BY <1>0, <1>3, Admitting, AfterTaken DEF ReadReady, Quiet, relay
    <2>2. toClient[1].data \in {"exact", "other"}
      BY <2>1, AnswerTypes
    <2>3. CASE ~reviewed
      BY <2>1, <2>3 DEF AdmissionInv
    <2>4. CASE reviewed /\ (started \/ toClient[1].data # "exact")
      <3>1. pc' = "ended" /\ UNCHANGED session
        BY <1>3, <2>1, <2>4 DEF ReadReady, EndWith
      <3> QED BY <2>1, <3>1 DEF AdmissionInv
    <2>5. CASE reviewed /\ ~started /\ toClient[1].data = "exact"
      <3>1. ~session /\ pc # "ended" /\ session' = TRUE
        BY <1>3, <2>1, <2>5 DEF ReadReady, PhaseInv, Arrives
      <3>2. admitted # "no" /\ admitted # "other"
        BY <1>0, <2>1, <2>5, <3>1 DEF AdmissionInv
      <3> QED BY <1>0, <2>1, <3>1, <3>2 DEF AdmissionInv
    <2> QED BY <2>2, <2>3, <2>4, <2>5
  <1>4. CASE ReadOutput \/ ReadError \/ ReadExit
    <2>1. /\ Taken /\ Head(toClient).type # "ready" /\ pc = "reading"
          /\ UNCHANGED <<reviewed, admitted, session>>
          /\ up' = up \/ pc' = "ended"
      BY <1>4, Reading DEF ReadOutput, ReadError, ReadExit, Arrives, Quiet, relay, EndWith,
                           FinishExit
    <2>2. /\ Len(toClient) \in Nat /\ Len(toClient) > 0 /\ Len(toClient') = Len(toClient) - 1
          /\ ~Ready(1)
          /\ toClient' \in Seq(Answers)
          /\ \A j \in 1 .. Len(toClient) - 1 : toClient'[j] = toClient[j + 1]
      BY <1>0, <2>1, AfterTaken
    <2>3. ASSUME NEW j \in Nat, j > 1, OtherBefore(j)
          PROVE  OtherBefore(j - 1)'
      <3>1. PICK i \in DOMAIN toClient : i < j /\ Ready(i) /\ toClient[i].data = "other"
        BY <2>3
      <3>2. i - 1 \in DOMAIN toClient' /\ toClient'[i - 1] = toClient[i]
        BY <1>0, <2>2, <3>1
      <3> QED BY <1>0, <2>3, <3>1, <3>2
    <2>4. ASSUME reviewed, pc # "ended", ~session
          PROVE  /\ admitted = "no" => \A i \in DOMAIN toClient' : ~Ready(i)'
                 /\ admitted = "other" =>
                      /\ \A j \in DOMAIN toClient' :
                           Ready(j)' /\ toClient'[j].data = "exact" => OtherBefore(j)'
                      /\ up => OtherBefore(Len(toClient) + 1)'
      <3>1. admitted = "no" => \A i \in DOMAIN toClient' : ~Ready(i)'
        BY <1>0, <2>2, <2>4 DEF AdmissionInv
      <3>2. ASSUME admitted = "other", NEW j \in DOMAIN toClient', Ready(j)',
                   toClient'[j].data = "exact"
            PROVE  OtherBefore(j)'
        <4>1. j \in Nat /\ j + 1 \in DOMAIN toClient /\ toClient'[j] = toClient[j + 1] /\ j + 1 > 1
          BY <1>0, <2>2, <3>2
        <4>2. OtherBefore(j + 1)
          BY <2>4, <3>2, <4>1 DEF AdmissionInv
        <4>3. OtherBefore(j + 1 - 1)'
          BY <2>3, <4>1, <4>2
        <4> QED BY <4>1, <4>3
      <3>3. ASSUME admitted = "other", up
            PROVE  OtherBefore(Len(toClient) + 1)'
        <4>1. PICK n \in Nat : n = Len(toClient) + 1 /\ n > 1
          BY <2>2
        <4>2. OtherBefore(n)
          BY <2>4, <3>3, <4>1 DEF AdmissionInv
        <4>3. OtherBefore(n - 1)' /\ n - 1 = Len(toClient') + 1
          BY <2>2, <2>3, <4>1, <4>2
        <4> QED BY <4>3
      <3> QED BY <2>2, <2>3, <3>1, <3>2, <3>3
    <2> QED BY <2>1, <2>2, <2>4 DEF AdmissionInv
  <1>5. CASE ReadFails \/ Deadline
    BY <1>5 DEF ReadFails, Deadline, EndWith, AdmissionInv, Quiet, relay
  <1>6. CASE PumpRead
    BY <1>6, Typing, SameAnswers DEF ShapeInv
  <1>7. CASE Writing
    BY <1>7, WhatIsWritten, SameAnswers DEF ShapeInv
  <1>8. CASE Interrupt
    BY <1>8, Interrupting, SameAnswers DEF ShapeInv
  <1>9. CASE RelayReceive
    BY <1>9, Receiving, SameAnswers DEF ShapeInv
  <1>10. CASE Answering
    <2>1. /\ up
          /\ UNCHANGED <<reviewed, pc, session>>
          /\ \/ \E verdict \in {"exact", "other"} : Admits(verdict)
             \/ Refuses
             \/ Prints
             \/ \E code \in Codes : Exits(code)
      BY <1>10, WhatIsAnswered
    <2>2. ASSUME NEW type, NEW data, Replied(type, data),
                 [type |-> type, data |-> data] \in Answers
          PROVE  /\ \A j \in DOMAIN toClient : OtherBefore(j) => OtherBefore(j)'
                 /\ OtherBefore(Len(toClient) + 1) =>
                      \A n \in Nat : n > Len(toClient) => OtherBefore(n)'
                 /\ Len(toClient') = Len(toClient) + 1 /\ Len(toClient) \in Nat
                 /\ \A j \in 1 .. Len(toClient) : toClient'[j] = toClient[j]
                 /\ toClient'[Len(toClient) + 1].type = type
                 /\ toClient'[Len(toClient) + 1].data = data
      <3>1. /\ toClient' \in Seq(Answers)
            /\ Len(toClient') = Len(toClient) + 1 /\ Len(toClient) \in Nat
            /\ \A j \in 1 .. Len(toClient) : toClient'[j] = toClient[j]
            /\ toClient'[Len(toClient) + 1].type = type
            /\ toClient'[Len(toClient) + 1].data = data
        BY <1>0, <2>2, AfterReplied
      <3> QED BY <1>0, <3>1
    <2>3. /\ \A verdict \in {"exact", "other"} :
               [type |-> "ready", data |-> verdict] \in Answers
          /\ [type |-> "error", data |-> 0] \in Answers
          /\ [type |-> "output", data |-> made + 1] \in Answers
          /\ \A code \in Codes : [type |-> "exit", data |-> code] \in Answers
      BY DEF ShapeInv, Streams, Answers
    <2>4. ASSUME NEW verdict \in {"exact", "other"}, Admits(verdict)
          PROVE  AdmissionInv'
      <3>1. admitted = "no" /\ admitted' = verdict /\ up' = up /\ Replied("ready", verdict)
        BY <2>4 DEF Admits
      <3>2. /\ Len(toClient') = Len(toClient) + 1 /\ Len(toClient) \in Nat
            /\ \A j \in 1 .. Len(toClient) : toClient'[j] = toClient[j]
            /\ toClient'[Len(toClient) + 1].type = "ready"
            /\ toClient'[Len(toClient) + 1].data = verdict
            /\ toClient' \in Seq(Answers)
        BY <1>0, <2>3, <3>1, AfterReplied
      <3>3. ASSUME verdict = "other"
            PROVE  OtherBefore(Len(toClient) + 1)'
        BY <1>0, <3>2, <3>3
      <3>4. ASSUME reviewed, pc # "ended", ~session, NEW j \in DOMAIN toClient', Ready(j)',
                   toClient'[j].data = "exact", verdict = "other"
            PROVE  FALSE
        <4>1. CASE j = Len(toClient) + 1
          BY <3>2, <3>4, <4>1
        <4>2. CASE j # Len(toClient) + 1
          BY <1>0, <3>1, <3>2, <3>4, <4>2 DEF AdmissionInv
        <4> QED BY <4>1, <4>2
      <3> QED BY <2>1, <3>1, <3>3, <3>4 DEF AdmissionInv
    <2>5. ASSUME NEW type \in {"error", "output", "exit", "ready"}, NEW data, Replied(type, data),
                 [type |-> type, data |-> data] \in Answers,
                 UNCHANGED <<up, admitted>>, type = "ready" => admitted # "no"
          PROVE  AdmissionInv'
      <3>1. /\ \A j \in DOMAIN toClient : OtherBefore(j) => OtherBefore(j)'
            /\ OtherBefore(Len(toClient) + 1) =>
                 \A n \in Nat : n > Len(toClient) => OtherBefore(n)'
            /\ Len(toClient') = Len(toClient) + 1 /\ Len(toClient) \in Nat
            /\ \A j \in 1 .. Len(toClient) : toClient'[j] = toClient[j]
            /\ toClient'[Len(toClient) + 1].type = type
            /\ toClient' \in Seq(Answers)
        BY <1>0, <2>2, <2>5, AfterReplied
      <3>2. ASSUME reviewed, pc # "ended", ~session, admitted = "no"
            PROVE  \A i \in DOMAIN toClient' : ~Ready(i)'
        BY <1>0, <2>5, <3>1, <3>2 DEF AdmissionInv
      <3>3. ASSUME reviewed, pc # "ended", ~session, admitted = "other"
            PROVE  \A j \in Nat : j > Len(toClient) => OtherBefore(j)'
        BY <2>1, <3>1, <3>3 DEF AdmissionInv
      <3>4. ASSUME reviewed, pc # "ended", ~session, admitted = "other",
                   NEW j \in DOMAIN toClient', Ready(j)', toClient'[j].data = "exact"
            PROVE  OtherBefore(j)'
        <4>1. CASE j > Len(toClient)
          BY <1>0, <3>1, <3>3, <3>4, <4>1
        <4>2. CASE j \in 1 .. Len(toClient)
          <5>1. Ready(j) /\ toClient[j].data = "exact" /\ j \in DOMAIN toClient
            BY <1>0, <3>1, <3>4, <4>2
          <5> QED BY <3>1, <3>4, <5>1 DEF AdmissionInv
        <4> QED BY <1>0, <3>1, <3>4, <4>1, <4>2
      <3> QED BY <2>1, <2>5, <3>1, <3>2, <3>3, <3>4 DEF AdmissionInv
    <2>6. CASE Refuses
      <3>1. CASE up' = FALSE /\ UNCHANGED toClient
        BY <2>1, <2>6, <3>1 DEF Refuses, AdmissionInv
      <3> QED BY <2>3, <2>5, <2>6, <3>1 DEF Refuses
    <2>7. CASE Prints
      BY <2>3, <2>5, <2>7 DEF Prints
    <2>8. ASSUME NEW code \in Codes, Exits(code)
          PROVE  AdmissionInv'
      BY <2>3, <2>5, <2>8 DEF Exits
    <2> QED BY <2>1, <2>4, <2>6, <2>7, <2>8
  <1>11. CASE Break
    <2>1. /\ up' = FALSE /\ UNCHANGED <<reviewed, pc, session, admitted>>
          /\ Len(toClient') <= Len(toClient) /\ toClient' \in Seq(Answers)
          /\ \A j \in 1 .. Len(toClient') : toClient'[j] = toClient[j]
      BY <1>0, <1>11, Breaking, AfterCut
    <2>2. \A j \in DOMAIN toClient' : OtherBefore(j) => OtherBefore(j)'
      BY <1>0, <2>1
    <2> QED BY <1>0, <2>1, <2>2 DEF AdmissionInv
  <1> QED
    BY <1>1, <1>2, <1>3, <1>4, <1>5, <1>6, <1>7, <1>8, <1>9, <1>10, <1>11
    DEF Next, Main, Goroutines, World, Writing, Answering

-----------------------------------------------------------------------------
(***************************************************************************)
(* What is sent.                                                           *)
(***************************************************************************)
(* What a step of the session does to the frames sent: nothing, the frames *)
(* that open it, or one more frame.                                        *)
Opened ==
  /\ pc = "dialed" /\ toRelay = <<>> /\ UNCHANGED <<chunk, session, up, reviewed, admitted>>
  /\ pump' \in {"off", "reading"}
  /\ toRelay' \in Seq(Sendings)
  /\ \A i \in DOMAIN toRelay' : toRelay'[i].type = IF i = 1 THEN "open" ELSE "resize"
  /\ reviewed => Len(toRelay') <= 1

Resized ==
  /\ session' /\ UNCHANGED <<chunk, up>>
  /\ pump' = "reading" /\ pump = "off"
  /\ Send([type |-> "resize", data |-> 0, session |-> session']) \/ UNCHANGED toRelay

Kept ==
  /\ UNCHANGED <<toRelay, chunk, pump>>
  /\ up' = up \/ up' = FALSE

LEMMA Sent ==
  ASSUME ShapeInv, PhaseInv, AdmissionInv, [Next]_vars
  PROVE  /\ reviewed' = reviewed
         /\ admitted = "exact" => admitted' = "exact"
         /\ \/ Opened
            \/ Resized
            \/ PumpRead
            \/ Writing
            \/ Kept
  <1>1. CASE UNCHANGED vars
    BY <1>1 DEF vars, Kept, client, pumps, world, relay
  <1>2. CASE Open
    <2>1. /\ pc = "dialed" /\ toRelay = <<>> /\ UNCHANGED <<chunk, session, up, reviewed, admitted>>
          /\ pump' \in {"off", "reading"}
      BY <1>2 DEF Open, PhaseInv, world, relay
    <2>2. /\ toRelay' \in Seq(Sendings)
          /\ ~up => toRelay' = <<>>
          /\ up => /\ Len(toRelay') = IF tty /\ ~reviewed THEN 2 ELSE 1
                   /\ toRelay'[1].type = "open"
                   /\ tty /\ ~reviewed => toRelay'[2].type = "resize"
      BY <1>2, AfterOpen
    <2>3. /\ \A i \in DOMAIN toRelay' : toRelay'[i].type = IF i = 1 THEN "open" ELSE "resize"
          /\ reviewed => Len(toRelay') <= 1
      <3>1. CASE ~up
        BY <2>2, <3>1
      <3>2. CASE up /\ tty /\ ~reviewed
        BY <2>2, <3>2
      <3>3. CASE up /\ ~(tty /\ ~reviewed)
        <4>1. Len(toRelay') = 1 /\ toRelay'[1].type = "open"
          BY <2>2, <3>3
        <4>2. DOMAIN toRelay' = {1}
          BY <2>2, <4>1
        <4> QED BY <4>1, <4>2
      <3> QED BY <3>1, <3>2, <3>3
    <2> QED BY <2>1, <2>2, <2>3 DEF Opened
  <1>3. CASE ReadReady
    <2>1. UNCHANGED <<reviewed, admitted, chunk>>
      BY <1>3 DEF ReadReady, Quiet, relay
    <2>2. CASE reviewed /\ ~started /\ Head(toClient).data = "exact" /\ pendingExit = NoCode
      <3>1. /\ session' = TRUE /\ pump' = "reading" /\ pump = "off" /\ UNCHANGED up
            /\ IF tty THEN Send([type |-> "resize", data |-> 0, session |-> session'])
                      ELSE UNCHANGED toRelay
        BY <1>3, <2>2 DEF ReadReady, StartIO, PhaseInv
      <3> QED BY <2>1, <3>1 DEF Resized
    <2>3. CASE ~(reviewed /\ ~started /\ Head(toClient).data = "exact" /\ pendingExit = NoCode)
      <3>1. UNCHANGED <<pump, toRelay>> /\ (up' = up \/ up' = FALSE)
        BY <1>3, <2>3 DEF ReadReady, EndWith, FinishExit
      <3> QED BY <2>1, <3>1 DEF Kept
    <2> QED BY <2>2, <2>3
  <1>4. CASE ReadOutput \/ ReadError \/ ReadExit
    BY <1>4 DEF ReadOutput, ReadError, ReadExit, EndWith, FinishExit, Quiet, relay, Kept
  <1>5. CASE ReadFails \/ Deadline
    BY <1>5 DEF ReadFails, Deadline, EndWith, Quiet, relay, Kept
  <1>6. CASE PumpRead
    BY <1>6, Typing
  <1>7. CASE Writing
    BY <1>7, WhatIsWritten
  <1>8. CASE Interrupt
    BY <1>8, Interrupting DEF Kept
  <1>9. CASE RelayReceive
    BY <1>9, Receiving DEF Kept
  <1>10. CASE Answering
    <2>1. UNCHANGED <<reviewed, toRelay, chunk, pump>>
      BY <1>10, WhatIsAnswered
    <2>2. (admitted = "exact" => admitted' = "exact") /\ (up' = up \/ up' = FALSE)
      BY <1>10, WhatIsAnswered DEF Admits, Refuses, Prints, Exits
    <2> QED BY <2>1, <2>2 DEF Kept
  <1>11. CASE Break
    BY <1>11, Breaking DEF Kept
  <1> QED
    BY <1>1, <1>2, <1>3, <1>4, <1>5, <1>6, <1>7, <1>8, <1>9, <1>10, <1>11
    DEF Next, Main, Goroutines, World, Writing, Answering

LEMMA OnlyAdmittedStep ==
  ASSUME ShapeInv, PhaseInv, AdmissionInv, AdmissionInv', InputOnlyAdmitted, [Next]_vars
  PROVE  InputOnlyAdmitted'
  <1> SUFFICES ASSUME reviewed', NEW i \in DOMAIN toRelay'
               PROVE  \/ i = 1 /\ toRelay'[i].type = "open"
                      \/ admitted' = "exact" /\ toRelay'[i].session
    BY DEF InputOnlyAdmitted
  <1>1. /\ reviewed /\ toRelay \in Seq(Sendings)
        /\ admitted = "exact" => admitted' = "exact"
        /\ \/ Opened
           \/ Resized
           \/ PumpRead
           \/ Writing
           \/ Kept
    BY Sent DEF ShapeInv, Streams
  <1>2. ASSUME NEW f \in Sendings, Send(f), f.session, admitted' = "exact"
        PROVE  \/ i = 1 /\ toRelay'[i].type = "open"
               \/ admitted' = "exact" /\ toRelay'[i].session
    <2>1. CASE up /\ i = Len(toRelay) + 1
      BY <1>1, <1>2, <2>1, AfterSend
    <2>2. CASE ~up \/ i # Len(toRelay) + 1
      <3>1. i \in DOMAIN toRelay /\ toRelay'[i] = toRelay[i]
        BY <1>1, <1>2, <2>2, AfterSend
      <3> QED BY <1>1, <3>1 DEF InputOnlyAdmitted
    <2> QED BY <2>1, <2>2
  <1>3. CASE UNCHANGED toRelay
    BY <1>1, <1>3 DEF InputOnlyAdmitted
  <1>4. CASE Opened
    <2>1. i = 1
      BY <1>1, <1>4 DEF Opened
    <2> QED BY <1>4, <2>1 DEF Opened
  <1>5. CASE Resized
    <2>1. admitted' = "exact"
      BY <1>1, <1>5 DEF Resized, AdmissionInv
    <2>2. session' = TRUE \/ UNCHANGED toRelay
      BY <1>1, <1>5, ShapeStep DEF Resized, ShapeInv, Flags
    <2>3. CASE session' = TRUE
      <3>1. [type |-> "resize", data |-> 0, session |-> session'] \in Sendings
        BY <2>3 DEF Sendings
      <3> QED BY <1>2, <1>3, <1>5, <2>1, <2>3, <3>1 DEF Resized
    <2> QED BY <1>3, <2>2, <2>3
  <1>6. CASE PumpRead
    BY <1>3, <1>6, Typing
  <1>7. CASE Writing
    <2>1. session /\ admitted = "exact"
      BY <1>1, <1>7, WhatIsWritten DEF PhaseInv, AdmissionInv
    <2>2. /\ Frame("stdin", chunk).session /\ Frame("stdin", 0).session
          /\ Frame("stdin_eof", 0).session /\ Frame("resize", 0).session
      BY <2>1 DEF Frame
    <2> QED BY <1>1, <1>2, <1>7, <2>1, <2>2, WhatIsWritten, FrameTypes
  <1>8. CASE Kept
    BY <1>3, <1>8 DEF Kept
  <1> QED BY <1>1, <1>4, <1>5, <1>6, <1>7, <1>8

(* The frames that carry data, what they carry, and how much of it has     *)
(* been read and written.                                                  *)
Data == {i \in DOMAIN toRelay : toRelay[i].type = "stdin" /\ toRelay[i].data # 0}

Values == {toRelay[i].data : i \in Data}

Written == IF pump = "read" THEN chunk - 1 ELSE chunk

InOrder == \A i, j \in Data : i < j => toRelay[i].data < toRelay[j].data

WithoutGaps == \E n \in 0 .. Written : Values = 1 .. n /\ (up => n = Written)

EofIsLast ==
  \A i, j \in DOMAIN toRelay :
    toRelay[i].type = "stdin_eof" /\ toRelay[j].type = "stdin" /\ i < j => toRelay[j].data = 0

InputInv ==
  /\ pump = "read" => chunk > 0
  /\ \A i \in DOMAIN toRelay : toRelay[i].type = "stdin_eof" => pump = "done"
  /\ InOrder /\ WithoutGaps /\ EofIsLast

LEMMA InputInvIs == InputInv => InputInOrder
  BY DEF InputInv, InOrder, WithoutGaps, EofIsLast, Data, Values, Written, InputInOrder

LEMMA WrittenIsNat ==
  ASSUME ShapeInv, InputInv
  PROVE  Written \in Nat
  BY DEF ShapeInv, Streams, InputInv, Written

(* A frame that carries no data leaves the data as it is.                  *)
LEMMA OtherFrame ==
  ASSUME ShapeInv, InputInv, NEW f \in Sendings, Send(f),
         f.type = "stdin" => f.data = 0,
         f.type = "stdin_eof" => pump' = "done",
         pump = "done" => pump' = "done",
         Written' = Written, up' = up, pump' = "read" => chunk' > 0
  PROVE  InputInv'
  <1>1. /\ toRelay \in Seq(Sendings) /\ toRelay' \in Seq(Sendings)
        /\ ~up => toRelay' = toRelay
        /\ up => /\ Len(toRelay') = Len(toRelay) + 1
                 /\ toRelay'[Len(toRelay) + 1] = f
                 /\ \A i \in 1 .. Len(toRelay) : toRelay'[i] = toRelay[i]
    BY AfterSend DEF ShapeInv, Streams
  <1>2. /\ \A i \in DOMAIN toRelay : i \in DOMAIN toRelay' /\ toRelay'[i] = toRelay[i]
        /\ \A i \in DOMAIN toRelay' :
             \/ i \in DOMAIN toRelay
             \/ i = Len(toRelay) + 1 /\ toRelay'[i] = f
        /\ \A i \in DOMAIN toRelay : i \in Nat /\ i < Len(toRelay) + 1
    BY <1>1
  <1>3. Data' = Data
    BY <1>2 DEF Data
  <1>4. \A i \in Data : toRelay'[i] = toRelay[i]
    BY <1>2 DEF Data
  <1>5. InOrder' /\ WithoutGaps'
    BY <1>3, <1>4 DEF InputInv, InOrder, WithoutGaps, Values
  <1>6. \A i \in DOMAIN toRelay' : toRelay'[i].type = "stdin_eof" => pump' = "done"
    BY <1>2 DEF InputInv
  <1>7. EofIsLast'
    BY <1>2 DEF InputInv, EofIsLast
  <1> QED BY <1>5, <1>6, <1>7 DEF InputInv

(* What was read last is written next.                                     *)
LEMMA DataFrame ==
  ASSUME ShapeInv, InputInv, NEW f \in Sendings, Send(f),
         f.type = "stdin" /\ f.data = chunk, pump = "read",
         pump' \in {"eof", "reading", "done"}, chunk' = chunk, up' = up
  PROVE  InputInv'
  <1>1. /\ toRelay \in Seq(Sendings) /\ toRelay' \in Seq(Sendings)
        /\ ~up => toRelay' = toRelay
        /\ up => /\ Len(toRelay') = Len(toRelay) + 1
                 /\ toRelay'[Len(toRelay) + 1] = f
                 /\ \A i \in 1 .. Len(toRelay) : toRelay'[i] = toRelay[i]
        /\ chunk \in Nat /\ chunk > 0
    BY AfterSend DEF ShapeInv, Streams, InputInv
  <1>2. /\ Written = chunk - 1 /\ Written' = chunk
        /\ \A i \in DOMAIN toRelay : toRelay[i].type # "stdin_eof"
    BY DEF InputInv, Written
  <1>3. PICK n \in 0 .. chunk - 1 : Values = 1 .. n /\ (up => n = chunk - 1)
    BY <1>2 DEF InputInv, WithoutGaps
  <1>4. CASE ~up
    <2>1. toRelay' = toRelay
      BY <1>1, <1>4
    <2>2. InOrder' /\ EofIsLast'
      BY <2>1 DEF InputInv, InOrder, EofIsLast, Data
    <2>3. Values' = 1 .. n /\ n \in 0 .. chunk
      BY <1>1, <1>3, <2>1 DEF Values, Data
    <2>4. WithoutGaps'
      BY <1>2, <1>4, <2>3 DEF WithoutGaps
    <2> QED BY <1>2, <2>1, <2>2, <2>4 DEF InputInv
  <1>5. CASE up
    <2>1. /\ \A i \in DOMAIN toRelay : i \in DOMAIN toRelay' /\ toRelay'[i] = toRelay[i]
          /\ \A i \in DOMAIN toRelay' :
               \/ i \in DOMAIN toRelay
               \/ i = Len(toRelay) + 1 /\ toRelay'[i] = f
          /\ \A i \in DOMAIN toRelay : i \in Nat /\ i < Len(toRelay) + 1
          /\ Len(toRelay) + 1 \in DOMAIN toRelay' /\ toRelay'[Len(toRelay) + 1] = f
          /\ Len(toRelay) \in Nat
      BY <1>1, <1>5
    <2>2. Data' = Data \cup {Len(toRelay) + 1}
      BY <1>1, <2>1 DEF Data
    <2>3. \A i \in Data : toRelay'[i] = toRelay[i] /\ i \in Nat /\ i < Len(toRelay) + 1
      BY <2>1 DEF Data
    <2>4. Values' = Values \cup {chunk}
      BY <2>1, <2>2, <2>3 DEF Values
    <2>5. Values' = 1 .. chunk
      BY <1>1, <1>3, <1>5, <2>4
    <2>6. WithoutGaps'
      BY <1>1, <1>2, <2>5 DEF WithoutGaps
    <2>7. \A i \in Data : toRelay[i].data \in Nat /\ toRelay[i].data < chunk
      <3>1. \A i \in Data : toRelay[i].data \in 1 .. n
        BY <1>3 DEF Values
      <3> QED BY <1>1, <1>3, <3>1
    <2>8. InOrder'
      <3> SUFFICES ASSUME NEW i \in Data', NEW j \in Data', i < j
                   PROVE  toRelay'[i].data < toRelay'[j].data
        BY DEF InOrder
      <3>1. i \in Data
        BY <2>1, <2>2, <2>3
      <3>2. CASE j \in Data
        BY <2>3, <3>1, <3>2 DEF InputInv, InOrder
      <3>3. CASE j = Len(toRelay) + 1
        BY <2>1, <2>3, <2>7, <3>1, <3>3
      <3> QED BY <2>2, <3>2, <3>3
    <2>9. \A i \in DOMAIN toRelay' : toRelay'[i].type # "stdin_eof"
      BY <1>2, <2>1
    <2> QED BY <1>2, <2>6, <2>8, <2>9 DEF InputInv, EofIsLast
  <1> QED BY <1>4, <1>5

LEMMA InputStep ==
  ASSUME ShapeInv, PhaseInv, AdmissionInv, InputInv, [Next]_vars
  PROVE  InputInv'
  <1>1. CASE Opened
    <2>1. Data = {} /\ Data' = {} /\ \A i \in DOMAIN toRelay' : toRelay'[i].type # "stdin_eof"
      BY <1>1 DEF Opened, Data
    <2>2. pump = "off" /\ Written' = Written
      BY <1>1 DEF Opened, PhaseInv, Written, ShapeInv, States
    <2>3. Values' = Values
      BY <2>1 DEF Values
    <2>4. InOrder' /\ EofIsLast' /\ pump' # "read"
      BY <1>1, <2>1 DEF InOrder, EofIsLast, Opened
    <2>5. WithoutGaps'
      BY <1>1, <2>2, <2>3 DEF InputInv, WithoutGaps, Opened
    <2> QED BY <2>1, <2>4, <2>5 DEF InputInv
  <1>2. CASE Resized
    <2>1. /\ pump' = "reading" /\ Written' = Written /\ pump # "done" /\ up' = up
      BY <1>2 DEF Resized, Written
    <2>2. CASE UNCHANGED toRelay
      BY <2>1, <2>2 DEF InputInv, InOrder, WithoutGaps, EofIsLast, Data, Values
    <2>3. CASE Send([type |-> "resize", data |-> 0, session |-> session'])
      <3>1. [type |-> "resize", data |-> 0, session |-> session'] \in Sendings
        BY ShapeStep DEF ShapeInv, Flags, Sendings
      <3> QED BY <2>1, <2>3, <3>1, OtherFrame
    <2> QED BY <1>2, <2>2, <2>3 DEF Resized
  <1>3. CASE PumpRead
    <2>1. /\ pump = "reading" /\ chunk \in Nat /\ UNCHANGED <<toRelay, up>>
          /\ \/ chunk' = chunk + 1 /\ pump' = "read"
             \/ chunk' = chunk /\ pump' = "eof"
      BY <1>3, Typing DEF ShapeInv, Streams
    <2>2. Written' = Written /\ (pump' = "read" => chunk' > 0)
      BY <2>1 DEF Written
    <2> QED BY <2>1, <2>2 DEF InputInv, InOrder, WithoutGaps, EofIsLast, Data, Values
  <1>4. CASE Writing
    <2>1. /\ chunk' = chunk /\ up' = up
          /\ \/ /\ pump = "read" /\ pump' \in {"eof", "reading", "done"}
                /\ Send(Frame("stdin", chunk))
             \/ /\ pump = "eof" /\ pump' = "done"
                /\ Send(Frame("stdin_eof", 0))
             \/ /\ pump' = pump
                /\ Send(Frame("stdin", 0)) \/ Send(Frame("resize", 0))
      BY <1>4, WhatIsWritten
    <2>2. /\ Frame("stdin", chunk).type = "stdin" /\ Frame("stdin", chunk).data = chunk
          /\ Frame("stdin", 0).type = "stdin" /\ Frame("stdin", 0).data = 0
          /\ Frame("stdin_eof", 0).type = "stdin_eof" /\ Frame("resize", 0).type = "resize"
      BY DEF Frame
    <2>3. CASE pump = "read" /\ pump' \in {"eof", "reading", "done"} /\ Send(Frame("stdin", chunk))
      BY <2>1, <2>2, <2>3, FrameTypes, DataFrame
    <2>4. CASE pump = "eof" /\ pump' = "done" /\ Send(Frame("stdin_eof", 0))
      <3>1. Written' = Written
        BY <2>1, <2>4 DEF Written
      <3> QED BY <2>1, <2>2, <2>4, <3>1, FrameTypes, OtherFrame
    <2>5. CASE pump' = pump /\ (Send(Frame("stdin", 0)) \/ Send(Frame("resize", 0)))
      <3>1. Written' = Written /\ (pump' = "read" => chunk' > 0)
        BY <2>1, <2>5 DEF Written, InputInv
      <3> QED BY <2>1, <2>2, <2>5, <3>1, FrameTypes, OtherFrame
    <2> QED BY <2>1, <2>3, <2>4, <2>5
  <1>5. CASE Kept
    <2>1. UNCHANGED <<toRelay, chunk, pump>> /\ (up' => up) /\ Written' = Written
      BY <1>5 DEF Kept, Written
    <2> QED BY <2>1 DEF InputInv, InOrder, WithoutGaps, EofIsLast, Data, Values
  <1> QED BY <1>1, <1>2, <1>3, <1>4, <1>5, Sent

(* What is typed reaches the reviewed target alone, whole and in its       *)
(* order: runExec sends nothing but the open frame before the relay has    *)
(* admitted the exact target, and its goroutines, whatever they interleave *)
(* with, lose, repeat and swap nothing that was read from stdin.           *)
THEOREM InputAlwaysArrives == Spec => []InputArrives
  <1> DEFINE IInv == /\ ShapeInv /\ PhaseInv /\ AdmissionInv
                     /\ InputOnlyAdmitted /\ InputInv
  <1>1. Init => IInv
    <2> SUFFICES ASSUME Init PROVE IInv
      OBVIOUS
    <2>1. toRelay = <<>> /\ toClient = <<>> /\ session = FALSE /\ admitted = "no" /\ chunk = 0
          /\ pump = "off"
      BY DEF Init
    <2>2. Values = {} /\ Written = 0 /\ Data = {}
      BY <2>1 DEF Values, Data, Written
    <2>3. WithoutGaps
      BY <2>2 DEF WithoutGaps
    <2> QED
      BY <2>1, <2>2, <2>3, ShapeInit
      DEF AdmissionInv, InputOnlyAdmitted, InputInv, InOrder, EofIsLast
  <1>2. IInv /\ [Next]_vars => IInv'
    BY ShapeStep, AdmissionStep, OnlyAdmittedStep, InputStep
  <1>3. IInv => InputArrives
    BY InputInvIs DEF InputArrives
  <1> QED BY <1>1, <1>2, <1>3, PTL DEF Spec

-----------------------------------------------------------------------------
(***************************************************************************)
(* What is printed.  The frames on their way continue what has been        *)
(* printed: whichever comes next, all the output before it has come.       *)
(***************************************************************************)
IsOutput(j) == toClient[j].type = "output"

(* What was made after the first n, up to the m-th, precedes frame j. *)
Precede(j, n, m) ==
  \A v \in n + 1 .. m :
    \E i \in DOMAIN toClient : i < j /\ IsOutput(i) /\ toClient[i].data = v

Continues(n) ==
  /\ \A j \in DOMAIN toClient :
       /\ IsOutput(j) => /\ toClient[j].data \in n + 1 .. made
                         /\ Precede(j, n, toClient[j].data - 1)
       /\ toClient[j].type = "exit" => Precede(j, n, made)
  /\ \A i, j \in DOMAIN toClient :
       IsOutput(i) /\ IsOutput(j) /\ i < j => toClient[i].data < toClient[j].data
  /\ up => Precede(Len(toClient) + 1, n, made)

OutputInv ==
  \E n \in 0 .. made :
    /\ printed = [i \in 1 .. n |-> i]
    /\ Continues(n)
    /\ pendingExit # NoCode \/ result \in Codes => n = made

(* The next frame is taken: if it is output, it is the next of it.         *)
LEMMA TakenOther ==
  ASSUME ShapeInv, NEW n \in Nat, Continues(n), Taken, ~IsOutput(1), UNCHANGED made,
         up' = up \/ up' = FALSE
  PROVE  Continues(n)'
  <1>1. /\ Len(toClient) \in Nat /\ Len(toClient) > 0 /\ Len(toClient') = Len(toClient) - 1
        /\ \A j \in 1 .. Len(toClient) - 1 : toClient'[j] = toClient[j + 1]
        /\ toClient \in Seq(Answers) /\ toClient' \in Seq(Answers)
        /\ DOMAIN toClient = 1 .. Len(toClient) /\ DOMAIN toClient' = 1 .. Len(toClient) - 1
    BY AfterTaken DEF ShapeInv, Streams
  <1>2. ASSUME NEW j \in Nat, j > 0, NEW m, Precede(j + 1, n, m)
        PROVE  Precede(j, n, m)'
    <2> SUFFICES ASSUME NEW v \in n + 1 .. m
                 PROVE  \E i \in DOMAIN toClient' :
                          i < j /\ IsOutput(i)' /\ toClient'[i].data = v
      BY DEF Precede
    <2>1. PICK i \in DOMAIN toClient : i < j + 1 /\ IsOutput(i) /\ toClient[i].data = v
      BY <1>2 DEF Precede
    <2>2. i > 1
      BY <1>1, <2>1
    <2>3. i - 1 \in DOMAIN toClient' /\ toClient'[i - 1] = toClient[i] /\ i - 1 < j
      BY <1>1, <1>2, <2>1, <2>2
    <2> QED BY <2>1, <2>3 DEF IsOutput
  <1>3. \A j \in DOMAIN toClient' :
          /\ j \in Nat /\ j > 0 /\ j + 1 \in DOMAIN toClient /\ toClient'[j] = toClient[j + 1]
          /\ IsOutput(j)' <=> IsOutput(j + 1)
    BY <1>1 DEF IsOutput
  <1>4. ASSUME NEW j \in DOMAIN toClient', IsOutput(j)'
        PROVE  /\ toClient'[j].data \in n + 1 .. made
               /\ Precede(j, n, toClient[j].data - 1)'
    <2>1. toClient'[j].data \in n + 1 .. made /\ Precede(j + 1, n, toClient[j + 1].data - 1)
      BY <1>3, <1>4 DEF Continues
    <2>2. PICK m : m = toClient[j + 1].data - 1
      OBVIOUS
    <2>3. Precede(j, n, m)'
      BY <1>2, <1>3, <2>1, <2>2
    <2> QED BY <1>3, <2>1, <2>2, <2>3 DEF Precede
  <1>5. ASSUME NEW j \in DOMAIN toClient', toClient'[j].type = "exit"
        PROVE  Precede(j, n, made)'
    <2>1. Precede(j + 1, n, made)
      BY <1>3, <1>5 DEF Continues
    <2>2. PICK m : m = made
      OBVIOUS
    <2>3. Precede(j, n, m)'
      BY <1>2, <1>3, <2>1, <2>2
    <2> QED BY <2>2, <2>3 DEF Precede
  <1>6. ASSUME NEW i \in DOMAIN toClient', NEW j \in DOMAIN toClient',
               IsOutput(i)', IsOutput(j)', i < j
        PROVE  toClient'[i].data < toClient'[j].data
    BY <1>3, <1>6 DEF Continues
  <1>7. ASSUME up'
        PROVE  Precede(Len(toClient) + 1, n, made)'
    <2>1. PICK m : m = made
      OBVIOUS
    <2>2. PICK k \in Nat : k = Len(toClient) /\ k > 0
      BY <1>1
    <2>3. Precede(k, n, m)'
      BY <1>2, <1>7, <2>1, <2>2 DEF Continues
    <2> QED BY <1>1, <2>1, <2>2, <2>3 DEF Precede
  <1> QED BY <1>4, <1>5, <1>6, <1>7 DEF Continues

LEMMA TakenOutput ==
  ASSUME ShapeInv, NEW n \in Nat, Continues(n), Taken, IsOutput(1), UNCHANGED <<made, up>>
  PROVE  Head(toClient).data = n + 1 /\ n + 1 \in 0 .. made /\ Continues(n + 1)'
  <1>1. /\ Len(toClient) \in Nat /\ Len(toClient) > 0 /\ Len(toClient') = Len(toClient) - 1
        /\ \A j \in 1 .. Len(toClient) - 1 : toClient'[j] = toClient[j + 1]
        /\ DOMAIN toClient = 1 .. Len(toClient) /\ DOMAIN toClient' = 1 .. Len(toClient) - 1
        /\ toClient[1] = Head(toClient)
    BY AfterTaken DEF ShapeInv, Streams
  <1>2. PICK k : k = n + 1 /\ k \in Nat
    OBVIOUS
  <1>3. toClient[1].data = k
    <2>1. toClient[1].data \in n + 1 .. made /\ Precede(1, n, toClient[1].data - 1)
      BY <1>1 DEF Continues
    <2>2. \A v \in n + 1 .. toClient[1].data - 1 : FALSE
      BY <1>1, <2>1 DEF Precede
    <2>3. made \in Nat
      BY DEF ShapeInv, Streams
    <2> QED BY <1>2, <2>1, <2>2, <2>3
  <1>4. ASSUME NEW j \in Nat, j > 0, NEW m, Precede(j + 1, n, m)
        PROVE  Precede(j, k, m)'
    <2> SUFFICES ASSUME NEW v \in k + 1 .. m
                 PROVE  \E i \in DOMAIN toClient' :
                          i < j /\ IsOutput(i)' /\ toClient'[i].data = v
      BY DEF Precede
    <2>1. v \in n + 1 .. m /\ v # k
      BY <1>2
    <2>2. PICK i \in DOMAIN toClient : i < j + 1 /\ IsOutput(i) /\ toClient[i].data = v
      BY <1>4, <2>1 DEF Precede
    <2>3. i > 1
      BY <1>1, <1>3, <2>1, <2>2
    <2>4. i - 1 \in DOMAIN toClient' /\ toClient'[i - 1] = toClient[i] /\ i - 1 < j
      BY <1>1, <1>4, <2>2, <2>3
    <2> QED BY <2>2, <2>4 DEF IsOutput
  <1>5. \A j \in DOMAIN toClient' :
          /\ j \in Nat /\ j > 0 /\ j + 1 \in DOMAIN toClient /\ toClient'[j] = toClient[j + 1]
          /\ IsOutput(j)' <=> IsOutput(j + 1)
    BY <1>1 DEF IsOutput
  <1>6. ASSUME NEW j \in DOMAIN toClient', IsOutput(j)'
        PROVE  /\ toClient'[j].data \in k + 1 .. made
               /\ Precede(j, k, toClient[j].data - 1)'
    <2>1. toClient'[j].data \in n + 1 .. made /\ Precede(j + 1, n, toClient[j + 1].data - 1)
      BY <1>5, <1>6 DEF Continues
    <2>2. toClient[1].data < toClient[j + 1].data
      BY <1>1, <1>5, <1>6, SMTT(30) DEF Continues
    <2>3. PICK m : m = toClient[j + 1].data - 1
      OBVIOUS
    <2>4. Precede(j, k, m)'
      BY <1>4, <1>5, <2>1, <2>3
    <2>5. toClient'[j].data \in k + 1 .. made
      BY <1>2, <1>3, <1>5, <2>1, <2>2
    <2> QED BY <1>5, <2>3, <2>4, <2>5 DEF Precede
  <1>7. ASSUME NEW j \in DOMAIN toClient', toClient'[j].type = "exit"
        PROVE  Precede(j, k, made)'
    <2>1. Precede(j + 1, n, made)
      BY <1>5, <1>7 DEF Continues
    <2>2. PICK m : m = made
      OBVIOUS
    <2>3. Precede(j, k, m)'
      BY <1>4, <1>5, <2>1, <2>2
    <2> QED BY <2>2, <2>3 DEF Precede
  <1>8. ASSUME NEW i \in DOMAIN toClient', NEW j \in DOMAIN toClient',
               IsOutput(i)', IsOutput(j)', i < j
        PROVE  toClient'[i].data < toClient'[j].data
    BY <1>5, <1>8 DEF Continues
  <1>9. ASSUME up'
        PROVE  Precede(Len(toClient) + 1, k, made)'
    <2>1. PICK m : m = made
      OBVIOUS
    <2>2. PICK l \in Nat : l = Len(toClient) /\ l > 0
      BY <1>1
    <2>3. Precede(l, k, m)'
      BY <1>4, <1>9, <2>1, <2>2 DEF Continues
    <2> QED BY <1>1, <2>1, <2>2, <2>3 DEF Precede
  <1>10. Continues(k)'
    BY <1>6, <1>7, <1>8, <1>9 DEF Continues
  <1>11. k \in 0 .. made
    BY <1>1, <1>2, <1>3 DEF Continues, ShapeInv, Streams
  <1> QED BY <1>1, <1>2, <1>3, <1>10, <1>11

(* A frame is added, or the last are lost.                                 *)
LEMMA Lengthened ==
  ASSUME toClient \in Seq(Answers), NEW type, NEW data, Replied(type, data),
         [type |-> type, data |-> data] \in Answers
  PROVE  /\ Len(toClient) \in Nat /\ Len(toClient') = Len(toClient) + 1
         /\ DOMAIN toClient = 1 .. Len(toClient) /\ DOMAIN toClient' = 1 .. Len(toClient) + 1
         /\ \A j \in DOMAIN toClient : toClient'[j] = toClient[j] /\ j < Len(toClient) + 1
         /\ \A j \in DOMAIN toClient' :
              \/ j \in DOMAIN toClient /\ toClient'[j] = toClient[j]
              \/ /\ j = Len(toClient) + 1
                 /\ toClient'[j].type = type /\ toClient'[j].data = data
  BY AfterReplied

LEMMA Replying ==
  ASSUME ShapeInv, NEW n \in Nat, Continues(n), NEW type, NEW data, Replied(type, data),
         [type |-> type, data |-> data] \in Answers, type # "output",
         UNCHANGED <<up, made>>, up
  PROVE  Continues(n)'
  <1>1. /\ Len(toClient) \in Nat /\ Len(toClient') = Len(toClient) + 1
        /\ DOMAIN toClient = 1 .. Len(toClient) /\ DOMAIN toClient' = 1 .. Len(toClient) + 1
        /\ \A j \in DOMAIN toClient : toClient'[j] = toClient[j] /\ j < Len(toClient) + 1
        /\ \A j \in DOMAIN toClient' :
             \/ j \in DOMAIN toClient /\ toClient'[j] = toClient[j]
             \/ /\ j = Len(toClient) + 1
                /\ toClient'[j].type = type /\ toClient'[j].data = data
    BY Lengthened DEF ShapeInv, Streams
  <1>2. ASSUME NEW j \in Nat, NEW m, Precede(j, n, m)
        PROVE  \A l \in Nat : l >= j => Precede(l, n, m)'
    BY <1>1, <1>2 DEF Precede, IsOutput
  <1>3. PICK k \in Nat : k = Len(toClient) + 1
    BY <1>1
  <1>4. PICK c : c = made
    OBVIOUS
  <1>5. Precede(k, n, c)' /\ Precede(k + 1, n, c)'
    BY <1>2, <1>3, <1>4 DEF Continues
  <1>6. Precede(Len(toClient) + 1, n, made)'
    BY <1>1, <1>3, <1>4, <1>5 DEF Precede
  <1>7. ASSUME NEW j \in DOMAIN toClient', IsOutput(j)'
        PROVE  /\ j \in DOMAIN toClient /\ IsOutput(j) /\ toClient'[j] = toClient[j]
               /\ toClient'[j].data \in n + 1 .. made
               /\ Precede(j, n, toClient[j].data - 1)'
    <2>1. j \in DOMAIN toClient /\ IsOutput(j) /\ toClient'[j] = toClient[j] /\ j \in Nat
      BY <1>1, <1>7 DEF IsOutput
    <2>2. toClient[j].data \in n + 1 .. made /\ Precede(j, n, toClient[j].data - 1)
      BY <2>1 DEF Continues
    <2>3. PICK m : m = toClient[j].data - 1
      OBVIOUS
    <2>4. Precede(j, n, m)'
      BY <1>2, <2>1, <2>2, <2>3
    <2> QED BY <2>1, <2>2, <2>3, <2>4 DEF Precede
  <1>8. ASSUME NEW j \in DOMAIN toClient', toClient'[j].type = "exit"
        PROVE  Precede(j, n, made)'
    <2>1. CASE j \in DOMAIN toClient /\ toClient'[j] = toClient[j]
      <3>1. Precede(j, n, c) /\ j \in Nat
        BY <1>1, <1>4, <1>8, <2>1 DEF Continues
      <3>2. Precede(j, n, c)'
        BY <1>2, <3>1
      <3> QED BY <1>4, <3>2 DEF Precede
    <2>2. CASE j = k
      BY <1>4, <1>5, <2>2 DEF Precede
    <2> QED BY <1>1, <1>3, <2>1, <2>2
  <1>9. ASSUME NEW i \in DOMAIN toClient', NEW j \in DOMAIN toClient',
               IsOutput(i)', IsOutput(j)', i < j
        PROVE  toClient'[i].data < toClient'[j].data
    BY <1>7, <1>9 DEF Continues
  <1> QED BY <1>6, <1>7, <1>8, <1>9 DEF Continues

LEMMA Printing ==
  ASSUME ShapeInv, NEW n \in Nat, n <= made, Continues(n), Replied("output", made + 1),
         \A j \in DOMAIN toClient : toClient[j].type # "exit",
         made' = made + 1, up
  PROVE  Continues(n)'
  <1>1. /\ Len(toClient) \in Nat /\ Len(toClient') = Len(toClient) + 1
        /\ DOMAIN toClient = 1 .. Len(toClient) /\ DOMAIN toClient' = 1 .. Len(toClient) + 1
        /\ \A j \in DOMAIN toClient : toClient'[j] = toClient[j] /\ j < Len(toClient) + 1
        /\ \A j \in DOMAIN toClient' :
             \/ j \in DOMAIN toClient /\ toClient'[j] = toClient[j]
             \/ /\ j = Len(toClient) + 1
                /\ toClient'[j].type = "output" /\ toClient'[j].data = made + 1
        /\ made \in Nat /\ toClient \in Seq(Answers)
    <2>1. [type |-> "output", data |-> made + 1] \in Answers /\ made \in Nat
          /\ toClient \in Seq(Answers)
      BY DEF ShapeInv, Streams, Answers
    <2> QED BY <2>1, Lengthened
  <1>2. ASSUME NEW j \in Nat, NEW m, Precede(j, n, m)
        PROVE  \A l \in Nat : l >= j => Precede(l, n, m)'
    BY <1>1, <1>2 DEF Precede, IsOutput
  <1>3. PICK k \in Nat : k = Len(toClient) + 1 /\ k \in DOMAIN toClient'
    BY <1>1
  <1>4. PICK c \in Nat : c = made
    BY <1>1
  <1>5. Precede(k, n, c)'
    BY <1>2, <1>3, <1>4 DEF Continues
  <1>6. toClient'[k].type = "output" /\ toClient'[k].data = c + 1
    BY <1>1, <1>3, <1>4
  <1>7. Precede(Len(toClient) + 1, n, made)'
    <2> SUFFICES ASSUME NEW v \in n + 1 .. c + 1
                 PROVE  \E i \in DOMAIN toClient' :
                          i < k + 1 /\ IsOutput(i)' /\ toClient'[i].data = v
      BY <1>1, <1>3, <1>4 DEF Precede
    <2>1. CASE v = c + 1
      BY <1>3, <1>6, <2>1 DEF IsOutput
    <2>2. CASE v \in n + 1 .. c
      <3>1. PICK i \in DOMAIN toClient' : i < k /\ IsOutput(i)' /\ toClient'[i].data = v
        BY <1>5, <2>2 DEF Precede
      <3> QED BY <1>1, <1>3, <3>1
    <2> QED BY <1>4, <2>1, <2>2
  <1>8. \A j \in DOMAIN toClient' :
          \/ /\ j \in DOMAIN toClient /\ toClient'[j] = toClient[j] /\ j \in Nat /\ j < k
             /\ IsOutput(j)' <=> IsOutput(j)
          \/ j = k
    BY <1>1, <1>3 DEF IsOutput
  <1>9. ASSUME NEW j \in DOMAIN toClient', IsOutput(j)'
        PROVE  /\ toClient'[j].data \in n + 1 .. c + 1
               /\ j # k => toClient'[j].data \in n + 1 .. c
               /\ \E m : m = toClient'[j].data - 1 /\ Precede(j, n, m)'
    <2>1. CASE j = k
      <3>1. toClient'[j].data - 1 = c
        BY <1>4, <1>6, <2>1
      <3>2. toClient'[j].data \in n + 1 .. c + 1
        BY <1>4, <1>6, <2>1
      <3> QED BY <1>5, <2>1, <3>1, <3>2
    <2>2. CASE /\ j \in DOMAIN toClient /\ toClient'[j] = toClient[j] /\ j \in Nat
               /\ IsOutput(j)
      <3>1. toClient[j].data \in n + 1 .. made /\ Precede(j, n, toClient[j].data - 1)
        BY <2>2 DEF Continues
      <3>2. PICK m : m = toClient[j].data - 1
        OBVIOUS
      <3>3. Precede(j, n, m)'
        BY <1>2, <2>2, <3>1, <3>2
      <3> QED BY <1>4, <2>2, <3>1, <3>2, <3>3
    <2> QED BY <1>8, <1>9, <2>1, <2>2
  <1>10. ASSUME NEW j \in DOMAIN toClient', IsOutput(j)'
         PROVE  Precede(j, n, toClient[j].data - 1)'
    <2>1. PICK m : m = toClient'[j].data - 1 /\ Precede(j, n, m)'
      BY <1>9, <1>10
    <2> QED BY <2>1 DEF Precede
  <1>11. ASSUME NEW i \in DOMAIN toClient', NEW j \in DOMAIN toClient',
                IsOutput(i)', IsOutput(j)', i < j
         PROVE  toClient'[i].data < toClient'[j].data
    <2>1. i # k /\ IsOutput(i) /\ i \in DOMAIN toClient /\ toClient'[i] = toClient[i]
      BY <1>1, <1>3, <1>8, <1>11
    <2>2. CASE j = k
      BY <1>4, <1>6, <1>9, <1>11, <2>1, <2>2
    <2>3. CASE j # k
      BY <1>8, <1>11, <2>1, <2>3 DEF Continues
    <2> QED BY <2>2, <2>3
  <1>12. \A j \in DOMAIN toClient' : toClient'[j].type # "exit"
    BY <1>1
  <1> QED BY <1>4, <1>7, <1>9, <1>10, <1>11, <1>12 DEF Continues

LEMMA Cutting ==
  ASSUME ShapeInv, NEW n \in Nat, Continues(n), Cut, up' = FALSE, UNCHANGED made
  PROVE  Continues(n)'
  <1>1. /\ DOMAIN toClient' \subseteq DOMAIN toClient
        /\ \A j \in DOMAIN toClient' : toClient'[j] = toClient[j]
        /\ \A j \in DOMAIN toClient' : \A i \in DOMAIN toClient : i < j => i \in DOMAIN toClient'
    <2>1. /\ DOMAIN toClient = 1 .. Len(toClient) /\ DOMAIN toClient' = 1 .. Len(toClient')
          /\ Len(toClient') <= Len(toClient) /\ Len(toClient) \in Nat /\ Len(toClient') \in Nat
          /\ \A j \in 1 .. Len(toClient') : toClient'[j] = toClient[j]
      BY AfterCut DEF ShapeInv, Streams
    <2> QED BY <2>1
  <1>2. ASSUME NEW j \in DOMAIN toClient', NEW m, Precede(j, n, m)
        PROVE  Precede(j, n, m)'
    BY <1>1, <1>2 DEF Precede, IsOutput
  <1>3. ASSUME NEW j \in DOMAIN toClient', IsOutput(j)'
        PROVE  /\ toClient'[j].data \in n + 1 .. made
               /\ Precede(j, n, toClient[j].data - 1)'
    <2>1. PICK m : m = toClient[j].data - 1
      OBVIOUS
    <2>2. j \in DOMAIN toClient /\ IsOutput(j) /\ toClient'[j] = toClient[j]
      BY <1>1, <1>3 DEF IsOutput
    <2>3. Precede(j, n, m)'
      BY <1>2, <2>1, <2>2 DEF Continues
    <2> QED BY <2>1, <2>2, <2>3 DEF Continues, Precede
  <1>4. ASSUME NEW j \in DOMAIN toClient', toClient'[j].type = "exit"
        PROVE  Precede(j, n, made)'
    <2>1. PICK m : m = made
      OBVIOUS
    <2>2. Precede(j, n, m)
      BY <1>1, <1>4, <2>1 DEF Continues
    <2>3. Precede(j, n, m)'
      BY <1>2, <2>2
    <2> QED BY <2>1, <2>3 DEF Precede
  <1>5. \A i, j \in DOMAIN toClient' :
          IsOutput(i)' /\ IsOutput(j)' /\ i < j => toClient'[i].data < toClient'[j].data
    BY <1>1 DEF Continues, IsOutput
  <1> QED BY <1>3, <1>4, <1>5 DEF Continues

LEMMA Staying ==
  ASSUME Flags, NEW n, Continues(n), UNCHANGED <<toClient, made>>, up' = up \/ up' = FALSE
  PROVE  Continues(n)'
  BY DEF Continues, Precede, IsOutput, Flags

-----------------------------------------------------------------------------
(***************************************************************************)
(* The end.                                                                *)
(***************************************************************************)
EndInv ==
  /\ \A j \in DOMAIN toClient :
       toClient[j].type = "exit" => remote = "exited" /\ toClient[j].data = exitCode
  /\ pendingExit # NoCode => remote = "exited" /\ pendingExit = exitCode
  /\ result \in Codes =>
       /\ remote = "exited" /\ result = exitCode
       /\ reviewed => admitted = "exact"

FailInv ==
  /\ \A j \in DOMAIN toClient : toClient[j].type = "error" => refused
  /\ reviewed /\ ~refused /\ pc # "ended" =>
       /\ \A i, j \in DOMAIN toClient : Ready(i) /\ Ready(j) => i = j
       /\ session \/ admitted = "no" => \A i \in DOMAIN toClient : ~Ready(i)
  /\ OnlyFailuresFail

EndsInv == OutputInv /\ EndInv /\ FailInv

(* What the main goroutine does with a frame, in the terms of its end. *)
Goes ==
  /\ pc = "reading" /\ Taken
  /\ UNCHANGED <<reviewed, remote, exitCode, made, admitted, refused, broken>>
  /\ up' = up \/ up' = FALSE

TakesReady ==
  /\ Goes /\ Head(toClient).type = "ready" /\ UNCHANGED <<pendingExit, printed>>
  /\ \/ ~reviewed /\ UNCHANGED <<pc, session, started, result>>
     \/ /\ reviewed /\ (started \/ Head(toClient).data # "exact")
        /\ pc' = "ended" /\ result' = "error" /\ UNCHANGED <<session, started>>
     \/ /\ reviewed /\ ~started /\ session' = TRUE
        /\ \/ /\ pendingExit # NoCode /\ pc' = "ended" /\ result' = pendingExit
              /\ UNCHANGED started
           \/ /\ pendingExit = NoCode /\ started' = TRUE /\ UNCHANGED <<pc, result>>

TakesOutput ==
  /\ Goes /\ Head(toClient).type = "output"
  /\ printed' = Append(printed, Head(toClient).data)
  /\ UNCHANGED <<pc, session, started, pendingExit, result, up>>

TakesError ==
  /\ Goes /\ Head(toClient).type = "error"
  /\ UNCHANGED <<session, started, pendingExit, printed>>
  /\ \/ pc' = "ended" /\ result' = "error"
     \/ UNCHANGED <<pc, result>>

TakesExit ==
  /\ Goes /\ Head(toClient).type = "exit"
  /\ UNCHANGED <<session, started, printed>>
  /\ \/ /\ pendingExit' = Head(toClient).data
        /\ UNCHANGED <<pc, result>>
     \/ /\ ~(reviewed /\ ~started)
        /\ pc' = "ended" /\ result' = Head(toClient).data /\ UNCHANGED pendingExit

GivesUp ==
  /\ pc = "reading" /\ pc' = "ended" /\ result' = "error" /\ up' = FALSE
  /\ ~up \/ (reviewed /\ ~started)
  /\ UNCHANGED <<reviewed, remote, exitCode, made, admitted, refused, broken, toClient, session,
                 started, pendingExit, printed>>

(* Everything else that happens on this side. *)
Elsewhere ==
  /\ UNCHANGED <<reviewed, remote, exitCode, made, admitted, refused, broken, toClient, session,
                 pendingExit, printed, result>>
  /\ started' = started \/ (pc = "dialed" /\ started' = ~reviewed)
  /\ pc' \in {pc, "ended"} \/ (pc = "dialed" /\ pc' = "reading")
  /\ up' = up \/ up' = FALSE

Starts ==
  /\ remote = "none" /\ remote' = "running"
  /\ UNCHANGED <<reviewed, exitCode, made, admitted, refused, broken, toClient, session,
                 started, pendingExit, printed, result, pc, up>>

Responds ==
  /\ up
  /\ UNCHANGED <<reviewed, pc, session, started, pendingExit, printed, result, broken>>
  /\ \/ \E verdict \in {"exact", "other"} : Admits(verdict)
     \/ Refuses
     \/ Prints
     \/ \E code \in Codes : Exits(code)

Breaks ==
  /\ up' = FALSE /\ broken' = TRUE /\ Cut
  /\ UNCHANGED <<reviewed, pc, session, started, pendingExit, printed, result, admitted, remote,
                 exitCode, made, refused>>

LEMMA Moves ==
  ASSUME ShapeInv, PhaseInv, [Next]_vars
  PROVE  \/ TakesReady
         \/ TakesOutput
         \/ TakesError
         \/ TakesExit
         \/ GivesUp
         \/ Elsewhere
         \/ Starts
         \/ Responds
         \/ Breaks
  <1> USE DEF Quiet, relay, EndWith, FinishExit
  <1>1. CASE UNCHANGED vars
    BY <1>1 DEF vars, client, world, Elsewhere
  <1>2. CASE Open
    BY <1>2 DEF Open, world, Elsewhere
  <1>3. CASE ReadReady
    <2>1. pc = "reading" /\ Taken /\ Head(toClient).type = "ready"
          /\ UNCHANGED <<reviewed, remote, exitCode, made, admitted, refused, broken>>
      BY <1>3 DEF ReadReady, Arrives, Taken
    <2>2. CASE ~reviewed
      BY <1>3, <2>1, <2>2 DEF ReadReady, client, TakesReady, Goes
    <2>3. CASE reviewed /\ (started \/ Head(toClient).data # "exact")
      BY <1>3, <2>1, <2>3 DEF ReadReady, TakesReady, Goes
    <2>4. CASE reviewed /\ ~(started \/ Head(toClient).data # "exact") /\ pendingExit # NoCode
      BY <1>3, <2>1, <2>4 DEF ReadReady, TakesReady, Goes
    <2>5. CASE reviewed /\ ~(started \/ Head(toClient).data # "exact") /\ pendingExit = NoCode
      BY <1>3, <2>1, <2>5 DEF ReadReady, StartIO, TakesReady, Goes
    <2> QED BY <2>2, <2>3, <2>4, <2>5
  <1>4. CASE ReadOutput
    BY <1>4 DEF ReadOutput, Arrives, Taken, Goes, TakesOutput
  <1>5. CASE ReadError
    BY <1>5 DEF ReadError, Arrives, Taken, Goes, TakesError
  <1>6. CASE ReadExit
    BY <1>6 DEF ReadExit, Arrives, Taken, Goes, TakesExit
  <1>7. CASE ReadFails \/ Deadline
    BY <1>7 DEF ReadFails, Deadline, PhaseInv, GivesUp
  <1>8. CASE PumpRead
    BY <1>8, Typing DEF Elsewhere
  <1>9. CASE Writing
    BY <1>9, WhatIsWritten DEF Elsewhere
  <1>10. CASE Interrupt
    BY <1>10, Interrupting DEF Elsewhere
  <1>11. CASE RelayReceive
    BY <1>11, Receiving DEF Starts
  <1>12. CASE Answering
    BY <1>12, WhatIsAnswered DEF Responds
  <1>13. CASE Break
    BY <1>13, Breaking DEF Breaks
  <1> QED
    BY <1>1, <1>2, <1>3, <1>4, <1>5, <1>6, <1>7, <1>8, <1>9, <1>10, <1>11, <1>12, <1>13
    DEF Next, Main, Goroutines, World, Writing, Answering

LEMMA OutputStep ==
  ASSUME ShapeInv, PhaseInv, OutputInv, EndInv, [Next]_vars
  PROVE  OutputInv'
  <1>1. PICK n \in 0 .. made :
          /\ printed = [i \in 1 .. n |-> i]
          /\ Continues(n)
          /\ pendingExit # NoCode \/ result \in Codes => n = made
    BY DEF OutputInv
  <1>2. /\ made \in Nat /\ n \in Nat /\ n <= made
        /\ "none" \notin Codes /\ "error" \notin Codes /\ NoCode \notin Codes
        /\ pc # "ended" => result = "none"
    BY ZeroIsACode DEF ShapeInv, Streams, PhaseInv
  <1>3. ASSUME NEW k \in 0 .. made', printed' = [i \in 1 .. k |-> i], Continues(k)',
               pendingExit' # NoCode \/ result' \in Codes => k = made'
        PROVE  OutputInv'
    <2>1. (printed = [i \in 1 .. k |-> i])'
      BY <1>3
    <2> QED BY <1>3, <2>1 DEF OutputInv
  <1>4. CASE TakesReady \/ TakesError
    <2>1. /\ Taken /\ UNCHANGED <<made, printed, pendingExit>> /\ (up' = up \/ up' = FALSE)
          /\ toClient[1] = Head(toClient) /\ Head(toClient).type # "output"
          /\ \/ result' \notin Codes
             \/ result' = pendingExit /\ pendingExit # NoCode
      BY <1>2, <1>4, AfterTaken DEF TakesReady, TakesError, Goes, ShapeInv, Streams
    <2>2. Continues(n)'
      BY <1>1, <1>2, <2>1, TakenOther DEF IsOutput
    <2> QED BY <1>1, <1>3, <2>1, <2>2
  <1>5. CASE TakesExit
    <2>1. /\ Taken /\ UNCHANGED <<made, printed>> /\ (up' = up \/ up' = FALSE)
          /\ toClient[1] = Head(toClient) /\ Head(toClient).type = "exit" /\ 1 \in DOMAIN toClient
      BY <1>5, AfterTaken DEF TakesExit, Goes, ShapeInv, Streams
    <2>2. Continues(n)'
      BY <1>1, <1>2, <2>1, TakenOther DEF IsOutput
    <2>3. \A v \in n + 1 .. made : FALSE
      BY <1>1, <2>1, SMTT(30) DEF Continues, Precede, ShapeInv, Streams
    <2>4. n = made
      BY <1>2, <2>3
    <2> QED BY <1>1, <1>3, <2>1, <2>2, <2>4
  <1>6. CASE TakesOutput
    <2>1. /\ Taken /\ UNCHANGED <<made, up, pendingExit, result>>
          /\ printed' = Append(printed, Head(toClient).data)
          /\ toClient[1] = Head(toClient) /\ Head(toClient).type = "output"
      BY <1>6, AfterTaken DEF TakesOutput, Goes, ShapeInv, Streams
    <2>2. Head(toClient).data = n + 1 /\ n + 1 \in 0 .. made /\ Continues(n + 1)'
      BY <1>1, <1>2, <2>1, TakenOutput DEF IsOutput
    <2>3. printed' = [i \in 1 .. n + 1 |-> i]
      BY <1>1, <1>2, <2>1, <2>2
    <2>4. ~(pendingExit # NoCode \/ result \in Codes)
      BY <1>1, <1>2, <2>2
    <2>5. PICK k \in Nat : k = n + 1
      BY <1>2
    <2>6. Continues(k)' /\ printed' = [i \in 1 .. k |-> i] /\ k \in 0 .. made'
      BY <2>1, <2>2, <2>3, <2>5
    <2> QED BY <1>3, <2>1, <2>4, <2>6
  <1>7. CASE GivesUp \/ Elsewhere \/ Starts
    <2>1. /\ UNCHANGED <<toClient, made, printed, pendingExit>> /\ (up' = up \/ up' = FALSE)
          /\ result' = result \/ result' \notin Codes
      BY <1>2, <1>7 DEF GivesUp, Elsewhere, Starts
    <2>2. Continues(n)'
      BY <1>1, <2>1, Staying DEF ShapeInv
    <2> QED BY <1>1, <1>3, <2>1, <2>2
  <1>8. CASE Responds
    <2>1. /\ up /\ UNCHANGED <<printed, pendingExit, result>>
          /\ \/ \E verdict \in {"exact", "other"} : Admits(verdict)
             \/ Refuses
             \/ Prints
             \/ \E code \in Codes : Exits(code)
      BY <1>8 DEF Responds
    <2>2. /\ \A verdict \in {"exact", "other"} :
               [type |-> "ready", data |-> verdict] \in Answers
          /\ [type |-> "error", data |-> 0] \in Answers
          /\ \A code \in Codes : [type |-> "exit", data |-> code] \in Answers
      BY DEF Answers
    <2>3. CASE Continues(n)' /\ UNCHANGED made
      BY <1>1, <1>3, <2>1, <2>3
    <2>4. ASSUME NEW verdict \in {"exact", "other"}, Admits(verdict)
          PROVE  Continues(n)' /\ UNCHANGED made
      BY <1>1, <1>2, <2>1, <2>2, <2>4, Replying DEF Admits
    <2>5. CASE Refuses
      <3>1. CASE up' = FALSE /\ UNCHANGED toClient
        BY <1>1, <2>5, <3>1, <2>3, Staying DEF Refuses, ShapeInv
      <3>2. CASE Replied("error", 0) /\ UNCHANGED up
        BY <1>1, <1>2, <2>1, <2>2, <2>3, <2>5, <3>2, Replying DEF Refuses
      <3>3. CASE Replied("ready", "exact") /\ UNCHANGED up
        BY <1>1, <1>2, <2>1, <2>2, <2>3, <2>5, <3>3, Replying DEF Refuses
      <3> QED BY <2>5, <3>1, <3>2, <3>3 DEF Refuses
    <2>6. CASE Prints
      <3>1. /\ remote = "running" /\ made' = made + 1 /\ Replied("output", made + 1)
        BY <2>6 DEF Prints
      <3>2. /\ \A j \in DOMAIN toClient : toClient[j].type # "exit"
            /\ pendingExit = NoCode /\ result \notin Codes
        BY <3>1 DEF EndInv
      <3>3. Continues(n)'
        BY <1>1, <1>2, <2>1, <3>1, <3>2, Printing
      <3>4. n \in 0 .. made'
        BY <1>2, <3>1
      <3> QED BY <1>1, <1>3, <2>1, <3>2, <3>3, <3>4
    <2>7. ASSUME NEW code \in Codes, Exits(code)
          PROVE  Continues(n)' /\ UNCHANGED made
      BY <1>1, <1>2, <2>1, <2>2, <2>7, Replying DEF Exits
    <2> QED BY <2>1, <2>3, <2>4, <2>5, <2>6, <2>7
  <1>9. CASE Breaks
    <2>1. Cut /\ up' = FALSE /\ UNCHANGED <<printed, pendingExit, result, made>>
      BY <1>9 DEF Breaks
    <2>2. Continues(n)'
      BY <1>1, <1>2, <2>1, Cutting
    <2> QED BY <1>1, <1>3, <2>1, <2>2
  <1> QED BY <1>4, <1>5, <1>6, <1>7, <1>8, <1>9, Moves

(* What is left of the frames, once the first is taken or the last are     *)
(* lost.                                                                   *)
LEMMA Left ==
  ASSUME ShapeInv, Taken \/ Cut \/ UNCHANGED toClient
  PROVE  /\ \A j \in DOMAIN toClient' :
              \E i \in DOMAIN toClient : toClient'[j] = toClient[i] /\ (Taken => i # 1)
         /\ (\A i, j \in DOMAIN toClient : Ready(i) /\ Ready(j) => i = j) =>
              \A i, j \in DOMAIN toClient' : Ready(i)' /\ Ready(j)' => i = j
  <1>1. CASE Taken
    <2>1. /\ DOMAIN toClient = 1 .. Len(toClient) /\ DOMAIN toClient' = 1 .. Len(toClient) - 1
          /\ \A j \in 1 .. Len(toClient) - 1 : toClient'[j] = toClient[j + 1]
          /\ Len(toClient) \in Nat
      BY <1>1, AfterTaken DEF ShapeInv, Streams
    <2>2. \A j \in DOMAIN toClient' :
            /\ j \in Nat /\ j + 1 \in DOMAIN toClient /\ j + 1 # 1
            /\ toClient'[j] = toClient[j + 1]
      BY <2>1
    <2> QED BY <2>2 DEF Ready
  <1>2. CASE Cut /\ ~Taken
    <2>1. /\ DOMAIN toClient = 1 .. Len(toClient) /\ DOMAIN toClient' = 1 .. Len(toClient')
          /\ Len(toClient') <= Len(toClient) /\ Len(toClient) \in Nat /\ Len(toClient') \in Nat
          /\ \A j \in 1 .. Len(toClient') : toClient'[j] = toClient[j]
      BY <1>2, AfterCut DEF ShapeInv, Streams
    <2>2. \A j \in DOMAIN toClient' : j \in DOMAIN toClient /\ toClient'[j] = toClient[j]
      BY <2>1
    <2> QED BY <1>2, <2>2 DEF Ready
  <1>3. CASE UNCHANGED toClient /\ ~Taken
    BY <1>3 DEF Ready
  <1> QED BY <1>1, <1>2, <1>3

(* Nothing but the frames taken or lost, and what follows from the rest.   *)
LEMMA EndKept ==
  ASSUME ShapeInv, EndInv, Taken \/ Cut \/ UNCHANGED toClient,
         remote = "exited" => remote' = "exited" /\ exitCode' = exitCode,
         UNCHANGED <<reviewed, pendingExit>>, admitted' = admitted,
         result' = result \/ result' \notin Codes
  PROVE  EndInv'
  <1>1. \A j \in DOMAIN toClient' : \E i \in DOMAIN toClient : toClient'[j] = toClient[i]
    BY Left
  <1> QED BY <1>1 DEF EndInv

LEMMA EndStep ==
  ASSUME ShapeInv, PhaseInv, AdmissionInv, EndInv, [Next]_vars
  PROVE  EndInv'
  <1>1. /\ "none" \notin Codes /\ "error" \notin Codes /\ NoCode \notin Codes
        /\ pc # "ended" => result = "none"
        /\ toClient \in Seq(Answers) /\ reviewed \in BOOLEAN /\ started \in BOOLEAN
        /\ pendingExit \in Codes \cup {NoCode}
    BY ZeroIsACode DEF PhaseInv, ShapeInv, Streams, Flags, Endings
  <1>2. AdmissionInv'
    BY AdmissionStep
  <1>3. CASE TakesReady
    <2>1. Taken /\ UNCHANGED <<reviewed, remote, exitCode, admitted, pendingExit>>
      BY <1>3 DEF TakesReady, Goes
    <2>2. \A j \in DOMAIN toClient' : \E i \in DOMAIN toClient : toClient'[j] = toClient[i]
      BY <2>1, Left
    <2>3. CASE result' = result \/ result' \notin Codes
      BY <1>1, <2>1, <2>3, EndKept
    <2>4. CASE reviewed /\ session' = TRUE /\ pendingExit # NoCode /\ result' = pendingExit
      <3>1. admitted' = "exact"
        BY <1>2, <2>1, <2>4 DEF AdmissionInv
      <3> QED BY <2>1, <2>2, <2>4, <3>1 DEF EndInv
    <2> QED BY <1>1, <1>3, <2>3, <2>4 DEF TakesReady
  <1>4. CASE TakesOutput \/ TakesError \/ GivesUp \/ Elsewhere \/ Starts
    <2>1. /\ Taken \/ UNCHANGED toClient
          /\ remote = "exited" => remote' = "exited" /\ exitCode' = exitCode
          /\ UNCHANGED <<reviewed, pendingExit, admitted>>
          /\ result' = result \/ result' \notin Codes
      BY <1>1, <1>4 DEF TakesOutput, TakesError, GivesUp, Elsewhere, Starts, Goes
    <2> QED BY <2>1, EndKept
  <1>5. CASE TakesExit
    <2>1. /\ Taken /\ UNCHANGED <<reviewed, remote, exitCode, admitted, started, session>>
          /\ 1 \in DOMAIN toClient /\ toClient[1] = Head(toClient) /\ Head(toClient).type = "exit"
      BY <1>1, <1>5, AfterTaken DEF TakesExit, Goes
    <2>2. remote = "exited" /\ Head(toClient).data = exitCode
      BY <2>1 DEF EndInv
    <2>3. \A j \in DOMAIN toClient' : \E i \in DOMAIN toClient : toClient'[j] = toClient[i]
      BY <2>1, Left
    <2>4. CASE pendingExit' = Head(toClient).data /\ UNCHANGED result
      BY <2>1, <2>2, <2>3, <2>4 DEF EndInv
    <2>5. CASE ~(reviewed /\ ~started) /\ result' = Head(toClient).data /\ UNCHANGED pendingExit
      <3>1. reviewed => admitted = "exact"
        BY <1>1, <2>5 DEF PhaseInv, AdmissionInv
      <3> QED BY <2>1, <2>2, <2>3, <2>5, <3>1 DEF EndInv
    <2> QED BY <1>5, <2>4, <2>5 DEF TakesExit
  <1>6. CASE Responds
    <2>1. /\ up /\ UNCHANGED <<reviewed, pendingExit, result>>
          /\ \/ \E verdict \in {"exact", "other"} : Admits(verdict)
             \/ Refuses
             \/ Prints
             \/ \E code \in Codes : Exits(code)
      BY <1>6 DEF Responds
    <2>2. result = "none"
      BY <1>1, <2>1 DEF PhaseInv
    <2>3. ASSUME NEW type, NEW data, Replied(type, data), type # "exit",
                 [type |-> type, data |-> data] \in Answers, UNCHANGED <<remote, exitCode>>
          PROVE  EndInv'
      <3>1. \A j \in DOMAIN toClient' :
              \/ j \in DOMAIN toClient /\ toClient'[j] = toClient[j]
              \/ toClient'[j].type = type
        BY <1>1, <2>3, Lengthened
      <3> QED BY <1>1, <2>1, <2>2, <2>3, <3>1 DEF EndInv
    <2>4. /\ \A verdict \in {"exact", "other"} :
               [type |-> "ready", data |-> verdict] \in Answers
          /\ [type |-> "error", data |-> 0] \in Answers
          /\ [type |-> "output", data |-> made + 1] \in Answers
          /\ \A code \in Codes : [type |-> "exit", data |-> code] \in Answers
      BY DEF Answers, ShapeInv, Streams
    <2>5. ASSUME NEW verdict \in {"exact", "other"}, Admits(verdict)
          PROVE  EndInv'
      BY <2>3, <2>4, <2>5 DEF Admits
    <2>6. CASE Refuses
      <3>1. CASE UNCHANGED toClient
        BY <2>1, <2>6, <3>1, EndKept DEF Refuses
      <3> QED BY <2>3, <2>4, <2>6, <3>1 DEF Refuses
    <2>7. CASE Prints
      BY <2>3, <2>4, <2>7 DEF Prints
    <2>8. ASSUME NEW code \in Codes, Exits(code)
          PROVE  EndInv'
      <3>1. remote = "running" /\ remote' = "exited" /\ exitCode' = code /\ Replied("exit", code)
        BY <2>8 DEF Exits
      <3>2. \A j \in DOMAIN toClient' :
              \/ j \in DOMAIN toClient /\ toClient'[j] = toClient[j]
              \/ toClient'[j].type = "exit" /\ toClient'[j].data = code
        BY <1>1, <2>4, <3>1, Lengthened
      <3>3. \A j \in DOMAIN toClient' : toClient'[j].type = "exit" => toClient'[j].data = code
        BY <3>1, <3>2 DEF EndInv
      <3> QED BY <1>1, <2>1, <2>2, <3>1, <3>3 DEF EndInv
    <2> QED BY <2>1, <2>5, <2>6, <2>7, <2>8
  <1>7. CASE Breaks
    <2>1. Cut /\ UNCHANGED <<reviewed, pendingExit, result, admitted, remote, exitCode>>
      BY <1>7 DEF Breaks
    <2> QED BY <2>1, EndKept
  <1> QED BY <1>3, <1>4, <1>5, <1>6, <1>7, Moves

(* A session fails.                                                        *)
LEMMA FailKept ==
  ASSUME ShapeInv, FailInv, Taken \/ Cut \/ UNCHANGED toClient,
         UNCHANGED <<reviewed, session, admitted>>,
         refused => refused', broken => broken',
         started' = started \/ ~reviewed \/ result # "error",
         pc = "ended" => pc' = "ended",
         result' = "error" => result = "error" \/ (reviewed /\ ~started') \/ refused' \/ broken'
  PROVE  FailInv'
  <1>1. /\ \A j \in DOMAIN toClient' : \E i \in DOMAIN toClient : toClient'[j] = toClient[i]
        /\ (\A i, j \in DOMAIN toClient : Ready(i) /\ Ready(j) => i = j) =>
              \A i, j \in DOMAIN toClient' : Ready(i)' /\ Ready(j)' => i = j
    BY Left
  <1>2. \A j \in DOMAIN toClient' : toClient'[j].type = "error" => refused'
    BY <1>1 DEF FailInv
  <1>3. ASSUME reviewed', ~refused', pc' # "ended"
        PROVE  /\ \A i, j \in DOMAIN toClient' : Ready(i)' /\ Ready(j)' => i = j
               /\ session' \/ admitted' = "no" => \A i \in DOMAIN toClient' : ~Ready(i)'
    <2>1. /\ \A i, j \in DOMAIN toClient : Ready(i) /\ Ready(j) => i = j
          /\ session \/ admitted = "no" => \A i \in DOMAIN toClient : ~Ready(i)
      BY <1>3 DEF FailInv
    <2> QED BY <1>1, <2>1 DEF Ready
  <1>4. OnlyFailuresFail'
    BY DEF FailInv, OnlyFailuresFail
  <1> QED BY <1>2, <1>3, <1>4 DEF FailInv

LEMMA FailStep ==
  ASSUME ShapeInv, PhaseInv, AdmissionInv, FailInv, [Next]_vars
  PROVE  FailInv'
  <1>1. /\ "none" \notin Codes /\ "error" \notin Codes /\ NoCode \notin Codes
        /\ pc # "ended" => result = "none"
        /\ toClient \in Seq(Answers) /\ reviewed \in BOOLEAN /\ started \in BOOLEAN
        /\ pendingExit \in Codes \cup {NoCode}
    BY ZeroIsACode DEF PhaseInv, ShapeInv, Streams, Flags, Endings
  <1>2. ASSUME Taken
        PROVE  /\ 1 \in DOMAIN toClient /\ toClient[1] = Head(toClient)
               /\ Head(toClient).type = "exit" => Head(toClient).data \in Codes
    <2>1. 1 \in DOMAIN toClient /\ toClient[1] = Head(toClient) /\ toClient[1] \in Answers
      BY <1>1, <1>2, AfterTaken
    <2> QED BY <2>1, AnswerTypes
  <1>3. CASE TakesReady
    <2>1. /\ Taken /\ pc = "reading" /\ result = "none"
          /\ UNCHANGED <<reviewed, admitted, refused, broken>>
          /\ Ready(1)
      BY <1>1, <1>2, <1>3 DEF TakesReady, Goes, Ready
    <2>2. CASE ~reviewed /\ UNCHANGED <<pc, session, started, result>>
      BY <1>1, <2>1, <2>2, FailKept
    <2>3. CASE /\ reviewed /\ pc' = "ended" /\ result' = "error" /\ UNCHANGED <<session, started>>
      <3>1. started => refused
        BY <1>2, <2>1, <2>3 DEF FailInv, PhaseInv
      <3> QED BY <2>1, <2>3, <3>1, FailKept
    <2>4. CASE reviewed /\ ~started /\ session' = TRUE
      <3>1. /\ \A j \in DOMAIN toClient' :
                 \E i \in DOMAIN toClient : toClient'[j] = toClient[i] /\ i # 1
            /\ 1 \in DOMAIN toClient
        BY <1>2, <2>1, Left
      <3>2. \A j \in DOMAIN toClient' : toClient'[j].type = "error" => refused'
        BY <2>1, <3>1 DEF FailInv
      <3>3. ~refused => \A j \in DOMAIN toClient' : ~Ready(j)'
        BY <2>1, <2>4, <3>1 DEF FailInv, Ready
      <3>4. result' # "error"
        <4>1. session # TRUE
          BY <2>1, <2>4 DEF PhaseInv
        <4> QED BY <1>1, <1>3, <2>1, <2>4, <4>1 DEF TakesReady
      <3> QED BY <2>1, <3>2, <3>3, <3>4 DEF FailInv, OnlyFailuresFail
    <2> QED BY <1>3, <2>2, <2>3, <2>4 DEF TakesReady
  <1>4. CASE TakesError
    <2>1. /\ Taken /\ pc = "reading" /\ result = "none"
          /\ UNCHANGED <<reviewed, admitted, session, started, refused, broken>>
          /\ Head(toClient).type = "error"
      BY <1>1, <1>4 DEF TakesError, Goes
    <2>2. refused
      BY <1>2, <2>1 DEF FailInv
    <2> QED BY <2>1, <2>2, FailKept
  <1>5. CASE TakesOutput \/ TakesExit
    <2>1. /\ Taken /\ pc = "reading" /\ result = "none"
          /\ UNCHANGED <<reviewed, admitted, session, started, refused, broken>>
          /\ result' # "error"
      BY <1>1, <1>2, <1>5 DEF TakesOutput, TakesExit, Goes
    <2> QED BY <2>1, FailKept
  <1>6. CASE GivesUp
    <2>1. /\ UNCHANGED <<toClient, reviewed, admitted, session, started, refused, broken>>
          /\ pc = "reading" /\ pc' = "ended"
          /\ (reviewed /\ ~started') \/ refused' \/ broken'
      BY <1>6 DEF GivesUp, PhaseInv
    <2> QED BY <2>1, FailKept
  <1>7. CASE Elsewhere
    <2>1. /\ UNCHANGED <<toClient, reviewed, admitted, session, refused, broken, result>>
          /\ started' = started \/ result # "error"
      BY <1>1, <1>7 DEF Elsewhere
    <2>2. CASE pc = "ended" => pc' = "ended"
      BY <2>1, <2>2, FailKept
    <2>3. pc = "ended" => pc' = "ended"
      BY <1>7 DEF Elsewhere
    <2> QED BY <2>2, <2>3
  <1>8. CASE Starts
    BY <1>8, FailKept DEF Starts
  <1>9. CASE Responds
    <2>1. /\ up /\ UNCHANGED <<reviewed, pc, session, started, result, broken>>
          /\ \/ \E verdict \in {"exact", "other"} : Admits(verdict)
             \/ Refuses
             \/ Prints
             \/ \E code \in Codes : Exits(code)
      BY <1>9 DEF Responds
    <2>2. result = "none"
      BY <1>1, <2>1 DEF PhaseInv
    <2>3. OnlyFailuresFail'
      BY <2>1, <2>2 DEF OnlyFailuresFail
    <2>4. /\ \A verdict \in {"exact", "other"} :
               [type |-> "ready", data |-> verdict] \in Answers
          /\ [type |-> "error", data |-> 0] \in Answers
          /\ [type |-> "output", data |-> made + 1] \in Answers
          /\ \A code \in Codes : [type |-> "exit", data |-> code] \in Answers
      BY DEF Answers, ShapeInv, Streams
    <2>5. ASSUME NEW verdict \in {"exact", "other"}, Admits(verdict)
          PROVE  FailInv'
      <3>1. admitted = "no" /\ admitted' = verdict /\ Replied("ready", verdict) /\ refused' = refused
        BY <2>5 DEF Admits
      <3>2. \A j \in DOMAIN toClient' :
              \/ j \in DOMAIN toClient /\ toClient'[j] = toClient[j]
              \/ j = Len(toClient) + 1 /\ toClient'[j].type = "ready"
        BY <1>1, <2>4, <3>1, Lengthened
      <3>3. reviewed /\ ~refused /\ pc # "ended" => ~session
        BY <3>1 DEF AdmissionInv
      <3> QED BY <2>1, <2>3, <3>1, <3>2, <3>3 DEF FailInv, Ready
    <2>6. CASE Refuses
      <3>1. CASE UNCHANGED toClient
        BY <2>1, <2>2, <2>3, <2>6, <3>1 DEF Refuses, FailInv
      <3>2. CASE refused' = TRUE
        BY <2>3, <3>2 DEF FailInv
      <3> QED BY <2>6, <3>2 DEF Refuses
    <2>7. ASSUME NEW type \in {"output", "exit"}, NEW data, Replied(type, data),
                 [type |-> type, data |-> data] \in Answers, UNCHANGED <<refused, admitted>>
          PROVE  FailInv'
      <3>1. \A j \in DOMAIN toClient' :
              \/ j \in DOMAIN toClient /\ toClient'[j] = toClient[j]
              \/ toClient'[j].type \notin {"ready", "error"}
        BY <1>1, <2>7, Lengthened
      <3> QED BY <2>1, <2>3, <2>7, <3>1 DEF FailInv, Ready
    <2>8. CASE Prints
      BY <2>4, <2>7, <2>8 DEF Prints
    <2>9. ASSUME NEW code \in Codes, Exits(code)
          PROVE  FailInv'
      BY <2>4, <2>7, <2>9 DEF Exits
    <2> QED BY <2>1, <2>5, <2>6, <2>8, <2>9
  <1>10. CASE Breaks
    BY <1>10, FailKept DEF Breaks
  <1> QED BY <1>3, <1>4, <1>5, <1>6, <1>7, <1>8, <1>9, <1>10, Moves

(* What is reported of the end is what happened: a code that runExec exits *)
(* with is the remote command's own, after all its output and of the       *)
(* reviewed target; an error is one of the relay, of the connection, or of *)
(* the wait for the admission.                                             *)
THEOREM EndAlwaysTrue == Spec => []EndIsTrue
  <1> DEFINE IInv == /\ ShapeInv /\ PhaseInv /\ AdmissionInv
                     /\ OutputInv /\ EndInv /\ FailInv
  <1>1. Init => IInv
    <2> SUFFICES ASSUME Init PROVE IInv
      OBVIOUS
    <2>1. toClient = <<>> /\ session = FALSE /\ admitted = "no" /\ made = 0 /\ printed = <<>>
          /\ pendingExit = NoCode /\ result = "none" /\ "none" \notin Codes
      BY ZeroIsACode DEF Init
    <2>2. printed = [i \in 1 .. 0 |-> i]
      BY <2>1
    <2>3. Continues(0)
      BY <2>1 DEF Continues, Precede
    <2>4. OutputInv
      BY <2>1, <2>2, <2>3 DEF OutputInv
    <2> QED
      BY <2>1, <2>4, ShapeInit
      DEF AdmissionInv, EndInv, FailInv, OnlyFailuresFail
  <1>2. IInv /\ [Next]_vars => IInv'
    BY ShapeStep, AdmissionStep, OutputStep, EndStep, FailStep
  <1>3. IInv => EndIsTrue
    BY DEF OutputInv, EndInv, FailInv, EndIsTrue, ExitIsTheCommands
  <1> QED BY <1>1, <1>2, <1>3, PTL DEF Spec
=============================================================================
