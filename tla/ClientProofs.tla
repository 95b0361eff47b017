---------------------------- MODULE ClientProofs ----------------------------
(***************************************************************************)
(* Proofs about ClientLoop.tla, for any number of commands and any bounds: *)
(* the kill is final, nothing is left behind by a process that cleaned up, *)
(* lost acknowledgements do not cost a connection, and the window's status *)
(* is the connection's; and about Journal.tla, for any goroutines, events  *)
(* and capacity: the panel shows its events, each goroutine's in its order,*)
(* and keeps up with the log.                                              *)
(***************************************************************************)
EXTENDS ClientLoop, Journal, SequenceLemmas, FiniteSetTheorems, FunctionTheorems, TLAPS

USE LoopAssumption

\* Only a client that has not started is without a directory to remove.
NotStarted == main = "boot" => dir = "none"

\* main.go:33: whether the client reads the notification or only the close code, it
\* never dials again: every step that reads of the kill leaves the loop for good.
THEOREM KillFinal == Spec => []KillIsFinal
<1>1. Init => KillIsFinal
  BY DEF Init, KillIsFinal
<1>2. ASSUME KillIsFinal, [Next]_vars PROVE KillIsFinal'
  <2>1. CASE Top \/ Waited \/ Connect
    BY <1>2, <2>1 DEF KillIsFinal, Top, Waited, Connect
  <2>2. CASE ConnectFails \/ ReadFails
    BY <1>2, <2>2 DEF KillIsFinal, ConnectFails, ReadFails, Reading
  <2>3. CASE ReadTerminated \/ ReadClose
    BY <2>3 DEF KillIsFinal, ReadTerminated, ReadClose, End
  <2>4. CASE ReadRegistered \/ ReadAck \/ \E c \in Cmd : ReadCommand(c)
    BY <1>2, <2>4 DEF KillIsFinal, ReadRegistered, ReadAck, ReadCommand
  <2>5. CASE Panic
    BY <1>2, <2>5 DEF KillIsFinal, Panic
  <2>6. CASE \/ \E url, tokens \in [1..3 -> Source], valid \in BOOLEAN : Boot(url, tokens, valid)
             \/ Signal \/ WindowCloses \/ SignalCloses \/ LoopReturned
             \/ PanicElsewhere \/ Cleanup \/ Shows
    BY <1>2, <2>6 DEF KillIsFinal, Boot, Signal, WindowCloses, SignalCloses, CloseWindow,
                      LoopReturned, PanicElsewhere, Cleanup, Shows
  <2>7. CASE \/ Tick \/ \E answered \in BOOLEAN : Heartbeat(answered)
             \/ \E c \in Cmd : Begins(c) \/ Ends(c) \/ Stops(c)
    BY <1>2, <2>7 DEF KillIsFinal, Tick, Heartbeat, Begins, Ends, Stops
  <2>8. CASE \/ \E message \in {"registered", "command"} : Sends(message)
             \/ \E notified \in BOOLEAN : Kills(notified)
             \/ Cuts
    BY <1>2, <2>8 DEF KillIsFinal, Sends, Kills, Cuts
  <2>9. CASE UNCHANGED vars
    BY <1>2, <2>9 DEF KillIsFinal, vars
  <2> QED
    BY <1>2, <2>1, <2>2, <2>3, <2>4, <2>5, <2>6, <2>7, <2>8, <2>9 DEF Next, Loop
<1> QED
  BY <1>1, <1>2, PTL DEF Spec

-----------------------------------------------------------------------------
\* The steps that neither start nor end the process leave its residue alone.
LEMMA RunningKeeps ==
  ASSUME [Next]_vars, ~Cleanup,
         ~\E url, tokens \in [1..3 -> Source], valid \in BOOLEAN : Boot(url, tokens, valid)
  PROVE  /\ UNCHANGED <<dir, token>>
         /\ \/ main' = main
            \/ main = "running" /\ main' = "cleaning"
            \/ main \in {"running", "cleaning"} /\ main' = "crashed"
<1>1. CASE Loop
  BY <1>1 DEF Loop, Top, Waited, Connect, ConnectFails, ReadRegistered, ReadAck,
              ReadTerminated, ReadClose, ReadFails, ReadCommand, End, process
<1>2. CASE Signal \/ WindowCloses \/ SignalCloses \/ LoopReturned \/ Panic \/ PanicElsewhere
  BY <1>2 DEF Signal, WindowCloses, SignalCloses, CloseWindow, LoopReturned, Panic,
              PanicElsewhere, Runs
<1>3. CASE \/ Shows \/ Tick \/ \E answered \in BOOLEAN : Heartbeat(answered)
           \/ \E c \in Cmd : Begins(c) \/ Ends(c) \/ Stops(c)
  BY <1>3 DEF Shows, Tick, Heartbeat, Begins, Ends, Stops, process
<1>4. CASE \/ \E message \in {"registered", "command"} : Sends(message)
           \/ \E notified \in BOOLEAN : Kills(notified)
           \/ Cuts
  BY <1>4 DEF Sends, Kills, Cuts, process
<1>5. CASE UNCHANGED vars
  BY <1>5 DEF vars, process
<1> QED
  BY <1>1, <1>2, <1>3, <1>4, <1>5 DEF Next

\* lifecycle.go:5: every way by which the main goroutine of a client that has started ends
\* goes through the cleanup, also its own panic.  (One of another goroutine does not: the
\* process is then "crashed", not "exited".)
THEOREM ExitIsClean == Spec => []CleanExit
<1> DEFINE Inv == NotStarted /\ CleanExit
<1>1. Init => Inv
  BY DEF Init, NotStarted, CleanExit
<1>2. ASSUME Inv, [Next]_vars PROVE Inv'
  <2>1. ASSUME NEW url \in [1..3 -> Source], NEW tokens \in [1..3 -> Source],
               NEW valid \in BOOLEAN, Boot(url, tokens, valid)
        PROVE  Inv'
    BY <1>2, <2>1 DEF Boot, NewWorkspace, NotStarted, CleanExit, Clean
  <2>2. CASE Cleanup
    BY <2>2 DEF Cleanup, RemoveAll, Zero, NotStarted, CleanExit, Clean
  <2>3. CASE ~Cleanup /\ ~\E url, tokens \in [1..3 -> Source], valid \in BOOLEAN : Boot(url, tokens, valid)
    BY <1>2, <2>3, RunningKeeps DEF NotStarted, CleanExit, Clean
  <2> QED
    BY <2>1, <2>2, <2>3
<1>3. Inv => CleanExit
  OBVIOUS
<1> QED
  BY <1>1, <1>2, <1>3, PTL DEF Spec

-----------------------------------------------------------------------------
(* Heartbeats.                                                             *)

\* Without a connection there is no clock and nothing to read; with one, the loop reads
\* it, and the time without a message is the heartbeats that had no answer and the time
\* since the last one.
Idle == link = "none" /\ inbox = <<>> /\ silence = 0 /\ missed = 0 /\ beat = 0
Paced ==
  /\ silence \in Nat /\ missed \in Nat /\ beat \in 0..HeartbeatInterval
  /\ silence <= HeartbeatInterval * (missed + 1)
  /\ link = "up" /\ inbox = <<>> => silence <= HeartbeatInterval * missed + beat
HeartbeatInv == IF loop = "reading" THEN Paced ELSE Idle

LEMMA IdleIsPaced == Idle => Paced
  BY DEF Idle, Paced

\* What a message that is read leaves to count.
LEMMA ReadIsPaced == Paced /\ silence' = 0 /\ missed' = 0 /\ beat' = beat => Paced'
  BY DEF Paced

\* The steps of the loop: only reading keeps the connection.
LEMMA LoopPaced ==
  ASSUME HeartbeatInv, Loop
  PROVE  HeartbeatInv'
<1>1. CASE Top \/ Waited
  BY <1>1 DEF Top, Waited, HeartbeatInv, Idle, channel, time
<1>2. CASE Connect
  <2>1. Idle /\ loop' = "reading" /\ UNCHANGED <<inbox, silence, missed, beat>>
    BY <1>2 DEF Connect, HeartbeatInv, time
  <2> QED
    BY <2>1 DEF Idle, HeartbeatInv, Paced
<1>3. CASE ConnectFails \/ ReadTerminated \/ ReadClose \/ ReadFails
  <2>1. \E how \in {"lost", "terminated"} : End(how)
    BY <1>3 DEF ConnectFails, ReadTerminated, ReadClose, ReadFails
  <2> QED
    BY <2>1 DEF End, Leave, HeartbeatInv, Idle
<1>4. CASE ReadRegistered \/ ReadAck \/ \E c \in Cmd : ReadCommand(c)
  <2>1. loop = "reading" /\ loop' = loop /\ silence' = 0 /\ missed' = 0 /\ beat' = beat
    BY <1>4 DEF ReadRegistered, ReadAck, ReadCommand, Took, Arrived, Reading
  <2> QED
    BY <2>1, ReadIsPaced DEF HeartbeatInv
<1> QED
  BY <1>1, <1>2, <1>3, <1>4 DEF Loop

\* A message more to read, or the end of the connection, does not make the time longer.
LEMMA FullIsPaced ==
  ASSUME Paced, UNCHANGED <<silence, missed, beat>>,
         link' # "up" \/ (link' = link /\ (inbox' = inbox \/ inbox' # <<>>))
  PROVE  Paced'
  BY DEF Paced

\* The product, by one more heartbeat missed.
LEMMA Products ==
  \A n \in Nat : /\ HeartbeatInterval * n \in Nat
                  /\ HeartbeatInterval * (n + 1) = HeartbeatInterval * n + HeartbeatInterval
  BY LoopAssumption

\* The steps of the heartbeat loop, of the clock and of the relay.
LEMMA ConnectionPaced ==
  ASSUME HeartbeatInv, inbox \in Seq(Message),
         \/ Tick \/ Cuts
         \/ \E answered \in BOOLEAN : Heartbeat(answered)
         \/ \E message \in {"registered", "command"} : Sends(message)
         \/ \E notified \in BOOLEAN : Kills(notified)
  PROVE  HeartbeatInv'
<1>0. loop = "reading" /\ loop' = loop /\ Paced
  BY DEF HeartbeatInv, Idle, Tick, Cuts, Heartbeat, Sends, Kills
<1>1. CASE Tick
  <2>1. /\ link = "up" /\ inbox = <<>> /\ beat < HeartbeatInterval
        /\ beat' = beat + 1 /\ silence' = silence + 1 /\ missed' = missed
    BY <1>0, <1>1 DEF Tick, Arrived, Reading, channel
  <2> DEFINE Product == HeartbeatInterval * missed
             Further == HeartbeatInterval * (missed + 1)
  <2>2. silence \in Nat /\ missed \in Nat /\ beat \in 0..HeartbeatInterval
        /\ silence <= Product + beat
    BY <1>0, <2>1 DEF Paced
  <2>3. Product \in Nat /\ Further = Product + HeartbeatInterval
    BY <2>2, Products
  <2>4. /\ silence + 1 \in Nat /\ beat + 1 \in 0..HeartbeatInterval
        /\ silence + 1 <= Product + (beat + 1) /\ silence + 1 <= Further
    <3> HIDE DEF Product, Further
    <3> QED
      BY <2>1, <2>2, <2>3, LoopAssumption
  <2>5. Paced'
    <3>1. silence' \in Nat /\ missed' \in Nat /\ beat' \in 0..HeartbeatInterval
      BY <2>1, <2>2, <2>4
    <3>2. silence' <= HeartbeatInterval * (missed' + 1)
      BY <2>1, <2>4
    <3>3. silence' <= HeartbeatInterval * missed' + beat'
      BY <2>1, <2>4
    <3> QED
      BY <3>1, <3>2, <3>3 DEF Paced
  <2> QED
    BY <1>0, <2>5 DEF HeartbeatInv
<1>2. ASSUME NEW answered \in BOOLEAN, Heartbeat(answered) PROVE HeartbeatInv'
  <2>0. beat = HeartbeatInterval /\ beat' = 0 /\ silence' = silence
    BY <1>2 DEF Heartbeat
  <2>1. CASE answered
    <3>1. missed' = missed /\ inbox' # <<>>
      BY <1>2, <2>1 DEF Heartbeat
    <3> QED
      BY <1>0, <2>0, <3>1 DEF Paced, HeartbeatInv
  <2>2. CASE ~answered
    <3>1. missed' = missed + 1 /\ inbox' = inbox /\ link' = link
      BY <1>2, <2>2 DEF Heartbeat
    <3>2. missed \in Nat /\ silence \in Nat
          /\ silence <= HeartbeatInterval * missed + HeartbeatInterval
      BY <1>0, <2>0 DEF Paced
    <3> DEFINE Next1 == HeartbeatInterval * missed'
               Next2 == HeartbeatInterval * (missed' + 1)
    <3>3. Next1 \in Nat /\ Next1 = HeartbeatInterval * missed + HeartbeatInterval
          /\ Next2 = Next1 + HeartbeatInterval
      <4> HIDE DEF Next1, Next2
      <4>1. Next1 = HeartbeatInterval * (missed + 1)
        BY <3>1 DEF Next1
      <4>2. Next2 = HeartbeatInterval * ((missed + 1) + 1)
        BY <3>1 DEF Next2
      <4> QED
        BY <3>2, <4>1, <4>2, Products
    <3>4. /\ silence' \in Nat /\ missed' \in Nat /\ beat' \in 0..HeartbeatInterval
          /\ silence' <= Next1 + beat' /\ silence' <= Next2
      <4> HIDE DEF Next1, Next2
      <4> QED
        BY <2>0, <3>1, <3>2, <3>3, LoopAssumption
    <3>5. Paced'
      BY <1>0, <3>1, <3>4 DEF Paced
    <3> QED
      BY <1>0, <3>5 DEF HeartbeatInv
  <2> QED
    BY <2>1, <2>2
<1>3. ASSUME NEW message \in {"registered", "command"}, Sends(message) PROVE HeartbeatInv'
  <2>1. inbox' # <<>> /\ UNCHANGED <<link, silence, missed, beat>>
    BY <1>3 DEF Sends, time, Message
  <2> QED
    BY <1>0, <2>1, FullIsPaced DEF HeartbeatInv
<1>4. ASSUME NEW notified \in BOOLEAN, Kills(notified) PROVE HeartbeatInv'
  <2>1. link' = "closed" /\ UNCHANGED <<silence, missed, beat>>
    BY <1>4 DEF Kills, time
  <2> QED
    BY <1>0, <2>1, FullIsPaced DEF HeartbeatInv
<1>5. CASE Cuts
  <2>1. link' = "cut" /\ UNCHANGED <<silence, missed, beat>>
    BY <1>5 DEF Cuts, time
  <2> QED
    BY <1>0, <2>1, FullIsPaced DEF HeartbeatInv
<1> QED
  BY <1>1, <1>2, <1>3, <1>4, <1>5

\* The other steps leave the connection alone, or close it.
LEMMA RestPaced ==
  ASSUME HeartbeatInv,
         \/ \E url, tokens \in [1..3 -> Source], valid \in BOOLEAN : Boot(url, tokens, valid)
         \/ Signal \/ WindowCloses \/ SignalCloses \/ LoopReturned
         \/ Panic \/ PanicElsewhere \/ Cleanup \/ Shows
         \/ \E c \in Cmd : Begins(c) \/ Ends(c) \/ Stops(c)
         \/ UNCHANGED vars
  PROVE  HeartbeatInv'
<1>1. CASE Panic
  <2>1. CASE gui
    <3>1. UNCHANGED <<loop, link, inbox, silence, missed, beat>>
      BY <1>1, <2>1 DEF Panic, time
    <3> QED
      BY <3>1 DEF HeartbeatInv, Paced, Idle
  <2>2. CASE ~gui
    BY <1>1, <2>2 DEF Panic, Leave, HeartbeatInv, Idle
  <2> QED
    BY <2>1, <2>2
<1>2. CASE ~Panic
  <2>1. UNCHANGED <<loop, link, inbox, silence, missed, beat>>
    BY <1>2 DEF Boot, Signal, WindowCloses, SignalCloses, CloseWindow, LoopReturned,
                PanicElsewhere, Cleanup, Shows, Begins, Ends, Stops, vars, channel, time
  <2> QED
    BY <2>1 DEF HeartbeatInv, Paced, Idle
<1> QED
  BY <1>1, <1>2

\* What an inbox may become.
LEMMA SequenceSteps ==
  ASSUME NEW S, NEW q \in Seq(S)
  PROVE  <<>> \in Seq(S) /\ (q # <<>> => Tail(q) \in Seq(S)) /\ \A x \in S : Append(q, x) \in Seq(S)
  OBVIOUS

\* What is in flight is a sequence of messages.
LEMMA InboxTyped ==
  ASSUME inbox \in Seq(Message), [Next]_vars
  PROVE  inbox' \in Seq(Message)
<1>1. CASE Loop
  <2>1. inbox' = inbox \/ inbox' = <<>> \/ (inbox # <<>> /\ inbox' = Tail(inbox))
    BY <1>1 DEF Loop, Top, Waited, Connect, ConnectFails, ReadRegistered, ReadAck, Took, Arrived,
                ReadTerminated, ReadClose, ReadFails, ReadCommand, End, Leave, channel
  <2> QED
    BY <2>1, SequenceSteps, Zenon
<1>2. CASE ~Loop
  <2>1. inbox' = inbox \/ inbox' = <<>> \/ \E message \in Message : inbox' = Append(inbox, message)
    <3>1. CASE \/ \E answered \in BOOLEAN : Heartbeat(answered)
               \/ \E message \in {"registered", "command"} : Sends(message)
               \/ \E notified \in BOOLEAN : Kills(notified)
      BY <3>1 DEF Heartbeat, Sends, Kills, Message
    <3>2. CASE Panic \/ Cuts
      BY <3>2 DEF Panic, Leave, Cuts
    <3>3. CASE \/ \E url, tokens \in [1..3 -> Source], valid \in BOOLEAN : Boot(url, tokens, valid)
               \/ Signal \/ WindowCloses \/ SignalCloses \/ LoopReturned
               \/ PanicElsewhere \/ Cleanup \/ Shows \/ Tick
               \/ \E c \in Cmd : Begins(c) \/ Ends(c) \/ Stops(c)
               \/ UNCHANGED vars
      BY <3>3 DEF Boot, Signal, WindowCloses, SignalCloses, CloseWindow, LoopReturned,
                  PanicElsewhere, Cleanup, Shows, Tick, Begins, Ends, Stops, vars, channel
    <3> QED
      BY <1>2, <3>1, <3>2, <3>3 DEF Next
  <2> QED
    BY <2>1, SequenceSteps, Zenon
<1> QED
  BY <1>1, <1>2

\* wsconn.go:17: as long as the read deadline exceeds the heartbeats that may go without
\* an answer and one more, no run of the client loses a connection for that.
THEOREM DeadlineTolerates ==
  ASSUME HeartbeatInterval * (Tolerated + 1) < ReadTimeout
  PROVE  Spec => []HeartbeatSuffices
<1> DEFINE Inv == HeartbeatInv /\ inbox \in Seq(Message)
<1>1. Init => Inv
  BY DEF Init, HeartbeatInv, Idle
<1>2. Inv /\ [Next]_vars => Inv'
  <2> SUFFICES ASSUME Inv, [Next]_vars PROVE HeartbeatInv'
    BY InboxTyped
  <2> QED
    BY LoopPaced, ConnectionPaced, RestPaced DEF Next
<1>3. Inv => HeartbeatSuffices
  <2> SUFFICES ASSUME Inv, link = "up", missed <= Tolerated PROVE silence < ReadTimeout
    BY DEF HeartbeatSuffices
  <2>1. silence \in Nat /\ missed \in Nat /\ silence <= HeartbeatInterval * (missed + 1)
    BY DEF HeartbeatInv, Idle, Paced
  <2>2. HeartbeatInterval * (missed + 1) <= HeartbeatInterval * (Tolerated + 1)
    BY <2>1
  <2> QED
    BY <2>1, <2>2
<1> QED
  BY <1>1, <1>2, <1>3, PTL DEF Spec

-----------------------------------------------------------------------------
(* The window's status.                                                    *)

Status == {"connecting", "connected", "disconnected"}
Latest == IF ui = <<>> THEN label ELSE ui[Len(ui)]
StatusInv ==
  /\ ui \in Seq(Status)
  /\ named => loop = "reading"
  /\ gui /\ main \in {"boot", "running"} /\ ~Cancelled => Latest = Due

\* A sequence without an element is the empty one.
LEMMA NoElement == \A q \in Seq(Status) : Len(q) = 0 => q = <<>>
  OBVIOUS

\* What a call queued, or run, does to the last status.
LEMMA Queues ==
  ASSUME NEW q \in Seq(Status), NEW x \in Status
  PROVE  /\ q \o <<x>> \in Seq(Status) /\ q \o <<x>> # <<>> /\ (q \o <<x>>)[Len(q \o <<x>>)] = x
         /\ q # <<>> => /\ Tail(q) \in Seq(Status)
                        /\ q[Len(q)] = IF Tail(q) = <<>> THEN Head(q) ELSE Tail(q)[Len(Tail(q))]
<1>1. q \o <<x>> \in Seq(Status) /\ Len(q \o <<x>>) = Len(q) + 1 /\ (q \o <<x>>)[Len(q) + 1] = x
  OBVIOUS
<1>2. ASSUME q # <<>> PROVE
        /\ Tail(q) \in Seq(Status)
        /\ q[Len(q)] = IF Tail(q) = <<>> THEN Head(q) ELSE Tail(q)[Len(Tail(q))]
  <2>1. Tail(q) \in Seq(Status) /\ Len(Tail(q)) = Len(q) - 1 /\ Len(q) \in Nat \ {0}
    BY <1>2
  <2>2. CASE Len(q) = 1
    <3>1. Tail(q) = <<>> /\ q[Len(q)] = Head(q)
      <4>1. Len(Tail(q)) = 0
        BY <2>1, <2>2
      <4>2. Tail(q) = <<>>
        BY <2>1, <4>1, NoElement
      <4>3. Head(q) = q[1]
        BY <1>2
      <4> QED
        BY <2>2, <4>2, <4>3
    <3> QED
      BY <2>1, <3>1
  <2>3. CASE Len(q) # 1
    <3>1. Tail(q) # <<>>
      <4>1. Len(Tail(q)) # 0
        BY <2>1, <2>3
      <4>2. Len(<<>>) = 0
        OBVIOUS
      <4> QED
        BY <4>1, <4>2, Zenon
    <3>2. Tail(q)[Len(q) - 1] = q[Len(q)]
      <4>1. \A i \in 1..Len(Tail(q)) : Tail(q)[i] = q[i + 1]
        BY <1>2
      <4>2. Len(q) - 1 \in 1..Len(Tail(q)) /\ (Len(q) - 1) + 1 = Len(q)
        BY <2>1, <2>3
      <4> QED
        BY <4>1, <4>2
    <3> QED
      BY <2>1, <3>1, <3>2
  <2> QED
    BY <2>1, <2>2, <2>3
<1> QED
  BY <1>1, <1>2

\* A step that shows a status leaves it the latest.
LEMMA ShowsLatest ==
  ASSUME ui \in Seq(Status), gui, NEW x \in Status, ui' = ui \o <<x>>
  PROVE  ui' \in Seq(Status) /\ Latest' = x
  BY Queues DEF Latest

\* The steps of the loop: each that changes what is due shows it.
LEMMA LoopShows ==
  ASSUME StatusInv, Loop
  PROVE  StatusInv'
<1> USE DEF StatusInv, Due, Show, Status
<1>1. UNCHANGED <<gui, main, ctx, label>>
  BY DEF Loop, Top, Waited, Connect, ConnectFails, ReadRegistered, ReadAck, ReadTerminated,
         ReadClose, ReadFails, ReadCommand, End, process, window
<1>2. CASE \E how \in {"lost", "terminated"} : End(how)
  <2>1. loop' \in {"returned", "waiting"} /\ named' = FALSE
        /\ ui' = IF Cancelled \/ ~gui THEN ui ELSE ui \o <<"disconnected">>
    BY <1>2 DEF End, Leave
  <2>2. CASE Cancelled \/ ~gui
    BY <1>1, <2>1, <2>2 DEF Cancelled
  <2>3. CASE ~Cancelled /\ gui
    BY <1>1, <2>1, <2>3, ShowsLatest
  <2> QED
    BY <2>2, <2>3
<1>3. CASE Top
  <2>1. CASE Cancelled
    BY <1>1, <1>3, <2>1 DEF Top, Cancelled, channel
  <2>2. CASE ~Cancelled
    <3>1. loop' = "dialing" /\ named' = named /\ ui' = IF gui THEN ui \o <<"connecting">> ELSE ui
      BY <1>3, <2>2 DEF Top, channel
    <3>2. ~named
      BY <1>3 DEF Top
    <3> QED
      BY <1>1, <3>1, <3>2, ShowsLatest
  <2> QED
    BY <2>1, <2>2
<1>4. CASE ReadRegistered
  <2>1. loop = "reading" /\ loop' = loop /\ named' /\ ui' = IF gui THEN ui \o <<"connected">> ELSE ui
    BY <1>4 DEF ReadRegistered, Took, Arrived, Reading
  <2> QED
    BY <1>1, <2>1, ShowsLatest
<1>5. CASE Waited \/ Connect
  BY <1>1, <1>5 DEF Waited, Connect, Latest, Cancelled, channel, window
<1>6. CASE ReadAck \/ \E c \in Cmd : ReadCommand(c)
  BY <1>1, <1>6 DEF ReadAck, ReadCommand, Took, Latest, Cancelled, window
<1>7. CASE ConnectFails \/ ReadTerminated \/ ReadClose \/ ReadFails
  BY <1>2, <1>7 DEF ConnectFails, ReadTerminated, ReadClose, ReadFails
<1> QED
  BY <1>3, <1>4, <1>5, <1>6, <1>7 DEF Loop

\* gui.go:42: when the interface has run its queue, the window shows the state of the
\* connection, however the steps of the loop and of the interface interleave.
THEOREM StatusIsTruthful == Spec => []StatusTruthful
<1>1. Init => StatusInv
  BY DEF Init, StatusInv, Latest, Due
<1>2. StatusInv /\ [Next]_vars => StatusInv'
  <2> SUFFICES ASSUME StatusInv, [Next]_vars PROVE StatusInv'
    OBVIOUS
  <2>1. CASE Shows
    <3>1. /\ ui \in Seq(Status) /\ ui # <<>> /\ label' = Head(ui) /\ ui' = Tail(ui)
          /\ UNCHANGED <<gui, main, ctx, loop, named>>
      BY <2>1 DEF Shows, StatusInv, process, channel
    <3>2. ui' \in Seq(Status) /\ Latest' = Latest
      BY <3>1, Queues DEF Latest, Status
    <3> QED
      BY <3>1, <3>2 DEF StatusInv, Due, Cancelled
  <2>2. CASE Panic \/ WindowCloses \/ SignalCloses \/ Signal \/ LoopReturned
             \/ PanicElsewhere \/ Cleanup
    BY <2>2 DEF Panic, WindowCloses, SignalCloses, CloseWindow, Signal, LoopReturned,
                PanicElsewhere, Cleanup, Leave, Runs, Cancelled, StatusInv, Due, Latest, channel, window
  <2>3. CASE \E url, tokens \in [1..3 -> Source], valid \in BOOLEAN : Boot(url, tokens, valid)
    <3>1. main = "boot" /\ UNCHANGED <<gui, ctx, loop, named, ui, label>>
      BY <2>3 DEF Boot, channel, window
    <3> QED
      BY <3>1 DEF StatusInv, Due, Latest, Cancelled
  <2>4. CASE \/ Tick \/ Cuts \/ UNCHANGED vars
             \/ \E answered \in BOOLEAN : Heartbeat(answered)
             \/ \E c \in Cmd : Begins(c) \/ Ends(c) \/ Stops(c)
             \/ \E message \in {"registered", "command"} : Sends(message)
             \/ \E notified \in BOOLEAN : Kills(notified)
    <3>1. UNCHANGED <<gui, main, ctx, loop, named, ui, label>>
      BY <2>4 DEF Tick, Cuts, Heartbeat, Begins, Ends, Stops, Sends, Kills, vars, process, channel, window
    <3> QED
      BY <3>1 DEF StatusInv, Due, Latest, Cancelled
  <2> QED
    BY <2>1, <2>2, <2>3, <2>4, LoopShows DEF Next
<1>3. StatusInv => StatusTruthful
  BY DEF StatusInv, StatusTruthful, Latest
<1> QED
  BY <1>1, <1>2, <1>3, PTL DEF Spec
HIDE LoopAssumption

-----------------------------------------------------------------------------
(* The journal.  Events are in the log, in the panel, on their way to it   *)
(* through the interface's queue, or owed to it by the goroutine that has  *)
(* logged them; the two windows onto them slide at different moments.      *)

Author == Goroutine \cup {"main"}
Events == [by : Author, n : Nat, kind : Kind]
Mirror == panel \o queued
Owing == {g \in Goroutine : due[g] # None}
Owed == {due[g] : g \in Owing}
Seen == ToSet(log) \cup ToSet(Mirror) \cup Owed
Notified(g) == IF due[g] = None THEN emitted[g] ELSE emitted[g] - 1

JournalTypes ==
  /\ log \in Seq(Events) /\ Len(log) <= Capacity
  /\ panel \in Seq(Events) /\ Len(panel) <= Capacity /\ queued \in Seq(Events)
  /\ commandsOnly \in BOOLEAN
  /\ emitted \in [Goroutine -> Nat] /\ due \in [Goroutine -> Events \cup {None}]

\* Nothing is emitted before the window has subscribed.
Started ==
  /\ built # "subscribed" =>
       /\ queued = <<>> /\ \A g \in Goroutine : emitted[g] = 0 /\ due[g] = None
       /\ \A i \in DOMAIN log : log[i].by = "main"
  /\ built = "no" => panel = <<>>
  /\ built = "seeded" => panel = log
  /\ \A g \in Goroutine : due[g] # None => due[g].by = g /\ due[g].n = emitted[g]

\* The events of g in s are in order, and none is missing from one of them to the last.
InLine(g, s, last) ==
  /\ \A i, j \in DOMAIN s : i < j /\ s[i].by = g /\ s[j].by = g => s[i].n < s[j].n
  /\ \A i \in DOMAIN s : s[i].by = g =>
       /\ s[i].n <= last
       /\ \A m \in s[i].n..last : \E j \in DOMAIN s : s[j].by = g /\ s[j].n = m
\* The backlog comes before everything else.
MainFirst(s) == \A i, j \in DOMAIN s : i < j /\ s[j].by = "main" => s[i].by = "main" /\ s[i].n < s[j].n
Lines == /\ \A g \in Goroutine : InLine(g, log, emitted[g]) /\ InLine(g, Mirror, Notified(g))
         /\ MainFirst(log) /\ MainFirst(Mirror)
Same == \A e, f \in Seen : e.by = f.by /\ e.n = f.n => e = f

\* What was logged after an event of g is in the panel after its earlier events, or owed
\* to it; so an event that has left the log pushes the earlier ones out of the panel.
Before(e, f) == e.by = f.by /\ (e.n < f.n \/ (e.by = "main" /\ e.n = f.n))
After(s, i) == {s[j] : j \in (i + 1)..Len(s)}
Later(i) == After(Mirror, i) \cup Owed
KeepsUp == \A i \in DOMAIN Mirror, p, q \in DOMAIN log :
             Before(Mirror[i], log[p]) /\ p < q => log[q] \in Later(i)
Evicted == \A i \in DOMAIN Mirror, f \in Seen \ ToSet(log) :
             Before(Mirror[i], f) => Cardinality(Later(i)) >= Capacity
Backlog == (\E i \in DOMAIN log : log[i].by = "main") =>
             \A e \in ToSet(Mirror) \cup Owed : e.by # "main" => e \in ToSet(log)

Lower(a, b) == IF a < b THEN a ELSE b
Counted == built # "no" =>
             Len(log) = Lower(Capacity, Len(panel) + Len(queued) + Cardinality(Owing))

JournalInv == /\ JournalTypes /\ Started /\ Lines /\ Same
              /\ KeepsUp /\ Evicted /\ Backlog /\ Counted

-----------------------------------------------------------------------------
(* Sequences that only lose their oldest events, or get a new one.         *)

Drops(s2, s, d) == /\ d \in 0..Len(s) /\ Len(s2) = Len(s) - d
                   /\ \A i \in 1..Len(s2) : s2[i] = s[i + d]
Grown(s2, s, e) == /\ Len(s2) = Len(s) + 1 /\ s2[Len(s) + 1] = e
                   /\ \A i \in 1..Len(s) : s2[i] = s[i]

LEMMA AppendGrows == ASSUME NEW s \in Seq(Events), NEW e \in Events
                     PROVE  Append(s, e) \in Seq(Events) /\ Grown(Append(s, e), s, e)
  BY DEF Grown

LEMMA BoundedDrops ==
  ASSUME NEW s \in Seq(Events), JournalAssumption
  PROVE  /\ Bounded(s) \in Seq(Events) /\ Len(Bounded(s)) = Lower(Capacity, Len(s))
         /\ Drops(Bounded(s), s, Len(s) - Len(Bounded(s)))
         /\ Len(s) <= Capacity => Bounded(s) = s
<1> DEFINE n == Len(s)
           d == n - Capacity
<1>1. n \in Nat /\ Capacity \in Nat
  BY DEF JournalAssumption
<1>2. CASE n <= Capacity
  <2>1. Bounded(s) = s
    BY <1>1, <1>2 DEF Bounded
  <2> QED
    BY <1>1, <1>2, <2>1 DEF Drops, Lower
<1>3. CASE n > Capacity
  <2> DEFINE t == SubSeq(s, d + 1, n)
  <2>1. Bounded(s) = t
    BY <1>1, <1>3 DEF Bounded
  <2>2. d + 1 \in 1..(n + 1) /\ n \in (d + 1)..n /\ n - (d + 1) + 1 = Capacity
    BY <1>1, <1>3
  <2>3. d + 1 \in 1..(Len(s) + 1) /\ n \in (d + 1)..Len(s)
    BY <2>2
  <2>4. t \in Seq(Events)
    BY <2>2
  <2>5. Len(t) = n - (d + 1) + 1 /\ \A i \in 1..(n - (d + 1) + 1) : t[i] = s[d + 1 + i - 1]
    BY <1>1, <1>3, <2>2, SubSeqProperties
  <2> HIDE DEF t
  <2>6. Len(t) = Capacity /\ \A i \in 1..Capacity : t[i] = s[i + d]
    BY <1>1, <2>2, <2>5
  <2> QED
    BY <1>1, <1>3, <2>1, <2>4, <2>6 DEF Drops, Lower
<1> QED
  BY <1>1, <1>2, <1>3

LEMMA Numbered == \A s \in Seq(Events) : \A i \in DOMAIN s : i \in Nat /\ s[i] \in Events /\ s[i].n \in Nat
<1> SUFFICES ASSUME NEW s \in Seq(Events), NEW i \in DOMAIN s
             PROVE  i \in Nat /\ s[i] \in Events /\ s[i].n \in Nat
  OBVIOUS
<1>1. i \in Nat /\ s[i] \in Events
  OBVIOUS
<1> QED
  BY <1>1 DEF Events

\* Where the events of what is left were.
LEMMA Shifted ==
  ASSUME NEW s \in Seq(Events), NEW s2 \in Seq(Events), NEW d, Drops(s2, s, d)
  PROVE  /\ Len(s) \in Nat /\ Len(s2) \in Nat /\ d \in Nat /\ Len(s2) = Len(s) - d
         /\ \A i \in DOMAIN s2 : i + d \in DOMAIN s /\ s2[i] = s[i + d]
         /\ \A j \in DOMAIN s : j > d => j - d \in DOMAIN s2 /\ s2[j - d] = s[j]
<1> DEFINE n == Len(s)
           m == Len(s2)
<1>1. /\ n \in Nat /\ m \in Nat /\ d \in 0..n /\ m = n - d /\ DOMAIN s = 1..n /\ DOMAIN s2 = 1..m
      /\ \A i \in 1..m : s2[i] = s[i + d]
  BY DEF Drops
<1> HIDE DEF n, m
<1>2. \A i \in 1..m : i + d \in 1..n
  BY <1>1
<1>3. \A j \in 1..n : j > d => j - d \in 1..m /\ (j - d) + d = j
  BY <1>1
<1> QED
  BY <1>1, <1>2, <1>3 DEF n, m

LEMMA LineDrops ==
  ASSUME NEW s \in Seq(Events), NEW s2 \in Seq(Events), NEW d, Drops(s2, s, d),
         NEW g, NEW last \in Int, InLine(g, s, last)
  PROVE  InLine(g, s2, last)
<1>1. /\ d \in Nat
      /\ \A i \in DOMAIN s2 : i \in Nat /\ i + d \in DOMAIN s /\ s2[i] = s[i + d] /\ s2[i].n \in Nat
      /\ \A j \in DOMAIN s : j \in Nat /\ s[j].n \in Nat /\ (j > d => j - d \in DOMAIN s2 /\ s2[j - d] = s[j])
  BY Shifted, Numbered
<1>2. \A i, j \in DOMAIN s2 : i < j /\ s2[i].by = g /\ s2[j].by = g => s2[i].n < s2[j].n
  <2> SUFFICES ASSUME NEW i \in DOMAIN s2, NEW j \in DOMAIN s2, i < j, s2[i].by = g, s2[j].by = g
               PROVE  s2[i].n < s2[j].n
    OBVIOUS
  <2>1. i + d \in DOMAIN s /\ s2[i] = s[i + d] /\ j + d \in DOMAIN s /\ s2[j] = s[j + d]
    BY <1>1
  <2>2. i + d < j + d
    BY <1>1
  <2> QED
    BY <2>1, <2>2 DEF InLine
<1>3. ASSUME NEW i \in DOMAIN s2, s2[i].by = g
      PROVE  /\ s2[i].n <= last
             /\ \A m \in s2[i].n..last : \E j \in DOMAIN s2 : s2[j].by = g /\ s2[j].n = m
  <2>1. i + d \in DOMAIN s /\ s[i + d].by = g /\ s2[i].n = s[i + d].n
    BY <1>1, <1>3
  <2>2. s2[i].n <= last
    BY <2>1 DEF InLine
  <2>3. ASSUME NEW m \in s2[i].n..last PROVE \E j \in DOMAIN s2 : s2[j].by = g /\ s2[j].n = m
    <3>1. PICK j \in DOMAIN s : s[j].by = g /\ s[j].n = m
      BY <2>1, <2>3 DEF InLine
    <3>2. ~(j < i + d)
      BY <1>1, <2>1, <3>1 DEF InLine
    <3>3. j > d
      BY <1>1, <3>2
    <3> QED
      BY <1>1, <3>1, <3>3
  <2> QED
    BY <2>2, <2>3
<1> QED
  BY <1>2, <1>3 DEF InLine

LEMMA LineGrows ==
  ASSUME NEW s \in Seq(Events), NEW e \in Events, NEW s2 \in Seq(Events), Grown(s2, s, e),
         NEW g, NEW last \in Int, InLine(g, s, last)
  PROVE  IF e.by = g THEN e.n = last + 1 => InLine(g, s2, last + 1) ELSE InLine(g, s2, last)
<1> DEFINE n == Len(s)
<1>1. /\ n \in Nat /\ DOMAIN s = 1..n /\ DOMAIN s2 = 1..(n + 1) /\ s2[n + 1] = e
      /\ (\A i \in 1..n : s2[i] = s[i]) /\ \A i \in 1..n : s[i].n \in Nat
  BY Numbered DEF Grown
<1> HIDE DEF n
<1>2. CASE e.by # g
  <2>1. \A i \in 1..(n + 1) : s2[i].by = g => i \in 1..n /\ s2[i] = s[i]
    BY <1>1, <1>2
  <2>2. \A i, j \in DOMAIN s2 : i < j /\ s2[i].by = g /\ s2[j].by = g => s2[i].n < s2[j].n
    BY <1>1, <2>1 DEF InLine
  <2>3. ASSUME NEW i \in DOMAIN s2, s2[i].by = g
        PROVE  /\ s2[i].n <= last
               /\ \A m \in s2[i].n..last : \E j \in DOMAIN s2 : s2[j].by = g /\ s2[j].n = m
    <3>1. i \in DOMAIN s /\ s2[i] = s[i] /\ s[i].by = g
      BY <1>1, <2>1, <2>3
    <3>2. s2[i].n <= last
      BY <3>1 DEF InLine
    <3>3. ASSUME NEW m \in s2[i].n..last PROVE \E j \in DOMAIN s2 : s2[j].by = g /\ s2[j].n = m
      <4>1. PICK j \in DOMAIN s : s[j].by = g /\ s[j].n = m
        BY <3>1, <3>3 DEF InLine
      <4> QED
        BY <1>1, <4>1
    <3> QED
      BY <3>2, <3>3
  <2>4. InLine(g, s2, last)
    BY <2>2, <2>3 DEF InLine
  <2> QED
    BY <1>2, <2>4
<1>3. CASE e.by = g /\ e.n = last + 1
  <2>1. \A i \in 1..n : s[i].by = g => s[i].n < e.n
    BY <1>1, <1>3 DEF InLine
  <2>2. \A i, j \in DOMAIN s2 : i < j /\ s2[i].by = g /\ s2[j].by = g => s2[i].n < s2[j].n
    <3>1. \A i, j \in 1..(n + 1) : i < j => i \in 1..n /\ (j \in 1..n \/ j = n + 1)
      BY <1>1
    <3> QED
      BY <1>1, <2>1, <3>1 DEF InLine
  <2>3. ASSUME NEW i \in DOMAIN s2, s2[i].by = g
        PROVE  /\ s2[i].n <= last + 1
               /\ \A m \in s2[i].n..(last + 1) : \E j \in DOMAIN s2 : s2[j].by = g /\ s2[j].n = m
    <3>1. s2[i].n <= last + 1
      <4>1. i \in 1..n \/ i = n + 1
        BY <1>1, <2>3
      <4>2. CASE i \in 1..n
        <5>1. s2[i] = s[i] /\ s[i].n \in Nat /\ s[i].n < e.n
          BY <1>1, <2>1, <2>3, <4>2
        <5> QED
          BY <1>3, <5>1
      <4> QED
        BY <1>1, <1>3, <4>1, <4>2
    <3>2. ASSUME NEW m \in s2[i].n..(last + 1) PROVE \E j \in DOMAIN s2 : s2[j].by = g /\ s2[j].n = m
      <4>1. CASE m = last + 1
        BY <1>1, <1>3, <4>1
      <4>2. CASE m # last + 1
        <5>1. i \in DOMAIN s /\ s2[i] = s[i] /\ s[i].by = g
          BY <1>1, <1>3, <2>3, <3>2, <4>2
        <5>2. m \in s[i].n..last
          BY <1>1, <3>2, <4>2, <5>1
        <5>3. PICK j \in DOMAIN s : s[j].by = g /\ s[j].n = m
          BY <5>1, <5>2 DEF InLine
        <5> QED
          BY <1>1, <5>3
      <4> QED
        BY <4>1, <4>2
    <3> QED
      BY <3>1, <3>2
  <2>4. InLine(g, s2, last + 1)
    BY <2>2, <2>3 DEF InLine
  <2> QED
    BY <1>3, <2>4
<1> QED
  BY <1>2, <1>3

LEMMA LineConsecutive ==
  ASSUME NEW s \in Seq(Events), NEW g, NEW last \in Int, InLine(g, s, last)
  PROVE  Consecutive(g, s)
<1> SUFFICES ASSUME NEW i \in DOMAIN s, NEW j \in DOMAIN s, i < j, s[i].by = g, s[j].by = g,
                    \A k \in (i + 1)..(j - 1) : s[k].by # g
             PROVE  s[j].n = s[i].n + 1
  BY DEF Consecutive
<1>1. i \in Nat /\ j \in Nat /\ \A k \in DOMAIN s : k \in Nat /\ s[k].n \in Nat
  BY Numbered
<1>2. s[i].n < s[j].n /\ s[j].n <= last
  BY DEF InLine
<1>3. s[i].n + 1 \in s[i].n..last
  BY <1>1, <1>2
<1>4. PICK k \in DOMAIN s : s[k].by = g /\ s[k].n = s[i].n + 1
  BY <1>3 DEF InLine
<1>5. ~(k < i) /\ k # i
  BY <1>1, <1>4 DEF InLine
<1>6. ~(j < k)
  BY <1>1, <1>2, <1>4 DEF InLine
<1>7. k = j
  BY <1>1, <1>4, <1>5, <1>6
<1> QED
  BY <1>4, <1>7

LEMMA MainDrops ==
  ASSUME NEW s \in Seq(Events), NEW s2 \in Seq(Events), NEW d, Drops(s2, s, d), MainFirst(s)
  PROVE  MainFirst(s2)
<1>1. /\ Len(s) \in Nat /\ Len(s2) \in Nat /\ d \in Nat
      /\ \A i \in DOMAIN s2 : i \in Nat /\ i + d \in DOMAIN s /\ s2[i] = s[i + d]
  BY DEF Drops
<1> QED
  BY <1>1 DEF MainFirst

LEMMA MainGrows ==
  ASSUME NEW s \in Seq(Events), NEW e \in Events, NEW s2 \in Seq(Events), Grown(s2, s, e),
         MainFirst(s), e.by # "main"
  PROVE  MainFirst(s2)
<1> DEFINE n == Len(s)
<1>1. /\ n \in Nat /\ DOMAIN s = 1..n /\ DOMAIN s2 = 1..(n + 1) /\ s2[n + 1] = e
      /\ \A i \in 1..n : s2[i] = s[i]
  BY DEF Grown
<1>2. \A i, j \in DOMAIN s2 : i < j /\ s2[j].by = "main" => i \in DOMAIN s /\ j \in DOMAIN s
  BY <1>1
<1> QED
  BY <1>1, <1>2 DEF MainFirst

\* What a sequence that grew or lost its oldest events holds.
LEMMA HeldDrops ==
  ASSUME NEW s \in Seq(Events), NEW s2 \in Seq(Events), NEW d, Drops(s2, s, d)
  PROVE  /\ ToSet(s2) \subseteq ToSet(s) /\ \A i \in DOMAIN s : i > d => s[i] \in ToSet(s2)
         /\ \A i \in DOMAIN s2 : i + d \in DOMAIN s /\ s2[i] = s[i + d] /\ After(s2, i) = After(s, i + d)
<1>1. /\ Len(s) \in Nat /\ Len(s2) \in Nat /\ d \in Nat /\ Len(s2) = Len(s) - d
      /\ \A i \in DOMAIN s2 : i \in Nat /\ i + d \in DOMAIN s /\ s2[i] = s[i + d]
      /\ \A j \in DOMAIN s : j \in Nat /\ (j > d => j - d \in DOMAIN s2 /\ s2[j - d] = s[j])
  BY Shifted
<1>2. ASSUME NEW i \in DOMAIN s2 PROVE After(s2, i) = After(s, i + d)
  <2> DEFINE n == Len(s)
             m == Len(s2)
  <2>0. /\ n \in Nat /\ m \in Nat /\ i \in Nat /\ d \in Nat /\ m = n - d /\ DOMAIN s2 = 1..m /\ DOMAIN s = 1..n
    BY <1>1
  <2>1. \A j \in (i + 1)..m : j \in DOMAIN s2 /\ j + d \in (i + d + 1)..n
    BY <2>0
  <2>2. \A j \in (i + d + 1)..n : j \in DOMAIN s /\ j > d /\ j - d \in (i + 1)..m
    BY <2>0
  <2>3. \A j \in (i + 1)..m : s2[j] \in After(s, i + d)
    BY <1>1, <2>1 DEF After
  <2>4. \A j \in (i + d + 1)..n : s[j] \in After(s2, i)
    BY <1>1, <2>2 DEF After
  <2> QED
    BY <2>3, <2>4 DEF After
<1> QED
  BY <1>1, <1>2 DEF ToSet

LEMMA HeldGrows ==
  ASSUME NEW s \in Seq(Events), NEW e \in Events, NEW s2 \in Seq(Events), Grown(s2, s, e)
  PROVE  /\ ToSet(s2) = ToSet(s) \cup {e}
         /\ \A i \in DOMAIN s : i \in DOMAIN s2 /\ s2[i] = s[i] /\ After(s2, i) = After(s, i) \cup {e}
<1> DEFINE n == Len(s)
<1>1. /\ n \in Nat /\ DOMAIN s = 1..n /\ DOMAIN s2 = 1..(n + 1) /\ s2[n + 1] = e
      /\ Len(s2) = n + 1 /\ \A i \in 1..n : s2[i] = s[i]
  BY DEF Grown
<1>2. ASSUME NEW i \in DOMAIN s PROVE After(s2, i) = After(s, i) \cup {e}
  <2>1. i \in Nat /\ i <= n
    BY <1>1
  <2>2. \A j : j \in (i + 1)..(n + 1) <=> (j \in (i + 1)..n \/ j = n + 1)
    BY <1>1, <2>1
  <2>3. \A j \in (i + 1)..n : s2[j] = s[j]
    BY <1>1, <2>1
  <2> QED
    BY <1>1, <2>2, <2>3 DEF After
<1>3. \A j : j \in 1..(n + 1) <=> (j \in 1..n \/ j = n + 1)
  BY <1>1
<1> QED
  BY <1>1, <1>2, <1>3 DEF ToSet

-----------------------------------------------------------------------------
(* Counting events                                                         *)

LEMMA AfterFinite ==
  ASSUME NEW s \in Seq(Events), NEW i \in 0..Len(s)
  PROVE  IsFiniteSet(After(s, i)) /\ Cardinality(After(s, i)) <= Len(s) - i
<1> DEFINE I == (i + 1)..Len(s)
           T == After(s, i)
           f == [j \in I |-> s[j]]
<1>1. i \in Nat /\ Len(s) \in Nat /\ i <= Len(s)
  OBVIOUS
<1>2. IsFiniteSet(I) /\ Cardinality(I) = Len(s) - i
  <2> DEFINE a == i + 1
             b == Len(s)
  <2>1. a \in Int /\ b \in Int /\ (IF a > b THEN 0 ELSE b - a + 1) = b - i
    BY <1>1
  <2> HIDE DEF a, b
  <2>2. IsFiniteSet(a..b) /\ Cardinality(a..b) = b - i
    BY <2>1, FS_Interval
  <2> QED
    BY <2>2 DEF a, b
<1>3. f \in [I -> T] /\ \A t \in T : \E j \in I : f[j] = t
  BY DEF After
<1> HIDE DEF f, T, I
<1>4. f \in Surjection(I, T)
  BY <1>3, Fun_IsSurj
<1>5. IsFiniteSet(T) /\ Cardinality(T) <= Cardinality(I)
  BY <1>2, <1>4, FS_Surjection
<1> QED
  BY <1>2, <1>5 DEF T

LEMMA HeldFinite ==
  ASSUME NEW s \in Seq(Events)
  PROVE  /\ IsFiniteSet(ToSet(s))
         /\ (\A i, j \in DOMAIN s : i # j => s[i] # s[j]) => Cardinality(ToSet(s)) = Len(s)
<1> DEFINE n == Len(s)
           I == 1..n
           T == ToSet(s)
<1>1. n \in Nat /\ DOMAIN s = I
  OBVIOUS
<1>2. IsFiniteSet(I) /\ Cardinality(I) = n
  BY <1>1, FS_Interval
<1>3. s \in [I -> T] /\ \A t \in T : \E j \in I : s[j] = t
  BY <1>1 DEF ToSet
<1>4. s \in Surjection(I, T)
  BY <1>3, Fun_IsSurj
<1> HIDE DEF T, I, n
<1>5. /\ IsFiniteSet(T)
      /\ Cardinality(T) = Cardinality(I) <=> s \in Injection(I, T)
  BY <1>2, <1>4, FS_Surjection
<1>6. ASSUME \A i, j \in DOMAIN s : i # j => s[i] # s[j] PROVE Cardinality(T) = n
  <2>1. \A a, b \in I : s[a] = s[b] => a = b
    BY <1>1, <1>6
  <2>2. s \in Injection(I, T)
    BY <1>3, <2>1, Fun_IsInj
  <2> QED
    BY <1>2, <1>5, <2>2
<1> QED
  BY <1>5, <1>6 DEF T, n

LEMMA OwedFinite ==
  ASSUME JournalAssumption
  PROVE  /\ IsFiniteSet(Owing) /\ Cardinality(Owing) \in Nat /\ IsFiniteSet(Owed)
         /\ IsFiniteSet(Owing') /\ Cardinality(Owing') \in Nat /\ IsFiniteSet(Owed')
<1>0. IsFiniteSet(Goroutine)
  BY DEF JournalAssumption
<1>1. IsFiniteSet(Owing) /\ IsFiniteSet(Owing')
  <2>1. Owing \in SUBSET Goroutine /\ Owing' \in SUBSET Goroutine
    BY DEF Owing
  <2> QED
    BY <1>0, <2>1, FS_Subset
<1>2. IsFiniteSet(Owed)
  <2> DEFINE f == [g \in Owing |-> due[g]]
  <2>1. f \in [Owing -> Owed] /\ \A t \in Owed : \E g \in Owing : f[g] = t
    BY DEF Owed
  <2>2. f \in Surjection(Owing, Owed)
    BY <2>1, Fun_IsSurj
  <2> QED
    BY <1>1, <2>2, FS_Surjection
<1>3. IsFiniteSet(Owed')
  <2> DEFINE f == [g \in Owing' |-> due'[g]]
  <2>1. f \in [Owing' -> Owed'] /\ \A t \in Owed' : \E g \in Owing' : f[g] = t
    BY DEF Owed
  <2>2. f \in Surjection(Owing', Owed')
    BY <2>1, Fun_IsSurj
  <2> QED
    BY <1>1, <2>2, FS_Surjection
<1> QED
  BY <1>1, <1>2, <1>3, FS_CardinalityType

LEMMA LaterFinite ==
  ASSUME JournalAssumption, JournalTypes, NEW i \in DOMAIN Mirror
  PROVE  IsFiniteSet(Later(i))
<1>1. Mirror \in Seq(Events) /\ i \in 0..Len(Mirror)
  BY DEF JournalTypes, Mirror
<1> QED
  BY <1>1, AfterFinite, OwedFinite, FS_Union DEF Later

\* No event is twice in the log, or twice in the panel.
LEMMA Distinct ==
  ASSUME JournalAssumption, NEW s \in Seq(Events), MainFirst(s),
         NEW last, \A g \in Goroutine : InLine(g, s, last[g])
  PROVE  \A i, j \in DOMAIN s : i # j => s[i] # s[j]
<1> SUFFICES ASSUME NEW i \in DOMAIN s, NEW j \in DOMAIN s, i < j PROVE s[i] # s[j]
  OBVIOUS
<1>1. s[j].by \in Author
  <2>1. s[j] \in Events
    BY Numbered
  <2> QED
    BY <2>1 DEF Events
<1>2. CASE s[j].by = "main"
  BY <1>2, Numbered DEF MainFirst
<1>3. CASE s[j].by \in Goroutine
  BY <1>3, Numbered DEF InLine
<1> QED
  BY <1>1, <1>2, <1>3 DEF Author

-----------------------------------------------------------------------------
(* The steps                                                               *)

LEMMA JournalStarts ==
  ASSUME JournalAssumption, JournalInit
  PROVE  JournalInv
<1>1. PICK n \in 0..MaxBacklog : log = Bounded([i \in 1..n |-> Event("main", i, "command")])
  BY DEF JournalInit
<1> DEFINE s == [i \in 1..n |-> Event("main", i, "command")]
<1>2. n \in Nat
  BY <1>1 DEF JournalAssumption
<1>3. s \in Seq(Events) /\ Len(s) = n /\ \A i \in 1..n : s[i].by = "main" /\ s[i].n = i
  <2>1. \A i \in 1..n : Event("main", i, "command") \in Events
    BY <1>2 DEF Event, Events, Author, Kind
  <2>2. s \in [1..n -> Events]
    BY <2>1
  <2>3. \A i \in 1..n : s[i].by = "main" /\ s[i].n = i
    BY DEF Event
  <2> QED
    BY <1>2, <2>2, <2>3
<1>4. MainFirst(s)
  BY <1>2, <1>3 DEF MainFirst
<1> HIDE DEF s
<1>5. /\ log = Bounded(s) /\ log \in Seq(Events) /\ Len(log) = Lower(Capacity, Len(s))
      /\ Drops(log, s, Len(s) - Len(log))
  BY <1>1, <1>3, BoundedDrops DEF s
<1>6. Len(log) <= Capacity /\ \A i \in DOMAIN log : log[i].by = "main"
  <2>1. Len(log) <= Capacity
    BY <1>2, <1>3, <1>5 DEF Lower, JournalAssumption
  <2> DEFINE d == Len(s) - Len(log)
  <2>3. \A i \in DOMAIN s : s[i].by = "main"
    BY <1>2, <1>3
  <2>4. Drops(log, s, d)
    BY <1>5
  <2> HIDE DEF d
  <2>2. \A i \in DOMAIN log : i + d \in DOMAIN s /\ log[i] = s[i + d]
    <3>1. s \in Seq(Events) /\ log \in Seq(Events)
      BY <1>3, <1>5
    <3> QED
      BY <2>4, <3>1, Shifted
  <2> QED
    BY <2>1, <2>2, <2>3
<1>7. /\ built = "no" /\ queued = <<>> /\ panel = <<>> /\ commandsOnly = FALSE
      /\ emitted = [g \in Goroutine |-> 0] /\ due = [g \in Goroutine |-> None]
  BY DEF JournalInit
<1>8. Mirror = <<>> /\ Owing = {} /\ Owed = {}
  BY <1>7 DEF Mirror, Owing, Owed
<1>9. Started
  BY <1>6, <1>7 DEF Started
<1>10. JournalTypes
  <2>1. <<>> \in Seq(Events) /\ Len(<<>>) <= Capacity
    BY DEF JournalAssumption
  <2>2. emitted \in [Goroutine -> Nat] /\ due \in [Goroutine -> Events \cup {None}]
    BY <1>7
  <2> QED
    BY <1>5, <1>6, <1>7, <2>1, <2>2 DEF JournalTypes
<1>11. Lines
  <2>1. MainFirst(log)
    BY <1>3, <1>4, <1>5, MainDrops
  <2>2. MainFirst(Mirror)
    BY <1>8 DEF MainFirst
  <2>3. ASSUME NEW g \in Goroutine PROVE InLine(g, log, emitted[g]) /\ InLine(g, Mirror, Notified(g))
    <3>1. g # "main"
      BY DEF JournalAssumption
    <3> QED
      BY <1>6, <1>8, <3>1 DEF InLine
  <2> QED
    BY <2>1, <2>2, <2>3 DEF Lines
<1>12. Same
  <2>1. Seen = ToSet(log)
    BY <1>8 DEF Seen, ToSet
  <2>2. \A i, j \in DOMAIN log : log[i].n = log[j].n => i = j
    <3>1. \A i, j \in DOMAIN log : i < j \/ j < i \/ i = j
      BY <1>5
    <3>2. \A i, j \in DOMAIN log : i < j => log[i].n < log[j].n
      BY <1>3, <1>4, <1>5, <1>6, MainDrops DEF MainFirst
    <3> QED
      BY <1>5, <3>1, <3>2, Numbered
  <2> QED
    BY <2>1, <2>2 DEF Same, ToSet
<1>13. KeepsUp /\ Evicted
  BY <1>8 DEF KeepsUp, Evicted
<1>14. Backlog /\ Counted
  BY <1>7, <1>8 DEF Backlog, Counted, ToSet
<1> QED
  BY <1>9, <1>10, <1>11, <1>12, <1>13, <1>14 DEF JournalInv

\* Every event of a goroutine that is anywhere has a number it has reached.
LEMMA Reached ==
  ASSUME JournalInv, NEW e \in Seen, e.by \in Goroutine, JournalAssumption
  PROVE  e.n \in Nat /\ e.n <= emitted[e.by] /\ emitted[e.by] \in Nat
<1>1. JournalTypes /\ Lines /\ Started
  BY DEF JournalInv
<1>2. log \in Seq(Events) /\ Mirror \in Seq(Events) /\ emitted[e.by] \in Nat
  BY <1>1 DEF JournalTypes, Mirror
<1>3. CASE e \in ToSet(log)
  <2>1. PICK i \in DOMAIN log : e = log[i]
    BY <1>3 DEF ToSet
  <2>2. InLine(e.by, log, emitted[e.by])
    BY <1>1 DEF Lines
  <2> QED
    BY <1>2, <2>1, <2>2, Numbered DEF InLine
<1>4. CASE e \in ToSet(Mirror)
  <2>1. PICK i \in DOMAIN Mirror : e = Mirror[i]
    BY <1>4 DEF ToSet
  <2>2. InLine(e.by, Mirror, Notified(e.by))
    BY <1>1 DEF Lines
  <2>3. e.n \in Nat /\ e.n <= Notified(e.by)
    BY <1>2, <2>1, <2>2, Numbered DEF InLine
  <2> QED
    BY <1>2, <2>3 DEF Notified
<1>5. CASE e \in Owed
  <2>1. PICK g \in Goroutine : due[g] # None /\ e = due[g]
    BY <1>5 DEF Owed, Owing
  <2>2. e.by = g /\ e.n = emitted[g]
    BY <1>1, <2>1 DEF Started
  <2> QED
    BY <1>2, <2>2
<1> QED
  BY <1>3, <1>4, <1>5 DEF Seen

\* Owed is what the goroutines have not notified yet.
LEMMA Owes ==
  ASSUME NEW g \in Goroutine, NEW e, due' = [due EXCEPT ![g] = e], DOMAIN due = Goroutine
  PROVE  /\ e # None /\ due[g] = None => Owed' = Owed \cup {e} /\ Owing' = Owing \cup {g}
         /\ e = None /\ due[g] # None => Owed \subseteq Owed' \cup {due[g]} /\ Owed' \subseteq Owed
                                         /\ Owing' = Owing \ {g}
<1>1. due'[g] = e /\ \A h \in Goroutine \ {g} : due'[h] = due[h]
  OBVIOUS
<1>2. CASE e # None /\ due[g] = None
  <2>1. Owing' = Owing \cup {g} /\ g \notin Owing
    BY <1>1, <1>2 DEF Owing, None
  <2>2. Owed' = Owed \cup {e}
    BY <1>1, <2>1 DEF Owed
  <2> QED
    BY <1>2, <2>1, <2>2
<1>3. CASE e = None /\ due[g] # None
  <2>1. Owing' = Owing \ {g}
    BY <1>1, <1>3 DEF Owing, None
  <2>2. \A h \in Owing' : due'[h] = due[h] /\ h \in Owing
    BY <1>1, <2>1
  <2>3. Owed' \subseteq Owed
    BY <2>2 DEF Owed
  <2>4. Owed \subseteq Owed' \cup {due[g]}
    BY <2>1, <2>2 DEF Owed
  <2> QED
    BY <1>3, <2>1, <2>3, <2>4
<1> QED
  BY <1>2, <1>3

LEMMA Emission ==
  ASSUME JournalAssumption, JournalInv, NEW g \in Goroutine, NEW kind \in Kind, Emits(g, kind)
  PROVE  JournalInv'
<1> DEFINE e == Event(g, emitted[g] + 1, kind)
           s == Append(log, e)
           d == Len(s) - Len(log')
<1>1. /\ JournalTypes /\ Started /\ Lines /\ Same /\ KeepsUp /\ Evicted /\ Backlog /\ Counted
  BY DEF JournalInv
<1>2. /\ built = "subscribed" /\ due[g] = None /\ UNCHANGED <<built, queued, panel, shown, commandsOnly>>
      /\ emitted' = [emitted EXCEPT ![g] = @ + 1] /\ due' = [due EXCEPT ![g] = Event(g, emitted'[g], kind)]
      /\ log' = Bounded(Append(log, due'[g]))
  BY DEF Emits, view
<1>3. /\ emitted \in [Goroutine -> Nat] /\ DOMAIN due = Goroutine /\ log \in Seq(Events)
      /\ Mirror \in Seq(Events) /\ g # "main" /\ emitted[g] \in Nat
  BY <1>1 DEF JournalTypes, Mirror, JournalAssumption
<1>4. /\ emitted' \in [Goroutine -> Nat] /\ emitted'[g] = emitted[g] + 1
      /\ \A h \in Goroutine \ {g} : emitted'[h] = emitted[h]
  BY <1>2, <1>3
<1>5. e \in Events /\ e.by = g /\ e.n = emitted[g] + 1 /\ e # None
  BY <1>3 DEF Event, Events, Author, None, Kind, JournalAssumption
<1>6. due' = [due EXCEPT ![g] = e] /\ due'[g] = e /\ \A h \in Goroutine \ {g} : due'[h] = due[h]
  BY <1>2, <1>3, <1>4
<1>7. log' = Bounded(s)
  BY <1>2, <1>6
<1> HIDE DEF e
<1>8. s \in Seq(Events) /\ Grown(s, log, e) /\ Len(s) = Len(log) + 1
  BY <1>3, <1>5, AppendGrows
<1> HIDE DEF s
<1>9. /\ log' \in Seq(Events) /\ Len(log') = Lower(Capacity, Len(s)) /\ Drops(log', s, d)
  BY <1>7, <1>8, BoundedDrops
<1>10. /\ Len(log) \in Nat /\ Len(log) <= Capacity /\ Capacity \in Nat \ {0} /\ d \in {0, 1}
       /\ Len(log') <= Capacity /\ (d = 1 => Len(log) = Capacity /\ Len(log') = Capacity)
       /\ Len(log') \in Nat \ {0}
  BY <1>1, <1>3, <1>8, <1>9 DEF Lower, JournalTypes, JournalAssumption
<1> HIDE DEF d
<1>11. Mirror' = Mirror
  BY <1>2 DEF Mirror
<1>12. Owed' = Owed \cup {e} /\ Owing' = Owing \cup {g} /\ g \notin Owing
  BY <1>2, <1>3, <1>5, <1>6, Owes DEF Owing
<1>13. JournalTypes'
  <2>1. due' \in [Goroutine -> Events \cup {None}]
    BY <1>1, <1>5, <1>6 DEF JournalTypes
  <2> QED
    BY <1>1, <1>2, <1>4, <1>9, <1>10, <2>1 DEF JournalTypes
<1>14. Started'
  <2>1. \A h \in Goroutine : due'[h] # None => due'[h].by = h /\ due'[h].n = emitted'[h]
    BY <1>1, <1>4, <1>5, <1>6 DEF Started
  <2> QED
    BY <1>2, <2>1 DEF Started
<1>15. Lines'
  <2>1. MainFirst(log') /\ MainFirst(Mirror')
    BY <1>1, <1>3, <1>5, <1>8, <1>9, <1>11, MainGrows, MainDrops DEF Lines
  <2>2. ASSUME NEW h \in Goroutine PROVE InLine(h, log', emitted'[h]) /\ InLine(h, Mirror', Notified(h)')
    <3>1. InLine(h, log, emitted[h]) /\ InLine(h, Mirror, Notified(h)) /\ emitted[h] \in Int
      BY <1>1, <1>3 DEF Lines
    <3>2. InLine(h, s, emitted'[h])
      BY <1>3, <1>4, <1>5, <1>8, <3>1, LineGrows
    <3>3. emitted'[h] \in Int
      BY <1>4
    <3>4. InLine(h, log', emitted'[h])
      BY <1>8, <1>9, <3>2, <3>3, LineDrops
    <3>5. Notified(h)' = Notified(h)
      BY <1>2, <1>3, <1>4, <1>5, <1>6 DEF Notified
    <3> QED
      BY <1>11, <3>1, <3>4, <3>5
  <2> QED
    BY <2>1, <2>2 DEF Lines
<1>16. ToSet(s) = ToSet(log) \cup {e} /\ ToSet(log') \subseteq ToSet(s) /\ e \in ToSet(log')
  <2>1. Len(s) \in DOMAIN s /\ Len(s) > d /\ s[Len(s)] = e
    BY <1>8, <1>9, <1>10 DEF Drops, Grown
  <2> QED
    BY <1>3, <1>5, <1>8, <1>9, <2>1, HeldGrows, HeldDrops
<1>17. Seen' \subseteq Seen \cup {e}
  BY <1>11, <1>12, <1>16 DEF Seen
<1>18. \A f \in Seen : f.by = e.by => f.n # e.n /\ f.n < e.n
  BY <1>3, <1>5, Reached
<1>19. Same'
  BY <1>1, <1>17, <1>18 DEF Same
<1>20. \A p \in DOMAIN log' : \/ p + d \in DOMAIN log /\ log'[p] = log[p + d]
                              \/ p + d = Len(log) + 1 /\ log'[p] = e
  <2>1. \A p \in DOMAIN log' : p + d \in DOMAIN s /\ log'[p] = s[p + d]
    BY <1>8, <1>9, HeldDrops
  <2> QED
    BY <1>3, <1>8, <2>1 DEF Grown
<1>21. \A p, q \in DOMAIN log' : p < q => p + d \in DOMAIN log /\ log'[p] = log[p + d] /\ p + d < q + d
  <2>1. \A p, q \in DOMAIN log' : p < q => p + d < q + d /\ q + d <= Len(log) + 1
    BY <1>9, <1>10, <1>20
  <2> QED
    BY <1>9, <1>10, <1>20, <2>1
<1>22. \A i \in DOMAIN Mirror : Later(i) \cup {e} = Later(i)'
  BY <1>11, <1>12 DEF Later
<1>23. KeepsUp'
  <2> SUFFICES ASSUME NEW i \in DOMAIN Mirror, NEW p \in DOMAIN log', NEW q \in DOMAIN log',
                      Before(Mirror[i], log'[p]), p < q
               PROVE  log'[q] \in Later(i)'
    BY <1>11 DEF KeepsUp
  <2>1. p + d \in DOMAIN log /\ Before(Mirror[i], log[p + d]) /\ p + d < q + d
    BY <1>21
  <2>2. CASE log'[q] = e
    BY <1>22, <2>2
  <2>3. CASE q + d \in DOMAIN log /\ log'[q] = log[q + d]
    BY <1>1, <1>22, <2>1, <2>3 DEF KeepsUp
  <2> QED
    BY <1>20, <2>2, <2>3
<1>24. Evicted'
  <2> SUFFICES ASSUME NEW i \in DOMAIN Mirror, NEW f \in Seen' \ ToSet(log'), Before(Mirror[i], f)
               PROVE  Cardinality(Later(i)') >= Capacity
    BY <1>11 DEF Evicted
  <2>1. f \in Seen
    BY <1>16, <1>17
  <2>2. IsFiniteSet(Later(i)')
    <3>1. i \in DOMAIN Mirror'
      BY <1>11
    <3>2. IsFiniteSet(Later(i))
      BY <1>1, LaterFinite
    <3> QED
      BY <1>22, <3>2, FS_AddElement
  <2>3. CASE f \notin ToSet(log)
    <3>1. Cardinality(Later(i)) >= Capacity
      BY <1>1, <2>1, <2>3 DEF Evicted
    <3>2. Later(i) \in SUBSET Later(i)'
      BY <1>22
    <3>3. Cardinality(Later(i)) <= Cardinality(Later(i)')
      BY <2>2, <3>2, FS_Subset
    <3>4. Cardinality(Later(i)) \in Nat /\ Cardinality(Later(i)') \in Nat
      BY <1>1, <2>2, LaterFinite, FS_CardinalityType
    <3> QED
      BY <1>10, <3>1, <3>3, <3>4
  <2>4. CASE f \in ToSet(log)
    <3>1. PICK p \in DOMAIN log : f = log[p]
      BY <2>4 DEF ToSet
    <3>2. ~(p > d)
      <4>1. p \in DOMAIN s /\ s[p] = f
        BY <1>8, <3>1 DEF Grown
      <4> QED
        BY <1>8, <1>9, <4>1, HeldDrops
    <3>3. d = 1 /\ p = 1
      BY <1>3, <1>10, <3>1, <3>2
    <3>4. ASSUME NEW q \in DOMAIN log' PROVE log'[q] \in Later(i)'
      <4>1. CASE log'[q] = e
        BY <1>22, <4>1
      <4>2. CASE q + d \in DOMAIN log /\ log'[q] = log[q + d]
        <5>1. p < q + d
          BY <1>9, <3>3, <3>4
        <5> QED
          BY <1>1, <1>22, <3>1, <4>2, <5>1 DEF KeepsUp
      <4> QED
        BY <1>20, <4>1, <4>2
    <3>5. ToSet(log') \in SUBSET Later(i)'
      BY <3>4 DEF ToSet
    <3>6. Cardinality(ToSet(log')) = Capacity
      <4>1. \A h \in Goroutine : InLine(h, log', emitted'[h])
        BY <1>15 DEF Lines
      <4>2. MainFirst(log')
        BY <1>15 DEF Lines
      <4>3. \A x, y \in DOMAIN log' : x # y => log'[x] # log'[y]
        BY <1>9, <4>1, <4>2, Distinct
      <4> QED
        BY <1>9, <1>10, <3>3, <4>3, HeldFinite
    <3>7. Cardinality(ToSet(log')) <= Cardinality(Later(i)')
      BY <2>2, <3>5, FS_Subset
    <3> QED
      BY <3>6, <3>7
  <2> QED
    BY <2>3, <2>4
<1>25. Backlog'
  <2> SUFFICES ASSUME NEW i \in DOMAIN log', log'[i].by = "main",
                      NEW f \in ToSet(Mirror) \cup Owed \cup {e}, f.by # "main"
               PROVE  f \in ToSet(log')
    BY <1>11, <1>12 DEF Backlog
  <2>1. i + d \in DOMAIN log /\ log[i + d].by = "main" /\ i + d > d
    BY <1>3, <1>5, <1>9, <1>10, <1>20
  <2>2. CASE f = e
    BY <1>16, <2>2
  <2>3. CASE f \in ToSet(Mirror) \cup Owed
    <3>1. PICK p \in DOMAIN log : f = log[p]
      BY <1>1, <2>1, <2>3 DEF Backlog, ToSet
    <3>2. p > d
      <4>1. ~(p < i + d)
        BY <1>1, <2>1, <3>1 DEF Lines, MainFirst
      <4> QED
        BY <1>3, <1>9, <1>10, <2>1, <3>1, <4>1
    <3>3. p \in DOMAIN s /\ s[p] = f
      BY <1>8, <3>1 DEF Grown
    <3> QED
      BY <1>8, <1>9, <3>2, <3>3, HeldDrops
  <2> QED
    BY <2>2, <2>3
<1>26. Counted'
  <2>1. Cardinality(Owing') = Cardinality(Owing) + 1 /\ Cardinality(Owing) \in Nat
    BY <1>12, OwedFinite, FS_AddElement
  <2>2. Len(panel) \in Nat /\ Len(queued) \in Nat
    BY <1>1 DEF JournalTypes
  <2>3. Len(log) = Lower(Capacity, Len(panel) + Len(queued) + Cardinality(Owing))
    BY <1>1, <1>2 DEF Counted
  <2>4. Len(log') = Lower(Capacity, Len(panel) + Len(queued) + Cardinality(Owing'))
    BY <1>8, <1>9, <1>10, <2>1, <2>2, <2>3 DEF Lower
  <2> QED
    BY <1>2, <2>4 DEF Counted
<1> QED
  BY <1>13, <1>14, <1>15, <1>19, <1>23, <1>24, <1>25, <1>26 DEF JournalInv

LEMMA Notification ==
  ASSUME JournalAssumption, JournalInv, NEW g \in Goroutine, Notify(g)
  PROVE  JournalInv'
<1> DEFINE e == due[g]
           m2 == Mirror'
<1>1. /\ JournalTypes /\ Started /\ Lines /\ Same /\ KeepsUp /\ Evicted /\ Backlog /\ Counted
  BY DEF JournalInv
<1>2. /\ due[g] # None /\ due' = [due EXCEPT ![g] = None]
      /\ UNCHANGED <<log, built, emitted, panel, shown, commandsOnly>>
      /\ queued' = IF built = "subscribed" THEN Append(queued, due[g]) ELSE queued
  BY DEF Notify, view
<1>3. /\ emitted \in [Goroutine -> Nat] /\ DOMAIN due = Goroutine /\ log \in Seq(Events)
      /\ panel \in Seq(Events) /\ queued \in Seq(Events)
      /\ Mirror \in Seq(Events) /\ g # "main" /\ emitted[g] \in Nat
  BY <1>1 DEF JournalTypes, Mirror, JournalAssumption
<1>4. e \in Events /\ e.by = g /\ e.n = emitted[g] /\ built = "subscribed"
  BY <1>1, <1>2 DEF JournalTypes, Started
<1>5. due'[g] = None /\ \A h \in Goroutine \ {g} : due'[h] = due[h]
  BY <1>2, <1>3
<1>6. queued' = Append(queued, e) /\ queued' \in Seq(Events) /\ Len(queued') = Len(queued) + 1
  BY <1>2, <1>3, <1>4
<1>7. Owed \subseteq Owed' \cup {e} /\ Owed' \subseteq Owed /\ Owing' = Owing \ {g} /\ g \in Owing /\ e \in Owed
  BY <1>2, <1>3, Owes DEF Owing, Owed
<1> HIDE DEF e
<1>8. m2 = Append(Mirror, e)
  BY <1>2, <1>3, <1>4, <1>6, AppendConcat DEF Mirror
<1>9. m2 \in Seq(Events) /\ Grown(m2, Mirror, e) /\ Len(m2) = Len(Mirror) + 1
  BY <1>3, <1>4, <1>8, AppendGrows
<1> HIDE DEF m2
<1>10. /\ ToSet(m2) = ToSet(Mirror) \cup {e} /\ Mirror' = m2
       /\ \A i \in DOMAIN Mirror : m2[i] = Mirror[i] /\ After(m2, i) = After(Mirror, i) \cup {e}
       /\ \A i \in DOMAIN m2 : i \in DOMAIN Mirror \/ m2[i] = e
  <2>1. \A i \in DOMAIN m2 : i \in DOMAIN Mirror \/ m2[i] = e
    BY <1>3, <1>9 DEF Grown
  <2> QED
    BY <1>3, <1>4, <1>9, <2>1, HeldGrows DEF m2
<1>11. Seen' \subseteq Seen /\ log' = log
  BY <1>2, <1>7, <1>10 DEF Seen
<1>12. JournalTypes'
  <2>1. due' \in [Goroutine -> Events \cup {None}]
    BY <1>1, <1>5, <1>2 DEF JournalTypes
  <2> QED
    BY <1>1, <1>2, <1>6, <2>1 DEF JournalTypes
<1>13. Started'
  <2>1. \A h \in Goroutine : due'[h] # None => due'[h].by = h /\ due'[h].n = emitted'[h]
    BY <1>1, <1>2, <1>5 DEF Started
  <2> QED
    BY <1>2, <1>4, <2>1 DEF Started
<1>14. Lines'
  <2>1. MainFirst(log') /\ MainFirst(Mirror')
    BY <1>1, <1>3, <1>4, <1>9, <1>10, <1>11, MainGrows DEF Lines
  <2>2. ASSUME NEW h \in Goroutine PROVE InLine(h, log', emitted'[h]) /\ InLine(h, Mirror', Notified(h)')
    <3>1. InLine(h, log, emitted[h]) /\ InLine(h, Mirror, Notified(h)) /\ Notified(h) \in Int /\ emitted[h] \in Nat
      BY <1>1, <1>3 DEF Lines, Notified
    <3>2. CASE h = g
      <4>1. Notified(h) + 1 = emitted[g] /\ Notified(h)' = emitted[g]
        BY <1>2, <1>3, <1>5, <3>2 DEF Notified
      <4>2. InLine(h, m2, Notified(h) + 1)
        BY <1>3, <1>4, <1>9, <3>1, <3>2, <4>1, LineGrows
      <4> QED
        BY <1>2, <1>10, <3>1, <4>1, <4>2
    <3>3. CASE h # g
      <4>1. Notified(h)' = Notified(h)
        BY <1>2, <1>5, <3>3 DEF Notified
      <4>2. InLine(h, m2, Notified(h))
        BY <1>3, <1>4, <1>9, <3>1, <3>3, LineGrows
      <4> QED
        BY <1>2, <1>10, <3>1, <4>1, <4>2
    <3> QED
      BY <3>2, <3>3
  <2> QED
    BY <2>1, <2>2 DEF Lines
<1>15. Same'
  BY <1>1, <1>11 DEF Same
<1>16. \A f \in Seen' : ~Before(e, f)
  <2> SUFFICES ASSUME NEW f \in Seen', Before(e, f) PROVE FALSE
    OBVIOUS
  <2>1. f \in Seen /\ f.by = g /\ e.n < f.n
    BY <1>3, <1>4, <1>11 DEF Before
  <2>2. f.n \in Nat /\ f.n <= emitted[g]
    BY <2>1, Reached
  <2> QED
    BY <1>3, <1>4, <2>1, <2>2
<1>17. \A i \in DOMAIN Mirror : Later(i) \subseteq Later(i)'
  <2> SUFFICES ASSUME NEW i \in DOMAIN Mirror PROVE Later(i) \subseteq Later(i)'
    OBVIOUS
  <2>1. After(Mirror, i)' = After(Mirror, i) \cup {e}
    BY <1>10 DEF After
  <2>2. Later(i)' = After(Mirror, i)' \cup Owed'
    BY DEF Later
  <2> QED
    BY <1>7, <2>1, <2>2 DEF Later
<1>18. KeepsUp'
  <2> SUFFICES ASSUME NEW i \in DOMAIN m2, NEW p \in DOMAIN log, NEW q \in DOMAIN log,
                      Before(m2[i], log[p]), p < q
               PROVE  log[q] \in Later(i)'
    BY <1>10, <1>11 DEF KeepsUp
  <2>1. log[p] \in Seen'
    BY <1>11 DEF Seen, ToSet
  <2>2. i \in DOMAIN Mirror /\ Before(Mirror[i], log[p])
    BY <1>10, <1>16, <2>1
  <2> QED
    BY <1>1, <1>17, <2>2 DEF KeepsUp
<1>19. Evicted'
  <2> SUFFICES ASSUME NEW i \in DOMAIN m2, NEW f \in Seen' \ ToSet(log), Before(m2[i], f)
               PROVE  Cardinality(Later(i)') >= Capacity
    BY <1>10, <1>11 DEF Evicted
  <2>1. i \in DOMAIN Mirror /\ Before(Mirror[i], f) /\ f \in Seen \ ToSet(log)
    BY <1>10, <1>11, <1>16
  <2>2. Cardinality(Later(i)) >= Capacity
    BY <1>1, <2>1 DEF Evicted
  <2>3. IsFiniteSet(Later(i)')
    <3>1. i \in 0..Len(m2)
      BY <1>9
    <3>2. IsFiniteSet(After(m2, i)) /\ IsFiniteSet(Owed')
      BY <1>9, <3>1, AfterFinite, OwedFinite
    <3>3. Later(i)' = After(m2, i) \cup Owed'
      BY <1>10 DEF Later, After
    <3> QED
      BY <3>2, <3>3, FS_Union
  <2>4. Later(i) \in SUBSET Later(i)'
    BY <1>17, <2>1
  <2>5. Cardinality(Later(i)) <= Cardinality(Later(i)')
    BY <2>3, <2>4, FS_Subset
  <2>6. Cardinality(Later(i)) \in Nat /\ Cardinality(Later(i)') \in Nat /\ Capacity \in Nat
    BY <1>1, <2>1, <2>3, LaterFinite, FS_CardinalityType DEF JournalAssumption
  <2> QED
    BY <2>2, <2>5, <2>6
<1>20. Backlog'
  <2>1. ToSet(Mirror)' \cup Owed' \subseteq ToSet(Mirror) \cup Owed
    BY <1>7, <1>10
  <2> QED
    BY <1>1, <1>11, <2>1 DEF Backlog
<1>21. Counted'
  <2>1. Cardinality(Owing') = Cardinality(Owing) - 1 /\ Cardinality(Owing) \in Nat
    BY <1>7, OwedFinite, FS_RemoveElement
  <2>2. Len(panel) \in Nat /\ Len(queued) \in Nat
    BY <1>3
  <2>3. Len(log) = Lower(Capacity, Len(panel) + Len(queued) + Cardinality(Owing))
    BY <1>1, <1>4 DEF Counted
  <2>4. Len(panel) + Len(queued') + Cardinality(Owing') = Len(panel) + Len(queued) + Cardinality(Owing)
    BY <1>6, <2>1, <2>2
  <2> QED
    BY <1>2, <2>3, <2>4 DEF Counted
<1> QED
  BY <1>12, <1>13, <1>14, <1>15, <1>18, <1>19, <1>20, <1>21 DEF JournalInv

LEMMA Parts ==
  ASSUME NEW p \in Seq(Events), NEW q \in Seq(Events)
  PROVE  /\ p \o q \in Seq(Events) /\ Len(p \o q) = Len(p) + Len(q)
         /\ \A i \in 1..Len(p) : (p \o q)[i] = p[i]
         /\ \A i \in (Len(p) + 1)..(Len(p) + Len(q)) : (p \o q)[i] = q[i - Len(p)]
         /\ Len(q) > 0 => (p \o q)[Len(p) + 1] = q[1]
  OBVIOUS

LEMMA Arrival ==
  ASSUME JournalAssumption, JournalInv, AppendLogEvent
  PROVE  JournalInv'
<1> DEFINE e == Head(queued)
           s == Append(panel, e)
           d == Len(s) - Len(panel')
           m2 == Mirror'
<1>1. /\ JournalTypes /\ Started /\ Lines /\ Same /\ KeepsUp /\ Evicted /\ Backlog /\ Counted
  BY DEF JournalInv
<1>2. /\ queued # <<>> /\ queued' = Tail(queued) /\ panel' = Bounded(s)
      /\ UNCHANGED <<log, built, emitted, due, commandsOnly>>
  BY DEF AppendLogEvent
<1>3. /\ panel \in Seq(Events) /\ queued \in Seq(Events) /\ e \in Events /\ queued' \in Seq(Events)
      /\ Len(queued) \in Nat \ {0} /\ Len(queued') = Len(queued) - 1
      /\ \A i \in 1..Len(queued') : queued'[i] = queued[i + 1]
      /\ queued[1] = e /\ log \in Seq(Events) /\ emitted \in [Goroutine -> Nat]
  BY <1>1, <1>2 DEF JournalTypes
<1>4. built = "subscribed" \/ built = "seeded"
  BY <1>1, <1>2 DEF Started
<1>5. built = "subscribed"
  BY <1>1, <1>2 DEF Started
<1> HIDE DEF e
<1>6. s \in Seq(Events) /\ Grown(s, panel, e) /\ Len(s) = Len(panel) + 1
  BY <1>3, AppendGrows
<1> HIDE DEF s
<1>7. panel' \in Seq(Events) /\ Len(panel') = Lower(Capacity, Len(s)) /\ Drops(panel', s, d)
  BY <1>2, <1>6, BoundedDrops
<1>8. /\ Len(panel) \in Nat /\ Len(panel) <= Capacity /\ Capacity \in Nat \ {0} /\ d \in {0, 1}
       /\ Len(panel') <= Capacity /\ (d = 1 => Len(panel) = Capacity /\ Len(panel') = Capacity)
  <2>1. Len(panel) \in Nat /\ Len(panel) <= Capacity /\ Capacity \in Nat \ {0}
    BY <1>1 DEF JournalTypes, JournalAssumption
  <2> QED
    BY <1>6, <1>7, <2>1 DEF Lower
<1> DEFINE a == Len(panel)
           b == Len(queued)
           a2 == Len(panel')
<1>9. Mirror \in Seq(Events) /\ m2 \in Seq(Events) /\ Drops(m2, Mirror, d)
  <2>1. /\ Mirror \in Seq(Events) /\ Len(Mirror) = a + b /\ m2 \in Seq(Events) /\ Len(m2) = a2 + (b - 1)
        /\ \A i \in 1..a : Mirror[i] = panel[i]
        /\ \A i \in (a + 1)..(a + b) : Mirror[i] = queued[i - a]
        /\ Mirror[a + 1] = queued[1]
        /\ \A i \in 1..a2 : m2[i] = panel'[i]
        /\ \A i \in (a2 + 1)..(a2 + (b - 1)) : m2[i] = queued'[i - a2]
    <3>1. Mirror' = panel' \o queued' /\ Len(queued') = b - 1
      BY <1>3 DEF Mirror
    <3>2. /\ Mirror \in Seq(Events) /\ Len(Mirror) = a + b
          /\ \A i \in 1..a : Mirror[i] = panel[i]
          /\ \A i \in (a + 1)..(a + b) : Mirror[i] = queued[i - a]
          /\ Mirror[a + 1] = queued[1]
      BY <1>3, Parts DEF Mirror
    <3>3. panel' \in Seq(Events) /\ queued' \in Seq(Events)
      BY <1>3, <1>7
    <3>4. /\ m2 \in Seq(Events) /\ Len(m2) = a2 + Len(queued')
          /\ \A i \in 1..a2 : m2[i] = panel'[i]
          /\ \A i \in (a2 + 1)..(a2 + Len(queued')) : m2[i] = queued'[i - a2]
      BY <3>1, <3>3, Parts
    <3> QED
      BY <3>1, <3>2, <3>4
  <2>2. /\ a \in Nat /\ b \in Nat \ {0} /\ a2 \in Nat /\ a2 = a + 1 - d /\ d \in {0, 1}
    BY <1>3, <1>6, <1>7, <1>8 DEF d
  <2>3. /\ \A i \in 1..a2 : panel'[i] = s[i + d]
        /\ \A i \in 1..a : s[i] = panel[i]
        /\ s[a + 1] = e
    BY <1>6, <1>7 DEF Drops, Grown
  <2>4. \A i \in 1..(b - 1) : queued'[i] = queued[i + 1]
    BY <1>3
  <2> HIDE DEF a, b, a2, m2
  <2>5. ASSUME NEW i \in 1..(a2 + (b - 1)) PROVE m2[i] = Mirror[i + d]
    <3>1. CASE i \in 1..a2 /\ i + d \in 1..a
      BY <2>1, <2>3, <3>1
    <3>2. CASE i \in 1..a2 /\ i + d = a + 1
      <4>1. m2[i] = e
        BY <2>1, <2>3, <3>2
      <4> QED
        BY <1>3, <2>1, <3>2, <4>1
    <3>3. CASE i \in (a2 + 1)..(a2 + (b - 1))
      <4>1. i - a2 \in 1..(b - 1) /\ i + d \in (a + 1)..(a + b) /\ (i - a2) + 1 = (i + d) - a
        BY <2>2, <3>3
      <4>2. m2[i] = queued'[i - a2] /\ queued'[i - a2] = queued[(i - a2) + 1]
        BY <2>1, <2>4, <3>3, <4>1
      <4>3. Mirror[i + d] = queued[(i + d) - a]
        BY <2>1, <4>1
      <4> QED
        BY <4>1, <4>2, <4>3
    <3> QED
      BY <2>2, <2>5, <3>1, <3>2, <3>3
  <2>6. d \in 0..(a + b) /\ a2 + (b - 1) = (a + b) - d
    BY <2>2
  <2> QED
    BY <2>1, <2>5, <2>6 DEF Drops
<1> HIDE DEF m2, d, a, b, a2
<1>10. /\ ToSet(m2) \subseteq ToSet(Mirror) /\ Mirror' = m2 /\ Owed' = Owed /\ log' = log /\ Owing' = Owing
       /\ \A i \in DOMAIN m2 : i + d \in DOMAIN Mirror /\ m2[i] = Mirror[i + d] /\ After(m2, i) = After(Mirror, i + d)
  <2>1. Owing' = Owing
    BY <1>2 DEF Owing
  <2>2. Owed' = Owed
    BY <1>2, <2>1 DEF Owed
  <2> QED
    BY <1>2, <1>9, <2>1, <2>2, HeldDrops DEF m2
<1>11. Seen' \subseteq Seen
  BY <1>10 DEF Seen
<1>12. JournalTypes'
  BY <1>1, <1>2, <1>3, <1>7, <1>8 DEF JournalTypes
<1>13. Started'
  BY <1>1, <1>2, <1>5 DEF Started
<1>14. Lines'
  <2>1. MainFirst(log') /\ MainFirst(Mirror')
    BY <1>1, <1>9, <1>10, MainDrops DEF Lines
  <2>2. ASSUME NEW h \in Goroutine PROVE InLine(h, log', emitted'[h]) /\ InLine(h, Mirror', Notified(h)')
    <3>1. InLine(h, log, emitted[h]) /\ InLine(h, Mirror, Notified(h)) /\ Notified(h) \in Int
      BY <1>1, <1>3 DEF Lines, Notified
    <3>2. Notified(h)' = Notified(h)
      BY <1>2 DEF Notified
    <3>3. InLine(h, m2, Notified(h))
      BY <1>9, <3>1, LineDrops
    <3> QED
      BY <1>2, <1>10, <3>1, <3>2, <3>3
  <2> QED
    BY <2>1, <2>2 DEF Lines
<1>15. Same'
  BY <1>1, <1>11 DEF Same
<1>16. \A i \in DOMAIN m2 : Later(i)' = Later(i + d)
  <2> SUFFICES ASSUME NEW i \in DOMAIN m2 PROVE Later(i)' = Later(i + d)
    OBVIOUS
  <2>1. Later(i)' = After(m2, i) \cup Owed'
    BY <1>10 DEF Later, After
  <2> QED
    BY <1>10, <2>1 DEF Later
<1>17. KeepsUp'
  BY <1>1, <1>10, <1>16 DEF KeepsUp
<1>18. Evicted'
  <2> SUFFICES ASSUME NEW i \in DOMAIN m2, NEW f \in Seen' \ ToSet(log), Before(m2[i], f)
               PROVE  Cardinality(Later(i)') >= Capacity
    BY <1>10 DEF Evicted
  <2>1. i + d \in DOMAIN Mirror /\ Before(Mirror[i + d], f) /\ f \in Seen \ ToSet(log)
    BY <1>10, <1>11
  <2>2. Cardinality(Later(i + d)) >= Capacity
    BY <1>1, <2>1 DEF Evicted
  <2> QED
    BY <1>16, <2>2
<1>19. Backlog'
  <2>1. ToSet(Mirror)' \cup Owed' \subseteq ToSet(Mirror) \cup Owed
    BY <1>10
  <2> QED
    BY <1>1, <1>10, <2>1 DEF Backlog
<1>20. Counted'
  <2> DEFINE o == Cardinality(Owing)
  <2>1. o \in Nat /\ a \in Nat /\ b \in Nat \ {0} /\ a2 = Lower(Capacity, a + 1) /\ a <= Capacity
    BY <1>3, <1>6, <1>7, <1>8, OwedFinite DEF a, b, a2
  <2>2. Len(log) = Lower(Capacity, a + b + o)
    BY <1>1, <1>5 DEF Counted, a, b
  <2> HIDE DEF o
  <2>3. Lower(Capacity, a2 + (b - 1) + o) = Lower(Capacity, a + b + o)
    BY <1>8, <2>1 DEF Lower
  <2>4. Cardinality(Owing') = o /\ Len(queued') = b - 1 /\ Len(panel') = a2
    BY <1>3, <1>10 DEF o, b, a2
  <2> QED
    BY <1>10, <2>2, <2>3, <2>4 DEF Counted
<1> QED
  BY <1>12, <1>13, <1>14, <1>15, <1>17, <1>18, <1>19, <1>20 DEF JournalInv

LEMMA Seeding ==
  ASSUME JournalAssumption, JournalInv, Seed
  PROVE  JournalInv'
<1>1. /\ JournalTypes /\ Started /\ Lines /\ Same /\ KeepsUp /\ Evicted /\ Backlog /\ Counted
  BY DEF JournalInv
<1>2. /\ built = "no" /\ built' = "seeded" /\ panel' = log
      /\ UNCHANGED <<log, emitted, due, queued, commandsOnly>>
  BY DEF Seed
<1>3. /\ queued = <<>> /\ log \in Seq(Events) /\ Len(log) <= Capacity /\ Len(log) \in Nat
      /\ \A g \in Goroutine : emitted[g] = 0 /\ due[g] = None
      /\ \A i \in DOMAIN log : log[i].by = "main"
  BY <1>1, <1>2 DEF JournalTypes, Started
<1>4. Mirror' = log /\ Owing = {} /\ Owing' = {} /\ Owed' = {}
  BY <1>2, <1>3 DEF Mirror, Owing, Owed
<1>5. Seen' = ToSet(log) /\ Seen' \subseteq Seen
  BY <1>2, <1>4 DEF Seen
<1>6. JournalTypes' /\ Started'
  BY <1>1, <1>2, <1>3 DEF JournalTypes, Started
<1>7. Lines'
  <2>1. ASSUME NEW g \in Goroutine PROVE InLine(g, log, emitted[g]) /\ InLine(g, log, Notified(g)')
    <3>1. g # "main"
      BY DEF JournalAssumption
    <3> QED
      BY <1>3, <3>1 DEF InLine
  <2> QED
    BY <1>1, <1>2, <1>4, <2>1 DEF Lines
<1>8. Same'
  BY <1>1, <1>5 DEF Same
<1>9. KeepsUp'
  <2> SUFFICES ASSUME NEW i \in DOMAIN log, NEW p \in DOMAIN log, NEW q \in DOMAIN log,
                      Before(log[i], log[p]), p < q
               PROVE  log[q] \in Later(i)'
    BY <1>2, <1>4 DEF KeepsUp
  <2>1. ~(p < i)
    BY <1>1, <1>3, Numbered DEF Lines, MainFirst, Before
  <2>2. q \in (i + 1)..Len(log)
    BY <1>3, <2>1
  <2> QED
    BY <1>4, <2>2 DEF Later, After
<1>10. Evicted' /\ Backlog'
  BY <1>2, <1>4, <1>5 DEF Evicted, Backlog
<1>11. Counted'
  <2>1. Cardinality(Owing') = 0
    BY <1>4, FS_EmptySet
  <2>2. Len(queued') = 0
    BY <1>2, <1>3
  <2>3. Len(log) = Lower(Capacity, Len(log) + 0 + 0)
    BY <1>3 DEF Lower, JournalAssumption
  <2> QED
    BY <1>2, <2>1, <2>2, <2>3 DEF Counted
<1> QED
  BY <1>6, <1>7, <1>8, <1>9, <1>10, <1>11 DEF JournalInv

LEMMA Quiet ==
  ASSUME JournalInv, UNCHANGED <<log, emitted, due, queued, panel>>, commandsOnly' \in BOOLEAN,
         built' = built \/ (built = "seeded" /\ built' = "subscribed")
  PROVE  JournalInv'
<1>1. /\ JournalTypes /\ Started /\ Lines /\ Same /\ KeepsUp /\ Evicted /\ Backlog /\ Counted
  BY DEF JournalInv
<1>2. Mirror' = Mirror /\ Owing' = Owing /\ Owed' = Owed
  BY DEF Mirror, Owing, Owed
<1>3. Seen' = Seen /\ \A g : Notified(g)' = Notified(g)
  BY <1>2 DEF Seen, Notified
<1>4. \A i \in DOMAIN Mirror : Later(i)' = Later(i)
  BY <1>2 DEF Later
<1>5. JournalTypes' /\ Started'
  BY <1>1 DEF JournalTypes, Started
<1>6. Lines' /\ Same'
  BY <1>1, <1>2, <1>3 DEF Lines, Same
<1>7. KeepsUp' /\ Evicted' /\ Backlog' /\ Counted'
  BY <1>1, <1>2, <1>3, <1>4 DEF KeepsUp, Evicted, Backlog, Counted
<1> QED
  BY <1>5, <1>6, <1>7 DEF JournalInv

LEMMA JournalStep ==
  ASSUME JournalAssumption, JournalInv, [JournalNext]_journalVars
  PROVE  JournalInv'
<1>0. commandsOnly \in BOOLEAN
  BY DEF JournalInv, JournalTypes
<1>1. CASE Subscribe
  BY <1>0, <1>1, Quiet DEF Subscribe, view
<1>2. CASE Toggle
  BY <1>0, <1>2, Quiet DEF Toggle
<1>3. CASE UNCHANGED journalVars
  BY <1>0, <1>3, Quiet DEF journalVars
<1>4. CASE Seed
  BY <1>4, Seeding
<1>5. CASE AppendLogEvent
  BY <1>5, Arrival
<1>6. ASSUME NEW g \in Goroutine, Notify(g) PROVE JournalInv'
  BY <1>6, Notification
<1>7. ASSUME NEW g \in Goroutine, NEW kind \in Kind, Emits(g, kind) PROVE JournalInv'
  BY <1>7, Emission
<1> QED
  BY <1>1, <1>2, <1>3, <1>4, <1>5, <1>6, <1>7 DEF JournalNext

LEMMA JournalInvariant == JournalSpec => []JournalInv
<1>1. JournalInit => JournalInv
  BY JournalAssumption, JournalStarts
<1>2. JournalInv /\ [JournalNext]_journalVars => JournalInv'
  BY JournalAssumption, JournalStep
<1> QED
  BY <1>1, <1>2, PTL DEF JournalSpec

-----------------------------------------------------------------------------
(* What the operator sees                                                  *)

\* activitylog.go:157: what one goroutine reports is in the log and in the panel in its
\* order and without a gap: no notification overtakes another of the same goroutine.
THEOREM OrderIsKept == JournalSpec => []OwnOrder
<1>1. JournalInv => OwnOrder
  <2> SUFFICES ASSUME JournalInv, NEW g \in Goroutine
               PROVE  Consecutive(g, log) /\ Consecutive(g, panel \o queued)
    BY DEF OwnOrder
  <2>1. log \in Seq(Events) /\ Mirror \in Seq(Events) /\ emitted[g] \in Int /\ Notified(g) \in Int
    BY DEF JournalInv, JournalTypes, Mirror, Notified
  <2>2. InLine(g, log, emitted[g]) /\ InLine(g, Mirror, Notified(g))
    BY DEF JournalInv, Lines
  <2> QED
    BY <2>1, <2>2, LineConsecutive DEF Mirror
<1> QED
  BY <1>1, JournalInvariant, PTL

\* An event that has left the log is followed in the panel by a whole log's worth of
\* events once nothing is queued or owed, so no other of its goroutine is before it.
LEMMA StaleOnes ==
  ASSUME JournalAssumption, JournalInv, queued = <<>>, \A g \in Goroutine : due[g] = None,
         NEW e \in ToSet(panel), NEW f \in Stale, Before(e, f)
  PROVE  FALSE
<1>1. Mirror = panel /\ panel \in Seq(Events) /\ Len(panel) <= Capacity /\ Owed = {}
  BY DEF JournalInv, JournalTypes, Mirror, Owed, Owing
<1>2. PICK i \in DOMAIN panel : e = panel[i]
  BY DEF ToSet
<1>3. f \in Seen \ ToSet(log)
  BY <1>1 DEF Stale, Seen
<1>4. Cardinality(Later(i)) >= Capacity
  BY <1>1, <1>2, <1>3 DEF JournalInv, Evicted
<1>5. Later(i) = After(panel, i)
  BY <1>1 DEF Later
<1>6. i \in 0..Len(panel) /\ i >= 1 /\ Len(panel) \in Nat
  BY <1>1, <1>2
<1>7. IsFiniteSet(After(panel, i)) /\ Cardinality(After(panel, i)) <= Len(panel) - i
  BY <1>1, <1>6, AfterFinite
<1>8. Cardinality(After(panel, i)) \in Nat /\ Capacity \in Nat
  BY <1>7, FS_CardinalityType DEF JournalAssumption
<1> QED
  BY <1>1, <1>4, <1>5, <1>6, <1>7, <1>8

\* gui.go:381: when all is quiet the panel holds as many events as the log, and at most one
\* of each goroutine but one has already left the log, whatever the number of goroutines,
\* of events and the capacity.
THEOREM PanelIsFresh == JournalSpec => []PanelFollowsLog
<1>1. JournalInv => PanelFollowsLog
  <2> SUFFICES ASSUME JournalInv, built = "subscribed", queued = <<>>, \A g \in Goroutine : due[g] = None
               PROVE  Len(panel) = Len(log) /\ Cardinality(Stale) < Cardinality(Goroutine)
    BY DEF PanelFollowsLog
  <2> USE JournalAssumption
  <2> DEFINE logged == ToSet(log)
             held == ToSet(panel)
  <2>1. /\ log \in Seq(Events) /\ panel \in Seq(Events) /\ Len(panel) <= Capacity /\ Len(panel) \in Nat
        /\ Mirror = panel /\ Owing = {} /\ Owed = {} /\ emitted \in [Goroutine -> Nat]
    BY DEF JournalInv, JournalTypes, Mirror, Owed, Owing
  <2>2. Len(panel) = Len(log)
    <3>1. Cardinality(Owing) = 0 /\ Len(queued) = 0
      BY <2>1, FS_EmptySet
    <3>2. Len(log) = Lower(Capacity, Len(panel) + 0 + 0)
      BY <3>1 DEF JournalInv, Counted
    <3> QED
      BY <2>1, <3>2 DEF Lower, JournalAssumption
  <2>3. /\ MainFirst(log) /\ MainFirst(panel)
        /\ \A g \in Goroutine : InLine(g, log, emitted[g]) /\ InLine(g, panel, emitted[g])
    BY <2>1 DEF JournalInv, Lines, Notified
  <2>4. /\ IsFiniteSet(logged) /\ Cardinality(logged) = Len(log)
        /\ IsFiniteSet(held) /\ Cardinality(held) = Len(panel)
    BY <2>1, <2>3, Distinct, HeldFinite
  <2>5. IsFiniteSet(Goroutine) /\ Goroutine # {} /\ Cardinality(Goroutine) \in Nat \ {0}
    BY FS_CardinalityType, FS_EmptySet DEF JournalAssumption
  <2>6. Stale = held \ logged /\ \A e \in Stale : e \in Events /\ e \in Seen /\ e.n \in Nat /\ e.by \in Author
    <3>1. \A e \in held : e \in Events
      BY <2>1 DEF ToSet
    <3>2. \A e \in Events : e.n \in Nat /\ e.by \in Author
      BY DEF Events
    <3> QED
      BY <2>1, <3>1, <3>2 DEF Stale, Seen
  <2>7. CASE Stale = {}
    BY <2>2, <2>5, <2>7, FS_EmptySet
  <2>8. CASE Stale # {}
    <3>1. \E f \in logged : f \notin held
      <4>1. logged \subseteq held => logged = held
        BY <2>2, <2>4, FS_Subset
      <4> QED
        BY <2>6, <2>8, <4>1
    <3>2. PICK f \in logged : f \notin held
      BY <3>1
    <3>3. f \in Events /\ f.n \in Nat /\ f.by \in Author /\ f \in Seen
      <4>1. f \in Events
        BY <2>1 DEF ToSet
      <4> QED
        BY <4>1 DEF Events, Seen
    <3>4. \A e \in Stale : e.by # "main"
      <4> SUFFICES ASSUME NEW e \in Stale, e.by = "main" PROVE FALSE
        OBVIOUS
      <4>1. Before(e, e)
        BY DEF Before
      <4> QED
        BY <2>6, <4>1, StaleOnes
    <3>5. f.by \in Goroutine
      <4> SUFFICES ASSUME f.by = "main" PROVE FALSE
        BY <3>3 DEF Author
      <4>1. \E i \in DOMAIN log : log[i].by = "main"
        BY DEF ToSet
      <4>2. \A e \in held : e.by # "main" => e \in logged
        BY <2>1, <4>1 DEF JournalInv, Backlog
      <4> QED
        BY <2>6, <2>8, <3>4, <4>2
    <3>6. \A e \in Stale : e.by # f.by
      <4> SUFFICES ASSUME NEW e \in Stale, e.by = f.by PROVE FALSE
        OBVIOUS
      <4>1. e.n <= emitted[f.by] /\ f.n <= emitted[f.by] /\ emitted[f.by] \in Nat
        BY <2>6, <3>3, <3>5, Reached
      <4>2. CASE e.n <= f.n
        <5>1. PICK i \in DOMAIN panel : e = panel[i]
          BY <2>6 DEF ToSet
        <5>2. f.n \in e.n..emitted[f.by]
          BY <2>6, <3>3, <4>1, <4>2
        <5>3. PICK j \in DOMAIN panel : panel[j].by = f.by /\ panel[j].n = f.n
          BY <2>3, <3>5, <5>1, <5>2 DEF InLine
        <5>4. panel[j] \in Seen /\ panel[j] \in held
          BY <2>1 DEF Seen, ToSet
        <5>5. panel[j] = f
          BY <3>3, <5>3, <5>4 DEF JournalInv, Same
        <5> QED
          BY <3>2, <5>4, <5>5
      <4>3. CASE f.n < e.n
        <5>1. PICK i \in DOMAIN log : f = log[i]
          BY DEF ToSet
        <5>2. e.n \in f.n..emitted[f.by]
          BY <2>6, <3>3, <4>1, <4>3
        <5>3. PICK j \in DOMAIN log : log[j].by = f.by /\ log[j].n = e.n
          BY <2>3, <3>5, <5>1, <5>2 DEF InLine
        <5>4. log[j] \in Seen /\ log[j] \in logged
          BY DEF Seen, ToSet
        <5>5. log[j] = e
          BY <2>6, <5>3, <5>4 DEF JournalInv, Same
        <5> QED
          BY <2>6, <5>4, <5>5
      <4> QED
        BY <2>6, <3>3, <4>2, <4>3
    <3>7. \A e, h \in Stale : e.by = h.by => e = h
      <4> SUFFICES ASSUME NEW e \in Stale, NEW h \in Stale, e.by = h.by, e # h PROVE FALSE
        OBVIOUS
      <4>1. e.n # h.n
        BY <2>6 DEF JournalInv, Same
      <4>2. e.n < h.n \/ h.n < e.n
        BY <2>6, <4>1
      <4>3. Before(e, h) \/ Before(h, e)
        BY <4>2 DEF Before
      <4> QED
        BY <2>6, <4>3, StaleOnes
    <3> DEFINE others == Goroutine \ {f.by}
               author == [e \in Stale |-> e.by]
    <3>8. author \in [Stale -> others] /\ \A e, h \in Stale : author[e] = author[h] => e = h
      BY <2>6, <3>4, <3>6, <3>7 DEF Author
    <3>9. IsFiniteSet(others) /\ Cardinality(others) = Cardinality(Goroutine) - 1
      BY <2>5, <3>5, FS_RemoveElement
    <3> HIDE DEF others, author
    <3>10. author \in Injection(Stale, others)
      BY <3>8, Fun_IsInj
    <3>11. IsFiniteSet(Stale) /\ Cardinality(Stale) <= Cardinality(others)
      BY <3>9, <3>10, FS_Injection
    <3>12. Cardinality(Stale) \in Nat
      BY <3>11, FS_CardinalityType
    <3> QED
      BY <2>2, <2>5, <3>9, <3>11, <3>12
  <2> QED
    BY <2>7, <2>8
<1> QED
  BY <1>1, JournalInvariant, PTL

LEMMA FilterGrows ==
  ASSUME NEW s \in Seq(Events), NEW e \in Events, NEW s2 \in Seq(Events), Grown(s2, s, e), NEW only
  PROVE  Filtered(s2, only) = Filtered(s, only) \o Rows(e, only)
<1> DEFINE n == Len(s)
           rows == [i \in DOMAIN s |-> Rows(s[i], only)]
           rows2 == [i \in DOMAIN s2 |-> Rows(s2[i], only)]
           new == Rows(e, only)
<1>1. \A x \in Events : Rows(x, only) \in Seq(Events)
  BY DEF Rows
<1>2. /\ n \in Nat /\ DOMAIN s = 1..n /\ DOMAIN s2 = 1..(n + 1) /\ s2[n + 1] = e
      /\ \A i \in 1..n : s2[i] = s[i] /\ s[i] \in Events
  BY DEF Grown
<1>3. rows \in Seq(Seq(Events)) /\ rows2 \in Seq(Seq(Events)) /\ new \in Seq(Events)
      /\ Len(rows) = n /\ Len(rows2) = n + 1
  <2>1. rows \in [1..n -> Seq(Events)]
    BY <1>1, <1>2
  <2>2. \A i \in 1..(n + 1) : s2[i] \in Events
    BY <1>2
  <2>3. rows2 \in [1..(n + 1) -> Seq(Events)]
    BY <1>1, <1>2, <2>2
  <2> HIDE DEF n, rows, rows2
  <2>4. n + 1 \in Nat
    BY <1>2
  <2> QED
    BY <1>1, <1>2, <2>1, <2>3, <2>4
<1>4. rows2[n + 1] = new /\ \A i \in 1..n : rows2[i] = rows[i]
  BY <1>2
<1> HIDE DEF rows, rows2, new, n
<1>5. rows2 = Append(rows, new)
  <2> DEFINE t == Append(rows, new)
  <2>1. t \in Seq(Seq(Events)) /\ Len(t) = n + 1 /\ t[n + 1] = new /\ \A i \in 1..n : t[i] = rows[i]
    BY <1>2, <1>3
  <2>2. \A i \in 1..(n + 1) : i \in 1..n \/ i = n + 1
    BY <1>2
  <2> HIDE DEF t
  <2>3. \A i \in 1..(n + 1) : t[i] = rows2[i]
    BY <1>4, <2>1, <2>2
  <2>4. t = rows2
    BY <1>2, <1>3, <2>1, <2>3
  <2> QED
    BY <2>4 DEF t
<1>6. FlattenSeq(rows2) = FlattenSeq(rows) \o new
  BY <1>3, <1>5, FlattenAppend
<1> QED
  BY <1>6 DEF Filtered, rows, rows2, new

\* gui.go:403: the rows are the panel's events that the filter lets through, in order,
\* however evictions, arrivals and the box alternate.
THEOREM RowsArePanel == JournalSpec => []PanelIsFiltered
<1> DEFINE Shown == JournalInv /\ PanelIsFiltered
<1>1. JournalInit => Shown
  <2> SUFFICES ASSUME JournalInit PROVE PanelIsFiltered
    BY JournalAssumption, JournalStarts
  <2>1. panel = <<>> /\ shown = <<>>
    BY DEF JournalInit
  <2>2. [i \in DOMAIN panel |-> Rows(panel[i], commandsOnly)] = <<>>
    BY <2>1
  <2> QED
    BY <2>1, <2>2, FlattenEmpty DEF PanelIsFiltered, Filtered
<1>2. Shown /\ [JournalNext]_journalVars => Shown'
  <2> SUFFICES ASSUME JournalInv, PanelIsFiltered, [JournalNext]_journalVars PROVE PanelIsFiltered'
    BY JournalAssumption, JournalStep
  <2>1. CASE Seed
    BY <2>1 DEF Seed, PanelIsFiltered, Filtered
  <2>2. CASE Toggle
    BY <2>2 DEF Toggle, PanelIsFiltered, Filtered
  <2>3. CASE AppendLogEvent
    <3> DEFINE e == Head(queued)
               s == Append(panel, e)
    <3>1. /\ queued # <<>> /\ panel' = Bounded(s) /\ commandsOnly' = commandsOnly
          /\ shown' = IF Len(s) > Capacity THEN Filtered(panel', commandsOnly)
                      ELSE shown \o Rows(e, commandsOnly)
      BY <2>3 DEF AppendLogEvent
    <3>2. panel \in Seq(Events) /\ e \in Events /\ Capacity \in Nat
      <4>1. panel \in Seq(Events) /\ queued \in Seq(Events) /\ Capacity \in Nat
        BY JournalAssumption DEF JournalInv, JournalTypes, JournalAssumption
      <4> QED
        BY <3>1, <4>1
    <3> HIDE DEF e
    <3>3. s \in Seq(Events) /\ Grown(s, panel, e) /\ Len(s) \in Nat
      BY <3>2, AppendGrows
    <3>4. CASE Len(s) > Capacity
      BY <3>1, <3>4 DEF PanelIsFiltered, Filtered
    <3>5. CASE Len(s) <= Capacity
      <4>1. panel' = s
        BY <3>1, <3>3, <3>5, JournalAssumption, BoundedDrops
      <4>2. shown' = Filtered(panel, commandsOnly) \o Rows(e, commandsOnly)
        BY <3>1, <3>2, <3>3, <3>5 DEF PanelIsFiltered
      <4> HIDE DEF s
      <4>3. Filtered(s, commandsOnly) = Filtered(panel, commandsOnly) \o Rows(e, commandsOnly)
        BY <3>2, <3>3, FilterGrows
      <4> QED
        BY <3>1, <4>1, <4>2, <4>3 DEF PanelIsFiltered
    <3> QED
      BY <3>2, <3>3, <3>4, <3>5
  <2>4. CASE Subscribe \/ UNCHANGED journalVars
    BY <2>4 DEF Subscribe, view, journalVars, PanelIsFiltered, Filtered
  <2>5. ASSUME NEW g \in Goroutine, Notify(g) \/ \E kind \in Kind : Emits(g, kind) PROVE PanelIsFiltered'
    BY <2>5 DEF Notify, Emits, view, PanelIsFiltered, Filtered
  <2> QED
    BY <2>1, <2>2, <2>3, <2>4, <2>5 DEF JournalNext
<1> QED
  BY <1>1, <1>2, PTL DEF JournalSpec
=============================================================================
