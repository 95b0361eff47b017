----------------------------- MODULE ClientLoop -----------------------------
(***************************************************************************)
(* One process of the client, from main to its exit: the loop that keeps   *)
(* one connection to the relay after another (runForever and runSession of *)
(* client/main.go, guiRunForever and guiRunSession of gui.go), what the    *)
(* end of a session and the end of the process do to the commands still    *)
(* running, and the window's status.  Time is counted in units of 10 s,    *)
(* only while a connection is being read.                                  *)
(***************************************************************************)
EXTENDS Naturals, Sequences, FiniteSets

CONSTANTS Cmd,        \* commands that the relay may send
          MaxInbox,   \* bound on the messages in flight
          MaxQueue,   \* bound on the calls queued for the interface
          HeartbeatInterval, ReadTimeout,
          Tolerated   \* missed acknowledgements that ReadTimeout allows for

ASSUME LoopAssumption == {MaxInbox, MaxQueue, HeartbeatInterval, ReadTimeout, Tolerated} \subseteq Nat \ {0}

VARIABLES gui,      \* built with the window
          main,     \* the main goroutine: "boot", "running", "cleaning", "exited"; or
                    \* "crashed", with all the others
          ctx,      \* "live", or "cancelled" by a signal or by the window
          dir, token,  \* the workspace and the secret of the process
          loop,     \* "top", "dialing", "reading", "waiting", "returned"
          link,     \* the connection: "none", "up", "cut", "closed" (by the kill, 4402)
          inbox,    \* messages not yet read
          known,    \* the relay has registered the client
          named,    \* the client has read so
          heard,    \* history: it has read of the kill
          child,    \* a command: "new", "handled", "running", "ended"
          own,      \* its session is the current one
          ui, label,   \* calls of setStatus queued with fyne.Do; the status shown
          silence, missed,  \* since the last message was read: the time, and the
                            \* acknowledgements missed
          beat      \* time since the last heartbeat

process == <<gui, main, ctx, dir, token>>
channel == <<link, inbox, known, named>>
commands == <<child, own>>
window == <<ui, label>>
time == <<silence, missed, beat>>
vars == <<process, loop, channel, heard, commands, window, time>>

Message == {"registered", "command", "ack", "terminated"}
Init == /\ gui \in BOOLEAN /\ main = "boot" /\ ctx = "live"
        /\ dir = "none" /\ token = "none"
        /\ loop = "top"
        /\ link = "none" /\ inbox = <<>> /\ known = FALSE /\ named = FALSE /\ heard = FALSE
        /\ child = [c \in Cmd |-> "new"] /\ own = [c \in Cmd |-> FALSE]
        /\ ui = <<>> /\ label = "disconnected"
        /\ silence = 0 /\ beat = 0 /\ missed = 0

\* ctx.Err() # nil
Cancelled == ctx = "cancelled"
Runs == main \in {"running", "cleaning"}   \* goroutines run until the process exits

-----------------------------------------------------------------------------
(* main, runUI, RunGuarded                                                 *)

\* A setting is the first source that gives one: flag, environment, build.
Resolve(sources) == LET given == SelectSeq(sources, LAMBDA s : s # "") IN
                    IF given = <<>> THEN "" ELSE Head(given)
Usable(sources) == Resolve(sources) \notin {"", "blank"}

\* It may fail: then there is no client.
NewWorkspace == \/ main' = "running" /\ dir' = "present"
                \/ main' = "exited" /\ UNCHANGED dir

Boot(url, tokens, valid) ==
  /\ main = "boot"
  /\ IF Usable(url) /\ Usable(tokens) /\ valid
     THEN token' = "held" /\ NewWorkspace
     ELSE main' = "exited" /\ UNCHANGED <<dir, token>>
  /\ UNCHANGED <<gui, ctx, loop, channel, heard, commands, window, time>>

\* os.Interrupt, SIGTERM
Signal ==
  /\ Runs /\ ~Cancelled /\ ctx' = "cancelled"
  /\ UNCHANGED <<gui, main, dir, token, loop, channel, heard, commands, window, time>>

\* ShowAndRun returns, and runUI cancels what the window has started.
CloseWindow ==
  /\ gui /\ main = "running"
  /\ main' = "cleaning" /\ ctx' = "cancelled"
  /\ UNCHANGED <<gui, dir, token, loop, channel, heard, commands, window, time>>

WindowCloses == CloseWindow   \* by the user

\* The goroutine that awaits the signal has the window closed.
SignalCloses == Cancelled /\ CloseWindow

\* The console's runUI is the loop.
LoopReturned ==
  /\ ~gui /\ main = "running" /\ loop = "returned"
  /\ main' = "cleaning"
  /\ UNCHANGED <<gui, ctx, dir, token, loop, channel, heard, commands, window, time>>

\* The deferred calls of runSession: cancel, conn.Close
Leave == /\ own' = [c \in Cmd |-> FALSE]
         /\ link' = "none" /\ inbox' = <<>> /\ known' = FALSE /\ named' = FALSE
         /\ silence' = 0 /\ beat' = 0 /\ missed' = 0

\* Faulty variant, which the properties must reject: the cleanup is not deferred.
PanicUnguarded ==
  /\ main = "running" /\ main' = "exited"
  /\ UNCHANGED <<gui, ctx, dir, token, loop, channel, heard, commands, window, time>>

\* A panic in runUI, which unwinds it: the window's goroutine, or the console's loop
Panic ==
  /\ main = "running" /\ main' = "cleaning"
  /\ IF gui THEN ctx' = "cancelled" /\ UNCHANGED <<loop, link, inbox, known, named, own, time>>
            ELSE loop' = "returned" /\ Leave /\ UNCHANGED ctx
  /\ UNCHANGED <<gui, dir, token, heard, child, window>>

\* A panic in any other goroutine, which nobody recovers, ends the process: guiRunForever,
\* heartbeatLoop, a command's, its pumps'.
Elsewhere == \/ gui /\ loop # "returned"
             \/ loop = "reading"
             \/ \E c \in Cmd : child[c] \in {"handled", "running"}
PanicElsewhere ==
  /\ Runs /\ Elsewhere
  /\ main' = "crashed"
  /\ UNCHANGED <<gui, ctx, dir, token, loop, channel, heard, commands, window, time>>

\* The removal may fail, as when a command is writing there: the error is ignored.
RemoveAll == dir' \in {"gone", "left"}
Zero == token' = "zero"

Cleanup ==
  /\ main = "cleaning" /\ main' = "exited"
  /\ RemoveAll /\ Zero
  /\ UNCHANGED <<gui, ctx, loop, channel, heard, commands, window, time>>

-----------------------------------------------------------------------------
(* runForever, guiRunForever                                               *)

CanShow == Len(ui) < MaxQueue
Show(statuses) == ui' = IF gui THEN ui \o statuses ELSE ui

Top ==
  /\ Runs /\ loop = "top" /\ CanShow
  /\ IF Cancelled THEN loop' = "returned" /\ UNCHANGED ui
                  ELSE loop' = "dialing" /\ Show(<<"connecting">>)
  /\ UNCHANGED <<process, channel, heard, commands, label, time>>

\* Faulty variants, which the properties must reject: the end of a session is always
\* followed by another attempt; it is always final; the status is set too late.
EndAsLost(how) ==
  /\ CanShow /\ loop' = IF Cancelled THEN "returned" ELSE "waiting"
  /\ IF Cancelled THEN UNCHANGED ui ELSE Show(<<"disconnected">>)
  /\ Leave /\ UNCHANGED <<process, child, label>>

EndForGood(how) ==
  /\ CanShow /\ loop' = "returned"
  /\ IF Cancelled THEN UNCHANGED ui ELSE Show(<<"disconnected">>)
  /\ Leave /\ UNCHANGED <<process, child, label>>

EndSilently(how) ==
  /\ CanShow /\ loop' = IF Cancelled \/ how = "terminated" THEN "returned" ELSE "waiting"
  /\ IF Cancelled \/ how = "terminated" THEN UNCHANGED ui ELSE Show(<<"disconnected">>)
  /\ Leave /\ UNCHANGED <<process, child, label>>

\* runSession returns.
End(how) ==
  /\ CanShow /\ loop' = IF Cancelled \/ how = "terminated" THEN "returned" ELSE "waiting"
  /\ IF Cancelled THEN UNCHANGED ui ELSE Show(<<"disconnected">>)
  /\ Leave /\ UNCHANGED <<process, child, label>>

\* The backoff passes, or the context ends.
Waited ==
  /\ Runs /\ loop = "waiting"
  /\ loop' = IF Cancelled THEN "returned" ELSE "top"
  /\ UNCHANGED <<process, channel, heard, commands, window, time>>

-----------------------------------------------------------------------------
(* runSession, guiRunSession                                               *)

\* DialRelay, then the register message
Connect ==
  /\ Runs /\ loop = "dialing" /\ ~Cancelled
  /\ loop' = "reading" /\ link' = "up"
  /\ UNCHANGED <<process, inbox, known, named, heard, commands, window, time>>

\* Refused, unreachable, or the register message cannot be sent
ConnectFails == Runs /\ loop = "dialing" /\ End("lost") /\ UNCHANGED heard

Reading == Runs /\ loop = "reading"
Arrived == Reading /\ inbox # <<>>
\* ReadEnvelope: the read deadline is set anew.
Took(message) == /\ Arrived /\ Head(inbox) = message
                 /\ inbox' = Tail(inbox) /\ silence' = 0 /\ missed' = 0

ReadRegistered ==
  /\ Took("registered") /\ CanShow
  /\ named' = TRUE /\ Show(<<"connected">>)
  /\ UNCHANGED <<process, loop, link, known, heard, commands, label, beat>>

ReadAck ==
  /\ Took("ack")
  /\ UNCHANGED <<process, loop, link, known, named, heard, commands, window, beat>>

\* Faulty variant, which the properties must reject: the loop runs the command itself.
ReadCommandInline(c) ==
  /\ Took("command") /\ child[c] = "new"
  /\ child' = [child EXCEPT ![c] = "handled"] /\ own' = [own EXCEPT ![c] = TRUE]
  /\ loop' = "handling"
  /\ UNCHANGED <<process, link, known, named, heard, window, beat>>

\* go executor.Handle(sessionCtx, m)
ReadCommand(c) ==
  /\ Took("command") /\ child[c] = "new"
  /\ child' = [child EXCEPT ![c] = "handled"] /\ own' = [own EXCEPT ![c] = TRUE]
  /\ UNCHANGED <<process, loop, link, known, named, heard, window, beat>>

ReadTerminated == Arrived /\ Head(inbox) = "terminated" /\ heard' = TRUE /\ End("terminated")

\* The close frame of the kill alone
ReadClose == Reading /\ inbox = <<>> /\ link = "closed" /\ heard' = TRUE /\ End("terminated")

\* The connection is lost, its deadline passes, or the context ends, which closes it.
ReadFails ==
  /\ Reading
  /\ (inbox = <<>> /\ link = "cut") \/ silence = ReadTimeout \/ Cancelled
  /\ End("lost") /\ UNCHANGED heard

\* heartbeatLoop, and the relay's answer unless it or the heartbeat is lost
Heartbeat(answered) ==
  /\ Runs /\ link = "up" /\ ~Cancelled /\ beat = HeartbeatInterval
  /\ beat' = 0
  /\ IF answered
     THEN /\ inbox' = IF Len(inbox) < MaxInbox THEN Append(inbox, "ack") ELSE inbox
          /\ UNCHANGED missed
     ELSE missed' = missed + 1 /\ UNCHANGED inbox
  /\ UNCHANGED <<process, loop, link, known, named, heard, commands, window, silence>>

\* 10 s; what has come is read, and the heartbeat sent, in less.
Tick ==
  /\ Runs /\ link = "up" /\ ~Cancelled /\ ~Arrived
  /\ beat < HeartbeatInterval /\ silence < ReadTimeout
  /\ beat' = beat + 1 /\ silence' = silence + 1
  /\ UNCHANGED <<process, loop, channel, heard, commands, window, missed>>

-----------------------------------------------------------------------------
(* The commands                                                            *)

\* Faulty variant, which the properties must reject: a command has the context of the client.
LiveWithClient(c) == ~Cancelled

\* sessionCtx
Live(c) == own[c] /\ ~Cancelled

\* Handle starts a process, unless its context has ended or it refuses.
Begins(c) ==
  /\ Runs /\ child[c] = "handled"
  /\ child' = [child EXCEPT ![c] = IF Live(c) THEN "running" ELSE "ended"]
  /\ UNCHANGED <<process, loop, channel, heard, own, window, time>>

\* By itself, even after the client
Ends(c) ==
  /\ child[c] = "running" /\ child' = [child EXCEPT ![c] = "ended"]
  /\ UNCHANGED <<process, loop, channel, heard, own, window, time>>

\* The client kills it.
Stops(c) ==
  /\ Runs /\ child[c] = "running" /\ ~Live(c)
  /\ child' = [child EXCEPT ![c] = "ended"]
  /\ UNCHANGED <<process, loop, channel, heard, own, window, time>>

\* The interface runs a queued call (until the window closes).
Shows ==
  /\ gui /\ main = "running" /\ ui # <<>>
  /\ label' = Head(ui) /\ ui' = Tail(ui)
  /\ UNCHANGED <<process, loop, channel, heard, commands, time>>

-----------------------------------------------------------------------------
(* The relay                                                               *)

\* As many commands as Cmd has: each in flight is one that the client has yet to take.
Unsent == Cardinality({c \in Cmd : child[c] = "new"}) > Len(SelectSeq(inbox, LAMBDA m : m = "command"))

Sends(message) ==
  /\ link = "up" /\ loop = "reading" /\ Len(inbox) < MaxInbox
  /\ IF message = "registered" THEN ~known ELSE known /\ message = "command" /\ Unsent
  /\ inbox' = Append(inbox, message) /\ known' = TRUE
  /\ UNCHANGED <<process, loop, link, named, heard, commands, window, time>>

\* The notification and the close frame, or the latter alone (relay/broker.py)
Kills(notified) ==
  /\ link = "up" /\ known /\ link' = "closed"
  /\ inbox' = IF notified THEN Append(inbox, "terminated") ELSE inbox
  /\ UNCHANGED <<process, loop, known, named, heard, commands, window, time>>

\* With what was in flight, or not: the news of a kill too
Cuts == /\ link \in {"up", "closed"} /\ link' = "cut"
        /\ inbox' \in {inbox, <<>>}
        /\ UNCHANGED <<process, loop, known, named, heard, commands, window, time>>

Loop == \/ Top \/ Waited \/ Connect \/ ConnectFails
        \/ ReadRegistered \/ ReadAck \/ ReadTerminated \/ ReadClose \/ ReadFails
        \/ \E c \in Cmd : ReadCommand(c)
Source == {"", "blank", "given"}
Next == \/ \E url, tokens \in [1..3 -> Source], valid \in BOOLEAN : Boot(url, tokens, valid)
        \/ Signal \/ WindowCloses \/ SignalCloses \/ LoopReturned
        \/ Panic \/ PanicElsewhere \/ Cleanup
        \/ Loop \/ Shows \/ Tick
        \/ \E answered \in BOOLEAN : Heartbeat(answered)
        \/ \E c \in Cmd : Begins(c) \/ Ends(c) \/ Stops(c)
        \/ \E message \in {"registered", "command"} : Sends(message)
        \/ \E notified \in BOOLEAN : Kills(notified)
        \/ Cuts

Spec == Init /\ [][Next]_vars

\* Goroutines run, a dial ends, and the interface serves its queue, where the signal puts
\* the closing of the window.  Of the user nothing is assumed.
FairSpec ==
  /\ Spec
  /\ WF_vars(Loop) /\ WF_vars(LoopReturned) /\ WF_vars(Cleanup) /\ WF_vars(Shows)
  /\ WF_vars(SignalCloses)
  /\ \A c \in Cmd : WF_vars(Begins(c)) /\ WF_vars(Stops(c))

-----------------------------------------------------------------------------
(* Properties                                                              *)

\* main.go:33: the kill is final.  Whether the client reads the notification or only the
\* close code, on the console as in the window, it never dials again.
KillIsFinal == heard => loop = "returned"

Clean == token = "zero" /\ dir \in {"gone", "left"}

\* lifecycle.go:5: a client whose main goroutine ends, by itself, by a signal or by a panic
\* of its own, leaves no token in memory, and its directory only if it cannot remove it.
CleanExit == main = "exited" /\ dir # "none" => Clean

\* wsconn.go:17: "a missed heartbeat_ack or two" never cost a connection, whatever runs.
HeartbeatSuffices == link = "up" /\ missed <= Tolerated => silence < ReadTimeout

\* gui.go:42: once the interface has caught up, the window says what the connection is.
Due == CASE loop = "dialing" \/ (loop = "reading" /\ ~named) -> "connecting"
         [] loop = "reading" /\ named                        -> "connected"
         [] OTHER                                            -> "disconnected"
StatusTruthful == gui /\ main = "running" /\ ~Cancelled /\ ui = <<>> => label = Due

\* A command does not outlive its session: it ends, unless the client ended first.
CommandsStop ==
  \A c \in Cmd : (child[c] = "running" /\ ~own[c])
                 ~> (child[c] = "ended" \/ main \in {"exited", "crashed"})

\* main.go:261: a client that has lost its connection, registered or not, and whatever it
\* had still to read and to run, dials again, unless it is cancelled first; also one that
\* was killed, if the loss took all that would tell it so.
Told == \E i \in 1..Len(inbox) : inbox[i] = "terminated"
KeepsTrying ==
  (loop = "reading" /\ link = "cut" /\ ~Told)
    ~> (loop = "dialing" \/ ctx = "cancelled" \/ main # "running")

\* client/README.md: a signal, the window or a panic of the main goroutine ends the process,
\* whatever the loop waits for and whatever is running, and the cleanup is not skipped on
\* the way, unless another goroutine panics too.
StopsClean ==
  (ctx = "cancelled" \/ main = "cleaning") ~> ((main = "exited" /\ Clean) \/ main = "crashed")
=============================================================================
