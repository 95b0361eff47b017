------------------------------- MODULE Process -------------------------------
(***************************************************************************)
(* One command run by the client, on Linux: Handle, runShellOrCommand,     *)
(* runAndStream and pump of client/executor.go, proc_linux.go, and what    *)
(* os/exec does for them.  Five goroutines share the process: the caller   *)
(* (here `main`), two pumps, one in cmd.Wait, and the one with which       *)
(* exec.CommandContext watches the context.  A byte of output is numbered  *)
(* within its stream.                                                      *)
(***************************************************************************)
EXTENDS Command

CONSTANTS Requests,     \* run_shell and run_command messages that may come
          Kin,        \* processes that the command may leave in its group
          MaxOutput,  \* bound on the output of a stream
          Capacity,   \* of a pipe
          Spelled     \* the characters of a stream: numbers of their first and last bytes

Stream == {"stdout", "stderr"}

ASSUME ProcessAssumption ==
  /\ MaxOutput \in Nat /\ Capacity \in Nat \ {0}
  /\ Spelled \in [Stream -> SUBSET ((Nat \ {0}) \X (Nat \ {0}))]

\* What a run_command is meant to be: the arguments that its text quotes, each in a
\* style of its own, or Refused when the text was not made that way.
ASSUME RequestAssumption ==
  \A r \in Requests :
    /\ r.text \in Seq(Character) /\ r.halves \in Int
    /\ r.meant # Refused => Quotes(r.text, r.meant, r.styles)

VARIABLES asked,     \* the request, until its program is started
          argv,      \* the program and the arguments made of it, until then
          root, status,  \* the process started, and how it ended
          kin,       \* those of its group that are alive
          forked,    \* those that it has started so far
          pipe, wrote,  \* unread output of a stream; all it was given
          open,      \* the client's ends of the pipes
          ctx,       \* runCtx: "live", "deadline" (timeout) or "cancelled" (session)
          watcher, hit, \* the watching goroutine; its kill found the process
          waiter,    \* cmd.Wait
          pump, buf, \* the pumps, and what each has read and not sent
          main, why, \* the caller; the branch of its select
          linked,    \* the connection works
          out        \* messages sent on it

machine == <<root, status, kin, forked>>
pipes == <<pipe, wrote, open>>
exec == <<watcher, hit, waiter>>
pumps == <<pump, buf>>
caller == <<main, why>>
request == <<asked, argv>>
vars == <<request, machine, pipes, ctx, exec, pumps, caller, linked, out>>

Nobody == [tool |-> "none"]
Init == /\ asked \in Requests /\ argv = <<>>
        /\ root = "none" /\ status = "none" /\ kin = {} /\ forked = {}
        /\ pipe = [s \in Stream |-> <<>>] /\ wrote = [s \in Stream |-> 0] /\ open = TRUE
        /\ ctx = "live"
        /\ watcher = "armed" /\ hit = FALSE /\ waiter = "waiting"
        /\ pump = [s \in Stream |-> "reading"] /\ buf = [s \in Stream |-> <<>>]
        /\ main = "received" /\ why = "none"
        /\ linked = TRUE /\ out = <<>>

Send(message) == out' = IF linked THEN Append(out, message) ELSE out
Result(code, error) == [type |-> "result", code |-> code, error |-> error]
Output(s, text) == [type |-> "stream", stream |-> s, data |-> text]
Started == main # "starting" /\ root # "none"

-----------------------------------------------------------------------------
(* The machine                                                             *)

Writes(s) ==
  /\ root = "running" \/ kin # {}
  /\ open /\ wrote[s] < MaxOutput /\ Len(pipe[s]) < Capacity
  /\ wrote' = [wrote EXCEPT ![s] = @ + 1]
  /\ pipe' = [pipe EXCEPT ![s] = Append(@, wrote'[s])]
  /\ UNCHANGED <<request, machine, open, ctx, exec, pumps, caller, linked, out>>

Forks(k) ==
  /\ root = "running" /\ k \notin forked
  /\ kin' = kin \cup {k} /\ forked' = forked \cup {k}
  /\ UNCHANGED <<request, root, status, pipes, ctx, exec, pumps, caller, linked, out>>

Exits(how) ==
  /\ root = "running"
  /\ root' = "zombie" /\ status' = how
  /\ UNCHANGED <<request, kin, forked, pipes, ctx, exec, pumps, caller, linked, out>>

KinExits(k) ==
  /\ k \in kin /\ kin' = kin \ {k}
  /\ UNCHANGED <<request, root, status, forked, pipes, ctx, exec, pumps, caller, linked, out>>

\* The timeout passes, or the session ends (cancelSession).
ContextEnds(reason) ==
  /\ ctx = "live" /\ ctx' = reason
  /\ reason = "deadline" => main # "received"   \* the time runs from then
  /\ UNCHANGED <<request, machine, pipes, exec, pumps, caller, linked, out>>

Disconnects ==
  /\ linked /\ linked' = FALSE
  /\ UNCHANGED <<request, machine, pipes, ctx, exec, pumps, caller, out>>

\* SIGKILL, to processes that are there
KillRoot == IF root = "running" THEN root' = "zombie" /\ status' = "killed"
            ELSE UNCHANGED <<root, status>>

-----------------------------------------------------------------------------
(* os/exec                                                                 *)

\* The watcher kills the process alone, not its group.
WatcherKills ==
  /\ Started /\ watcher = "armed" /\ ctx # "live"
  /\ watcher' = "fired" /\ hit' = (root # "reaped")
  /\ KillRoot
  /\ UNCHANGED <<request, kin, forked, pipes, ctx, waiter, pumps, caller, linked, out>>

\* Faulty variant, which the properties must reject: the output is awaited first, as
\* the documentation of StdoutPipe asks for.
WaitReapsAfterOutput ==
  /\ waiter = "waiting" /\ root = "zombie"
  /\ \A s \in Stream : pump[s] = "done"
  /\ root' = "reaped" /\ waiter' = "reaped"
  /\ UNCHANGED <<request, status, kin, forked, pipes, ctx, watcher, hit, pumps, caller, linked, out>>

\* cmd.Wait: wait4, then the watcher's word, then the pipes are closed.
WaitReaps ==
  /\ waiter = "waiting" /\ root = "zombie"
  /\ root' = "reaped" /\ waiter' = "reaped"
  /\ UNCHANGED <<request, status, kin, forked, pipes, ctx, watcher, hit, pumps, caller, linked, out>>

WaitCloses ==
  /\ waiter = "reaped"
  /\ watcher' = IF watcher = "armed" THEN "off" ELSE watcher
  /\ open' = FALSE
  /\ waiter' = "done"
  /\ UNCHANGED <<request, machine, pipe, wrote, ctx, hit, pumps, caller, linked, out>>

-----------------------------------------------------------------------------
(* The client                                                              *)

\* buildShellCommand, buildPlainCommand: the argv, or Refused.
Argv(r, installed) ==
  IF r.malformed \/ ToSet(r.text) \subseteq {Space, Newline} THEN Refused
  ELSE CASE r.tool = "run_shell"   -> IF Candidates(r.shell) \cap installed = {} THEN Refused
                                      ELSE BuildShellArgv(CHOOSE bin \in Candidates(r.shell) : TRUE, r.text)
         [] r.tool = "run_command" -> IF "program" \in installed THEN SplitArgv(r.text) ELSE Refused
         [] OTHER                  -> Refused

\* Handle, up to runAndStream (the guard-rail on the way is GuardRail's).  A limit that
\* is not positive is a deadline already past.
Receive(installed) ==
  /\ main = "received"
  /\ IF Argv(asked, installed) = Refused
     THEN /\ main' = "over" /\ asked' = Nobody
          /\ Send(Result(1, "failed"))
          /\ UNCHANGED <<argv, ctx>>
     ELSE /\ main' = "starting" /\ argv' = Argv(asked, installed)
          /\ ctx' = IF ctx = "live" /\ ClientTimeout(Ceil(asked.halves)) <= 0 THEN "deadline" ELSE ctx
          /\ UNCHANGED <<asked, out>>
  /\ UNCHANGED <<machine, pipes, exec, pumps, why, linked>>

\* startProcess fails: no such program, or the context is done already.
StartFails ==
  /\ main = "starting"
  /\ main' = "over" /\ asked' = Nobody /\ argv' = <<>> /\ UNCHANGED why
  /\ Send(Result(1, IF ctx = "deadline" THEN "timeout" ELSE "failed"))
  /\ UNCHANGED <<machine, pipes, ctx, exec, pumps, linked>>

Start ==
  /\ main = "starting" /\ ctx = "live"
  /\ main' = "selecting" /\ asked' = Nobody /\ argv' = <<>> /\ UNCHANGED why
  /\ root' = "running"
  /\ UNCHANGED <<status, kin, forked, pipes, ctx, exec, pumps, linked, out>>

\* Faulty variant, which the properties must reject: a buffer not yet sent is read into.
PumpOverwrites(s, n) ==
  /\ Started /\ pump[s] # "done" /\ open
  /\ n \in 1..Len(pipe[s])
  /\ buf' = [buf EXCEPT ![s] = SubSeq(pipe[s], 1, n)]
  /\ pipe' = [pipe EXCEPT ![s] = SubSeq(@, n + 1, Len(@))]
  /\ pump' = [pump EXCEPT ![s] = "sending"]
  /\ UNCHANGED <<request, machine, wrote, open, ctx, exec, caller, linked, out>>

\* r.Read returns n bytes.
PumpReads(s, n) ==
  /\ Started /\ pump[s] = "reading" /\ open
  /\ n \in 1..Len(pipe[s])
  /\ buf' = [buf EXCEPT ![s] = SubSeq(pipe[s], 1, n)]
  /\ pipe' = [pipe EXCEPT ![s] = SubSeq(@, n + 1, Len(@))]
  /\ pump' = [pump EXCEPT ![s] = "sending"]
  /\ UNCHANGED <<request, machine, wrote, open, ctx, exec, caller, linked, out>>

\* string(buf[:n]) and the JSON made of it: each byte of a character that the read does
\* not hold whole, or of none, becomes U+FFFD.
Replacement == 0
AsText(s, bytes) ==
  [k \in DOMAIN bytes |->
    IF \E c \in Spelled[s] : /\ bytes[k] \in c[1]..c[2]
                             /\ bytes[1] <= c[1] /\ c[2] <= bytes[Len(bytes)]
    THEN bytes[k] ELSE Replacement]

\* They are sent as one message; a pump that cannot send ends.
PumpSends(s) ==
  /\ pump[s] = "sending"
  /\ Send(Output(s, AsText(s, buf[s])))
  /\ buf' = [buf EXCEPT ![s] = <<>>]
  /\ pump' = [pump EXCEPT ![s] = IF linked THEN "reading" ELSE "done"]
  /\ UNCHANGED <<request, machine, pipes, ctx, exec, caller, linked>>

\* End of file, with nobody left to write, or a closed pipe, whatever is in it
PumpEnds(s) ==
  /\ Started /\ pump[s] = "reading"
  /\ ~open \/ (pipe[s] = <<>> /\ root # "running" /\ kin = {})
  /\ pump' = [pump EXCEPT ![s] = "done"]
  /\ UNCHANGED <<request, machine, pipes, ctx, exec, caller, linked, out, buf>>

Goto(place, reason) == main' = place /\ why' = reason
SelectExit ==
  /\ main = "selecting" /\ waiter = "done" /\ Goto("joining", "exit")
  /\ UNCHANGED <<request, machine, pipes, ctx, exec, pumps, linked, out>>

SelectDone ==
  /\ main = "selecting" /\ ctx # "live" /\ Goto("killing", "ctx")
  /\ UNCHANGED <<request, machine, pipes, ctx, exec, pumps, linked, out>>

\* killProcessTree: Getpgid fails once the process has been reaped, and with it the
\* way to its group; Process.Kill then finds nobody either.
KillProcessTree ==
  /\ main = "killing" /\ Goto("waiting", why)
  /\ KillRoot
  /\ kin' = IF root = "reaped" THEN kin ELSE {}
  /\ UNCHANGED <<request, forked, pipes, ctx, exec, pumps, linked, out>>

Awaited ==
  /\ main = "waiting" /\ waiter = "done" /\ Goto("joining", why)
  /\ UNCHANGED <<request, machine, pipes, ctx, exec, pumps, linked, out>>

\* Faulty variants, which the properties must reject: one pump is waited for; the word
\* of the watcher is not heard.
OneJoined == \E s \in Stream : pump[s] = "done"

OutcomeByStatus == IF status = "failed" THEN Result(1, "") ELSE Result(0, "")

\* wg.Wait
Joined == \A s \in Stream : pump[s] = "done"

\* The result, before runCtx.Err() is looked at.  ExitCode() is -1 for a signal.
Outcome ==
  CASE why = "ctx"        -> Result(124, "cancelled")
    [] status = "failed"  -> Result(1, "")
    [] status = "killed"  -> Result(-1, "")
    [] hit                -> Result(1, "cancelled")   \* exited by itself, but Wait has ctx.Err()
    [] OTHER              -> Result(0, "")

Report ==
  /\ main = "joining" /\ Joined
  /\ Goto("over", why)
  /\ Send(IF ctx = "deadline" THEN Result(Outcome.code, "timeout") ELSE Outcome)
  /\ UNCHANGED <<request, machine, pipes, ctx, exec, pumps, linked>>

Installable == {"bash", "sh", "program"}
Client == \/ \E installed \in SUBSET Installable : Receive(installed)
          \/ Start \/ StartFails \/ SelectExit \/ SelectDone \/ KillProcessTree \/ Awaited \/ Report
          \/ WatcherKills \/ WaitReaps \/ WaitCloses
          \/ \E s \in Stream : PumpSends(s) \/ PumpEnds(s) \/ \E n \in 1..Capacity : PumpReads(s, n)

Machine == \/ \E s \in Stream : Writes(s)
           \/ \E k \in Kin : Forks(k) \/ KinExits(k)
           \/ \E how \in {"succeeded", "failed"} : Exits(how)
           \/ \E reason \in {"deadline", "cancelled"} : ContextEnds(reason)
           \/ Disconnects

Next == Client \/ Machine

Spec == Init /\ [][Next]_vars

\* Goroutines run; of the machine nothing is assumed, not even that anything exits.
FairSpec ==
  /\ Spec
  /\ WF_vars(\E installed \in SUBSET Installable : Receive(installed))
  /\ WF_vars(Start \/ StartFails) /\ WF_vars(SelectExit \/ SelectDone)
  /\ WF_vars(KillProcessTree) /\ WF_vars(Awaited) /\ WF_vars(Report)
  /\ WF_vars(WatcherKills) /\ WF_vars(WaitReaps) /\ WF_vars(WaitCloses)
  /\ \A s \in Stream : WF_vars(PumpSends(s) \/ PumpEnds(s) \/ \E n \in 1..Capacity : PumpReads(s, n))

-----------------------------------------------------------------------------
(* Properties                                                              *)

\* executor.go:95-97, "It honors single/double quotes and backslash escapes": what a
\* caller quotes reaches the program as it was, argument by argument, whatever
\* characters it holds and however the three ways to quote are mixed.
ArgumentsSurvive ==
  main = "starting" /\ asked.tool = "run_command" /\ asked.meant # Refused => argv = asked.meant

\* commanddetail.go:174: the journal's line holds every printable character of the text,
\* in order, and between two of them the marker if the text has a line break there, else
\* a space if it has one: two commands never read as one, nor does a line break in two.
Hidden == {Newline, Space, Escape}
Before(text, i) ==
  LET gap == {k \in 1..(i - 1) : \A j \in k..(i - 1) : text[j] \in Hidden}
      seen == {text[k] : k \in gap} IN
  CASE gap = 1..(i - 1)                       -> <<>>
    [] gap # 1..(i - 1) /\ Newline \in seen    -> LineBreakMarker
    [] OTHER                                  -> IF Space \in seen THEN <<Space>> ELSE <<>>
Legible(text) == FlattenSeq([i \in DOMAIN text |->
                   IF text[i] \in Hidden THEN <<>> ELSE Append(Before(text, i), text[i])])
OneFaithfulLine ==
  main = "received" =>
    LET line == DescribeCommand(asked).line IN
    IF Legible(asked.text) = <<>> THEN ToSet(line) \cap Hidden = {}
    ELSE line = TruncateRunes(Legible(asked.text), MaxLine)

\* mcp_server.py:145: whatever time the harness asks for, to the half second, the command
\* gets it, up to the maximum, and the relay waits for longer than the client lets it
\* run.  (As long as the product fits its type: README, "Also seen".)
DeadlineFits ==
  main = "received" /\ asked.halves > 0 /\ Ceil(asked.halves) * Second < Overflow =>
    LET limit == ClientTimeout(Ceil(asked.halves)) IN
    /\ 0 < limit /\ limit <= MaxLimit
    /\ 2 * limit >= asked.halves * Second \/ limit = MaxLimit
    /\ limit < RelayWait(asked.halves) * Second

Data(m, s) == IF m.type = "stream" /\ m.stream = s THEN m.data ELSE <<>>
SentBy(s, k) == FlattenSeq([i \in 1..k |-> Data(out[i], s)])   \* with the first k messages
Sent(s) == SentBy(s, Len(out))

\* The byte i is of a character that no end of a message cuts.
Ends(s) == {Len(SentBy(s, k)) : k \in 1..Len(out)}
Intact(s, i) == \E c \in Spelled[s] : /\ i \in c[1]..c[2]
                                      /\ \A e \in Ends(s) : ~(c[1] <= e /\ e < c[2])

\* What was sent of a stream is what was first written to it, byte for byte in its order
\* and without a gap, although five goroutines, two kills and the end of the pipes race;
\* what is lost of it is the characters cut by a read and the bytes of none (pump).
OutputInPlace ==
  \A s \in Stream : \A i \in 1..Len(Sent(s)) :
    Sent(s)[i] = IF Intact(s, i) THEN i ELSE Replacement

\* executor.go:351: the result is the last message of its request, and the only one of
\* its kind; the relay forgets the request when it sees it.
ResultIsLast ==
  \A i \in 1..Len(out) : out[i].type = "result" => i = Len(out)

\* A result that reports success is one of a process that ended by itself and succeeded,
\* and was not cut short by the timeout or the end of the session.
SuccessIsReal ==
  \A i \in 1..Len(out) :
    out[i].type = "result" /\ out[i].code = 0 /\ out[i].error = "" => status = "succeeded" /\ ~hit

\* client/README.md:241: past the timeout "le process (et son arbre de sous-processus)
\* est tué": nothing of its group outlives Handle when the client has killed the process.
TreeIsKilled == main = "over" /\ status = "killed" => kin = {}

\* The exit of the process, or the end of its context, is followed by the end of Handle,
\* even if what it left in its group keeps the pipes open for ever.
AnswerComes == (root = "zombie" \/ ctx # "live") ~> main = "over"
=============================================================================
