----------------------------- MODULE GuardRail -----------------------------
(***************************************************************************)
(* The local guard-rail of the client (client/executor.go, policy.go): the *)
(* read loop starts one goroutine per command, and each passes the policy, *)
(* the memory of the "toujours" answers and the operator's prompt on its   *)
(* own.  A session is one connection; a lost one is followed by another    *)
(* (client/main.go) while the goroutines of the first live on.             *)
(***************************************************************************)
EXTENDS Naturals, FiniteSets

CONSTANTS Cmd,          \* commands received
          Desc,         \* what the operator is shown, and the memory's key
          MaxSessions,  \* bound on reconnections
          MaxAhead      \* bound on the lines typed while no prompt waits for them

ASSUME GuardAssumption == MaxSessions \in Nat \ {0} /\ MaxAhead \in Nat

VARIABLES console,   \* prompts read standard input; otherwise (GUI) a dialog each
          policy,    \* the PolicyController
          session,   \* number of the current session
          alive,     \* its context is not cancelled
          always,    \* alwaysAllowed of the executor of each session
          pc, desc, kind, home,  \* a command: progress, text, tool, session
          consent,   \* history: what the operator answered to its prompt ("due" until then)
          why,       \* history: what let it through
          unread,    \* how many lines of each answer are typed and not yet read
          ahead,     \* history: how many were typed without a prompt
          raced      \* two goroutines of a session have been in its bufio.Reader at once

inputVars == <<unread, ahead, raced>>
vars == <<console, policy, session, alive, always, pc, desc, kind, home, consent, why, inputVars>>
cmdVars == <<desc, kind, home>>

Policy == {"auto", "confirm", "deny"}
Answer == {"yes", "always", "no"}
Gated == {"shell", "file"}            \* destructive, or a file operation
Kind == Gated \cup {"plain"}          \* plain: not classified destructive

Init == /\ console \in BOOLEAN
        /\ policy \in Policy
        /\ session = 1 /\ alive = TRUE
        /\ always = [s \in 1..MaxSessions |-> {}]
        /\ pc = [c \in Cmd |-> "new"]
        /\ desc \in [Cmd -> Desc] /\ kind \in [Cmd -> Kind]
        /\ home = [c \in Cmd |-> 1]
        /\ consent = [c \in Cmd |-> "none"]
        /\ why = [c \in Cmd |-> "none"]
        /\ unread = [a \in Answer |-> 0] /\ ahead = [a \in Answer |-> 0]
        /\ raced = [s \in 1..MaxSessions |-> FALSE]

Goto(c, place) == pc' = [pc EXCEPT ![c] = place]
Pass(c, reason) == Goto(c, "cleared") /\ why' = [why EXCEPT ![c] = reason]

-----------------------------------------------------------------------------
\* go executor.Handle(sessionCtx, m)
Arrive(c) ==
  /\ pc[c] = "new" /\ alive
  /\ home' = [home EXCEPT ![c] = session]
  /\ IF kind[c] \in Gated THEN Goto(c, "guard") /\ UNCHANGED why ELSE Pass(c, "plain")
  /\ UNCHANGED <<console, policy, session, alive, always, desc, kind, consent, inputVars>>

\* passesGuardRail: the policy is read once, when the command gets there.
Guard(c) ==
  /\ pc[c] = "guard"
  /\ CASE policy = "auto"    -> Pass(c, "auto")
       [] policy = "deny"    -> Goto(c, "refused") /\ UNCHANGED why
       [] policy = "confirm" -> Goto(c, "memory") /\ UNCHANGED why
  /\ UNCHANGED <<console, policy, session, alive, always, cmdVars, consent, inputVars>>

\* isAlwaysAllowed, under the mutex
Remembered(c) == desc[c] \in always[home[c]]

Recall(c) ==
  /\ pc[c] = "memory"
  /\ IF Remembered(c) THEN Pass(c, "memory") ELSE Goto(c, "prompt") /\ UNCHANGED why
  /\ UNCHANGED <<console, policy, session, alive, always, cmdVars, consent, inputVars>>

\* The prompt is printed, or the dialog shown.  On the console the goroutines of one
\* session share a bufio.Reader, which is not made for it.
Ask(c) ==
  /\ pc[c] = "prompt"
  /\ Goto(c, "asking")
  /\ consent' = [consent EXCEPT ![c] = "due"]
  /\ raced' = [raced EXCEPT ![home[c]] =
       @ \/ (console /\ \E d \in Cmd : pc[d] = "asking" /\ home[d] = home[c])]
  /\ UNCHANGED <<console, policy, session, alive, always, cmdVars, why, unread, ahead>>

\* What a prompt does with the answer that it gets.
Obeys(c, answer) ==
  CASE answer = "yes"    -> Pass(c, "asked")
    [] answer = "no"     -> Goto(c, "refused") /\ UNCHANGED why
    [] answer = "always" -> Goto(c, "remember") /\ UNCHANGED why

Keyed(answer) == unread' = [unread EXCEPT ![answer] = @ + 1]

\* Faulty variant, which the properties must reject: every approval is remembered.
ReplyRemembers(c, answer) ==
  /\ consent[c] = "due"
  /\ consent' = [consent EXCEPT ![c] = answer]
  /\ IF console THEN Keyed(answer) /\ UNCHANGED <<pc, why>>
     ELSE Obeys(c, IF answer = "yes" THEN "always" ELSE answer) /\ UNCHANGED unread
  /\ UNCHANGED <<console, policy, session, alive, always, cmdVars, ahead, raced>>

\* The operator answers the prompt of c ("no": also an empty line, or a dialog closed
\* otherwise): a dialog gets the answer, the console a line that any prompt may read.
Reply(c, answer) ==
  /\ consent[c] = "due"
  /\ consent' = [consent EXCEPT ![c] = answer]
  /\ IF console THEN Keyed(answer) /\ UNCHANGED <<pc, why>>
     ELSE Obeys(c, answer) /\ UNCHANGED unread
  /\ UNCHANGED <<console, policy, session, alive, always, cmdVars, ahead, raced>>

\* A line for no prompt, or for one that is not there yet.
TypeAhead(answer) ==
  /\ console
  /\ \A a \in Answer : ahead[a] < MaxAhead
  /\ Keyed(answer)
  /\ ahead' = [ahead EXCEPT ![answer] = @ + 1]
  /\ UNCHANGED <<console, policy, session, alive, always, pc, cmdVars, consent, why, raced>>

Typed == {a \in Answer : ahead[a] > 0 \/ \E d \in Cmd : consent[d] = a}
Taken == {[unread EXCEPT ![a] = @ - 1] : a \in {b \in Answer : unread[b] > 0}}

\* Faulty variant, which the properties must reject: the line stays for the next prompt.
ReadPeeks(c) ==
  /\ console /\ pc[c] = "asking"
  /\ \E a \in Typed \cup {"no"} : Obeys(c, a)
  /\ UNCHANGED <<console, policy, session, alive, always, cmdVars, consent, inputVars>>

\* ReadString on the session's bufio.Reader.  Standard input gives a line to one reader,
\* of whichever session; it may also end ("no").  Where two goroutines have been in the
\* same reader at once, it has no order: a line read already, by this or by another
\* prompt, one lost, or what makes no answer.  (It may also panic: nothing runs then.)
Read(c) ==
  /\ console /\ pc[c] = "asking"
  /\ \/ \E a \in Answer : /\ unread[a] > 0 /\ unread' = [unread EXCEPT ![a] = @ - 1]
                          /\ Obeys(c, a)
     \/ Obeys(c, "no") /\ UNCHANGED unread
     \/ /\ raced[home[c]]
        /\ unread' \in Taken \cup {unread}
        /\ \E a \in Typed : Obeys(c, a)
  /\ UNCHANGED <<console, policy, session, alive, always, cmdVars, consent, ahead, raced>>

\* rememberAlwaysAllowed, under the mutex
Remember(c) ==
  /\ pc[c] = "remember"
  /\ always' = [always EXCEPT ![home[c]] = @ \cup {desc[c]}]
  /\ Pass(c, "asked")
  /\ UNCHANGED <<console, policy, session, alive, cmdVars, consent, inputVars>>

\* A process is started under the session's context; a file operation does not
\* look at it.
MayRun(c) == kind[c] = "file" \/ (alive /\ home[c] = session)

Run(c) ==
  /\ pc[c] = "cleared"
  /\ Goto(c, IF MayRun(c) THEN "ran" ELSE "cancelled")
  /\ UNCHANGED <<console, policy, session, alive, always, cmdVars, consent, why, inputVars>>

\* The GUI's switch of the automatic mode: on from any policy, off to confirm.
SetPolicy(p) ==
  /\ ~console
  /\ IF policy = "auto" THEN p = "confirm" ELSE p = "auto"
  /\ policy' = p
  /\ UNCHANGED <<console, session, alive, always, pc, cmdVars, consent, why, inputVars>>

EndSession ==
  /\ alive /\ alive' = FALSE
  /\ UNCHANGED <<console, policy, session, always, pc, cmdVars, consent, why, inputVars>>

\* runSession again: a new Executor, with an empty memory.
Reconnect ==
  /\ ~alive /\ session < MaxSessions
  /\ session' = session + 1 /\ alive' = TRUE
  /\ UNCHANGED <<console, policy, always, pc, cmdVars, consent, why, inputVars>>

Done(c) == pc[c] \in {"ran", "cancelled", "refused"}

\* The last session of the instance is over and no goroutine is left.
Finished == /\ ~alive /\ session = MaxSessions
            /\ \A c \in Cmd : Done(c) \/ pc[c] = "new"
            /\ UNCHANGED vars

Handle(c) == \/ Arrive(c) \/ Guard(c) \/ Recall(c) \/ Ask(c)
             \/ Remember(c) \/ Run(c)
             \/ Read(c) \/ \E a \in Answer : Reply(c, a)

Next == \/ \E c \in Cmd : Handle(c)
        \/ \E p \in Policy : SetPolicy(p)
        \/ \E a \in Answer : TypeAhead(a)
        \/ EndSession \/ Reconnect \/ Finished

Spec == Init /\ [][Next]_vars

-----------------------------------------------------------------------------
(* Properties.                                                             *)

\* policy.go:128: under confirm, a gated operation runs only on the operator's
\* approval of that very operation: given at its own prompt, or once and for all
\* by "toujours" at a prompt that showed the same text in the same session.
OwnConsent(c) ==
  /\ why[c] = "asked" => consent[c] \in {"yes", "always"}
  /\ why[c] = "memory" => \E d \in Cmd : /\ consent[d] = "always"
                                         /\ desc[d] = desc[c] /\ home[d] = home[c]

ConsentFirst == \A c \in Cmd : OwnConsent(c)

\* It does with dialogs, whatever becomes of the session and the policy meanwhile.
DialogConsent == console \/ ConsentFirst

\* Where no two prompts of one session have waited at once, an approval lets through one
\* command at most, besides those that repeat it from memory: on the console too, where
\* the prompts of past sessions still read the standard input, and where a line may have
\* been typed before the prompt.
Approvals == {c \in Cmd : consent[c] \in {"yes", "always"}}
OneAnswerEach ==
  Cardinality({c \in Cmd : why[c] = "asked" /\ ~raced[home[c]]})
    <= Cardinality(Approvals) + ahead["yes"] + ahead["always"]

=============================================================================
