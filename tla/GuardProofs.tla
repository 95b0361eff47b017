---------------------------- MODULE GuardProofs ----------------------------
(***************************************************************************)
(* Proofs about GuardRail.tla, for any commands, texts and number of       *)
(* sessions: with dialogs, nothing runs without the approval it needs; on  *)
(* the console, one answer lets one command through as long as the prompts *)
(* of a session come one at a time.                                        *)
(***************************************************************************)
EXTENDS GuardRail, FiniteSetTheorems, TLAPS

USE GuardAssumption

Types == /\ policy \in Policy /\ session \in 1..MaxSessions
         /\ pc \in [Cmd -> {"new", "guard", "memory", "prompt", "asking", "remember",
                            "cleared", "refused", "ran", "cancelled"}]
         /\ home \in [Cmd -> 1..MaxSessions]
         /\ consent \in [Cmd -> Answer \cup {"none", "due"}]
         /\ why \in [Cmd -> {"none", "plain", "auto", "memory", "asked"}]
         /\ always \in [1..MaxSessions -> SUBSET Desc] /\ desc \in [Cmd -> Desc]
         /\ unread \in [Answer -> Nat] /\ ahead \in [Answer -> Nat]
         /\ raced \in [1..MaxSessions -> BOOLEAN]

\* Before its prompt, a command has no answer and nothing lets it through.
Unasked == \A c \in Cmd : pc[c] \in {"new", "guard", "memory", "prompt"} =>
             consent[c] = "none" /\ why[c] = "none"

BaseInv == Types /\ Unasked

\* The steps as they touch the commands and what is typed.
LEMMA StepsOfGuard ==
  ASSUME BaseInv, [Next]_vars
  PROVE  \/ \E c \in Cmd : Arrive(c) \/ Guard(c) \/ Recall(c) \/ Ask(c) \/ Remember(c) \/ Run(c)
         \/ \E c \in Cmd, answer \in Answer : Reply(c, answer)
         \/ \E c \in Cmd : Read(c)
         \/ \E answer \in Answer : TypeAhead(answer)
         \/ /\ UNCHANGED <<console, always, pc, desc, home, consent, why, inputVars>>
            /\ policy' \in Policy /\ session' \in 1..MaxSessions
<1>1. CASE \E c \in Cmd : Handle(c)
  BY <1>1 DEF Handle
<1>2. CASE (\E p \in Policy : SetPolicy(p)) \/ EndSession \/ Finished \/ UNCHANGED vars
  BY <1>2 DEF SetPolicy, EndSession, Finished, vars, cmdVars, BaseInv, Types
<1>3. CASE Reconnect
  BY <1>3 DEF Reconnect, cmdVars, BaseInv, Types
<1>4. CASE \E answer \in Answer : TypeAhead(answer)
  BY <1>4
<1> QED
  BY <1>1, <1>2, <1>3, <1>4 DEF Next

\* A read moves its own command, and takes at most one line.
LEMMA ReadMoves ==
  ASSUME BaseInv, NEW c \in Cmd, Read(c)
  PROVE  /\ console /\ pc[c] = "asking"
         /\ UNCHANGED <<console, policy, session, always, desc, home, consent, ahead, raced>>
         /\ unread' = unread \/ \E a \in Answer : unread[a] > 0 /\ unread' = [unread EXCEPT ![a] = @ - 1]
         /\ \/ Pass(c, "asked")
            \/ Goto(c, "refused") /\ UNCHANGED why
            \/ Goto(c, "remember") /\ UNCHANGED why
<1> USE DEF Read, Obeys, Typed, Taken, Answer, cmdVars
<1>1. \E a \in Answer : Obeys(c, a)
  BY DEF Read
<1>2. \/ Pass(c, "asked")
      \/ Goto(c, "refused") /\ UNCHANGED why
      \/ Goto(c, "remember") /\ UNCHANGED why
  BY <1>1
<1>3. unread' = unread \/ \E a \in Answer : unread[a] > 0 /\ unread' = [unread EXCEPT ![a] = @ - 1]
  BY DEF Read
<1> QED
  BY <1>2, <1>3

LEMMA BaseInvariant == Spec => []BaseInv
<1>1. Init => BaseInv
  BY DEF Init, BaseInv, Types, Unasked
<1>2. BaseInv /\ [Next]_vars => BaseInv'
  <2> SUFFICES ASSUME BaseInv, [Next]_vars PROVE BaseInv'
    OBVIOUS
  <2> USE DEF BaseInv, Types, Unasked, cmdVars, inputVars, Goto, Pass, Answer, Gated
  <2>1. ASSUME NEW c \in Cmd, Arrive(c) PROVE BaseInv'
    BY <2>1 DEF Arrive
  <2>2. ASSUME NEW c \in Cmd, Guard(c) PROVE BaseInv'
    BY <2>2 DEF Guard, Policy
  <2>3. ASSUME NEW c \in Cmd, Recall(c) PROVE BaseInv'
    BY <2>3 DEF Recall
  <2>4. ASSUME NEW c \in Cmd, Ask(c) PROVE BaseInv'
    BY <2>4 DEF Ask
  <2>5. ASSUME NEW c \in Cmd, Remember(c) PROVE BaseInv'
    BY <2>5 DEF Remember
  <2>6. ASSUME NEW c \in Cmd, Run(c) PROVE BaseInv'
    BY <2>6 DEF Run
  <2>7. ASSUME NEW c \in Cmd, NEW answer \in Answer, Reply(c, answer) PROVE BaseInv'
    <3>1. \/ Pass(c, "asked")
          \/ Goto(c, "refused") /\ UNCHANGED why
          \/ Goto(c, "remember") /\ UNCHANGED why
          \/ UNCHANGED <<pc, why>>
      BY <2>7 DEF Reply, Obeys
    <3>2. consent[c] = "due" /\ consent' = [consent EXCEPT ![c] = answer]
          /\ UNCHANGED <<policy, session, always, desc, home, ahead, raced>>
      BY <2>7 DEF Reply
    <3>3. unread' \in [Answer -> Nat]
      BY <2>7 DEF Reply, Keyed
    <3>4. Types'
      BY <3>1, <3>2, <3>3
    <3>5. \A d \in Cmd : pc'[d] \in {"new", "guard", "memory", "prompt"} =>
            d # c /\ pc'[d] = pc[d] /\ why'[d] = why[d]
      BY <3>1, <3>2
    <3> QED
      BY <3>2, <3>4, <3>5
  <2>8. ASSUME NEW c \in Cmd, Read(c) PROVE BaseInv'
    <3>1. unread' \in [Answer -> Nat]
      BY <2>8, ReadMoves
    <3>2. Types'
      BY <2>8, <3>1, ReadMoves
    <3>3. \A d \in Cmd : pc'[d] \in {"new", "guard", "memory", "prompt"} =>
            pc'[d] = pc[d] /\ why'[d] = why[d] /\ consent'[d] = consent[d]
      <4>1. /\ pc[c] = "asking" /\ consent' = consent
            /\ \/ Pass(c, "asked")
               \/ Goto(c, "refused") /\ UNCHANGED why
               \/ Goto(c, "remember") /\ UNCHANGED why
        BY <2>8, ReadMoves
      <4> QED
        BY <4>1
    <3> QED
      BY <3>2, <3>3
  <2>9. ASSUME NEW answer \in Answer, TypeAhead(answer) PROVE BaseInv'
    <3>1. /\ unread' = [unread EXCEPT ![answer] = @ + 1]
          /\ ahead' = [ahead EXCEPT ![answer] = @ + 1]
          /\ UNCHANGED <<policy, session, always, pc, desc, home, consent, why, raced>>
      BY <2>9 DEF TypeAhead, Keyed
    <3>2. unread' \in [Answer -> Nat] /\ ahead' \in [Answer -> Nat]
      BY <3>1
    <3> QED
      BY <3>1, <3>2
  <2>10. CASE /\ UNCHANGED <<console, always, pc, desc, home, consent, why, inputVars>>
              /\ policy' \in Policy /\ session' \in 1..MaxSessions
    BY <2>10 DEF inputVars
  <2> QED
    BY <2>1, <2>2, <2>3, <2>4, <2>5, <2>6, <2>7, <2>8, <2>9, <2>10, StepsOfGuard
<1> QED
  BY <1>1, <1>2, PTL DEF Spec

-----------------------------------------------------------------------------
(* Dialogs: an answer is for the command whose prompt it is given at.      *)

ToldAlways(text, s) == \E d \in Cmd : consent[d] = "always" /\ desc[d] = text /\ home[d] = s

Consents ==
  /\ \A c \in Cmd : why[c] = "asked" => consent[c] \in {"yes", "always"}
  /\ \A c \in Cmd : why[c] = "memory" => ToldAlways(desc[c], home[c])
  /\ \A c \in Cmd : pc[c] = "remember" => consent[c] = "always"
  /\ \A s \in 1..MaxSessions : \A text \in always[s] : ToldAlways(text, s)
ConsentInv == console \/ Consents

\* What was told stays told: only a command that has no answer yet is asked, or moves.
LEMMA ToldStays ==
  ASSUME UNCHANGED desc,
         \A d \in Cmd : consent[d] = "always" => consent'[d] = "always" /\ home'[d] = home[d]
  PROVE  \A text, s : ToldAlways(text, s) => ToldAlways(text, s)'
  BY DEF ToldAlways

LEMMA ConsentKept ==
  ASSUME BaseInv, ConsentInv, [Next]_vars
  PROVE  ConsentInv'
<1>0. console' = console /\ desc' = desc
  BY DEF Next, Handle, Arrive, Guard, Recall, Ask, Remember, Run, Reply, Read, TypeAhead,
         SetPolicy, EndSession, Reconnect, Finished, vars, cmdVars
<1>1. CASE console
  BY <1>0, <1>1 DEF ConsentInv
<1>2. CASE ~console
  <2> USE DEF BaseInv, Types, Consents
  <2>0. Consents
    BY <1>2 DEF ConsentInv
  <2>1. ASSUME NEW c \in Cmd, Arrive(c) \/ Guard(c) \/ Recall(c) \/ Run(c) PROVE ConsentInv'
    <3>1. consent' = consent /\ always' = always
      BY <2>1 DEF Arrive, Guard, Recall, Run, cmdVars
    <3>2. \A d \in Cmd : home'[d] = home[d] \/ (consent[d] = "none" /\ why[d] = "none"
                                                   /\ why'[d] \in {"none", "plain"})
      BY <2>1 DEF Arrive, Guard, Recall, Run, cmdVars, Unasked, Pass
    <3>3. \A text, s : ToldAlways(text, s) => ToldAlways(text, s)'
      BY <1>0, <3>1, <3>2, ToldStays
    <3>4. \A d \in Cmd : /\ why'[d] = "asked" => why[d] = "asked"
                         /\ pc'[d] = "remember" => pc[d] = "remember"
      BY <2>1 DEF Arrive, Guard, Recall, Run, cmdVars, Pass, Goto, Policy
    <3>5. \A d \in Cmd : why'[d] = "memory" => why[d] = "memory" \/ desc[d] \in always[home[d]]
      BY <2>1 DEF Arrive, Guard, Recall, Run, cmdVars, Pass, Policy, Remembered
    <3>6. \A d \in Cmd : why'[d] = "memory" => ToldAlways(desc[d], home[d]) /\ home'[d] = home[d]
      BY <2>0, <3>2, <3>5
    <3> QED
      BY <1>0, <2>0, <3>1, <3>3, <3>4, <3>6 DEF ConsentInv
  <2>2. ASSUME NEW c \in Cmd, Ask(c) PROVE ConsentInv'
    <3>1. /\ pc[c] = "prompt" /\ consent[c] = "none" /\ why[c] = "none"
          /\ pc' = [pc EXCEPT ![c] = "asking"] /\ consent' = [consent EXCEPT ![c] = "due"]
          /\ UNCHANGED <<always, home, why>>
      BY <2>2 DEF Ask, Goto, cmdVars, Unasked
    <3>2. \A text, s : ToldAlways(text, s) => ToldAlways(text, s)'
      BY <1>0, <3>1, ToldStays
    <3> QED
      BY <1>0, <2>0, <3>1, <3>2 DEF ConsentInv
  <2>3. ASSUME NEW c \in Cmd, Remember(c) PROVE ConsentInv'
    <3>1. /\ pc[c] = "remember" /\ consent[c] = "always" /\ UNCHANGED <<home, consent>>
          /\ pc' = [pc EXCEPT ![c] = "cleared"] /\ why' = [why EXCEPT ![c] = "asked"]
          /\ always' = [always EXCEPT ![home[c]] = @ \cup {desc[c]}]
      BY <2>0, <2>3 DEF Remember, Pass, Goto, cmdVars
    <3>2. \A text, s : ToldAlways(text, s) => ToldAlways(text, s)'
      BY <1>0, <3>1, ToldStays
    <3>3. ToldAlways(desc[c], home[c])
      BY <3>1 DEF ToldAlways
    <3>4. \A s \in 1..MaxSessions : \A text \in always'[s] :
            text \in always[s] \/ (text = desc[c] /\ s = home[c])
      BY <3>1
    <3>5. \A s \in 1..MaxSessions : \A text \in always'[s] : ToldAlways(text, s)
      BY <2>0, <3>3, <3>4
    <3> QED
      BY <1>0, <2>0, <3>1, <3>2, <3>5 DEF ConsentInv
  <2>4. ASSUME NEW c \in Cmd, NEW answer \in Answer, Reply(c, answer) PROVE ConsentInv'
    <3>1. /\ consent[c] = "due" /\ consent' = [consent EXCEPT ![c] = answer]
          /\ UNCHANGED <<always, home>>
      BY <2>4 DEF Reply, cmdVars
    <3>2. \/ answer = "yes" /\ Pass(c, "asked")
          \/ answer = "no" /\ Goto(c, "refused") /\ UNCHANGED why
          \/ answer = "always" /\ Goto(c, "remember") /\ UNCHANGED why
      BY <1>2, <2>4 DEF Reply, Obeys, Answer
    <3>3. \A text, s : ToldAlways(text, s) => ToldAlways(text, s)'
      BY <1>0, <3>1, ToldStays
    <3>4. \A d \in Cmd : /\ why'[d] = "asked" => consent'[d] \in {"yes", "always"}
                         /\ why'[d] = "memory" => why[d] = "memory"
                         /\ pc'[d] = "remember" => consent'[d] = "always"
      BY <2>0, <3>1, <3>2 DEF Pass, Goto
    <3> QED
      BY <1>0, <2>0, <3>1, <3>3, <3>4 DEF ConsentInv
  <2>5. CASE UNCHANGED <<console, always, pc, desc, home, consent, why>>
    BY <2>0, <2>5 DEF ConsentInv, ToldAlways
  <2>6. (\E c \in Cmd : Read(c)) \/ (\E answer \in Answer : TypeAhead(answer)) => FALSE
    BY <1>2 DEF Read, TypeAhead
  <2> QED
    BY <2>1, <2>2, <2>3, <2>4, <2>5, <2>6, StepsOfGuard
<1> QED
  BY <1>1, <1>2

\* policy.go:128: with a dialog for each command, whatever becomes of the session and of
\* the policy meanwhile, a gated command that confirm let through was approved at its own
\* prompt, or by "toujours" at a prompt of its session that showed the same text.
THEOREM DialogsAskFirst == Spec => []DialogConsent
<1>1. Init => ConsentInv
  BY DEF Init, ConsentInv, Consents
<1>2. BaseInv /\ ConsentInv /\ [Next]_vars => ConsentInv'
  BY ConsentKept
<1>3. ConsentInv => DialogConsent
  BY DEF ConsentInv, Consents, DialogConsent, ConsentFirst, OwnConsent, ToldAlways
<1> QED
  BY <1>1, <1>2, <1>3, BaseInvariant, PTL DEF Spec

-----------------------------------------------------------------------------
(* The console: one answer, one command, where prompts come one at a time. *)

\* The commands that an answer let through or will, at prompts that met no other.
Lone == {c \in Cmd : (why[c] = "asked" \/ pc[c] = "remember") /\ ~raced[home[c]]}
Budget == Cardinality(Lone) + unread["yes"] + unread["always"]
            <= Cardinality(Approvals) + ahead["yes"] + ahead["always"]

LEMMA Sizes ==
  ASSUME NEW S, IsFiniteSet(S), NEW A \in SUBSET S, NEW B \in SUBSET S
  PROVE  /\ Cardinality(A) \in Nat /\ Cardinality(B) \in Nat
         /\ A \subseteq B => Cardinality(A) <= Cardinality(B)
         /\ \A c \in S : A \subseteq B \cup {c} => Cardinality(A) <= Cardinality(B) + 1
         /\ \A c \in S : c \notin A /\ B = A \cup {c} => Cardinality(B) = Cardinality(A) + 1
<1>1. /\ IsFiniteSet(A) /\ IsFiniteSet(B)
      /\ Cardinality(A) \in Nat /\ Cardinality(B) \in Nat
  BY FS_Subset, FS_CardinalityType
<1>2. A \subseteq B => Cardinality(A) <= Cardinality(B)
  BY <1>1, FS_Subset
<1>3. ASSUME NEW c \in S, A \subseteq B \cup {c} PROVE Cardinality(A) <= Cardinality(B) + 1
  <2>1. IsFiniteSet(B \cup {c}) /\ Cardinality(B \cup {c}) = IF c \in B THEN Cardinality(B)
                                                                 ELSE Cardinality(B) + 1
    BY <1>1, FS_AddElement
  <2>2. Cardinality(A) <= Cardinality(B \cup {c})
    BY <1>3, <2>1, FS_Subset
  <2> QED
    BY <1>1, <2>1, <2>2
<1>4. ASSUME NEW c \in S, c \notin A, B = A \cup {c} PROVE Cardinality(B) = Cardinality(A) + 1
  BY <1>1, <1>4, FS_AddElement
<1> QED
  BY <1>1, <1>2, <1>3, <1>4

LEMMA BudgetKept ==
  ASSUME IsFiniteSet(Cmd), BaseInv, BaseInv', Budget, [Next]_vars
  PROVE  Budget'
<1>n. /\ {unread["yes"], unread["always"], unread'["yes"], unread'["always"]} \subseteq Nat
      /\ {ahead["yes"], ahead["always"]} \subseteq Nat
      /\ unread \in [Answer -> Nat] /\ ahead \in [Answer -> Nat]
  BY DEF BaseInv, Types, Answer
<1>0. /\ Cardinality(Lone) \in Nat /\ Cardinality(Lone') \in Nat
      /\ Cardinality(Approvals) \in Nat /\ Cardinality(Approvals') \in Nat
      /\ Lone' \subseteq Lone => Cardinality(Lone') <= Cardinality(Lone)
      /\ \A c \in Cmd : Lone' \subseteq Lone \cup {c} => Cardinality(Lone') <= Cardinality(Lone) + 1
      /\ Approvals \subseteq Approvals' => Cardinality(Approvals) <= Cardinality(Approvals')
      /\ \A c \in Cmd : c \notin Approvals /\ Approvals' = Approvals \cup {c}
                         => Cardinality(Approvals') = Cardinality(Approvals) + 1
  <2>1. Lone \in SUBSET Cmd /\ Lone' \in SUBSET Cmd
        /\ Approvals \in SUBSET Cmd /\ Approvals' \in SUBSET Cmd
    BY DEF Lone, Approvals
  <2> QED
    BY <2>1, Sizes
<1>1. ASSUME NEW c \in Cmd, Arrive(c) \/ Guard(c) \/ Recall(c) \/ Ask(c) \/ Remember(c) \/ Run(c)
      PROVE  Budget'
  <2>1. \A d \in Cmd : /\ why'[d] = "asked" => why[d] = "asked" \/ pc[d] = "remember"
                       /\ pc'[d] = "remember" => pc[d] = "remember"
    <3>1. CASE Guard(c)
      <4>1. \/ Pass(c, "auto")
            \/ (Goto(c, "refused") \/ Goto(c, "memory")) /\ UNCHANGED why
        BY <3>1 DEF Guard, BaseInv, Types, Policy
      <4> QED
        BY <4>1 DEF Pass, Goto, BaseInv, Types
    <3>2. CASE ~Guard(c)
      BY <1>1, <3>2 DEF Arrive, Recall, Ask, Remember, Run, cmdVars, Pass, Goto, BaseInv, Types
    <3> QED
      BY <3>1, <3>2
  <2>2. \A d \in Cmd : consent'[d] = consent[d] \/ consent[d] = "none"
    BY <1>1 DEF Arrive, Guard, Recall, Ask, Remember, Run, cmdVars, Unasked, BaseInv, Types
  <2>3. \A d \in Cmd : home'[d] = home[d] \/ (why'[d] # "asked" /\ pc'[d] # "remember")
    <3>1. CASE Arrive(c)
      <4>1. pc[c] = "new" /\ why[c] = "none"
        BY <3>1 DEF Arrive, BaseInv, Unasked
      <4> QED
        BY <3>1, <4>1 DEF Arrive, Pass, Goto, BaseInv, Types
    <3>2. CASE ~Arrive(c)
      BY <1>1, <3>2 DEF Guard, Recall, Ask, Remember, Run, cmdVars
    <3> QED
      BY <3>1, <3>2
  <2>4. \A s \in 1..MaxSessions : raced[s] => raced'[s]
    BY <1>1 DEF Arrive, Guard, Recall, Ask, Remember, Run, inputVars, BaseInv, Types
  <2>5. unread' = unread /\ ahead' = ahead
    BY <1>1 DEF Arrive, Guard, Recall, Ask, Remember, Run, inputVars
  <2>6. Lone' \subseteq Lone
    BY <2>1, <2>3, <2>4 DEF Lone, BaseInv, Types
  <2>7. Approvals \subseteq Approvals'
    BY <2>2 DEF Approvals, BaseInv, Types
  <2> QED
    BY <1>n, <1>0, <2>5, <2>6, <2>7 DEF Budget, Answer
<1>2. ASSUME NEW c \in Cmd, NEW answer \in Answer, Reply(c, answer) PROVE Budget'
  <2>1. /\ consent[c] = "due" /\ consent' = [consent EXCEPT ![c] = answer]
        /\ UNCHANGED <<home, ahead, raced>>
    BY <1>2 DEF Reply, cmdVars
  <2>2. answer = "no" => Approvals \subseteq Approvals'
    BY <2>1 DEF Approvals, BaseInv, Types
  <2>3. answer # "no" => c \notin Approvals /\ Approvals' = Approvals \cup {c}
    BY <2>1 DEF Approvals, Answer, BaseInv, Types
  <2>4. Cardinality(Approvals') = Cardinality(Approvals) + 1 \/ (answer = "no"
          /\ Cardinality(Approvals) <= Cardinality(Approvals'))
    BY <1>0, <2>2, <2>3
  <2>5. CASE console
    <3>1. Lone' \subseteq Lone /\ unread' = [unread EXCEPT ![answer] = @ + 1]
      BY <1>2, <2>1, <2>5 DEF Reply, Keyed, Lone, BaseInv, Types
    <3> QED
      BY <1>n, <1>0, <2>1, <2>4, <3>1 DEF Budget, Answer
  <2>6. CASE ~console
    <3>1. /\ unread' = unread
          /\ \/ answer = "yes" /\ Pass(c, "asked")
             \/ answer = "no" /\ Goto(c, "refused") /\ UNCHANGED why
             \/ answer = "always" /\ Goto(c, "remember") /\ UNCHANGED why
      BY <1>2, <2>6 DEF Reply, Obeys, Answer
    <3>2. IF answer = "no" THEN Lone' \subseteq Lone ELSE Lone' \subseteq Lone \cup {c}
      BY <2>1, <3>1 DEF Lone, Pass, Goto, BaseInv, Types
    <3> QED
      BY <1>n, <1>0, <2>1, <2>4, <3>1, <3>2 DEF Budget, Answer
  <2> QED
    BY <2>5, <2>6
<1>3. ASSUME NEW c \in Cmd, Read(c) PROVE Budget'
  <2>1. UNCHANGED <<home, consent, ahead, raced>>
    BY <1>3 DEF Read, cmdVars
  <2>2. Approvals' = Approvals
    BY <2>1 DEF Approvals, BaseInv, Types
  <2>3. ASSUME NEW a \in Answer, unread[a] > 0, unread' = [unread EXCEPT ![a] = @ - 1], Obeys(c, a)
        PROVE  Budget'
    <3>0. \/ a = "yes" /\ Pass(c, "asked")
          \/ a = "no" /\ Goto(c, "refused") /\ UNCHANGED why
          \/ a = "always" /\ Goto(c, "remember") /\ UNCHANGED why
      BY <2>3 DEF Obeys, Answer
    <3>1. IF a = "no" THEN Lone' \subseteq Lone ELSE Lone' \subseteq Lone \cup {c}
      BY <2>1, <3>0 DEF Lone, Pass, Goto, BaseInv, Types
    <3> QED
      BY <1>n, <1>0, <2>1, <2>2, <2>3, <3>1 DEF Budget, Answer
  <2>4. CASE Obeys(c, "no") /\ UNCHANGED unread
    <3>1. Lone' \subseteq Lone
      BY <2>1, <2>4 DEF Obeys, Goto, Lone, BaseInv, Types
    <3> QED
      BY <1>n, <1>0, <2>1, <2>2, <2>4, <3>1 DEF Budget, Answer
  <2>5. CASE raced[home[c]]
    <3>1. \A d \in Cmd : d # c => pc'[d] = pc[d] /\ why'[d] = why[d]
      <4>1. \/ Pass(c, "asked")
            \/ Goto(c, "refused") /\ UNCHANGED why
            \/ Goto(c, "remember") /\ UNCHANGED why
        BY <1>3, ReadMoves
      <4> QED
        BY <4>1 DEF Pass, Goto, BaseInv, Types
    <3>2. Lone' \subseteq Lone
      BY <2>1, <2>5, <3>1 DEF Lone, BaseInv, Types
    <3>3. unread'["yes"] <= unread["yes"] /\ unread'["always"] <= unread["always"]
      <4>1. unread' = unread
            \/ \E a \in Answer : unread[a] > 0 /\ unread' = [unread EXCEPT ![a] = @ - 1]
        BY <1>3, ReadMoves
      <4> QED
        BY <1>n, <4>1 DEF Answer
    <3> QED
      BY <1>n, <1>0, <2>1, <2>2, <3>2, <3>3 DEF Budget, Answer
  <2> QED
    BY <1>3, <2>3, <2>4, <2>5 DEF Read
<1>4. ASSUME NEW answer \in Answer, TypeAhead(answer) PROVE Budget'
  <2>1. UNCHANGED <<pc, why, consent, home, raced>>
    BY <1>4 DEF TypeAhead, cmdVars
  <2>2. Lone' = Lone /\ Approvals' = Approvals
    BY <2>1 DEF Lone, Approvals
  <2>3. unread' = [unread EXCEPT ![answer] = @ + 1] /\ ahead' = [ahead EXCEPT ![answer] = @ + 1]
    BY <1>4 DEF TypeAhead, Keyed
  <2> QED
    BY <1>n, <1>0, <2>2, <2>3 DEF Budget, Answer
<1>5. CASE UNCHANGED <<pc, consent, why, home, inputVars>>
  BY <1>5 DEF Budget, Lone, Approvals, inputVars
<1> QED
  BY <1>1, <1>2, <1>3, <1>4, <1>5, StepsOfGuard

\* main.go:327: where no two prompts of one session have waited at once, one answer lets
\* one command through, although the prompts of past sessions read the same standard input
\* and a line may have been typed before any prompt.
THEOREM AnswersAreSingle ==
  ASSUME IsFiniteSet(Cmd)
  PROVE  Spec => []OneAnswerEach
<1>1. Init => Budget
  <2> SUFFICES ASSUME Init PROVE Budget
    OBVIOUS
  <2>1. Lone = {} /\ Approvals = {}
    BY DEF Init, Lone, Approvals
  <2> QED
    BY <2>1, FS_EmptySet DEF Init, Budget, Answer
<1>2. BaseInv /\ BaseInv' /\ Budget /\ [Next]_vars => Budget'
  BY BudgetKept
<1>3. BaseInv /\ Budget => OneAnswerEach
  <2> SUFFICES ASSUME BaseInv, Budget PROVE OneAnswerEach
    OBVIOUS
  <2> DEFINE Asked == {c \in Cmd : why[c] = "asked" /\ ~raced[home[c]]}
  <2>1. Asked \in SUBSET Cmd /\ Lone \in SUBSET Cmd /\ Approvals \in SUBSET Cmd /\ Asked \subseteq Lone
    BY DEF Lone, Approvals
  <2>2. /\ Cardinality(Asked) \in Nat /\ Cardinality(Lone) \in Nat /\ Cardinality(Approvals) \in Nat
        /\ Cardinality(Asked) <= Cardinality(Lone)
    BY <2>1, Sizes
  <2> QED
    BY <2>2 DEF Budget, OneAnswerEach, BaseInv, Types, Answer
<1> QED
  BY <1>1, <1>2, <1>3, BaseInvariant, PTL DEF Spec
=============================================================================
