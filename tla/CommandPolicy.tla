--------------------------- MODULE CommandPolicy ---------------------------
(***************************************************************************)
(* CommandPolicy.check of relay/command_policy.py: allow and deny lists    *)
(* (here one bit: does the subject pass them), a quota on the number of    *)
(* commands, and a rate limit over a sliding window.  Its lock makes a     *)
(* check one step.  Both tables are keyed by session CODE and nobody       *)
(* clears them: sessions under a stable code share one history.            *)
(***************************************************************************)
EXTENDS Naturals, Sequences, FiniteSets

CONSTANTS Code,
          MaxCommands,  \* max_commands_per_session
          RateLimit,    \* rate_limit_per_minute
          Window,       \* RATE_LIMIT_WINDOW_SECONDS
          MaxTime       \* bound on the clock

ASSUME PolicyAssumption == /\ MaxCommands \in Nat /\ RateLimit \in Nat
                           /\ Window \in Nat \ {0} /\ MaxTime \in Nat

VARIABLES now,     \* the policy's clock
          counts,  \* _counts
          stamps,  \* _timestamps
          log,     \* history: times of the commands allowed under a code
          last     \* history: the last decision, and for which code

vars == <<now, counts, stamps, log, last>>

Init == /\ now = 0
        /\ counts = [k \in Code |-> 0]
        /\ stamps = [k \in Code |-> << >>]
        /\ log = [k \in Code |-> << >>]
        /\ last = [k \in Code |-> "none"]

QuotaReached(k) == counts[k] >= MaxCommands

\* Faulty variant, which the properties must reject: a tick early, and a tick late.
OutEarly(t) == now - t >= Window - 1
OutLate(t) == now - t > Window

\* Popped from the left while old enough.
OutOfWindow(t) == now - t >= Window
Pruned(s) == LET kept == {i \in 1..Len(s) : ~OutOfWindow(s[i])} IN
             IF kept = {} THEN << >>
             ELSE SubSeq(s, CHOOSE i \in kept : \A j \in kept : i <= j, Len(s))

Decide(k, reason) == last' = [last EXCEPT ![k] = reason]

\* Refused by the deny list, or absent from the allow list.
RefuseSubject(k) == /\ Decide(k, "subject")
                    /\ UNCHANGED <<now, counts, stamps, log>>

RefuseQuota(k) == /\ QuotaReached(k)
                  /\ Decide(k, "quota")
                  /\ UNCHANGED <<now, counts, stamps, log>>

RefuseRate(k) == /\ ~QuotaReached(k)
                 /\ Len(Pruned(stamps[k])) >= RateLimit
                 /\ stamps' = [stamps EXCEPT ![k] = Pruned(@)]
                 /\ Decide(k, "rate")
                 /\ UNCHANGED <<now, counts, log>>

Allow(k) == /\ ~QuotaReached(k)
            /\ Len(Pruned(stamps[k])) < RateLimit
            /\ stamps' = [stamps EXCEPT ![k] = Append(Pruned(@), now)]
            /\ counts' = [counts EXCEPT ![k] = @ + 1]
            /\ log' = [log EXCEPT ![k] = Append(@, now)]
            /\ Decide(k, "allowed")
            /\ UNCHANGED now

Tick == /\ now < MaxTime
        /\ now' = now + 1
        /\ last' = [k \in Code |-> "none"]
        /\ UNCHANGED <<counts, stamps, log>>

Next == \/ \E k \in Code : \/ RefuseSubject(k) \/ RefuseQuota(k) \/ RefuseRate(k) \/ Allow(k)
        \/ Tick

Spec == Init /\ [][Next]_vars

-----------------------------------------------------------------------------
(* Properties.                                                             *)

TypeOK == /\ now \in Nat
          /\ counts \in [Code -> Nat]
          /\ stamps \in [Code -> Seq(Nat)]
          /\ log \in [Code -> Seq(Nat)]
          /\ last \in [Code -> {"none", "subject", "quota", "rate", "allowed"}]

InWindow(k, t) == {i \in 1..Len(log[k]) : t - Window < log[k][i] /\ log[k][i] <= t}

\* Sliding window: no interval of the window's length, wherever it starts, holds
\* more allowed commands than the limit, although only what the last check left
\* of the timestamps is remembered.
RateRespected == \A k \in Code, t \in 0..MaxTime : Cardinality(InWindow(k, t)) <= RateLimit

\* And no command is refused for its rate unless the window that ends now is
\* full of commands that were allowed.
RateRefusalJustified ==
  \A k \in Code : last[k] = "rate" => Cardinality(InWindow(k, now)) >= RateLimit

\* The quota counts the allowed commands and nothing else: what a list or the
\* rate limit refused consumed none of it.  (Proved: PolicyAuditProofs.)
QuotaCountsAllowed == \A k \in Code : counts[k] = Len(log[k]) /\ counts[k] <= MaxCommands
=============================================================================
