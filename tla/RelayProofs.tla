---------------------------- MODULE RelayProofs ----------------------------
(***************************************************************************)
(* Proofs about Relay.tla, for any sets of connections, codes, calls and   *)
(* kills: type correctness, the agreement of the store with the handlers,  *)
(* that no wake-up of a pending dispatch is ever lost; and that the relay  *)
(* keeps its promises to the MCP layer: a result comes after all the       *)
(* output, a dispatch hears nothing more of a connection that has ended,   *)
(* and Relay implements CommandService.                                    *)
(***************************************************************************)
EXTENDS Relay, TLAPS

USE DirectoryAssumption, RelayAssumption

Item == Kind \cup {GONE}

\* Queueing an item leaves a sequence of items.
LEMMA AppendItem == \A q \in Seq(Item), x \in Item : Append(q, x) \in Seq(Item)
  OBVIOUS

\* Waking the requests of a connection leaves every queue a sequence of items.
LEMMA WakeTyped ==
  ASSUME queue \in [Req -> Seq(Item)], NEW c, Wake(c)
  PROVE  queue' \in [Req -> Seq(Item)]
  BY AppendItem DEF Wake, Item

\* The types hold in every state the relay reaches.
THEOREM TypeCorrect == Spec => []TypeOK
<1>1. Init => TypeOK
  BY DEF Init, DirInit, TypeOK, DirTypeOK, Active, Outcome
<1>2. TypeOK /\ [Next]_vars => TypeOK'
  <2> SUFFICES ASSUME TypeOK, [Next]_vars PROVE TypeOK'
    OBVIOUS
  <2> USE DEF TypeOK, DirTypeOK, Active, Outcome, connVars, reqVars, killVars, dirVars
  <2>1. ASSUME NEW c \in Conn, Accept(c) PROVE TypeOK'
    BY <2>1 DEF Accept
  <2>2. ASSUME NEW c \in Conn, Heartbeat(c) PROVE TypeOK'
    BY <2>2 DEF Heartbeat, PurgeCode, Purge, Erase
  <2>3. ASSUME NEW c \in Conn, Disconnect(c) PROVE TypeOK'
    BY <2>3 DEF Disconnect
  <2>4. ASSUME NEW c \in Conn, Unregister(c) PROVE TypeOK'
    <3>1. queue' \in [Req -> Seq(Kind \cup {GONE})]
      BY <2>4, WakeTyped DEF Unregister, Item
    <3> QED
      BY <2>4, <3>1 DEF Unregister, RemoveByConnection, Erase
  <2>5. ASSUME NEW c \in Conn, NEW d \in Code \cup {NoCode}, NEW k \in Code,
               Register(c, d, k)
        PROVE  TypeOK'
    BY <2>5 DEF Register, Create
  <2>6. ASSUME NEW c \in Conn, NEW d \in Code \cup {NoCode}, RegisterFails(c, d)
        PROVE  TypeOK'
    BY <2>6 DEF RegisterFails
  <2>7. ASSUME NEW c \in Conn, NEW r \in Req, NEW kind \in Kind, ClientMessage(c, r, kind)
        PROVE  TypeOK'
    <3>1. queue' \in [Req -> Seq(Kind \cup {GONE})]
      BY <2>7, AppendItem DEF ClientMessage, Item
    <3>2. CASE c # target[r]
      BY <2>7, <3>1, <3>2 DEF ClientMessage, Emits
    <3>3. CASE c = target[r]
      <4>1. Emits(c, r, kind)
        BY <2>7 DEF ClientMessage
      <4>2. /\ kind \in Partial => sent[r] < MaxChunks
            /\ sent' = [sent EXCEPT ![r] = IF kind \in Partial THEN @ + 1 ELSE @]
        BY <3>3, <4>1 DEF Emits
      <4>3. sent[r] \in 0..MaxChunks /\ MaxChunks \in Nat
        OBVIOUS
      <4>4. (IF kind \in Partial THEN sent[r] + 1 ELSE sent[r]) \in 0..MaxChunks
        BY <4>2, <4>3
      <4>5. sent' \in [Req -> 0..MaxChunks]
        BY <4>2, <4>4
      <4>6. /\ replied[r] = "no"
            /\ \/ replied' = [replied EXCEPT ![r] = replied[r]]
               \/ replied' = [replied EXCEPT ![r] = "late"]
               \/ replied' = [replied EXCEPT ![r] = "yes"]
        BY <3>3, <4>1, Zenon DEF Emits
      <4>7. replied \in [Req -> {"no", "yes", "late"}]
        OBVIOUS
      <4>8. replied' \in [Req -> {"no", "yes", "late"}]
        <5> HIDE DEF TypeOK
        <5> QED BY <4>6, <4>7
      <4> QED
        BY <2>7, <3>1, <4>5, <4>8 DEF ClientMessage
    <3> QED
      BY <3>2, <3>3
  <2>8. ASSUME NEW r \in Req, NEW k \in Code, DispatchUnknown(r, k) PROVE TypeOK'
    BY <2>8 DEF DispatchUnknown, PurgeCode, Purge, Erase, End
  <2>9. ASSUME NEW r \in Req, NEW k \in Code, DispatchDenied(r, k) PROVE TypeOK'
    BY <2>9 DEF DispatchDenied, End
  <2>10. ASSUME NEW r \in Req, NEW k \in Code, Dispatch(r, k) PROVE TypeOK'
    BY <2>10 DEF Dispatch, Live, Free
  <2>11. ASSUME NEW r \in Req, Sent(r) PROVE TypeOK'
    BY <2>11 DEF Sent
  <2>12. ASSUME NEW r \in Req, SendFails(r) PROVE TypeOK'
    BY <2>12 DEF SendFails, End
  <2>13. ASSUME NEW r \in Req, Take(r) PROVE TypeOK'
    BY <2>13 DEF Take
  <2>14. ASSUME NEW r \in Req, Timeout(r) PROVE TypeOK'
    BY <2>14 DEF Timeout, End
  <2>15. ASSUME NEW r \in Req, Abandon(r) PROVE TypeOK'
    BY <2>15 DEF Abandon, End
  <2>16. ASSUME NEW p \in Killer, NEW k \in Code, KillUnknown(p, k) PROVE TypeOK'
    BY <2>16 DEF KillUnknown
  <2>17. ASSUME NEW p \in Killer, NEW k \in Code, Kill(p, k) PROVE TypeOK'
    <3>1. queue' \in [Req -> Seq(Kind \cup {GONE})]
      BY <2>17, WakeTyped DEF Kill, Item
    <3>2. DirTypeOK' /\ fate' \in [Conn -> {"none", "expired", "killed", "half-killed"}]
      BY <2>17 DEF Kill, TakeRecord, Pop, Erase
    <3>3. holder[k] \in Conn
      BY <2>17 DEF Kill, Free
    <3>4. /\ kpc' = [kpc EXCEPT ![p] = "sending"]
          /\ kconn' = [kconn EXCEPT ![p] = holder[k]]
          /\ UNCHANGED <<ws, code, req, target, sent, replied, got>>
      BY <2>17 DEF Kill
    <3> QED
      BY <3>1, <3>2, <3>3, <3>4
  <2>18. ASSUME NEW p \in Killer, NEW k \in Code, KillAuditFails(p, k) PROVE TypeOK'
    BY <2>18 DEF KillAuditFails, TakeRecord, Pop, Erase
  <2>19. ASSUME NEW p \in Killer, KillSent(p) PROVE TypeOK'
    BY <2>19 DEF KillSent
  <2>20. ASSUME NEW p \in Killer, KillCancelled(p) PROVE TypeOK'
    BY <2>20 DEF KillCancelled
  <2>21. ASSUME NEW p \in Killer, KillClose(p) PROVE TypeOK'
    BY <2>21 DEF KillClose
  <2>22. ASSUME NEW k \in Code, LookUp(k) PROVE TypeOK'
    BY <2>22 DEF LookUp, PurgeCode, Purge, Erase
  <2>23. ASSUME NEW k \in Code, LeaseExpires(k) PROVE TypeOK'
    BY <2>23 DEF LeaseExpires, Expire
  <2>24. CASE UNCHANGED vars
    BY <2>24 DEF vars
  <2> QED
    BY <2>1, <2>2, <2>3, <2>4, <2>5, <2>6, <2>7, <2>8, <2>9, <2>10, <2>11, <2>12,
       <2>13, <2>14, <2>15, <2>16, <2>17, <2>18, <2>19, <2>20, <2>21, <2>22, <2>23, <2>24
    DEF Next, Handler, Call, Terminator, Quiescent
<1> QED
  BY <1>1, <1>2, PTL DEF Spec

-----------------------------------------------------------------------------
(* The store and the handlers.                                             *)

\* A connection that is not open yet was given no code, and one that was given
\* no code has not lost it.
NothingToLose == \A c \in Conn : /\ ws[c] = "idle" => code[c] = NoCode
                                 /\ code[c] = NoCode => fate[c] = "none"

StoreInv == NoStaleRecord /\ Routed /\ NothingToLose

\* What a step may do to the directory and the handlers.
Opens(c) == ws[c] = "idle" /\ ws' = [ws EXCEPT ![c] = "open"] /\ UNCHANGED <<holder, code, fate>>
Loses(c) == ws[c] = "open" /\ ws' = [ws EXCEPT ![c] = "lost"] /\ UNCHANGED <<holder, code, fate>>
StoreStep ==
  \/ UNCHANGED <<holder, ws, code, fate>>
  \/ \E c \in Conn : Opens(c) \/ Loses(c) \/ Unregister(c)
  \/ \E c \in Conn, d \in Code \cup {NoCode}, k \in Code : Register(c, d, k)
  \/ \E k \in Code : (PurgeCode(k) \/ \E how \in {"killed", "half-killed"} : TakeRecord(k, how)) /\ UNCHANGED <<ws, code>>

\* Every step is one of these.
LEMMA StepsOfStore ==
  ASSUME TypeOK, [Next]_vars
  PROVE  StoreStep
<1> USE DEF StoreStep
<1>1. ASSUME NEW c \in Conn, Handler(c) PROVE StoreStep
  <2>1. CASE Accept(c)
    BY <2>1 DEF Accept, Opens, dirVars
  <2>2. CASE Heartbeat(c)
    <3>1. code[c] \in Code /\ PurgeCode(code[c]) /\ UNCHANGED <<ws, code>>
      BY <2>2 DEF Heartbeat, TypeOK
    <3> QED
      BY <3>1
  <2>3. CASE Disconnect(c)
    BY <2>3 DEF Disconnect, Loses, dirVars
  <2>4. CASE Unregister(c)
    BY <2>4
  <2>5. CASE \E d \in Code \cup {NoCode}, k \in Code : Register(c, d, k)
    BY <2>5
  <2>6. CASE \E d \in Code \cup {NoCode} : RegisterFails(c, d)
    BY <2>6 DEF RegisterFails, Loses, dirVars
  <2>7. CASE \E r \in Req, kind \in Kind : ClientMessage(c, r, kind)
    BY <2>7 DEF ClientMessage, dirVars, connVars
  <2> QED
    BY <1>1, <2>1, <2>2, <2>3, <2>4, <2>5, <2>6, <2>7 DEF Handler
<1>2. ASSUME NEW r \in Req, Call(r) PROVE StoreStep
  <2>1. CASE \E k \in Code : DispatchUnknown(r, k)
    BY <2>1 DEF DispatchUnknown
  <2>2. CASE ~ \E k \in Code : DispatchUnknown(r, k)
    BY <1>2, <2>2 DEF Call, DispatchDenied, Dispatch, Sent, SendFails, Take, Timeout,
                      Abandon, dirVars, connVars
  <2> QED
    BY <2>1, <2>2
<1>3. ASSUME NEW p \in Killer, Terminator(p) PROVE StoreStep
  <2>1. CASE \E k \in Code : Kill(p, k) \/ KillAuditFails(p, k)
    BY <2>1 DEF Kill, KillAuditFails
  <2>2. CASE KillClose(p)
    <3>1. /\ kconn[p] \in Conn
          /\ ws' = [ws EXCEPT ![kconn[p]] = IF @ = "open" THEN "lost" ELSE @]
          /\ UNCHANGED <<holder, code, fate>>
      BY <2>2 DEF KillClose, TypeOK, dirVars
    <3>2. CASE ws[kconn[p]] = "open"
      BY <3>1, <3>2 DEF Loses
    <3>3. CASE ws[kconn[p]] # "open"
      BY <3>1, <3>3 DEF TypeOK
    <3> QED
      BY <3>2, <3>3
  <2>3. CASE (\E k \in Code : KillUnknown(p, k)) \/ KillSent(p) \/ KillCancelled(p)
    BY <2>3 DEF KillUnknown, KillSent, KillCancelled, dirVars, connVars
  <2> QED
    BY <1>3, <2>1, <2>2, <2>3 DEF Terminator
<1>4. ASSUME NEW k \in Code, LookUp(k) PROVE StoreStep
  BY <1>4 DEF LookUp
<1>5. ASSUME NEW k \in Code, LeaseExpires(k) PROVE StoreStep
  BY <1>5 DEF LeaseExpires, Expire, connVars
<1>6. CASE UNCHANGED vars
  BY <1>6 DEF vars
<1> QED
  BY <1>1, <1>2, <1>3, <1>4, <1>5, <1>6 DEF Next, Quiescent

\* No step breaks the agreement of the store with the handlers.
LEMMA StoreStepPreserves ==
  ASSUME TypeOK, StoreInv, StoreStep
  PROVE  StoreInv'
<1> USE DEF StoreInv, NoStaleRecord, Routed, NothingToLose, Free
<1>0. /\ holder \in [Code -> Conn \cup {NoConn}] /\ code \in [Conn -> Code \cup {NoCode}]
      /\ ws \in [Conn -> {"idle", "open", "lost", "closed"}]
      /\ fate \in [Conn -> {"none", "expired", "killed", "half-killed"}]
  BY DEF TypeOK, DirTypeOK
<1>1. CASE UNCHANGED <<holder, ws, code, fate>>
  BY <1>1
<1>2. ASSUME NEW c \in Conn, Opens(c) PROVE StoreInv'
  <2>1. \A k \in Code : holder[k] # c
    BY <1>0, <1>2 DEF Opens
  <2> QED
    BY <1>0, <1>2, <2>1 DEF Opens
<1>3. ASSUME NEW c \in Conn, Loses(c) PROVE StoreInv'
  BY <1>0, <1>3 DEF Loses
<1>4. ASSUME NEW c \in Conn, Unregister(c) PROVE StoreInv'
  BY <1>0, <1>4 DEF Unregister, RemoveByConnection, HeldBy, Erase
<1>5. ASSUME NEW c \in Conn, NEW d \in Code \cup {NoCode}, NEW k \in Code, Register(c, d, k)
      PROVE  StoreInv'
  <2>1. Free(k) /\ code[c] = NoCode /\ ws[c] = "open" /\ fate[c] = "none"
    BY <1>0, <1>5 DEF Register, Create, MayChoose
  <2>2. \A j \in Code : holder[j] # c
    BY <1>0, <2>1
  <2>3. /\ holder' = [holder EXCEPT ![k] = c] /\ code' = [code EXCEPT ![c] = k]
        /\ UNCHANGED <<ws, fate>>
    BY <1>5 DEF Register, Create
  <2> QED
    BY <1>0, <2>1, <2>2, <2>3
<1>6. ASSUME NEW k \in Code, PurgeCode(k), UNCHANGED <<ws, code>> PROVE StoreInv'
  BY <1>0, <1>6 DEF PurgeCode, Purge, Erase, Expired
<1>7. ASSUME NEW k \in Code, NEW how \in {"killed", "half-killed"}, TakeRecord(k, how),
             UNCHANGED <<ws, code>>
      PROVE  StoreInv'
  BY <1>0, <1>7 DEF TakeRecord, Pop, Erase
<1> QED
  BY <1>1, <1>2, <1>3, <1>4, <1>5, <1>6, <1>7 DEF StoreStep

\* In every state of the relay, the records of the store belong to live handlers
\* that hold their code, and a session is lost only by expiring or being killed.
LEMMA StoreInvariant == Spec => []StoreInv
<1>1. Init => StoreInv
  BY DEF Init, DirInit, StoreInv, NoStaleRecord, Routed, NothingToLose, Free
<1>2. TypeOK /\ StoreInv /\ [Next]_vars => StoreInv'
  BY StepsOfStore, StoreStepPreserves
<1> QED
  BY <1>1, <1>2, TypeCorrect, PTL DEF Spec

\* A dispatch never picks a connection whose handler has cleaned up after itself.
THEOREM StoreAgrees == Spec => []NoStaleRecord
<1>1. StoreInv => NoStaleRecord
  BY DEF StoreInv
<1> QED
  BY <1>1, StoreInvariant, PTL

\* Nobody else's register, heartbeat or disconnection takes a client's code away.
THEOREM CodesAreKept == Spec => []Routed
<1>1. StoreInv => Routed
  BY DEF StoreInv
<1> QED
  BY <1>1, StoreInvariant, PTL

-----------------------------------------------------------------------------
(* Wake-ups.                                                               *)

HasGone(q) == \E i \in 1..Len(q) : q[i] = GONE

\* The sentinel stays in a queue until it is taken from its head.
LEMMA QueueKeepsGone ==
  ASSUME NEW q \in Seq(Item)
  PROVE  /\ HasGone(Append(q, GONE))
         /\ \A x \in Item : HasGone(q) => HasGone(Append(q, x))
         /\ q # << >> /\ Head(q) # GONE /\ HasGone(q) => HasGone(Tail(q))
<1>0. GONE \in Item
  BY DEF Item
<1>1. HasGone(Append(q, GONE))
  <2>1. Len(q) + 1 \in 1..Len(Append(q, GONE)) /\ Append(q, GONE)[Len(q) + 1] = GONE
    BY <1>0
  <2> QED
    BY <2>1 DEF HasGone
<1>2. ASSUME NEW x \in Item, HasGone(q) PROVE HasGone(Append(q, x))
  <2>1. PICK i \in 1..Len(q) : q[i] = GONE
    BY <1>2 DEF HasGone
  <2>2. i \in 1..Len(Append(q, x)) /\ Append(q, x)[i] = q[i]
    BY <2>1
  <2> QED
    BY <2>1, <2>2 DEF HasGone
<1>3. ASSUME q # << >>, Head(q) # GONE, HasGone(q) PROVE HasGone(Tail(q))
  <2>1. PICK i \in 1..Len(q) : q[i] = GONE
    BY <1>3 DEF HasGone
  <2>2. i # 1
    BY <1>3, <2>1
  <2>3. i - 1 \in 1..Len(Tail(q)) /\ Tail(q)[i - 1] = q[i]
    BY <1>3, <2>1, <2>2
  <2> QED
    BY <2>1, <2>3 DEF HasGone
<1> QED
  BY <1>1, <1>2, <1>3

\* A connection no answer is accepted from: its handler has ended, or its session
\* was killed.
Dead(c) == ws[c] = "closed" \/ fate[c] = "killed"
WakeInv == \A r \in Req : Active(r) /\ Dead(target[r]) => HasGone(queue[r])

\* A step that leaves the queues alone and makes no connection dead, nor starts
\* a dispatch, cannot break it.
LEMMA QuietStep ==
  ASSUME TypeOK, WakeInv, UNCHANGED <<target, queue>>,
         \A c \in Conn : Dead(c)' => Dead(c),
         \A r \in Req : Active(r)' => Active(r)
  PROVE  WakeInv'
<1> SUFFICES ASSUME NEW r \in Req, Active(r)', Dead(target[r])'
             PROVE  HasGone(queue'[r])
  BY DEF WakeInv, HasGone
<1>1. Active(r) /\ target[r] \in Conn
  BY DEF TypeOK
<1>2. Dead(target[r])
  BY <1>1 DEF Dead
<1> QED
  BY <1>1, <1>2 DEF WakeInv

\* A step that wakes the requests of c may make c dead.
LEMMA WakingStep ==
  ASSUME TypeOK, WakeInv, NEW c, Wake(c), UNCHANGED <<req, target>>,
         \A d \in Conn : Dead(d)' => Dead(d) \/ d = c
  PROVE  WakeInv'
<1> SUFFICES ASSUME NEW r \in Req, Active(r)', Dead(target[r])'
             PROVE  HasGone(queue'[r])
  BY DEF WakeInv, HasGone
<1>1. queue[r] \in Seq(Item) /\ GONE \in Item
  BY DEF TypeOK, Item
<1>2. Active(r) /\ target[r] \in Conn
  BY DEF Active, TypeOK
<1>3. CASE target[r] = c
  BY <1>1, <1>2, <1>3, QueueKeepsGone DEF Wake
<1>4. CASE target[r] # c
  <2>1. Dead(target[r])
    BY <1>2, <1>4 DEF Dead
  <2> QED
    BY <1>1, <1>2, <1>4, <2>1 DEF Wake, WakeInv
<1> QED
  BY <1>3, <1>4

\* A step that only adds items to, or takes one other than the sentinel from, the
\* queues of pending requests.
LEMMA QueueStep ==
  ASSUME TypeOK, WakeInv, UNCHANGED <<ws, fate, target>>,
         \A r \in Req : Active(r)' => /\ Active(r)
                                      /\ HasGone(queue[r]) => HasGone(queue'[r])
  PROVE  WakeInv'
<1> SUFFICES ASSUME NEW r \in Req, Active(r)', Dead(target[r])'
             PROVE  HasGone(queue'[r])
  BY DEF WakeInv, HasGone
<1>1. Active(r) /\ Dead(target[r])
  BY DEF Dead
<1> QED
  BY <1>1 DEF WakeInv

\* The steps of a handler.
LEMMA HandlerWakes ==
  ASSUME TypeOK, WakeInv, NEW c \in Conn, Handler(c)
  PROVE  WakeInv'
<1>0. ws \in [Conn -> {"idle", "open", "lost", "closed"}]
      /\ fate \in [Conn -> {"none", "expired", "killed", "half-killed"}]
  BY DEF TypeOK
<1>1. CASE Accept(c)
  BY <1>0, <1>1, QuietStep DEF Accept, Dead, Active, connVars, reqVars
<1>2. CASE Heartbeat(c)
  <2>1. \A d \in Conn : fate'[d] = "killed" => fate[d] = "killed"
    BY <1>2, Zenon DEF Heartbeat, PurgeCode
  <2> QED
    BY <1>2, <2>1, QuietStep DEF Heartbeat, Dead, Active, reqVars
<1>3. CASE Disconnect(c)
  BY <1>0, <1>3, QuietStep DEF Disconnect, Dead, Active, reqVars
<1>4. CASE Unregister(c)
  BY <1>0, <1>4, WakingStep DEF Unregister, Dead
<1>5. CASE \E d \in Code \cup {NoCode}, k \in Code : Register(c, d, k)
  BY <1>5, QuietStep DEF Register, Dead, Active, reqVars
<1>6. CASE \E d \in Code \cup {NoCode} : RegisterFails(c, d)
  BY <1>0, <1>6, QuietStep DEF RegisterFails, Dead, Active, reqVars
<1>7. ASSUME NEW r \in Req, NEW kind \in Kind, ClientMessage(c, r, kind) PROVE WakeInv'
  <2>1. queue \in [Req -> Seq(Item)] /\ kind \in Item
    BY DEF TypeOK, Item
  <2>2. \/ queue' = queue
        \/ queue' = [queue EXCEPT ![r] = Append(queue[r], kind)]
    BY <1>7 DEF ClientMessage
  <2>3. ASSUME NEW s \in Req, HasGone(queue[s]) PROVE HasGone(queue'[s])
    <3>1. HasGone(Append(queue[s], kind))
      BY <2>1, <2>3, QueueKeepsGone
    <3>2. queue'[s] = queue[s] \/ queue'[s] = Append(queue[s], kind)
      BY <2>1, <2>2
    <3> QED
      BY <2>3, <3>1, <3>2
  <2> QED
    BY <1>7, <2>3, QueueStep DEF ClientMessage, connVars, Active
<1> QED
  BY <1>1, <1>2, <1>3, <1>4, <1>5, <1>6, <1>7 DEF Handler

\* The steps of a dispatch: it starts on a connection that is not dead, because
\* the record it found belongs to a handler that still runs.
LEMMA CallWakes ==
  ASSUME TypeOK, NoStaleRecord, WakeInv, NEW r \in Req, Call(r)
  PROVE  WakeInv'
<1>0. req \in [Req -> {"idle", "sending", "waiting"} \cup Outcome]
      /\ target \in [Req -> Conn \cup {NoConn}]
      /\ queue \in [Req -> Seq(Item)]
  BY DEF TypeOK, Item
<1>1. ASSUME NEW k \in Code, DispatchUnknown(r, k) PROVE WakeInv'
  <2>1. \A d \in Conn : fate'[d] = "killed" => fate[d] = "killed"
    BY <1>1, Zenon DEF DispatchUnknown, PurgeCode
  <2>2. \A s \in Req : Active(s)' => Active(s)
    BY <1>0, <1>1 DEF DispatchUnknown, End, Active
  <2> QED
    BY <1>1, <2>1, <2>2, QuietStep DEF DispatchUnknown, Dead
<1>2. ASSUME NEW k \in Code, DispatchDenied(r, k) PROVE WakeInv'
  <2>1. \A s \in Req : Active(s)' => Active(s)
    BY <1>0, <1>2 DEF DispatchDenied, End, Active
  <2> QED
    BY <1>2, <2>1, QuietStep DEF DispatchDenied, Dead, connVars
<1>3. ASSUME NEW k \in Code, Dispatch(r, k) PROVE WakeInv'
  <2>1. holder[k] \in Conn /\ ~Dead(holder[k])
    <3>1. ~Free(k) /\ holder[k] \in Conn
      BY <1>3 DEF Dispatch, Live, Free, TypeOK, DirTypeOK
    <3> QED
      BY <3>1 DEF NoStaleRecord, Dead
  <2>2. target'[r] = holder[k] /\ \A s \in Req \ {r} : target'[s] = target[s]
    BY <1>0, <1>3 DEF Dispatch
  <2>3. \A s \in Req \ {r} : Active(s)' => Active(s)
    BY <1>0, <1>3 DEF Dispatch, Active
  <2>4. UNCHANGED <<ws, fate, queue>>
    BY <1>3 DEF Dispatch, connVars
  <2> QED
    BY <2>1, <2>2, <2>3, <2>4 DEF WakeInv, Dead, HasGone
<1>4. CASE Sent(r) \/ SendFails(r) \/ Timeout(r) \/ Abandon(r)
  <2>1. \A s \in Req : Active(s)' => Active(s)
    BY <1>0, <1>4 DEF Sent, SendFails, Timeout, Abandon, End, Active
  <2> QED
    BY <1>4, <2>1, QuietStep DEF Sent, SendFails, Timeout, Abandon, Dead, connVars
<1>5. CASE Take(r)
  <2>1. /\ queue[r] # << >> /\ queue' = [queue EXCEPT ![r] = Tail(queue[r])]
        /\ UNCHANGED <<ws, fate, target>>
    BY <1>5 DEF Take, connVars
  <2>2. \A s \in Req : Active(s)' => Active(s)
    BY <1>0, <1>5 DEF Take, Active
  <2>3. Active(r)' => Head(queue[r]) # GONE
    BY <1>0, <1>5 DEF Take, Active
  <2>4. \A s \in Req : Active(s)' => (HasGone(queue[s]) => HasGone(queue'[s]))
    BY <1>0, <2>1, <2>3, QueueKeepsGone
  <2> QED
    BY <2>1, <2>2, <2>4, QueueStep
<1> QED
  BY <1>1, <1>2, <1>3, <1>4, <1>5 DEF Call

\* The steps of a kill.
LEMMA KillWakes ==
  ASSUME TypeOK, WakeInv, NEW p \in Killer, Terminator(p)
  PROVE  WakeInv'
<1>0. ws \in [Conn -> {"idle", "open", "lost", "closed"}]
      /\ fate \in [Conn -> {"none", "expired", "killed", "half-killed"}]
  BY DEF TypeOK
<1>1. CASE \E k \in Code : KillUnknown(p, k)
  BY <1>1, QuietStep DEF KillUnknown, Dead, Active, connVars, reqVars
<1>2. ASSUME NEW k \in Code, Kill(p, k) PROVE WakeInv'
  <2>1. \A d \in Conn : fate'[d] = "killed" => fate[d] = "killed" \/ d = holder[k]
    BY <1>2, Zenon DEF Kill, TakeRecord
  <2> QED
    BY <1>2, <2>1, WakingStep DEF Kill, Dead
<1>3. ASSUME NEW k \in Code, KillAuditFails(p, k) PROVE WakeInv'
  <2>1. \A d \in Conn : fate'[d] = "killed" => fate[d] = "killed"
    BY <1>3, Zenon DEF KillAuditFails, TakeRecord
  <2> QED
    BY <1>3, <2>1, QuietStep DEF KillAuditFails, Dead, Active, reqVars
<1>4. CASE KillSent(p) \/ KillCancelled(p)
  BY <1>4, QuietStep DEF KillSent, KillCancelled, Dead, Active, connVars, reqVars
<1>5. CASE KillClose(p)
  BY <1>0, <1>5, QuietStep DEF KillClose, Dead, Active, reqVars
<1> QED
  BY <1>1, <1>2, <1>3, <1>4, <1>5 DEF Terminator

\* No step loses a wake-up.
LEMMA StepKeepsWakeups ==
  ASSUME TypeOK, NoStaleRecord, WakeInv, [Next]_vars
  PROVE  WakeInv'
<1>1. ASSUME NEW k \in Code, LookUp(k) PROVE WakeInv'
  <2>1. \A d \in Conn : fate'[d] = "killed" => fate[d] = "killed"
    BY <1>1, Zenon DEF LookUp, PurgeCode
  <2> QED
    BY <1>1, <2>1, QuietStep DEF LookUp, Dead, Active, reqVars
<1>2. ASSUME NEW k \in Code, LeaseExpires(k) PROVE WakeInv'
  BY <1>2, QuietStep DEF LeaseExpires, Dead, Active, connVars, reqVars
<1>3. CASE UNCHANGED vars
  BY <1>3, QuietStep DEF vars, Dead, Active
<1> QED
  BY <1>1, <1>2, <1>3, HandlerWakes, CallWakes, KillWakes DEF Next, Quiescent

\* In every state a pending request of a dead connection holds the sentinel.
LEMMA WakeInvariant == Spec => []WakeInv
<1>1. Init => WakeInv
  BY DEF Init, WakeInv, Active
<1>2. TypeOK /\ NoStaleRecord /\ WakeInv /\ [Next]_vars => WakeInv'
  BY StepKeepsWakeups
<1> QED
  BY <1>1, <1>2, TypeCorrect, StoreAgrees, PTL DEF Spec

\* unregister_connection never runs without waking a dispatch that is pending on
\* its connection, or is about to be: wherever that dispatch was suspended.
THEOREM WakeupsKept == Spec => []NoLostWakeup
<1>1. WakeInv => NoLostWakeup
  BY DEF WakeInv, NoLostWakeup, Dead, HasGone, Woken
<1> QED
  BY <1>1, WakeInvariant, PTL

\* terminate_session, once past the audit log, has failed every running command of
\* the session it took.
THEOREM KillWakesAll == Spec => []KilledAreWoken
<1>1. WakeInv => KilledAreWoken
  BY DEF WakeInv, KilledAreWoken, Dead, HasGone, Woken
<1> QED
  BY <1>1, WakeInvariant, PTL

-----------------------------------------------------------------------------
(* Queues.                                                                 *)

\* Where an item is once another has been queued, or the first has been taken.
LEMMA Places ==
  ASSUME NEW q \in Seq(Item), NEW x \in Item
  PROVE  /\ Len(q) \in Nat /\ Append(q, x) \in Seq(Item)
         /\ Len(Append(q, x)) = Len(q) + 1 /\ Append(q, x)[Len(q) + 1] = x
         /\ \A i \in 1..Len(q) : Append(q, x)[i] = q[i] /\ q[i] \in Item
  OBVIOUS

LEMMA PlacesLeft ==
  ASSUME NEW q \in Seq(Item), q # <<>>
  PROVE  /\ Len(q) \in Nat \ {0} /\ Tail(q) \in Seq(Item) /\ Len(Tail(q)) = Len(q) - 1
         /\ Head(q) = q[1] /\ Head(q) \in Item
         /\ \A i \in 1..Len(Tail(q)) : Tail(q)[i] = q[i + 1]
  OBVIOUS

\* A verdict, once in the queue, is not changed by what comes after.
LEMMA Queueing ==
  ASSUME NEW q \in Seq(Item), NEW x \in Item
  PROVE  /\ x \in Partial => /\ Undecided(Append(q, x)) <=> Undecided(q)
                             /\ CutOff(Append(q, x)) <=> CutOff(q)
         /\ x \notin Partial =>
              /\ ~Undecided(Append(q, x))
              /\ CutOff(Append(q, x)) <=> CutOff(q) \/ (Undecided(q) /\ x = GONE)
<1> DEFINE p == Append(q, x)
<1>1. /\ Len(q) \in Nat /\ Len(p) = Len(q) + 1 /\ p[Len(q) + 1] = x
      /\ \A i \in 1..Len(q) : p[i] = q[i]
  BY Places
<1>2. GONE \notin Partial
  BY DEF GONE, Partial
<1> HIDE DEF p
<1>3. Undecided(p) <=> Undecided(q) /\ x \in Partial
  BY <1>1 DEF Undecided
<1>4. CutOff(p) <=> CutOff(q) \/ (Undecided(q) /\ x = GONE)
  <2>1. CutOff(q) => CutOff(p)
    BY <1>1 DEF CutOff
  <2>2. Undecided(q) /\ x = GONE => CutOff(p)
    BY <1>1 DEF Undecided, CutOff
  <2>3. ASSUME NEW i \in 1..Len(p), p[i] = GONE, \A j \in 1..(i - 1) : p[j] \in Partial
        PROVE  CutOff(q) \/ (Undecided(q) /\ x = GONE)
    <3>1. CASE i \in 1..Len(q)
      BY <1>1, <2>3, <3>1 DEF CutOff
    <3>2. CASE i = Len(q) + 1
      BY <1>1, <2>3, <3>2 DEF Undecided
    <3> QED
      BY <1>1, <3>1, <3>2
  <2> QED
    BY <2>1, <2>2, <2>3 DEF CutOff
<1> QED
  BY <1>2, <1>3, <1>4 DEF p

\* Nor by taking what precedes it.
LEMMA Taking ==
  ASSUME NEW q \in Seq(Item), q # <<>>
  PROVE  /\ Head(q) \in Partial => /\ Undecided(Tail(q)) <=> Undecided(q)
                                   /\ CutOff(Tail(q)) <=> CutOff(q)
         /\ Head(q) = GONE => ~Undecided(q) /\ CutOff(q)
         /\ Head(q) = "result" => ~Undecided(q) /\ ~CutOff(q)
<1> DEFINE t == Tail(q)
<1>1. /\ Len(q) \in Nat \ {0} /\ Len(t) = Len(q) - 1 /\ Head(q) = q[1]
      /\ \A i \in 1..Len(t) : t[i] = q[i + 1]
  BY PlacesLeft
<1>2. GONE \notin Partial /\ "result" \notin Partial /\ GONE # "result"
  BY DEF GONE, Partial
<1> HIDE DEF t
<1>3. Undecided(q) => q[1] \in Partial
  BY <1>1 DEF Undecided
<1>4. ASSUME q[1] \in Partial PROVE Undecided(t) <=> Undecided(q)
  <2>1. ASSUME Undecided(q), NEW i \in 1..Len(t) PROVE t[i] \in Partial
    BY <1>1, <2>1 DEF Undecided
  <2>2. ASSUME Undecided(t), NEW i \in 1..Len(q) PROVE q[i] \in Partial
    <3>1. CASE i = 1
      BY <1>4, <3>1
    <3>2. CASE i # 1
      <4>1. i - 1 \in 1..Len(t) /\ t[i - 1] = q[i]
        BY <1>1, <3>2
      <4> QED
        BY <2>2, <4>1 DEF Undecided
    <3> QED
      BY <3>1, <3>2
  <2> QED
    BY <2>1, <2>2 DEF Undecided
<1>5. ASSUME q[1] \in Partial PROVE CutOff(t) <=> CutOff(q)
  <2>1. ASSUME NEW i \in 1..Len(t), t[i] = GONE, \A j \in 1..(i - 1) : t[j] \in Partial
        PROVE  CutOff(q)
    <3>1. i + 1 \in 1..Len(q) /\ q[i + 1] = GONE
      BY <1>1, <2>1
    <3>2. ASSUME NEW j \in 1..((i + 1) - 1) PROVE q[j] \in Partial
      <4>1. CASE j = 1
        BY <1>5, <4>1
      <4>2. CASE j # 1
        <5>1. j - 1 \in 1..(i - 1) /\ j - 1 \in 1..Len(t) /\ t[j - 1] = q[j]
          BY <1>1, <4>2
        <5> QED
          BY <2>1, <5>1
      <4> QED
        BY <4>1, <4>2
    <3> QED
      BY <3>1, <3>2 DEF CutOff
  <2>2. ASSUME NEW i \in 1..Len(q), q[i] = GONE, \A j \in 1..(i - 1) : q[j] \in Partial
        PROVE  CutOff(t)
    <3>1. i # 1
      BY <1>2, <1>5, <2>2
    <3>2. i - 1 \in 1..Len(t) /\ t[i - 1] = GONE
      BY <1>1, <2>2, <3>1
    <3>3. ASSUME NEW j \in 1..((i - 1) - 1) PROVE t[j] \in Partial
      <4>1. j \in 1..Len(t) /\ t[j] = q[j + 1] /\ j + 1 \in 1..(i - 1)
        BY <1>1, <3>2
      <4> QED
        BY <2>2, <4>1
    <3> QED
      BY <3>2, <3>3 DEF CutOff
  <2> QED
    BY <2>1, <2>2 DEF CutOff
<1>6. q[1] = GONE => ~Undecided(q) /\ CutOff(q)
  BY <1>1, <1>2, <1>3 DEF CutOff
<1>7. q[1] = "result" => ~Undecided(q) /\ ~CutOff(q)
  <2>1. ASSUME q[1] = "result", NEW i \in 1..Len(q), q[i] = GONE,
               \A j \in 1..(i - 1) : q[j] \in Partial
        PROVE  FALSE
    <3>1. i # 1 /\ 1 \in 1..(i - 1)
      BY <1>1, <1>2, <2>1
    <3> QED
      BY <1>2, <2>1, <3>1
  <2> QED
    BY <1>2, <1>3, <2>1 DEF CutOff
<1> QED
  BY <1>1, <1>4, <1>5, <1>6, <1>7 DEF t

-----------------------------------------------------------------------------
(* What a step may do to one dispatch.                                     *)

Story(r) == <<target[r], queue[r], sent[r], replied[r], got[r]>>
Stays(r) == /\ UNCHANGED Story(r)
            /\ \/ req'[r] = req[r]
               \/ req[r] = "sending" /\ req'[r] = "waiting"
               \/ req'[r] \in Outcome \ {"result"}
Starts(r) == /\ req[r] = "idle" /\ Active(r)'
             /\ target'[r] \in Conn /\ ws[target'[r]] \in {"open", "lost"}
             /\ UNCHANGED <<queue[r], sent[r], replied[r], got[r]>>
IsWoken(r) == /\ Active(r) /\ ws[target[r]] # "closed"
              /\ queue'[r] = Append(queue[r], GONE)
              /\ UNCHANGED <<req[r], target[r], sent[r], replied[r], got[r]>>
Hears(r, kind) ==
  /\ Active(r) /\ ws[target[r]] = "open" /\ replied[r] = "no"
  /\ queue'[r] = Append(queue[r], kind)
  /\ sent'[r] = IF kind \in Partial THEN sent[r] + 1 ELSE sent[r]
  /\ IF kind \in Partial THEN UNCHANGED replied[r] ELSE replied'[r] # "no"
  /\ UNCHANGED <<req[r], target[r], got[r]>>
Takes(r) == /\ req[r] = "waiting" /\ queue[r] # <<>> /\ queue'[r] = Tail(queue[r])
            /\ req'[r] = IF Head(queue[r]) = GONE THEN "disconnected"
                         ELSE IF Final(Head(queue[r])) THEN "result" ELSE req[r]
            /\ got'[r] = IF Head(queue[r]) \in Partial THEN got[r] + 1 ELSE got[r]
            /\ UNCHANGED <<target[r], sent[r], replied[r]>>
RequestStep(r) == \/ Stays(r) \/ Starts(r) \/ IsWoken(r) \/ Takes(r)
                  \/ \E kind \in Kind : Hears(r, kind)

\* A step that changes nothing of the dispatches.
LEMMA RestStays == UNCHANGED reqVars => \A r \in Req : RequestStep(r)
  BY DEF reqVars, RequestStep, Stays, Story

\* A step that wakes those of a connection whose handler has not ended.
LEMMA WakingIsStep ==
  ASSUME NEW c, Wake(c), ws[c] # "closed", UNCHANGED <<req, target, sent, replied, got>>
  PROVE  \A r \in Req : RequestStep(r)
<1> SUFFICES ASSUME NEW r \in Req PROVE RequestStep(r)
  OBVIOUS
<1>1. CASE Active(r) /\ target[r] = c
  BY <1>1 DEF Wake, IsWoken, RequestStep
<1>2. CASE ~(Active(r) /\ target[r] = c)
  BY <1>2 DEF Wake, Stays, Story, RequestStep
<1> QED
  BY <1>1, <1>2

\* A message of a client.
LEMMA MessageIsStep ==
  ASSUME TypeOK, NEW c \in Conn, NEW s \in Req, NEW kind \in Kind, ClientMessage(c, s, kind)
  PROVE  \A r \in Req : RequestStep(r)
<1>0. /\ queue \in [Req -> Seq(Item)] /\ sent \in [Req -> 0..MaxChunks]
      /\ replied \in [Req -> {"no", "yes", "late"}]
  BY DEF TypeOK, Item
<1>1. UNCHANGED <<ws, req, target, got>> /\ ws[c] = "open" /\ Active(s)
  BY DEF ClientMessage, connVars
<1>2. CASE c # target[s]
  BY <1>1, <1>2 DEF ClientMessage, Routes, Emits, RequestStep, Stays, Story
<1>3. CASE c = target[s]
  <2>1. /\ queue' = [queue EXCEPT ![s] = Append(@, kind)] /\ replied[s] = "no"
        /\ sent' = [sent EXCEPT ![s] = IF kind \in Partial THEN @ + 1 ELSE @]
        /\ replied' = [replied EXCEPT ![s] = IF kind \in Partial THEN @
                                             ELSE IF fate[c] = "killed" THEN "late" ELSE "yes"]
    BY <1>1, <1>3 DEF ClientMessage, Routes, Emits
  <2>2. Hears(s, kind)
    <3>1. queue'[s] = Append(queue[s], kind)
      BY <1>0, <2>1
    <3>2. sent'[s] = IF kind \in Partial THEN sent[s] + 1 ELSE sent[s]
      BY <1>0, <2>1
    <3>3. IF kind \in Partial THEN UNCHANGED replied[s] ELSE replied'[s] # "no"
      BY <1>0, <2>1
    <3> QED
      BY <1>1, <1>3, <2>1, <3>1, <3>2, <3>3 DEF Hears
  <2>3. \A r \in Req \ {s} : Stays(r)
    BY <1>0, <1>1, <2>1 DEF Stays, Story
  <2> QED
    BY <2>2, <2>3 DEF RequestStep
<1> QED
  BY <1>2, <1>3

\* A step of a dispatch of its own.
LEMMA CallIsStep ==
  ASSUME TypeOK, NoStaleRecord, NEW s \in Req, Call(s)
  PROVE  \A r \in Req : RequestStep(r)
<1> SUFFICES ASSUME NEW r \in Req PROVE RequestStep(r)
  OBVIOUS
<1>0. /\ req \in [Req -> {"idle", "sending", "waiting"} \cup Outcome]
      /\ target \in [Req -> Conn \cup {NoConn}] /\ queue \in [Req -> Seq(Item)]
      /\ got \in [Req -> Nat]
  BY DEF TypeOK, Item
<1> USE DEF RequestStep
<1>1. CASE (\E k \in Code : DispatchUnknown(s, k) \/ DispatchDenied(s, k)) \/ Sent(s) \/ SendFails(s)
           \/ Timeout(s) \/ Abandon(s)
  BY <1>0, <1>1 DEF DispatchUnknown, DispatchDenied, Sent, SendFails, Timeout, Abandon, End,
                    Stays, Story, Outcome
<1>2. ASSUME NEW k \in Code, Dispatch(s, k) PROVE RequestStep(r)
  <2>1. holder[k] \in Conn /\ ws[holder[k]] \in {"open", "lost"}
    BY <1>2 DEF Dispatch, Live, Free, NoStaleRecord, TypeOK, DirTypeOK
  <2>2. CASE r = s
    BY <1>0, <1>2, <2>1, <2>2 DEF Dispatch, Starts, Active
  <2>3. CASE r # s
    BY <1>0, <1>2, <2>3 DEF Dispatch, Stays, Story
  <2> QED
    BY <2>2, <2>3
<1>3. CASE Take(s)
  <2>1. CASE r = s
    BY <1>0, <1>3, <2>1 DEF Take, Takes
  <2>2. CASE r # s
    BY <1>0, <1>3, <2>2 DEF Take, Stays, Story
  <2> QED
    BY <2>1, <2>2
<1> QED
  BY <1>1, <1>2, <1>3 DEF Call

\* Every step is, for every dispatch, one of these.
LEMMA StepsOfRequests ==
  ASSUME TypeOK, NoStaleRecord, [Next]_vars
  PROVE  \A r \in Req : RequestStep(r)
<1>1. ASSUME NEW c \in Conn, Handler(c) PROVE \A r \in Req : RequestStep(r)
  <2>1. CASE Unregister(c)
    BY <2>1, WakingIsStep DEF Unregister
  <2>2. CASE \E s \in Req, kind \in Kind : ClientMessage(c, s, kind)
    BY <2>2, MessageIsStep
  <2>3. CASE ~Unregister(c) /\ ~ \E s \in Req, kind \in Kind : ClientMessage(c, s, kind)
    <3>1. UNCHANGED reqVars
      BY <1>1, <2>3 DEF Handler, Accept, Heartbeat, Disconnect, Register, RegisterFails
    <3> QED
      BY <3>1, RestStays
  <2> QED
    BY <2>1, <2>2, <2>3
<1>2. ASSUME NEW p \in Killer, Terminator(p) PROVE \A r \in Req : RequestStep(r)
  <2>1. ASSUME NEW k \in Code, Kill(p, k) PROVE \A r \in Req : RequestStep(r)
    <3>1. ws[holder[k]] # "closed"
      BY <2>1 DEF Kill, NoStaleRecord
    <3> QED
      BY <2>1, <3>1, WakingIsStep DEF Kill
  <2>2. CASE ~ \E k \in Code : Kill(p, k)
    <3>1. UNCHANGED reqVars
      BY <1>2, <2>2 DEF Terminator, KillUnknown, KillAuditFails, KillSent, KillClose,
                             KillCancelled
    <3> QED
      BY <3>1, RestStays
  <2> QED
    BY <2>1, <2>2
<1>3. CASE (\E k \in Code : LookUp(k) \/ LeaseExpires(k)) \/ UNCHANGED vars
  <2>1. UNCHANGED reqVars
    BY <1>3 DEF LookUp, LeaseExpires, vars, reqVars
  <2> QED
    BY <2>1, RestStays
<1> QED
  BY <1>1, <1>2, <1>3, CallIsStep DEF Next, Quiescent

\* A dispatch hears nothing more of a connection whose handler has ended: only its
\* own client's messages and wake-ups are queued, and both need a handler that runs.
THEOREM ClosedIsSilent == Spec => ClosedSilent
<1>1. TypeOK /\ NoStaleRecord /\ [Next]_vars
        => \A r \in Req : target[r] \in Conn /\ ws[target[r]] = "closed"
                            => Len(queue'[r]) <= Len(queue[r])
  <2> SUFFICES ASSUME TypeOK, NoStaleRecord, [Next]_vars, NEW r \in Req,
                      target[r] \in Conn, ws[target[r]] = "closed"
               PROVE  Len(queue'[r]) <= Len(queue[r])
    OBVIOUS
  <2>1. queue[r] \in Seq(Item) /\ Len(queue[r]) \in Nat
    BY DEF TypeOK, Item
  <2>2. RequestStep(r)
    BY StepsOfRequests
  <2>3. queue'[r] = queue[r] \/ (queue[r] # <<>> /\ queue'[r] = Tail(queue[r]))
    BY <2>2 DEF RequestStep, Stays, Story, Starts, IsWoken, Hears, Takes
  <2>4. CASE queue'[r] = queue[r]
    BY <2>1, <2>4
  <2>5. CASE queue[r] # <<>> /\ queue'[r] = Tail(queue[r])
    <3>1. Len(Tail(queue[r])) = Len(queue[r]) - 1
      BY <2>1, <2>5, PlacesLeft
    <3>2. Len(Tail(queue[r])) <= Len(queue[r])
      BY <2>1, <3>1
    <3> QED
      BY <2>5, <3>2
  <2> QED
    BY <2>3, <2>4, <2>5
<1> QED
  BY <1>1, TypeCorrect, StoreAgrees, PTL DEF Spec, ClosedSilent

-----------------------------------------------------------------------------
(* Results.                                                                *)

\* The first verdict in the queue is a result, at place i.
ResultAt(q, i) == q[i] = "result" /\ \A j \in 1..(i - 1) : q[j] \in Partial

\* What was sent is what was taken and what lies in the queue before the verdict.
OutputOf(r) ==
  /\ req[r] = "idle" => queue[r] = <<>> /\ sent[r] = 0 /\ got[r] = 0 /\ replied[r] = "no"
  /\ Active(r) /\ replied[r] = "no" =>
       /\ \A i \in 1..Len(queue[r]) : queue[r][i] # "result"
       /\ Undecided(queue[r]) => got[r] + Len(queue[r]) = sent[r]
  /\ Active(r) => \A i \in 1..Len(queue[r]) : ResultAt(queue[r], i) => got[r] + (i - 1) = sent[r]
  /\ req[r] = "result" => replied[r] # "no" /\ got[r] = sent[r]
OutputInv == \A r \in Req : OutputOf(r)

\* A dispatch that starts has heard nothing.
LEMMA StartsEmpty ==
  ASSUME NEW r \in Req, OutputOf(r), Starts(r)
  PROVE  OutputOf(r)'
<1>1. queue'[r] = <<>> /\ sent'[r] = 0 /\ got'[r] = 0 /\ replied'[r] = "no"
      /\ req'[r] \in {"sending", "waiting"}
  BY DEF OutputOf, Starts, Active
<1>2. Len(queue'[r]) = 0
  BY <1>1
<1> QED
  BY <1>1, <1>2 DEF OutputOf

\* A message, or the sentinel, after the others.
LEMMA QueuedInOrder ==
  ASSUME NEW r \in Req, queue[r] \in Seq(Item), sent[r] \in Nat, got[r] \in Nat, OutputOf(r),
         IsWoken(r) \/ \E kind \in Kind : Hears(r, kind)
  PROVE  OutputOf(r)'
<1> DEFINE q == queue[r]
           p == queue'[r]
<1>1. PICK x \in Item : /\ p = Append(q, x)
                        /\ (IsWoken(r) /\ x = GONE) \/ (x \in Kind /\ Hears(r, x))
  BY DEF Item, IsWoken, Hears
<1>0. q \in Seq(Item)
  OBVIOUS
<1>2. /\ Len(q) \in Nat /\ Len(p) = Len(q) + 1 /\ p[Len(q) + 1] = x
      /\ \A i \in 1..Len(q) : p[i] = q[i]
  <2> HIDE DEF q, p
  <2> QED
    BY <1>0, <1>1, Places
<1>3. Undecided(p) <=> Undecided(q) /\ x \in Partial
  <2> HIDE DEF q, p
  <2> QED
    BY <1>0, <1>1, Queueing
<1>4. Active(r) /\ req'[r] = req[r] /\ got'[r] = got[r]
  BY <1>1 DEF IsWoken, Hears
<1>5. Active(r)' /\ req'[r] \in {"sending", "waiting"}
  BY <1>4 DEF Active
<1> HIDE DEF q, p
<1>6. \A i \in 1..Len(q) : ResultAt(p, i) => ResultAt(q, i)
  BY <1>2 DEF ResultAt
<1>7. ResultAt(p, Len(q) + 1) => x = "result" /\ Undecided(q)
  BY <1>2 DEF ResultAt, Undecided
<1>8. GONE \notin Partial /\ "result" \notin Partial /\ GONE # "result"
  BY DEF GONE, Partial
<1>9. CASE IsWoken(r)
  <2>1. x = GONE /\ sent'[r] = sent[r] /\ replied'[r] = replied[r]
    BY <1>1, <1>9, <1>2 DEF IsWoken, p, q
  <2>2. replied'[r] = "no" => \A i \in 1..Len(p) : p[i] # "result"
    BY <1>2, <1>4, <1>8, <2>1 DEF OutputOf, q
  <2>3. ~Undecided(p)
    BY <1>3, <1>8, <2>1
  <2>4. \A i \in 1..Len(p) : ResultAt(p, i) => got'[r] + (i - 1) = sent'[r]
    BY <1>2, <1>4, <1>6, <1>7, <1>8, <2>1 DEF OutputOf, q
  <2> QED
    BY <1>5, <2>2, <2>3, <2>4 DEF OutputOf, p
<1>10. CASE x \in Kind /\ Hears(r, x)
  <2>1. replied[r] = "no" /\ \A i \in 1..Len(q) : q[i] # "result"
    BY <1>4, <1>10 DEF Hears, OutputOf, q
  <2>2. \A i \in 1..Len(q) : ~ResultAt(p, i)
    BY <1>6, <2>1 DEF ResultAt
  <2>3. CASE x \in Partial
    <3>1. sent'[r] = sent[r] + 1 /\ x # "result"
      BY <1>8, <1>10, <2>3 DEF Hears
    <3>2. \A i \in 1..Len(p) : p[i] # "result"
      BY <1>2, <2>1, <3>1
    <3>3. Undecided(p) => got'[r] + Len(p) = sent'[r]
      BY <1>2, <1>3, <1>4, <2>1, <3>1 DEF OutputOf, q
    <3>4. \A i \in 1..Len(p) : ~ResultAt(p, i)
      BY <3>2 DEF ResultAt
    <3> QED
      BY <1>5, <3>2, <3>3, <3>4 DEF OutputOf, p
  <2>4. CASE x \notin Partial
    <3>1. sent'[r] = sent[r] /\ replied'[r] # "no"
      BY <1>10, <2>4 DEF Hears
    <3>2. \A i \in 1..Len(p) : ResultAt(p, i) => got'[r] + (i - 1) = sent'[r]
      <4>1. ResultAt(p, Len(q) + 1) => got[r] + Len(q) = sent[r]
        BY <1>4, <1>7, <2>1 DEF OutputOf, q
      <4> QED
        BY <1>2, <1>4, <2>2, <3>1, <4>1
    <3> QED
      BY <1>5, <3>1, <3>2 DEF OutputOf, p
  <2> QED
    BY <2>3, <2>4
<1> QED
  BY <1>1, <1>9, <1>10

\* An item taken from the head.
LEMMA TakenInOrder ==
  ASSUME NEW r \in Req, queue[r] \in Seq(Item), sent[r] \in Nat, got[r] \in Nat, OutputOf(r),
         Takes(r)
  PROVE  OutputOf(r)'
<1> DEFINE q == queue[r]
           t == queue'[r]
<1>1. /\ Len(q) \in Nat \ {0} /\ Len(t) = Len(q) - 1 /\ Head(q) = q[1] /\ q[1] \in Item
      /\ \A i \in 1..Len(t) : t[i] = q[i + 1]
  BY PlacesLeft DEF Takes
<1>2. Active(r) /\ sent'[r] = sent[r] /\ replied'[r] = replied[r]
  BY DEF Takes, Active
<1>3. q[1] \in Partial => (Undecided(t) <=> Undecided(q))
  BY <1>1, Taking DEF Takes
<1>4. q[1] = "result" \/ q[1] = GONE \/ q[1] \in Partial
  BY <1>1 DEF Item, Kind
<1>5. GONE \notin Partial /\ "result" \notin Partial /\ GONE # "result"
  BY DEF GONE, Partial
<1>6. /\ req'[r] = IF q[1] = GONE THEN "disconnected"
                   ELSE IF q[1] = "result" THEN "result" ELSE "waiting"
      /\ got'[r] = IF q[1] \in Partial THEN got[r] + 1 ELSE got[r]
  BY <1>1 DEF Takes, Final
<1> HIDE DEF q, t
<1>7. CASE q[1] = "result"
  <2>1. ResultAt(q, 1) /\ 1 \in 1..Len(q)
    BY <1>1, <1>7 DEF ResultAt
  <2>2. got[r] + (1 - 1) = sent[r] /\ replied[r] # "no"
    BY <1>2, <1>7, <2>1 DEF OutputOf, q
  <2>3. got'[r] = sent'[r] /\ replied'[r] # "no" /\ req'[r] = "result"
    BY <1>2, <1>5, <1>6, <1>7, <2>2
  <2> QED
    BY <2>3 DEF OutputOf, Active
<1>8. CASE q[1] = GONE
  BY <1>6, <1>8 DEF OutputOf, Active
<1>9. CASE q[1] \in Partial
  <2>1. req'[r] = "waiting" /\ got'[r] = got[r] + 1
    BY <1>5, <1>6, <1>9
  <2>2. replied'[r] = "no" => \A i \in 1..Len(t) : t[i] # "result"
    <3>1. replied[r] = "no" => \A i \in 1..Len(q) : q[i] # "result"
      BY <1>2 DEF OutputOf, q
    <3> QED
      BY <1>1, <1>2, <3>1
  <2>3. replied'[r] = "no" /\ Undecided(t) => got'[r] + Len(t) = sent'[r]
    <3>1. replied[r] = "no" /\ Undecided(q) => got[r] + Len(q) = sent[r]
      BY <1>2 DEF OutputOf, q
    <3> QED
      BY <1>1, <1>2, <1>3, <1>9, <2>1, <3>1
  <2>4. ASSUME NEW i \in 1..Len(t), ResultAt(t, i) PROVE got'[r] + (i - 1) = sent'[r]
    <3>1. i + 1 \in 1..Len(q) /\ q[i + 1] = "result"
      BY <1>1, <2>4 DEF ResultAt
    <3>2. ASSUME NEW j \in 1..((i + 1) - 1) PROVE q[j] \in Partial
      <4>1. CASE j = 1
        BY <1>9, <4>1
      <4>2. CASE j # 1
        <5>1. j - 1 \in 1..(i - 1) /\ j - 1 \in 1..Len(t) /\ t[j - 1] = q[j]
          BY <1>1, <4>2
        <5> QED
          BY <2>4, <5>1 DEF ResultAt
      <4> QED
        BY <4>1, <4>2
    <3>3. got[r] + ((i + 1) - 1) = sent[r]
      BY <1>2, <3>1, <3>2 DEF OutputOf, ResultAt, q
    <3> QED
      BY <1>2, <2>1, <3>3
  <2> QED
    BY <2>1, <2>2, <2>3, <2>4 DEF OutputOf, Active, t
<1> QED
  BY <1>4, <1>7, <1>8, <1>9

\* No step breaks it.
LEMMA StepKeepsOutput ==
  ASSUME TypeOK, NoStaleRecord, OutputInv, [Next]_vars
  PROVE  OutputInv'
<1> SUFFICES ASSUME NEW r \in Req PROVE OutputOf(r)'
  BY DEF OutputInv
<1>1. queue[r] \in Seq(Item) /\ sent[r] \in Nat /\ got[r] \in Nat /\ OutputOf(r)
  BY DEF TypeOK, Item, OutputInv
<1>2. RequestStep(r)
  BY StepsOfRequests
<1>3. CASE Stays(r)
  <2>1. \/ req'[r] = req[r] \/ (req[r] = "sending" /\ req'[r] = "waiting")
        \/ req'[r] \notin {"idle", "sending", "waiting", "result"}
    BY <1>3 DEF Stays, Outcome
  <2>2. UNCHANGED <<queue[r], sent[r], got[r], replied[r]>>
    BY <1>3 DEF Stays, Story
  <2> QED
    BY <1>1, <2>1, <2>2 DEF OutputOf, Active
<1> QED
  BY <1>1, <1>2, <1>3, StartsEmpty, QueuedInOrder, TakenInOrder DEF RequestStep

\* In every state, output taken and output queued make up what was sent.
LEMMA OutputInvariant == Spec => []OutputInv
<1>1. Init => OutputInv
  BY DEF Init, OutputInv, OutputOf, Active
<1>2. TypeOK /\ NoStaleRecord /\ OutputInv /\ [Next]_vars => OutputInv'
  BY StepKeepsOutput
<1> QED
  BY <1>1, <1>2, TypeCorrect, StoreAgrees, PTL DEF Spec

\* A dispatch ends with a result only after its client's own final message, and all
\* the output sent before it was yielded first, whatever wakes it meanwhile.
THEOREM OutputIsComplete == Spec => []CompleteOutput
<1>1. OutputInv => CompleteOutput
  BY DEF OutputInv, OutputOf, CompleteOutput
<1> QED
  BY <1>1, OutputInvariant, PTL

-----------------------------------------------------------------------------
(* The refinement of CommandService.                                       *)

\* A dispatch is bound to a connection that has opened.
Reached == \A r \in Req : Active(r) => ws[target[r]] # "idle"

\* No handler goes back to where it has not started.
LEMMA NeverIdleAgain ==
  ASSUME TypeOK, [Next]_vars, NEW c \in Conn, ws[c] # "idle"
  PROVE  ws'[c] # "idle"
  BY StepsOfStore DEF StoreStep, Opens, Loses, Unregister, Register, TypeOK

LEMMA ReachedInvariant == Spec => []Reached
<1>1. Init => Reached
  BY DEF Init, Reached, Active
<1>2. TypeOK /\ NoStaleRecord /\ Reached /\ [Next]_vars => Reached'
  <2> SUFFICES ASSUME TypeOK, NoStaleRecord, Reached, [Next]_vars, NEW r \in Req, Active(r)'
               PROVE  ws'[target'[r]] # "idle"
    BY DEF Reached
  <2>1. RequestStep(r)
    BY StepsOfRequests
  <2>2. CASE Starts(r)
    <3>1. target'[r] \in Conn /\ ws[target'[r]] # "idle"
      BY <2>2 DEF Starts
    <3> QED
      BY <3>1, NeverIdleAgain
  <2>3. CASE ~Starts(r)
    <3>1. Active(r) /\ target'[r] = target[r]
      BY <2>1, <2>3 DEF RequestStep, Stays, Story, IsWoken, Hears, Takes, Active, Outcome
    <3>2. target[r] \in Conn /\ ws[target[r]] # "idle"
      BY <3>1 DEF Reached, TypeOK
    <3> QED
      BY <3>1, <3>2, NeverIdleAgain
  <2> QED
    BY <2>2, <2>3
<1> QED
  BY <1>1, <1>2, TypeCorrect, StoreAgrees, PTL DEF Spec

\* What is known of every state.
Facts == TypeOK /\ NoStaleRecord /\ KilledAreWoken /\ OutputInv /\ Reached

LEMMA FactsTyped ==
  ASSUME Facts
  PROVE  /\ ws \in [Conn -> {"idle", "open", "lost", "closed"}]
         /\ fate \in [Conn -> {"none", "expired", "killed", "half-killed"}]
         /\ req \in [Req -> {"idle", "sending", "waiting"} \cup Outcome]
         /\ target \in [Req -> Conn \cup {NoConn}] /\ queue \in [Req -> Seq(Item)]
         /\ \A r \in Req : Active(r) => target[r] \in Conn /\ ws[target[r]] # "idle"
         /\ \A k \in Code : holder[k] \in Conn \cup {NoConn}
         /\ \A k \in Code : ~Free(k) => /\ holder[k] \in Conn /\ fate[holder[k]] = "none"
                                        /\ ws[holder[k]] \in {"open", "lost"}
  BY DEF Facts, TypeOK, DirTypeOK, Item, Reached, NoStaleRecord, Free

\* A command of a killed connection has its verdict.
LEMMA KilledDecided ==
  ASSUME Facts, NEW r \in Req, Active(r), fate[target[r]] = "killed"
  PROVE  ~Undecided(queue[r])
<1>1. PICK i \in 1..Len(queue[r]) : queue[r][i] = GONE
  BY DEF Facts, KilledAreWoken, Woken
<1> QED
  BY <1>1 DEF Undecided, GONE, Partial

LEMMA LinkKept == UNCHANGED <<ws, fate>> => Link' = Link
  BY DEF Link

LEMMA StatusKept == UNCHANGED <<req, queue>> => Status' = Status
  BY DEF Status, Active, Undecided, CutOff

\* Records lost by expiring, or in a kill that raised, leave the connection up.
LEMMA LossKeepsLink ==
  ASSUME Facts, NEW k \in Code, ws' = ws,
         PurgeCode(k) \/ TakeRecord(k, "half-killed")
  PROVE  Link' = Link
<1>1. ASSUME NEW c \in Conn, holder[k] = c PROVE fate[c] = "none"
  <2>1. ~Free(k)
    BY <1>1, DirectoryAssumption DEF Free
  <2>2. fate[holder[k]] = "none"
    BY <2>1, FactsTyped
  <2> QED
    BY <1>1, <2>2
<1>2. ASSUME NEW c \in Conn PROVE fate'[c] = "killed" <=> fate[c] = "killed"
  <2>1. CASE PurgeCode(k)
    BY <1>1, <2>1 DEF PurgeCode
  <2>2. CASE TakeRecord(k, "half-killed")
    BY <1>1, <2>2 DEF TakeRecord
  <2> QED
    BY <2>1, <2>2
<1> QED
  BY <1>2 DEF Link

\* A connection opens, or its socket goes.
LEMMA OpensUp ==
  ASSUME Facts, NEW c \in Conn, Opens(c), UNCHANGED reqVars
  PROVE  [Service!Next]_(Service!cvars)
<1>1. Status' = Status /\ target' = target
  BY StatusKept DEF reqVars
<1>2. CASE fate[c] = "killed"
  <2>1. Link' = Link
    BY <1>2, FactsTyped DEF Opens, Link
  <2> QED
    BY <1>1, <2>1 DEF Service!cvars
<1>3. CASE fate[c] # "killed"
  <2>1. Link[c] = "idle" /\ Link' = [Link EXCEPT ![c] = "up"]
    BY <1>3, FactsTyped DEF Opens, Link
  <2> QED
    BY <1>1, <2>1 DEF Service!Next, Service!Connect
<1> QED
  BY <1>2, <1>3

LEMMA LosesLost ==
  ASSUME Facts, NEW c \in Conn, Loses(c), UNCHANGED reqVars
  PROVE  [Service!Next]_(Service!cvars)
<1>1. Status' = Status /\ target' = target
  BY StatusKept DEF reqVars
<1>2. CASE fate[c] = "killed"
  <2>1. Link' = Link
    BY <1>2, FactsTyped DEF Loses, Link
  <2> QED
    BY <1>1, <2>1 DEF Service!cvars
<1>3. CASE fate[c] # "killed"
  <2>1. Link[c] = "up" /\ Link' = [Link EXCEPT ![c] = "lost"]
    BY <1>3, FactsTyped DEF Loses, Link
  <2> QED
    BY <1>1, <2>1 DEF Service!Next, Service!Lose
<1> QED
  BY <1>2, <1>3

\* The wake-up aborts what runs on the connection, and nothing else.
LEMMA WakeAborts ==
  ASSUME Facts, NEW c, Wake(c), UNCHANGED req
  PROVE  Status' = [r \in Req |-> IF Status[r] = "running" /\ target[r] = c
                                  THEN "aborted" ELSE Status[r]]
<1> SUFFICES ASSUME NEW r \in Req
             PROVE  Status'[r] = IF Status[r] = "running" /\ target[r] = c
                                 THEN "aborted" ELSE Status[r]
  BY DEF Status
<1>1. queue[r] \in Seq(Item) /\ GONE \in Item /\ GONE \notin Partial
  BY FactsTyped DEF Item, GONE, Partial
<1>2. CASE ~Active(r)
  BY <1>2, FactsTyped DEF Status, Active, Outcome
<1>3. CASE Active(r) /\ target[r] # c
  <2>1. queue'[r] = queue[r]
    BY <1>3 DEF Wake
  <2> QED
    BY <1>3, <2>1 DEF Status, Active, Undecided, CutOff
<1>4. CASE Active(r) /\ target[r] = c
  <2>1. queue'[r] = Append(queue[r], GONE) /\ Active(r)'
    BY <1>4 DEF Wake, Active
  <2>2. ~Undecided(queue'[r]) /\ (CutOff(queue'[r]) <=> CutOff(queue[r]) \/ Undecided(queue[r]))
    BY <1>1, <2>1, Queueing
  <2> QED
    BY <1>4, <2>1, <2>2 DEF Status
<1> QED
  BY <1>2, <1>3, <1>4

\* The end of a handler, and the kill, bring the connection down.
LEMMA UnregisterDrops ==
  ASSUME Facts, NEW c \in Conn, Unregister(c)
  PROVE  [Service!Next]_(Service!cvars)
<1>1. target' = target /\ Status' = [r \in Req |-> IF Status[r] = "running" /\ target[r] = c
                                                   THEN "aborted" ELSE Status[r]]
  BY WakeAborts DEF Unregister
<1>2. ws[c] = "lost" /\ ws' = [ws EXCEPT ![c] = "closed"] /\ fate' = fate
  BY DEF Unregister
<1>3. CASE fate[c] = "killed"
  <2>1. Link' = Link
    BY <1>2, <1>3, FactsTyped DEF Link
  <2>2. ASSUME NEW r \in Req, Status[r] = "running" PROVE target[r] # c
    BY <1>3, <2>2, FactsTyped, KilledDecided DEF Status, Active, Outcome
  <2>3. Status' = Status
    BY <1>1, <2>2 DEF Status
  <2> QED
    BY <1>1, <2>1, <2>3 DEF Service!cvars
<1>4. CASE fate[c] # "killed"
  <2>1. Link[c] = "lost" /\ Link' = [Link EXCEPT ![c] = "down"]
    BY <1>2, <1>4, FactsTyped DEF Link
  <2> QED
    BY <1>1, <2>1 DEF Service!Next, Service!Drop
<1> QED
  BY <1>3, <1>4

LEMMA KillDrops ==
  ASSUME Facts, NEW p \in Killer, NEW k \in Code, Kill(p, k)
  PROVE  [Service!Next]_(Service!cvars)
<1> DEFINE c == holder[k]
<1>1. c \in Conn /\ fate[c] = "none" /\ ws[c] \in {"open", "lost"}
  BY FactsTyped DEF Kill
<1>2. target' = target /\ Status' = [r \in Req |-> IF Status[r] = "running" /\ target[r] = c
                                                   THEN "aborted" ELSE Status[r]]
  BY WakeAborts DEF Kill
<1>3. ws' = ws /\ fate' = [d \in Conn |-> IF c = d THEN "killed" ELSE fate[d]]
  BY DEF Kill, TakeRecord
<1> HIDE DEF c
<1>4. Link[c] \in {"up", "lost"} /\ Link' = [Link EXCEPT ![c] = "down"]
  BY <1>1, <1>3, FactsTyped DEF Link
<1> QED
  BY <1>1, <1>2, <1>4 DEF Service!Next, Service!Drop

\* A message of a client: the first result answers the command.
LEMMA MessageAnswers ==
  ASSUME Facts, NEW c \in Conn, NEW s \in Req, NEW kind \in Kind, ClientMessage(c, s, kind)
  PROVE  [Service!Next]_(Service!cvars)
<1>1. Link' = Link /\ target' = target /\ req' = req /\ Active(s) /\ ws[c] = "open"
  BY LinkKept DEF ClientMessage, connVars
<1>2. CASE c # target[s]
  <2>1. Status' = Status
    BY <1>1, <1>2, StatusKept DEF ClientMessage, Routes
  <2> QED
    BY <1>1, <2>1 DEF Service!cvars
<1>3. CASE c = target[s]
  <2>1. queue' = [queue EXCEPT ![s] = Append(@, kind)]
    BY <1>1, <1>3 DEF ClientMessage, Routes
  <2>2. queue'[s] = Append(queue[s], kind) /\ queue[s] \in Seq(Item) /\ kind \in Item
    BY <2>1, FactsTyped DEF Item
  <2>3. ASSUME NEW r \in Req \ {s} PROVE Status'[r] = Status[r]
    <3>1. queue'[r] = queue[r]
      BY <2>1, FactsTyped
    <3> QED
      BY <1>1, <3>1 DEF Status, Active, Undecided, CutOff
  <2>4. Active(s)'
    BY <1>1 DEF Active
  <2>5. CASE kind \in Partial \/ ~Undecided(queue[s])
    <3>1. /\ Undecided(queue'[s]) <=> Undecided(queue[s])
          /\ CutOff(queue'[s]) <=> CutOff(queue[s])
      BY <2>2, <2>5, Queueing
    <3>2. Status'[s] = Status[s]
      BY <1>1, <2>4, <3>1 DEF Status
    <3>3. Status' = Status
      BY <2>3, <3>2 DEF Status
    <3> QED
      BY <1>1, <3>3 DEF Service!cvars
  <2>6. CASE kind \notin Partial /\ Undecided(queue[s])
    <3>1. kind # GONE
      BY DEF Kind, Partial, GONE
    <3>2. ~CutOff(queue[s])
      BY <2>6 DEF CutOff, Undecided, GONE, Partial
    <3>3. ~Undecided(queue'[s]) /\ ~CutOff(queue'[s])
      BY <2>2, <2>6, <3>1, <3>2, Queueing
    <3>4. Status[s] = "running" /\ Status'[s] = "answered"
      BY <1>1, <2>4, <2>6, <3>3 DEF Status
    <3>5. Status' = [Status EXCEPT ![s] = "answered"]
      BY <2>3, <3>4 DEF Status
    <3>6. fate[c] # "killed"
      BY <1>1, <1>3, <2>6, KilledDecided
    <3>7. Link[target[s]] = "up"
      BY <1>1, <1>3, <3>6 DEF Link
    <3> QED
      BY <1>1, <3>4, <3>5, <3>7 DEF Service!Next, Service!Answer
  <2> QED
    BY <2>5, <2>6
<1> QED
  BY <1>2, <1>3

\* A dispatch that ends otherwise than by its queue.
LEMMA EndsBy ==
  ASSUME Facts, NEW s \in Req, NEW v \in Outcome, End(s, v), queue' = queue
  PROVE  Status' = [Status EXCEPT ![s] = v]
<1>1. req' = [req EXCEPT ![s] = v] /\ v \notin {"sending", "waiting"}
  BY DEF End, Outcome
<1>2. Status'[s] = v
  BY <1>1, FactsTyped DEF Status, Active
<1>3. ASSUME NEW r \in Req \ {s} PROVE Status'[r] = Status[r]
  <2>1. req'[r] = req[r] /\ queue'[r] = queue[r]
    BY <1>1, FactsTyped
  <2> QED
    BY <2>1 DEF Status, Active, Undecided, CutOff
<1> QED
  BY <1>2, <1>3 DEF Status

\* The status of a command that runs.
LEMMA ActiveIsOpen ==
  ASSUME NEW r \in Req, Active(r)
  PROVE  Service!Open(r)
  BY DEF Service!Open, Status

\* The steps of a dispatch, from its start to its end.
LEMMA StartRuns ==
  ASSUME Facts, NEW s \in Req, NEW k \in Code, Dispatch(s, k)
  PROVE  [Service!Next]_(Service!cvars)
<1>1. /\ req[s] = "idle" /\ req' = [req EXCEPT ![s] = "sending"]
      /\ target' = [target EXCEPT ![s] = holder[k]]
      /\ UNCHANGED <<ws, fate, queue>>
  BY DEF Dispatch, connVars
<1>2. Link' = Link
  BY <1>1, LinkKept
<1>3. holder[k] \in Conn /\ Link[holder[k]] \in {"up", "lost"}
  BY FactsTyped DEF Dispatch, Live, Link
<1>4. Undecided(queue'[s])
  <2>1. queue[s] = <<>>
    BY <1>1 DEF Facts, OutputInv, OutputOf
  <2> QED
    BY <1>1, <2>1 DEF Undecided
<1>5. Status[s] = "idle" /\ Status'[s] = "running"
  BY <1>1, <1>4, FactsTyped DEF Status, Active
<1>6. ASSUME NEW r \in Req \ {s} PROVE Status'[r] = Status[r]
  BY <1>1, FactsTyped DEF Status, Active, Undecided, CutOff
<1>7. Status' = [Status EXCEPT ![s] = "running"]
  BY <1>5, <1>6 DEF Status
<1> QED
  BY <1>1, <1>2, <1>3, <1>5, <1>7 DEF Service!Next, Service!Start

LEMMA TakeFinishes ==
  ASSUME Facts, NEW s \in Req, Take(s)
  PROVE  [Service!Next]_(Service!cvars)
<1> DEFINE item == Head(queue[s])
<1>1. /\ req[s] = "waiting" /\ queue[s] # <<>> /\ queue' = [queue EXCEPT ![s] = Tail(@)]
      /\ req' = [req EXCEPT ![s] = IF item = GONE THEN "disconnected"
                                   ELSE IF Final(item) THEN "result" ELSE @]
      /\ UNCHANGED <<ws, fate, target>>
  BY DEF Take, connVars
<1>2. Link' = Link /\ Active(s)
  BY <1>1, LinkKept DEF Active
<1>3. ASSUME NEW r \in Req \ {s} PROVE Status'[r] = Status[r]
  BY <1>1, FactsTyped DEF Status, Active, Undecided, CutOff
<1>4. queue[s] \in Seq(Item) /\ item \in Item /\ queue'[s] = Tail(queue[s])
  BY <1>1, FactsTyped, PlacesLeft
<1>5. req'[s] = IF item = GONE THEN "disconnected"
                ELSE IF item = "result" THEN "result" ELSE "waiting"
  BY <1>1, FactsTyped DEF Final
<1>6. GONE \notin Partial /\ "result" \notin Partial /\ GONE # "result"
  BY DEF GONE, Partial
<1>7. CASE item \in Partial
  <2>1. /\ Undecided(queue'[s]) <=> Undecided(queue[s])
        /\ CutOff(queue'[s]) <=> CutOff(queue[s])
    BY <1>1, <1>4, <1>7, Taking
  <2>2. Active(s)'
    BY <1>5, <1>6, <1>7 DEF Active
  <2>3. Status'[s] = Status[s]
    BY <1>2, <2>1, <2>2 DEF Status
  <2>4. Status' = Status
    BY <1>3, <2>3 DEF Status
  <2> QED
    BY <1>1, <1>2, <2>4 DEF Service!cvars
<1>8. CASE item = GONE
  <2>1. Status[s] = "aborted"
    BY <1>1, <1>2, <1>4, <1>8, Taking DEF Status
  <2>2. Status'[s] = "disconnected"
    BY <1>5, <1>8 DEF Status, Active
  <2>3. Status' = [Status EXCEPT ![s] = "disconnected"]
    BY <1>3, <2>2 DEF Status
  <2> QED
    BY <1>1, <1>2, <2>1, <2>3 DEF Service!Next, Service!Finish
<1>9. CASE item = "result"
  <2>1. Status[s] = "answered"
    BY <1>1, <1>2, <1>4, <1>9, Taking DEF Status
  <2>2. Status'[s] = "result"
    BY <1>5, <1>6, <1>9 DEF Status, Active
  <2>3. Status' = [Status EXCEPT ![s] = "result"]
    BY <1>3, <2>2 DEF Status
  <2> QED
    BY <1>1, <1>2, <2>1, <2>3 DEF Service!Next, Service!Finish
<1> QED
  BY <1>4, <1>7, <1>8, <1>9 DEF Item, Kind

LEMMA CallServes ==
  ASSUME Facts, NEW s \in Req, Call(s)
  PROVE  [Service!Next]_(Service!cvars)
<1>1. ASSUME NEW k \in Code, DispatchUnknown(s, k) \/ DispatchDenied(s, k)
      PROVE  [Service!Next]_(Service!cvars)
  <2>1. PICK v \in {"not_found", "denied"} : End(s, v)
    BY <1>1 DEF DispatchUnknown, DispatchDenied
  <2>2. req[s] = "idle" /\ UNCHANGED <<ws, target, queue>>
    BY <1>1 DEF DispatchUnknown, DispatchDenied, connVars
  <2>3. Status' = [Status EXCEPT ![s] = v]
    BY <2>1, <2>2, EndsBy DEF Outcome
  <2>4. Status[s] = "idle"
    BY <2>2 DEF Status, Active
  <2>5. Link' = Link
    BY <1>1, LinkKept, LossKeepsLink DEF DispatchUnknown, DispatchDenied, connVars
  <2> QED
    BY <2>2, <2>3, <2>4, <2>5 DEF Service!Next, Service!Refuse
<1>2. ASSUME NEW k \in Code, Dispatch(s, k) PROVE [Service!Next]_(Service!cvars)
  BY <1>2, StartRuns
<1>3. CASE Sent(s)
  <2>1. /\ req[s] = "sending" /\ req' = [req EXCEPT ![s] = "waiting"]
        /\ UNCHANGED <<ws, fate, target, queue>>
    BY <1>3 DEF Sent, connVars
  <2>2. \A r \in Req : (Active(r)' <=> Active(r)) /\ (~Active(r) => req'[r] = req[r])
    BY <2>1, FactsTyped DEF Active
  <2>3. Status' = Status
    BY <2>1, <2>2 DEF Status, Undecided, CutOff
  <2> QED
    BY <2>1, <2>3, LinkKept DEF Service!cvars
<1>4. CASE SendFails(s)
  <2>1. Active(s) /\ ws[target[s]] # "open" /\ End(s, "disconnected")
        /\ UNCHANGED <<ws, fate, target, queue>>
    BY <1>4 DEF SendFails, connVars, Active
  <2>2. Link[target[s]] \in {"lost", "down"}
    BY <2>1, FactsTyped DEF Link
  <2>3. Status' = [Status EXCEPT ![s] = "disconnected"]
    BY <2>1, EndsBy DEF Outcome
  <2> QED
    BY <2>1, <2>2, <2>3, LinkKept, ActiveIsOpen DEF Service!Next, Service!Unsent
<1>5. CASE Timeout(s) \/ Abandon(s)
  <2>1. Active(s) /\ (\E v \in {"timeout", "abandoned"} : End(s, v))
        /\ UNCHANGED <<ws, fate, target, queue>>
    BY <1>5 DEF Timeout, Abandon, connVars, Active
  <2>2. \E v \in {"timeout", "abandoned"} : Status' = [Status EXCEPT ![s] = v]
    BY <2>1, EndsBy DEF Outcome
  <2> QED
    BY <2>1, <2>2, LinkKept, ActiveIsOpen DEF Service!Next, Service!GiveUp
<1>6. CASE Take(s)
  BY <1>6, TakeFinishes
<1> QED
  BY <1>1, <1>2, <1>3, <1>4, <1>5, <1>6 DEF Call

LEMMA HandlerServes ==
  ASSUME Facts, NEW c \in Conn, Handler(c)
  PROVE  [Service!Next]_(Service!cvars)
<1>1. CASE Accept(c)
  BY <1>1, OpensUp DEF Accept, Opens, dirVars
<1>2. CASE Heartbeat(c)
  <2>1. code[c] \in Code /\ PurgeCode(code[c]) /\ ws' = ws /\ UNCHANGED <<req, queue, target>>
    BY <1>2 DEF Heartbeat, reqVars, Facts, TypeOK
  <2> QED
    BY <2>1, LossKeepsLink, StatusKept DEF Service!cvars
<1>3. CASE Disconnect(c) \/ \E d \in Code \cup {NoCode} : RegisterFails(c, d)
  BY <1>3, LosesLost DEF Disconnect, RegisterFails, Loses, dirVars
<1>4. CASE Unregister(c)
  BY <1>4, UnregisterDrops
<1>5. CASE \E d \in Code \cup {NoCode}, k \in Code : Register(c, d, k)
  <2>1. UNCHANGED <<ws, fate, req, queue, target>>
    BY <1>5 DEF Register, reqVars
  <2> QED
    BY <2>1, LinkKept, StatusKept DEF Service!cvars
<1>6. CASE \E s \in Req, kind \in Kind : ClientMessage(c, s, kind)
  BY <1>6, MessageAnswers
<1> QED
  BY <1>1, <1>2, <1>3, <1>4, <1>5, <1>6 DEF Handler

LEMMA TerminatorServes ==
  ASSUME Facts, NEW p \in Killer, Terminator(p)
  PROVE  [Service!Next]_(Service!cvars)
<1>1. CASE (\E k \in Code : KillUnknown(p, k)) \/ KillSent(p) \/ KillCancelled(p)
  <2>1. UNCHANGED <<ws, fate, req, queue, target>>
    BY <1>1 DEF KillUnknown, KillSent, KillCancelled, connVars, reqVars
  <2> QED
    BY <2>1, LinkKept, StatusKept DEF Service!cvars
<1>2. ASSUME NEW k \in Code, Kill(p, k) PROVE [Service!Next]_(Service!cvars)
  BY <1>2, KillDrops
<1>3. ASSUME NEW k \in Code, KillAuditFails(p, k) PROVE [Service!Next]_(Service!cvars)
  BY <1>3, LossKeepsLink, StatusKept DEF KillAuditFails, reqVars, Service!cvars
<1>4. CASE KillClose(p)
  <2>1. /\ kconn[p] \in Conn /\ ws' = [ws EXCEPT ![kconn[p]] = IF @ = "open" THEN "lost" ELSE @]
        /\ UNCHANGED <<holder, code, fate>> /\ UNCHANGED reqVars
    BY <1>4 DEF KillClose, dirVars, Facts, TypeOK
  <2>2. CASE ws[kconn[p]] = "open"
    BY <2>1, <2>2, LosesLost DEF Loses
  <2>3. CASE ws[kconn[p]] # "open"
    <3>1. UNCHANGED <<ws, fate, req, queue, target>>
      BY <2>1, <2>3, FactsTyped DEF reqVars
    <3> QED
      BY <3>1, LinkKept, StatusKept DEF Service!cvars
  <2> QED
    BY <2>2, <2>3
<1> QED
  BY <1>1, <1>2, <1>3, <1>4 DEF Terminator

\* The broker keeps its promise to the MCP layer: every step of the relay is a step of
\* CommandService or none.  A command has one verdict, fixed by whichever comes first
\* of the client's result and the end of its connection, and the end of a connection
\* reaches all its commands at once.
THEOREM ServiceIsImplemented == Spec => ImplementsService
<1>1. Init => Service!Init
  BY DEF Init, Service!Init, Link, Status, Active
<1>2. Facts /\ [Next]_vars => [Service!Next]_(Service!cvars)
  <2> SUFFICES ASSUME Facts, [Next]_vars PROVE [Service!Next]_(Service!cvars)
    OBVIOUS
  <2>1. ASSUME NEW k \in Code, LookUp(k) PROVE [Service!Next]_(Service!cvars)
    BY <2>1, LossKeepsLink, StatusKept DEF LookUp, reqVars, Service!cvars
  <2>2. CASE (\E k \in Code : LeaseExpires(k)) \/ UNCHANGED vars
    <3>1. UNCHANGED <<ws, fate, req, queue, target>>
      BY <2>2 DEF LeaseExpires, connVars, reqVars, vars
    <3> QED
      BY <3>1, LinkKept, StatusKept DEF Service!cvars
  <2> QED
    BY <2>1, <2>2, HandlerServes, CallServes, TerminatorServes DEF Next, Quiescent
<1>3. TypeOK /\ NoStaleRecord /\ KilledAreWoken /\ OutputInv /\ Reached => Facts
  BY DEF Facts
<1> QED
  BY <1>1, <1>2, <1>3, TypeCorrect, StoreAgrees, KillWakesAll, OutputInvariant, ReachedInvariant, PTL
     DEF Spec, ImplementsService, Service!Spec
=============================================================================
