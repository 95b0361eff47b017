------------------------------- MODULE Relay -------------------------------
(***************************************************************************)
(* The relay process: the WebSocket handlers of relay/app.py, the broker   *)
(* of relay/broker.py and the session directory, as one asyncio event      *)
(* loop.  A coroutine runs without interleaving between two awaits that    *)
(* suspend; an action is such a stretch.  (The store's lock is never       *)
(* contended, so awaiting the store does not suspend.)                     *)
(***************************************************************************)
EXTENDS SessionDirectory, Naturals, Sequences

CONSTANTS Req,          \* calls of dispatch_command (a request_id each)
          Killer,       \* calls of terminate_session
          MaxChunks     \* bound: non-final messages a client sends per request

ASSUME RelayAssumption == MaxChunks \in Nat

VARIABLES
  ws,       \* "idle", "open" (receive loop), "lost" (the socket is gone, the
            \* handler has not seen it yet), "closed" (unregistered)
  code,     \* the handler's local session_code
  fate,     \* history: how the record of a connection was taken from it:
            \* "expired", "killed", or "half-killed" (the kill raised after that)
  req,      \* a dispatch: "idle", "sending", "waiting", or its outcome
  target,   \* pending.connection
  queue,    \* pending.queue
  sent,     \* history: non-final messages the client emitted for a request
  replied,  \* history: "no", "yes", or "late" (after the kill): result emitted
  got,      \* non-final chunks yielded to the MCP layer
  kpc,      \* a kill: "idle", "sending", "closing", or how it ended
  kconn     \* the connection a kill is about

connVars == <<ws, code, fate>>
reqVars  == <<req, target, queue, sent, replied, got>>
killVars == <<kpc, kconn>>
vars == <<holder, fresh, ws, code, fate, req, target, queue, sent, replied, got,
          kpc, kconn>>

Partial == {"chunk", "approval"}   \* stream or file_chunk; approval_response
Kind    == Partial \cup {"result"}
GONE    == "gone"                  \* the _DISCONNECTED sentinel
Outcome == {"result", "timeout", "disconnected", "abandoned", "not_found", "denied"}

Active(r) == req[r] \in {"sending", "waiting"}   \* r is in _pending
Ended(r)  == req[r] \in Outcome
\* Faulty variant, which the properties must reject: a refusal taken for the end.
FinalOrApproval(kind) == kind # "chunk"
Final(kind) == kind = "result"

Init == /\ DirInit
        /\ ws = [c \in Conn |-> "idle"]
        /\ code = [c \in Conn |-> NoCode]
        /\ fate = [c \in Conn |-> "none"]
        /\ req = [r \in Req |-> "idle"]
        /\ target = [r \in Req |-> NoConn]
        /\ queue = [r \in Req |-> << >>]
        /\ sent = [r \in Req |-> 0]
        /\ replied = [r \in Req |-> "no"]
        /\ got = [r \in Req |-> 0]
        /\ kpc = [p \in Killer |-> "idle"]
        /\ kconn = [p \in Killer |-> NoConn]

\* Faulty variant, which the properties must reject: a request still being sent is overlooked.
WakeWaiting(c) ==
  queue' = [r \in Req |-> IF req[r] = "waiting" /\ target[r] = c
                          THEN Append(queue[r], GONE) ELSE queue[r]]

\* Wakes every request pending on c.
Wake(c) == queue' = [r \in Req |-> IF Active(r) /\ target[r] = c
                                   THEN Append(queue[r], GONE) ELSE queue[r]]

\* The lazy deletion, and the connection it takes the code from.
PurgeCode(k) ==
  /\ Purge(k)
  /\ fate' = [c \in Conn |-> IF Expired(k) /\ holder[k] = c THEN "expired" ELSE fate[c]]

-----------------------------------------------------------------------------
(* The WebSocket handler.                                                  *)

Accept(c) == /\ ws[c] = "idle"
             /\ ws' = [ws EXCEPT ![c] = "open"]
             /\ UNCHANGED <<dirVars, code, fate, reqVars, killVars>>

\* A second register on the same connection only repeats the code.
Register(c, desired, k) ==
  /\ ws[c] = "open" /\ code[c] = NoCode
  /\ Create(c, desired, k)
  /\ code' = [code EXCEPT ![c] = k]
  /\ UNCHANGED <<ws, fate, reqVars, killVars>>

\* create raises: the exception ends the receive loop.
RegisterFails(c, desired) ==
  /\ ws[c] = "open" /\ code[c] = NoCode
  /\ MayRunOut(desired)
  /\ ws' = [ws EXCEPT ![c] = "lost"]
  /\ UNCHANGED <<dirVars, code, fate, reqVars, killVars>>

\* touch by CODE, whoever holds it by now; its answer is not looked at.
Heartbeat(c) ==
  /\ ws[c] = "open" /\ code[c] # NoCode
  /\ PurgeCode(code[c])
  /\ UNCHANGED <<ws, code, reqVars, killVars>>

Disconnect(c) ==
  /\ ws[c] = "open"
  /\ ws' = [ws EXCEPT ![c] = "lost"]
  /\ UNCHANGED <<dirVars, code, fate, reqVars, killVars>>

\* The handler's finally clause: unregister_connection.
Unregister(c) ==
  /\ ws[c] = "lost"
  /\ ws' = [ws EXCEPT ![c] = "closed"]
  /\ RemoveByConnection(c)
  /\ Wake(c)
  /\ UNCHANGED <<code, fate, req, target, sent, replied, got, killVars>>

\* Faulty variant, which the properties must reject: any connection may answer.
RoutesAny(c, r) == Active(r)

\* handle_client_message: routed only to a request pending on connection c;
\* any other message changes nothing.  A client answers a request with some
\* partial messages and then one result.
Routes(c, r) == Active(r) /\ target[r] = c

Emits(c, r, kind) ==
  IF c # target[r] THEN UNCHANGED <<sent, replied>>
  ELSE /\ replied[r] = "no"
       /\ kind \in Partial => sent[r] < MaxChunks
       /\ sent' = [sent EXCEPT ![r] = IF kind \in Partial THEN @ + 1 ELSE @]
       /\ replied' = [replied EXCEPT ![r] =
            IF kind \in Partial THEN @
            ELSE IF fate[c] = "killed" THEN "late" ELSE "yes"]

ClientMessage(c, r, kind) ==
  /\ ws[c] = "open" /\ Active(r)
  /\ Emits(c, r, kind)
  /\ queue' = IF Routes(c, r) THEN [queue EXCEPT ![r] = Append(@, kind)] ELSE queue
  /\ UNCHANGED <<dirVars, connVars, req, target, got, killVars>>

-----------------------------------------------------------------------------
(* dispatch_command.                                                       *)

End(r, outcome) == req' = [req EXCEPT ![r] = outcome]

\* The session lookup finds nothing live under the code.
DispatchUnknown(r, k) ==
  /\ req[r] = "idle" /\ ~Live(k)
  /\ PurgeCode(k)
  /\ End(r, "not_found")
  /\ UNCHANGED <<ws, code, target, queue, sent, replied, got, killVars>>

\* The command policy refuses (CommandPolicy.tla says when).
DispatchDenied(r, k) ==
  /\ req[r] = "idle" /\ Live(k)
  /\ End(r, "denied")
  /\ UNCHANGED <<dirVars, connVars, target, queue, sent, replied, got, killVars>>

\* From the lookup to the first suspension, inside send_json.
Dispatch(r, k) ==
  /\ req[r] = "idle" /\ Live(k)
  /\ req' = [req EXCEPT ![r] = "sending"]
  /\ target' = [target EXCEPT ![r] = holder[k]]
  /\ UNCHANGED <<dirVars, connVars, queue, sent, replied, got, killVars>>

Sent(r) ==
  /\ req[r] = "sending"
  /\ req' = [req EXCEPT ![r] = "waiting"]
  /\ UNCHANGED <<dirVars, connVars, target, queue, sent, replied, got, killVars>>

SendFails(r) ==
  /\ req[r] = "sending" /\ ws[target[r]] # "open"
  /\ End(r, "disconnected")
  /\ UNCHANGED <<dirVars, connVars, target, queue, sent, replied, got, killVars>>

\* queue.get returns: the sentinel and a final chunk end the dispatch.
Take(r) ==
  /\ req[r] = "waiting" /\ queue[r] # << >>
  /\ queue' = [queue EXCEPT ![r] = Tail(@)]
  /\ LET item == Head(queue[r]) IN
     /\ req' = [req EXCEPT ![r] = IF item = GONE THEN "disconnected"
                                  ELSE IF Final(item) THEN "result" ELSE @]
     /\ got' = [got EXCEPT ![r] = IF item \in Partial THEN @ + 1 ELSE @]
  /\ UNCHANGED <<dirVars, connVars, target, sent, replied, killVars>>

\* wait_for gives up; it may do so although an item has just been queued.
Timeout(r) ==
  /\ req[r] = "waiting"
  /\ End(r, "timeout")
  /\ UNCHANGED <<dirVars, connVars, target, queue, sent, replied, got, killVars>>

\* The caller closes the generator or is cancelled at an await.
Abandon(r) ==
  /\ Active(r)
  /\ End(r, "abandoned")
  /\ UNCHANGED <<dirVars, connVars, target, queue, sent, replied, got, killVars>>

-----------------------------------------------------------------------------
(* terminate_session.                                                      *)

\* terminate takes the record, expired or not, before anything else.
TakeRecord(k, how) ==
  /\ Pop(k)
  /\ fate' = [c \in Conn |-> IF holder[k] = c THEN how ELSE fate[c]]

KillUnknown(p, k) ==
  /\ kpc[p] = "idle" /\ Free(k)
  /\ kpc' = [kpc EXCEPT ![p] = "not_found"]
  /\ UNCHANGED <<dirVars, connVars, reqVars, kconn>>

\* Faulty variant, which the properties must reject: nobody is woken.
KillSilently(p, k) ==
  /\ kpc[p] = "idle" /\ ~Free(k)
  /\ TakeRecord(k, "killed")
  /\ kpc' = [kpc EXCEPT ![p] = "sending"]
  /\ kconn' = [kconn EXCEPT ![p] = holder[k]]
  /\ UNCHANGED <<ws, code, reqVars>>

\* Up to the first suspension: the record is gone, the pending requests woken.
Kill(p, k) ==
  /\ kpc[p] = "idle" /\ ~Free(k)
  /\ TakeRecord(k, "killed")
  /\ Wake(holder[k])
  /\ kpc' = [kpc EXCEPT ![p] = "sending"]
  /\ kconn' = [kconn EXCEPT ![p] = holder[k]]
  /\ UNCHANGED <<ws, code, req, target, sent, replied, got>>

\* The append to the audit log, between the two, raises (it is made for an unknown
\* code too).
KillAuditFails(p, k) ==
  /\ kpc[p] = "idle"
  /\ TakeRecord(k, "half-killed")
  /\ kpc' = [kpc EXCEPT ![p] = "error"]
  /\ UNCHANGED <<ws, code, reqVars, kconn>>

\* session_terminated was sent, or the send failed: ignored either way.
KillSent(p) ==
  /\ kpc[p] = "sending"
  /\ kpc' = [kpc EXCEPT ![p] = "closing"]
  /\ UNCHANGED <<dirVars, connVars, reqVars, kconn>>

\* Faulty variant, which the properties must reject: the socket is left open.
KillLeavesOpen(p) ==
  /\ kpc[p] = "closing"
  /\ kpc' = [kpc EXCEPT ![p] = "killed"]
  /\ UNCHANGED <<dirVars, connVars, reqVars, kconn>>

KillClose(p) ==
  /\ kpc[p] = "closing"
  /\ kpc' = [kpc EXCEPT ![p] = "killed"]
  /\ ws' = [ws EXCEPT ![kconn[p]] = IF @ = "open" THEN "lost" ELSE @]
  /\ UNCHANGED <<dirVars, code, fate, reqVars, kconn>>

\* The MCP request that awaits the kill is cancelled at one of its two awaits: a
\* CancelledError is no Exception, so that the rest, the close included, is skipped.
KillCancelled(p) ==
  /\ kpc[p] \in {"sending", "closing"}
  /\ kpc' = [kpc EXCEPT ![p] = "cancelled"]
  /\ UNCHANGED <<dirVars, connVars, reqVars, kconn>>

-----------------------------------------------------------------------------
\* connect_session, or the capability check of a file tool: get_session_info.
LookUp(k) ==
  /\ Expired(k)
  /\ PurgeCode(k)
  /\ UNCHANGED <<ws, code, reqVars, killVars>>

LeaseExpires(k) == Expire({k}) /\ UNCHANGED <<connVars, reqVars, killVars>>

\* Every connection, call and kill of the instance has run its course.
Quiescent ==
  /\ \A c \in Conn : ws[c] = "closed"
  /\ \A r \in Req : Ended(r)
  /\ \A p \in Killer : kpc[p] \in {"killed", "not_found", "error", "cancelled"}
  /\ UNCHANGED vars

Handler(c) ==
  \/ Accept(c) \/ Heartbeat(c) \/ Disconnect(c) \/ Unregister(c)
  \/ \E d \in Code \cup {NoCode}, k \in Code : Register(c, d, k)
  \/ \E d \in Code \cup {NoCode} : RegisterFails(c, d)
  \/ \E r \in Req, kind \in Kind : ClientMessage(c, r, kind)

Call(r) ==
  \/ \E k \in Code : DispatchUnknown(r, k) \/ DispatchDenied(r, k) \/ Dispatch(r, k)
  \/ Sent(r) \/ SendFails(r) \/ Take(r) \/ Timeout(r) \/ Abandon(r)

Terminator(p) ==
  \/ \E k \in Code : KillUnknown(p, k) \/ Kill(p, k) \/ KillAuditFails(p, k)
  \/ KillSent(p) \/ KillClose(p) \/ KillCancelled(p)

Next == \/ \E c \in Conn : Handler(c)
        \/ \E r \in Req : Call(r)
        \/ \E p \in Killer : Terminator(p)
        \/ \E k \in Code : LookUp(k) \/ LeaseExpires(k)
        \/ Quiescent

Spec == Init /\ [][Next]_vars

\* The event loop keeps running every coroutine that can go on: a send ends
\* (delivered, or failed once the socket is gone), a lost socket is noticed, a
\* queued item is taken, a kill that is not cancelled goes through.  No fairness on
\* Timeout: what the wake-ups are for is not to need it.
FairSpec ==
  /\ Spec
  /\ \A c \in Conn : WF_vars(Unregister(c))
  /\ \A r \in Req : WF_vars(Sent(r) \/ SendFails(r)) /\ WF_vars(Take(r))
  /\ \A p \in Killer : WF_vars(KillSent(p)) /\ WF_vars(KillClose(p))

-----------------------------------------------------------------------------
(* Properties.                                                             *)

\* The state of the broker and of the handlers is well formed; a request in
\* _pending names the connection it was sent to.
TypeOK ==
  /\ DirTypeOK
  /\ ws \in [Conn -> {"idle", "open", "lost", "closed"}]
  /\ code \in [Conn -> Code \cup {NoCode}]
  /\ fate \in [Conn -> {"none", "expired", "killed", "half-killed"}]
  /\ req \in [Req -> {"idle", "sending", "waiting"} \cup Outcome]
  /\ target \in [Req -> Conn \cup {NoConn}]
  /\ \A r \in Req : Active(r) => target[r] \in Conn
  /\ queue \in [Req -> Seq(Kind \cup {GONE})]
  /\ sent \in [Req -> 0..MaxChunks]
  /\ replied \in [Req -> {"no", "yes", "late"}]
  /\ got \in [Req -> Nat]
  /\ kpc \in [Killer -> {"idle", "sending", "closing", "killed", "not_found", "error",
                       "cancelled"}]
  /\ kconn \in [Killer -> Conn \cup {NoConn}]
  /\ \A p \in Killer : kpc[p] \in {"sending", "closing"} => kconn[p] \in Conn

\* A record in the store belongs to a handler that still runs, that was given
\* this very code, and that was neither killed nor expired: a dispatch can never
\* pick a connection whose handler has already cleaned up after itself.
NoStaleRecord ==
  \A k \in Code : ~Free(k) =>
    LET c == holder[k] IN
    ws[c] \in {"open", "lost"} /\ code[c] = k /\ fate[c] = "none"

\* The converse: a connected client that was given a code is found under it,
\* unless its session expired or was killed.  No other client's register, with
\* whatever desired_code, no disconnection and no heartbeat of another
\* connection takes the code away from it.
Routed ==
  \A c \in Conn : ws[c] \in {"open", "lost"} /\ code[c] # NoCode /\ fate[c] = "none"
                  => holder[code[c]] = c

Woken(r) == \E i \in 1..Len(queue[r]) : queue[r][i] = GONE

\* No lost wake-up: a request still pending on a connection whose handler has
\* ended has the sentinel in its queue, wherever the dispatch was suspended at
\* that moment (a dispatch found its record and entered _pending in one stretch,
\* so unregister_connection cannot fall in between).
NoLostWakeup ==
  \A r \in Req : Active(r) /\ ws[target[r]] = "closed" => Woken(r)

\* A kill that got past the audit log has failed all the running commands of the
\* session, those that are still being sent included.
KilledAreWoken ==
  \A r \in Req : Active(r) /\ fate[target[r]] = "killed" => Woken(r)

\* docs/SECURITY.md:363: a session that terminate_session has taken from the store
\* has its running commands failed.
KillIsWhole ==
  \A r \in Req : Active(r) /\ fate[target[r]] \in {"killed", "half-killed"} => Woken(r)

\* A dispatch that ends with a result ended with the client's own final message,
\* and all the output the client sent before it was delivered first.
CompleteOutput ==
  \A r \in Req : req[r] = "result" => replied[r] # "no" /\ got[r] = sent[r]

\* Once the handler of a connection has ended, nothing is added any more to the
\* queue of a request that was sent to it, whoever quotes its request_id.
ClosedSilent ==
  [][\A r \in Req : target[r] \in Conn /\ ws[target[r]] = "closed"
                     => Len(queue'[r]) <= Len(queue[r])]_vars

\* The broker implements CommandService.  A killed connection is down at once,
\* although its socket closes later; the verdict of a running command is fixed
\* by the first result or sentinel in its queue.
Undecided(q) == \A i \in 1..Len(q) : q[i] \in Partial
CutOff(q)    == \E i \in 1..Len(q) : q[i] = GONE /\ \A j \in 1..(i - 1) : q[j] \in Partial

Link == [c \in Conn |-> IF fate[c] = "killed" \/ ws[c] = "closed" THEN "down"
                        ELSE IF ws[c] = "open" THEN "up" ELSE ws[c]]
Status == [r \in Req |-> IF ~Active(r) THEN req[r]
                         ELSE IF Undecided(queue[r]) THEN "running"
                         ELSE IF CutOff(queue[r]) THEN "aborted" ELSE "answered"]

Service == INSTANCE CommandService WITH link <- Link, status <- Status, on <- target

ImplementsService == Service!Spec

\* The wake-ups make the timeout unnecessary: a command whose connection has
\* ended or was killed ends, even if no timeout ever fires.
AbortedEnds ==
  \A r \in Req :
    (Active(r) /\ (ws[target[r]] = "closed" \/ fate[target[r]] = "killed")) ~> Ended(r)

\* A kill that found its session ends with the handler unregistered, even when
\* the client disconnects, or answers, while the notification is under way; unless
\* the request that made it was cancelled meanwhile.
KillCloses ==
  \A p \in Killer : kpc[p] = "sending" ~>
                      \/ kpc[p] = "killed" /\ ws[kconn[p]] = "closed"
                      \/ kpc[p] = "cancelled"

=============================================================================
