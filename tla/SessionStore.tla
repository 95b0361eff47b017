---------------------------- MODULE SessionStore ----------------------------
(***************************************************************************)
(* InMemorySessionStore of relay/session_store.py with its clock, driven   *)
(* by the handlers: register creates, heartbeats touch, tool calls get,    *)
(* the kill-switch terminates, the end of a handler removes.  Clients send *)
(* a heartbeat every Period at most (client/main.go), unless they stall.   *)
(***************************************************************************)
EXTENDS Naturals

CONSTANTS Conn, Code, NoConn, NoCode,
          TTL,      \* session_ttl_seconds
          Period,   \* longest time between two heartbeats of a client
          MaxTime   \* bound on the clock

ASSUME StoreAssumption == /\ TTL \in Nat /\ Period \in 1..(TTL - 1) /\ MaxTime \in Nat
                          /\ NoConn \notin Conn /\ NoCode \notin Code

VARIABLES now,      \* time.monotonic()
          holder,   \* the connection of the record under a code, or NoConn
          expires,  \* expires_at of that record
          mine,     \* the handler's session_code, NoCode before register
          beat,     \* history: time of the last register or heartbeat
          client    \* "new", "up", "stalled" (its heartbeats come when they
            \* may), "killed" (its socket is being closed), "gone"

vars == <<now, holder, expires, mine, beat, client>>

Init == /\ now = 0
        /\ holder = [k \in Code |-> NoConn]
        /\ expires = [k \in Code |-> 0]
        /\ mine = [c \in Conn |-> NoCode]
        /\ beat = [c \in Conn |-> 0]
        /\ client = [c \in Conn |-> "new"]

Free(k) == holder[k] = NoConn
Live(k) == ~Free(k) /\ expires[k] > now

Erase(S) == holder' = [k \in Code |-> IF k \in S THEN NoConn ELSE holder[k]]

\* Faulty variant, which the properties must reject: a desired code is always granted.
CreateEvicts(c, desired, k) ==
  /\ client[c] = "new"
  /\ IF desired # NoCode THEN k = desired ELSE Free(k)
  /\ holder' = [holder EXCEPT ![k] = c]
  /\ expires' = [expires EXCEPT ![k] = now + TTL]
  /\ mine' = [mine EXCEPT ![c] = k]
  /\ beat' = [beat EXCEPT ![c] = now]
  /\ client' = [client EXCEPT ![c] = "up"]
  /\ UNCHANGED now

Create(c, desired, k) ==
  /\ client[c] = "new"
  /\ IF desired # NoCode /\ Free(desired) THEN k = desired ELSE Free(k)
  /\ holder' = [holder EXCEPT ![k] = c]
  /\ expires' = [expires EXCEPT ![k] = now + TTL]
  /\ mine' = [mine EXCEPT ![c] = k]
  /\ beat' = [beat EXCEPT ![c] = now]
  /\ client' = [client EXCEPT ![c] = "up"]
  /\ UNCHANGED now

\* get, for connect_session, a capability check or a dispatch
Get(k) == /\ ~Live(k)
          /\ Erase({k})
          /\ UNCHANGED <<now, expires, mine, beat, client>>

\* Faulty variant, which the properties must reject: the deadline is not looked at.
TouchRevives(k) == IF ~Free(k) THEN expires' = [expires EXCEPT ![k] = now + TTL] /\ UNCHANGED holder
                   ELSE Erase({k}) /\ UNCHANGED expires

\* touch, by CODE: the record under it may have expired, or be another's by now.
Touch(k) == IF Live(k) THEN expires' = [expires EXCEPT ![k] = now + TTL] /\ UNCHANGED holder
            ELSE Erase({k}) /\ UNCHANGED expires

\* A stalled client's heartbeats, and those of a killed one until its socket closes, may
\* come at any time.
Heartbeat(c) == /\ client[c] \in {"up", "stalled", "killed"}
                /\ Touch(mine[c])
                /\ beat' = [beat EXCEPT ![c] = now]
                /\ UNCHANGED <<now, mine, client>>

\* Faulty variant, which the properties must reject: removal by the handler's code, whoever holds it.
RemoveByCode(c) ==
  /\ client[c] \in {"up", "stalled", "killed"}
  /\ Erase({mine[c]})
  /\ client' = [client EXCEPT ![c] = "gone"]
  /\ UNCHANGED <<now, expires, mine, beat>>

RemoveByConnection(c) ==
  /\ client[c] \in {"up", "stalled", "killed"}
  /\ Erase({k \in Code : holder[k] = c})
  /\ client' = [client EXCEPT ![c] = "gone"]
  /\ UNCHANGED <<now, expires, mine, beat>>

\* The kill-switch; the handler, and its heartbeats, go on until the close.
Terminate(k) ==
  /\ ~Free(k)
  /\ Erase({k})
  /\ client' = [client EXCEPT ![holder[k]] = "killed"]
  /\ UNCHANGED <<now, expires, mine, beat>>

\* A suspended machine or a slow link: the heartbeats no longer keep the period.
Stall(c) == /\ client[c] = "up"
            /\ client' = [client EXCEPT ![c] = "stalled"]
            /\ UNCHANGED <<now, holder, expires, mine, beat>>

Tick == /\ now < MaxTime
        /\ \A c \in Conn : client[c] = "up" => now < beat[c] + Period
        /\ now' = now + 1
        /\ UNCHANGED <<holder, expires, mine, beat, client>>

Next == \/ \E c \in Conn, d \in Code \cup {NoCode}, k \in Code : Create(c, d, k)
        \/ \E c \in Conn : Heartbeat(c) \/ RemoveByConnection(c) \/ Stall(c)
        \/ \E k \in Code : Get(k) \/ Terminate(k)
        \/ Tick

Spec == Init /\ [][Next]_vars

-----------------------------------------------------------------------------
(* Properties.                                                             *)

TypeOK == /\ now \in 0..MaxTime
          /\ holder \in [Code -> Conn \cup {NoConn}]
          /\ expires \in [Code -> 0..(MaxTime + TTL)]
          /\ mine \in [Conn -> Code \cup {NoCode}]
          /\ beat \in [Conn -> 0..MaxTime]
          /\ client \in [Conn -> {"new", "up", "stalled", "killed", "gone"}]

\* A client that keeps its heartbeat period never loses its session: its code
\* answers, and to it, whatever the other clients register, drop or look up.
KeptAlive == \A c \in Conn : client[c] = "up" =>
               holder[mine[c]] = c /\ expires[mine[c]] > now

\* A session outlives by less than TTL the last heartbeat of the handlers that were
\* given its code: its own, or a former one of the same code, whose late heartbeats
\* prolong it too (touch goes by code); looking it up does not.
HeartbeatsProlong ==
  \A k \in Code : Live(k) => \E c \in Conn : mine[c] = k /\ now < beat[c] + TTL

\* A session that has expired or was killed never answers again, although its record
\* may still lie in the store and its handler still run and heartbeat: neither these
\* heartbeats nor those of others given its code revive it.
Serves(c) == mine[c] \in Code /\ holder[mine[c]] = c /\ Live(mine[c])
NoRevival == [][\A c \in Conn : client[c] # "new" /\ ~Serves(c) => ~Serves(c)']_vars

\* The store implements the directory the broker is composed with.
Directory == INSTANCE SessionDirectory WITH
               fresh <- [k \in Code |-> Live(k)]
ImplementsDirectory == Directory!DirSpec
=============================================================================
