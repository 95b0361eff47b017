-------------------------- MODULE SessionDirectory --------------------------
(***************************************************************************)
(* What relay/session_store.py promises to the broker, without its clock:  *)
(* a directory from session codes to connections in which every entry      *)
(* carries a lease.  A lease that is no longer fresh is deleted by the     *)
(* next get or touch that meets it, never by time alone.  SessionStore.tla *)
(* is the same store with its clock; Relay.tla composes this directory     *)
(* with the broker and the WebSocket handlers.                             *)
(***************************************************************************)

CONSTANTS Conn,    \* WebSocket connections, each used by one handler
          Code,    \* session codes
          NoConn,  \* "no record under this code"
          NoCode   \* "no code desired" (an absent or malformed desired_code)

ASSUME DirectoryAssumption == NoConn \notin Conn /\ NoCode \notin Code

VARIABLES holder,  \* holder[k]: the connection recorded under k, or NoConn
          fresh    \* fresh[k]: expires_at is still in the future

dirVars == <<holder, fresh>>

DirTypeOK == /\ holder \in [Code -> Conn \cup {NoConn}]
             /\ fresh \in [Code -> BOOLEAN]

DirInit == /\ holder = [k \in Code |-> NoConn]
           /\ fresh = [k \in Code |-> FALSE]

-----------------------------------------------------------------------------
Free(k)    == holder[k] = NoConn
Live(k)    == ~Free(k) /\ fresh[k]
Expired(k) == ~Free(k) /\ ~fresh[k]

\* Faulty variant, which the properties must reject: a desired code is always granted.
MayEvict(desired, k) == IF desired \in Code THEN k = desired ELSE Free(k)

\* k is a code that create may choose: the desired one when no record, not
\* even an expired one, sits under it; otherwise a draw among the free ones.
MayChoose(desired, k) ==
  IF desired \in Code /\ Free(desired) THEN k = desired ELSE Free(k)

\* All MAX_CREATE_ATTEMPTS draws may collide once some code is taken.
MayRunOut(desired) ==
  /\ ~(desired \in Code /\ Free(desired))
  /\ \E k \in Code : ~Free(k)

Erase(S) == /\ holder' = [k \in Code |-> IF k \in S THEN NoConn ELSE holder[k]]
            /\ fresh' = [k \in Code |-> IF k \in S THEN FALSE ELSE fresh[k]]

Create(c, desired, k) ==
  /\ MayChoose(desired, k)
  /\ holder' = [holder EXCEPT ![k] = c]
  /\ fresh' = [fresh EXCEPT ![k] = TRUE]

\* get and touch delete the expired record they meet (touch of a live one
\* renews a lease that is fresh already).
Purge(k) == Erase({k} \cap {j \in Code : Expired(j)})

\* Faulty variant, which the properties must reject: expired records are overlooked.
HeldLiveBy(c) == {k \in Code : holder[k] = c /\ Live(k)}

HeldBy(c) == {k \in Code : holder[k] = c}

RemoveByConnection(c) == Erase(HeldBy(c))

\* remove, and terminate: pop without a look at expires_at.
Pop(k) == Erase({k})

\* Time passes expires_at of the records in S.
Expire(S) == /\ \A k \in S : Live(k)
             /\ fresh' = [k \in Code |-> fresh[k] /\ k \notin S]
             /\ UNCHANGED holder

-----------------------------------------------------------------------------
DirNext == \/ \E c \in Conn, d \in Code \cup {NoCode}, k \in Code : Create(c, d, k)
           \/ \E k \in Code : Purge(k) \/ Pop(k)
           \/ \E c \in Conn : RemoveByConnection(c)
           \/ \E S \in SUBSET Code : Expire(S)

DirSpec == DirInit /\ [][DirNext]_dirVars
=============================================================================
