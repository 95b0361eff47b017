---------------------------- MODULE StoreProofs ----------------------------
(***************************************************************************)
(* Proofs about SessionStore.tla, for any connections, codes, TTL and any  *)
(* shorter heartbeat period: a client that heartbeats keeps its code, only *)
(* heartbeats for its code prolong a session and none revives it, and the  *)
(* store does what the broker relies on.                                   *)
(***************************************************************************)
EXTENDS SessionStore, TLAPS

USE StoreAssumption

Types == /\ now \in Nat
         /\ holder \in [Code -> Conn \cup {NoConn}]
         /\ expires \in [Code -> Nat]
         /\ mine \in [Conn -> Code \cup {NoCode}]
         /\ beat \in [Conn -> Nat]
         /\ client \in [Conn -> {"new", "up", "stalled", "killed", "gone"}]
         /\ \A c \in Conn : (client[c] = "new" <=> mine[c] = NoCode) /\ beat[c] <= now

\* A record is that of a client that has neither left nor been killed, and runs TTL
\* from that client's last heartbeat at least, and from one for its code at most.
RecordsOwned == \A k \in Code : ~Free(k) => /\ mine[holder[k]] = k
                                            /\ client[holder[k]] \in {"up", "stalled"}
                                            /\ expires[k] >= beat[holder[k]] + TTL
                                            /\ \E c \in Conn : /\ mine[c] = k
                                                               /\ expires[k] <= beat[c] + TTL

\* A client that keeps its period holds its code.
Punctual == \A c \in Conn : client[c] = "up" => /\ holder[mine[c]] = c
                                                /\ now <= beat[c] + Period

LeaseInv == Types /\ RecordsOwned /\ Punctual

\* The codes of clients that keep their period answer.
LEMMA UpIsLive ==
  ASSUME LeaseInv, NEW c \in Conn, client[c] = "up"
  PROVE  mine[c] \in Code /\ holder[mine[c]] = c /\ Live(mine[c])
<1>1. mine[c] \in Code /\ holder[mine[c]] = c
  BY DEF LeaseInv, Types, Punctual
<1>2. /\ now \in Nat /\ beat[c] \in Nat /\ now <= beat[c] + Period
      /\ expires[mine[c]] \in Nat /\ expires[mine[c]] >= beat[c] + TTL
  BY <1>1 DEF LeaseInv, Types, Punctual, RecordsOwned, Free
<1> QED
  BY <1>1, <1>2 DEF Live, Free

LEMMA CreateKeepsLease ==
  ASSUME LeaseInv, NEW c \in Conn, NEW d \in Code \cup {NoCode}, NEW k \in Code, Create(c, d, k)
  PROVE  LeaseInv'
<1>1. Free(k) /\ client[c] = "new" /\ mine[c] = NoCode
  BY DEF Create, LeaseInv, Types
<1>2. /\ holder' = [holder EXCEPT ![k] = c] /\ expires' = [expires EXCEPT ![k] = now + TTL]
      /\ mine' = [mine EXCEPT ![c] = k] /\ beat' = [beat EXCEPT ![c] = now]
      /\ client' = [client EXCEPT ![c] = "up"] /\ now' = now
  BY DEF Create
<1>3. \A j \in Code : holder[j] # c
  BY <1>1 DEF LeaseInv, RecordsOwned, Free
<1>4. Types'
  BY <1>2 DEF LeaseInv, Types
<1>5. RecordsOwned'
  <2> SUFFICES ASSUME NEW j \in Code, holder'[j] # NoConn
               PROVE  /\ mine'[holder'[j]] = j
                      /\ client'[holder'[j]] \in {"up", "stalled"}
                      /\ expires'[j] >= beat'[holder'[j]] + TTL
                      /\ \E b \in Conn : mine'[b] = j /\ expires'[j] <= beat'[b] + TTL
    BY DEF RecordsOwned, Free
  <2>1. CASE j = k
    BY <1>2, <2>1 DEF LeaseInv, Types
  <2>2. CASE j # k
    <3>1. PICK b \in Conn : mine[b] = j /\ expires[j] <= beat[b] + TTL
      BY <1>2, <2>2 DEF LeaseInv, Types, RecordsOwned, Free
    <3>2. mine'[b] = j /\ expires'[j] <= beat'[b] + TTL
      BY <1>1, <1>2, <2>2, <3>1 DEF LeaseInv, Types
    <3>3. holder'[j] = holder[j] /\ holder[j] \in Conn \ {c} /\ expires'[j] = expires[j]
      BY <1>2, <1>3, <2>2 DEF LeaseInv, Types
    <3> QED
      BY <1>2, <3>2, <3>3 DEF LeaseInv, Types, RecordsOwned, Free
  <2> QED
    BY <2>1, <2>2
<1>6. Punctual'
  BY <1>1, <1>2 DEF LeaseInv, Types, Punctual, Free
<1> QED
  BY <1>4, <1>5, <1>6 DEF LeaseInv

\* A heartbeat renews the lease under its code, whoever holds it, or deletes a record
\* that has expired.
LEMMA HeartbeatKeepsLease ==
  ASSUME LeaseInv, NEW c \in Conn, Heartbeat(c)
  PROVE  LeaseInv'
<1> DEFINE k == mine[c]
<1>1. client[c] \in {"up", "stalled", "killed"} /\ UNCHANGED <<now, mine, client>>
      /\ beat' = [beat EXCEPT ![c] = now] /\ k \in Code
  BY DEF Heartbeat, LeaseInv, Types
<1>2. \A b \in Conn : b = c \/ beat'[b] = beat[b]
  BY <1>1 DEF LeaseInv, Types
<1>3. beat'[c] = now /\ now \in Nat
  BY <1>1 DEF LeaseInv, Types
<1>4. CASE Live(k)
  <2>1. UNCHANGED holder /\ expires' = [expires EXCEPT ![k] = now + TTL]
    BY <1>4 DEF Heartbeat, Touch
  <2>2. Types'
    BY <1>1, <2>1 DEF LeaseInv, Types
  <2>3. RecordsOwned'
    <3> SUFFICES ASSUME NEW j \in Code, holder[j] # NoConn
                 PROVE  /\ mine[holder[j]] = j /\ client[holder[j]] \in {"up", "stalled"}
                        /\ expires'[j] >= beat'[holder[j]] + TTL
                        /\ \E b \in Conn : mine[b] = j /\ expires'[j] <= beat'[b] + TTL
      BY <1>1, <2>1 DEF RecordsOwned, Free
    <3>1. PICK b \in Conn : mine[b] = j /\ expires[j] <= beat[b] + TTL
      BY DEF LeaseInv, RecordsOwned, Free
    <3>2. /\ mine[holder[j]] = j /\ client[holder[j]] \in {"up", "stalled"}
          /\ expires[j] >= beat[holder[j]] + TTL /\ holder[j] \in Conn
          /\ expires[j] \in Nat /\ beat[holder[j]] \in Nat /\ beat[b] \in Nat
      BY DEF LeaseInv, Types, RecordsOwned, Free
    <3>3. CASE j = k
      <4>1. expires'[j] = now + TTL
        BY <1>1, <2>1, <3>3 DEF LeaseInv, Types
      <4>2. beat[holder[j]] <= now
        BY <3>2 DEF LeaseInv, Types
      <4> QED
        BY <1>1, <1>2, <1>3, <3>2, <3>3, <4>1, <4>2
    <3>4. CASE j # k
      <4>1. expires'[j] = expires[j] /\ holder[j] # c /\ b # c
        BY <1>1, <2>1, <3>1, <3>2, <3>4 DEF LeaseInv, Types
      <4> QED
        BY <1>2, <3>1, <3>2, <4>1
    <3> QED
      BY <3>3, <3>4
  <2>4. Punctual'
    BY <1>1, <1>2, <1>3, <2>1 DEF LeaseInv, Punctual
  <2> QED
    BY <2>2, <2>3, <2>4 DEF LeaseInv
<1>5. CASE ~Live(k)
  <2>1. UNCHANGED expires /\ holder' = [j \in Code |-> IF j = k THEN NoConn ELSE holder[j]]
    BY <1>5 DEF Heartbeat, Touch, Erase
  <2>2. \A b \in Conn : client[b] = "up" => mine[b] # k
    BY <1>5, UpIsLive
  <2>3. Types'
    BY <1>1, <2>1 DEF LeaseInv, Types
  <2>4. RecordsOwned'
    <3> SUFFICES ASSUME NEW j \in Code \ {k}, holder[j] # NoConn
                 PROVE  /\ mine[holder[j]] = j /\ client[holder[j]] \in {"up", "stalled"}
                        /\ expires[j] >= beat'[holder[j]] + TTL
                        /\ \E b \in Conn : mine[b] = j /\ expires[j] <= beat'[b] + TTL
      BY <1>1, <2>1 DEF RecordsOwned, Free
    <3>1. PICK b \in Conn : mine[b] = j /\ expires[j] <= beat[b] + TTL
      BY DEF LeaseInv, RecordsOwned, Free
    <3>2. /\ mine[holder[j]] = j /\ client[holder[j]] \in {"up", "stalled"}
          /\ expires[j] >= beat[holder[j]] + TTL /\ holder[j] \in Conn
      BY DEF LeaseInv, Types, RecordsOwned, Free
    <3> QED
      BY <1>2, <3>1, <3>2
  <2>5. Punctual'
    BY <1>1, <1>2, <1>3, <2>1, <2>2 DEF LeaseInv, Types, Punctual
  <2> QED
    BY <2>3, <2>4, <2>5 DEF LeaseInv
<1> QED
  BY <1>4, <1>5

\* Nobody whose client is up loses a record, except with its client.
LEMMA RemovalKeepsLease ==
  ASSUME LeaseInv,
         \/ \E k \in Code : Get(k) \/ Terminate(k)
         \/ \E c \in Conn : RemoveByConnection(c) \/ Stall(c)
  PROVE  LeaseInv'
<1>1. ASSUME NEW k \in Code, Get(k) PROVE LeaseInv'
  <2>1. UNCHANGED <<now, expires, mine, beat, client>>
        /\ holder' = [j \in Code |-> IF j = k THEN NoConn ELSE holder[j]]
    BY <1>1 DEF Get, Erase
  <2>2. \A c \in Conn : client[c] = "up" => mine[c] # k
    BY <1>1, UpIsLive DEF Get
  <2> QED
    BY <2>1, <2>2 DEF LeaseInv, Types, RecordsOwned, Punctual, Free
<1>2. ASSUME NEW k \in Code, Terminate(k) PROVE LeaseInv'
  <2> DEFINE d == holder[k]
  <2>1. ~Free(k) /\ UNCHANGED <<now, expires, mine, beat>>
        /\ holder' = [j \in Code |-> IF j = k THEN NoConn ELSE holder[j]]
        /\ client' = [client EXCEPT ![d] = "killed"]
    BY <1>2 DEF Terminate, Erase
  <2>2. d \in Conn /\ mine[d] = k /\ client[d] # "new"
    BY <2>1 DEF LeaseInv, Types, RecordsOwned, Free
  <2>3. \A c \in Conn \ {d} : client[c] = "up" => mine[c] # k
    BY DEF LeaseInv, Punctual
  <2> HIDE DEF d
  <2>4. \A j \in Code \ {k} : holder[j] # d
    BY <2>2 DEF LeaseInv, RecordsOwned, Free
  <2>5. Types' /\ RecordsOwned'
    BY <2>1, <2>2, <2>4 DEF LeaseInv, Types, RecordsOwned, Free
  <2>6. Punctual'
    BY <2>1, <2>2, <2>3 DEF LeaseInv, Types, Punctual
  <2> QED
    BY <2>5, <2>6 DEF LeaseInv
<1>3. ASSUME NEW c \in Conn, RemoveByConnection(c) PROVE LeaseInv'
  <2>1. UNCHANGED <<now, expires, beat, mine>> /\ client[c] # "new"
        /\ holder' = [j \in Code |-> IF holder[j] = c THEN NoConn ELSE holder[j]]
        /\ client' = [client EXCEPT ![c] = "gone"]
    BY <1>3 DEF RemoveByConnection, Erase
  <2> QED
    BY <2>1 DEF LeaseInv, Types, RecordsOwned, Punctual, Free
<1>4. ASSUME NEW c \in Conn, Stall(c) PROVE LeaseInv'
  BY <1>4 DEF Stall, LeaseInv, Types, RecordsOwned, Punctual, Free
<1> QED
  BY <1>1, <1>2, <1>3, <1>4

\* The clock does not pass a client that keeps its period.
LEMMA TickKeepsLease ==
  ASSUME LeaseInv, Tick
  PROVE  LeaseInv'
<1>1. now' = now + 1 /\ UNCHANGED <<holder, expires, mine, beat, client>>
      /\ \A c \in Conn : client[c] = "up" => now < beat[c] + Period
  BY DEF Tick
<1>2. Types'
  BY <1>1 DEF LeaseInv, Types
<1>3. Punctual'
  <2> SUFFICES ASSUME NEW c \in Conn, client[c] = "up" PROVE now + 1 <= beat[c] + Period
    BY <1>1 DEF LeaseInv, Punctual
  <2>1. now \in Nat /\ beat[c] \in Nat /\ now < beat[c] + Period
    BY <1>1 DEF LeaseInv, Types
  <2> QED
    BY <2>1
<1>4. RecordsOwned'
  BY <1>1 DEF LeaseInv, RecordsOwned, Free
<1> QED
  BY <1>2, <1>3, <1>4 DEF LeaseInv

LEMMA LeaseInvariant == Spec => []LeaseInv
<1>1. Init => LeaseInv
  BY DEF Init, LeaseInv, Types, RecordsOwned, Punctual, Free
<1>2. LeaseInv /\ [Next]_vars => LeaseInv'
  <2>1. LeaseInv /\ UNCHANGED vars => LeaseInv'
    BY DEF vars, LeaseInv, Types, RecordsOwned, Punctual, Free
  <2> QED
    BY <2>1, CreateKeepsLease, HeartbeatKeepsLease, RemovalKeepsLease, TickKeepsLease DEF Next
<1> QED
  BY <1>1, <1>2, PTL DEF Spec

\* session_store.py: a client that keeps its heartbeat period never loses its session,
\* whatever the others register, drop, look up, kill or prolong.
THEOREM HeartbeatsKeepAlive == Spec => []KeptAlive
<1>1. LeaseInv => KeptAlive
  BY UpIsLive DEF KeptAlive, Live
<1> QED
  BY <1>1, LeaseInvariant, PTL

\* A session outlives by less than TTL the last heartbeat for its code; lookups and
\* registers do not prolong it.
THEOREM LeaseHasItsHeartbeat == Spec => []HeartbeatsProlong
<1>1. LeaseInv => HeartbeatsProlong
  <2> SUFFICES ASSUME LeaseInv, NEW k \in Code, Live(k)
               PROVE  \E c \in Conn : mine[c] = k /\ now < beat[c] + TTL
    BY DEF HeartbeatsProlong
  <2>1. PICK c \in Conn : mine[c] = k /\ expires[k] <= beat[c] + TTL
    BY DEF LeaseInv, RecordsOwned, Live
  <2>2. now \in Nat /\ expires[k] \in Nat /\ beat[c] \in Nat /\ now < expires[k]
    BY DEF LeaseInv, Types, Live
  <2> QED
    BY <2>1, <2>2
<1> QED
  BY <1>1, LeaseInvariant, PTL

\* A session that has expired or was killed stays so, whoever still heartbeats for its
\* code.
THEOREM ExpiredStaysExpired == Spec => NoRevival
<1>1. LeaseInv /\ [Next]_vars
      => [\A c \in Conn : client[c] # "new" /\ ~Serves(c) => ~Serves(c)']_vars
  <2> SUFFICES ASSUME LeaseInv, Next, NEW c \in Conn, client[c] # "new", Serves(c)'
               PROVE  Serves(c)
    BY DEF vars
  <2> DEFINE k == mine[c]
  <2>0. Types /\ k \in Code /\ now \in Nat
    BY DEF LeaseInv, Types
  <2>1. ASSUME NEW b \in Conn, NEW d \in Code \cup {NoCode}, NEW j \in Code, Create(b, d, j)
        PROVE  Serves(c)
    <3>1. b # c
      BY <2>1 DEF Create
    <3>2. mine'[c] = k /\ k # j
      BY <2>0, <2>1, <3>1 DEF Create, Types, Serves
    <3> QED
      BY <2>0, <2>1, <3>2 DEF Create, Types, Serves, Live, Free
  <2>2. ASSUME NEW b \in Conn, Heartbeat(b) PROVE Serves(c)
    <3>1. UNCHANGED <<now, mine>> /\ mine[b] \in Code
      BY <2>0, <2>2 DEF Heartbeat, Types
    <3>2. CASE Live(mine[b])
      <4>1. UNCHANGED holder /\ expires' = [expires EXCEPT ![mine[b]] = now + TTL]
        BY <2>2, <3>2 DEF Heartbeat, Touch
      <4>2. CASE k = mine[b]
        BY <3>1, <3>2, <4>1, <4>2 DEF Serves
      <4>3. CASE k # mine[b]
        BY <2>0, <3>1, <4>1, <4>3 DEF Serves, Live, Free, Types
      <4> QED
        BY <4>2, <4>3
    <3>3. CASE ~Live(mine[b])
      <4>1. UNCHANGED expires /\ holder' = [j \in Code |-> IF j = mine[b] THEN NoConn ELSE holder[j]]
        BY <2>2, <3>3 DEF Heartbeat, Touch, Erase
      <4> QED
        BY <2>0, <3>1, <4>1 DEF Serves, Live, Free
    <3> QED
      BY <3>2, <3>3
  <2>3. CASE \/ \E b \in Conn : RemoveByConnection(b) \/ Stall(b)
             \/ \E j \in Code : Get(j) \/ Terminate(j)
    <3>1. UNCHANGED <<now, expires, mine>> /\ (holder'[k] = holder[k] \/ holder'[k] = NoConn)
      BY <2>0, <2>3 DEF RemoveByConnection, Stall, Get, Terminate, Erase
    <3> QED
      BY <2>0, <3>1 DEF Serves, Live, Free
  <2>4. CASE Tick
    <3>1. now' = now + 1 /\ UNCHANGED <<holder, expires, mine>>
      BY <2>4 DEF Tick
    <3> QED
      BY <2>0, <3>1 DEF Serves, Live, Free, Types
  <2> QED
    BY <2>1, <2>2, <2>3, <2>4 DEF Next
<1> QED
  BY <1>1, LeaseInvariant, PTL DEF Spec, NoRevival

-----------------------------------------------------------------------------
(* The refinement of SessionDirectory.                                     *)

\* Erasing records is the directory's Erase, while time stands still.
LEMMA ErasesBoth ==
  ASSUME Types, NEW S \in SUBSET Code, Erase(S), UNCHANGED <<now, expires>>
  PROVE  Directory!Erase(S)
  BY DEF Types, Erase, Directory!Erase, Live, Free

LEMMA PurgesBoth ==
  ASSUME Types, NEW k \in Code, ~Live(k), Erase({k}), UNCHANGED <<now, expires>>
  PROVE  Directory!Purge(k)
<1> DEFINE S == {k} \cap {j \in Code : Directory!Expired(j)}
<1>1. Erase(S)
  <2>1. CASE Free(k)
    BY <2>1 DEF Types, Erase, Free
  <2>2. CASE ~Free(k)
    BY <2>2 DEF Directory!Expired, Directory!Free, Free, Erase
  <2> QED
    BY <2>1, <2>2
<1> QED
  BY <1>1, ErasesBoth DEF Directory!Purge

\* Every step of the store is one of the directory, or none of its business.
LEMMA StoreServes ==
  ASSUME LeaseInv, [Next]_vars
  PROVE  [Directory!DirNext]_(Directory!dirVars)
<1> USE DEF Directory!DirNext, Directory!dirVars
<1>0. Types
  BY DEF LeaseInv
<1>1. ASSUME NEW c \in Conn, NEW d \in Code \cup {NoCode}, NEW k \in Code, Create(c, d, k)
      PROVE  Directory!DirNext
  <2>1. Directory!MayChoose(d, k)
    BY <1>1 DEF Create, Free, Directory!MayChoose, Directory!Free
  <2>2. [j \in Code |-> Live(j)]' = [[j \in Code |-> Live(j)] EXCEPT ![k] = TRUE]
    <3>1. /\ c \in Conn /\ now \in Nat /\ now + TTL > now
          /\ holder' = [holder EXCEPT ![k] = c] /\ expires' = [expires EXCEPT ![k] = now + TTL]
          /\ now' = now
      BY <1>0, <1>1 DEF Create, Types
    <3>2. Live(k)'
      BY <1>0, <3>1 DEF Live, Free, Types
    <3>3. \A j \in Code \ {k} : Live(j)' <=> Live(j)
      BY <1>0, <3>1 DEF Live, Free, Types
    <3> QED
      BY <3>2, <3>3, Zenon DEF Live, Free
  <2> QED
    BY <1>1, <2>1, <2>2 DEF Create, Directory!Create
<1>2. ASSUME NEW c \in Conn, Heartbeat(c) PROVE [Directory!DirNext]_(Directory!dirVars)
  <2>1. CASE Live(mine[c])
    <3>1. UNCHANGED <<holder, now>> /\ expires' = [expires EXCEPT ![mine[c]] = now + TTL]
      BY <1>2, <2>1 DEF Heartbeat, Touch
    <3>2. \A j \in Code : Live(j)' <=> Live(j)
      BY <1>0, <2>1, <3>1 DEF Live, Free, Types
    <3>3. [j \in Code |-> Live(j)]' = [j \in Code |-> Live(j)]
      BY <3>2, Zenon DEF Live, Free
    <3> QED
      BY <3>1, <3>3
  <2>2. CASE ~Live(mine[c])
    <3>1. Directory!Purge(mine[c]) /\ mine[c] \in Code
      BY <1>0, <1>2, <2>2, PurgesBoth DEF Types, Heartbeat, Touch
    <3> QED
      BY <3>1
  <2> QED
    BY <2>1, <2>2
<1>3. ASSUME NEW c \in Conn, RemoveByConnection(c) PROVE Directory!DirNext
  <2>1. Directory!RemoveByConnection(c)
    BY <1>0, <1>3, ErasesBoth DEF RemoveByConnection, Directory!RemoveByConnection, Directory!HeldBy
  <2> QED
    BY <2>1
<1>4. ASSUME NEW k \in Code, Get(k) PROVE Directory!DirNext
  BY <1>0, <1>4, PurgesBoth DEF Get
<1>5. ASSUME NEW k \in Code, Terminate(k) PROVE Directory!DirNext
  <2>1. Directory!Pop(k)
    BY <1>0, <1>5, ErasesBoth DEF Terminate, Directory!Pop
  <2> QED
    BY <2>1
<1>6. CASE Tick
  <2> DEFINE S == {k \in Code : Live(k) /\ ~Live(k)'}
  <2>1. \A k \in Code : Live(k)' => Live(k)
    BY <1>0, <1>6 DEF Tick, Live, Free, Types
  <2>2. Directory!Expire(S)
    BY <1>6, <2>1 DEF Tick, Directory!Expire, Directory!Live, Directory!Free, Live, Free
  <2> QED
    BY <2>2
<1>7. CASE (\E c \in Conn : Stall(c)) \/ UNCHANGED vars
  BY <1>7 DEF Stall, vars, Live, Free
<1> QED
  BY <1>1, <1>2, <1>3, <1>4, <1>5, <1>6, <1>7 DEF Next

\* The store, with its clock, implements the directory that the broker is composed with
\* in Relay.tla: what is proved there of the directory holds of this store.
THEOREM DirectoryIsImplemented == Spec => ImplementsDirectory
<1>1. Init => Directory!DirInit
  BY DEF Init, Directory!DirInit, Live, Free
<1> QED
  BY <1>1, LeaseInvariant, StoreServes, PTL DEF Spec, ImplementsDirectory, Directory!DirSpec
=============================================================================
