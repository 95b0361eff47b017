--------------------------- MODULE CommandService ---------------------------
(***************************************************************************)
(* What the broker promises to the MCP layer: a command runs on one        *)
(* connection and has one verdict, fixed by whichever comes first of the   *)
(* client's result and the end of the connection.  The end of a connection *)
(* (its handler ends, or the session is killed) reaches every command      *)
(* running on it at that very step, and nothing starts on it any more.     *)
(***************************************************************************)
CONSTANTS Conn, Req, NoConn

VARIABLES link,    \* link[c]: "idle", "up", "lost" (unnoticed), "down"
          status,  \* "idle", "running", "answered", "aborted", or a verdict
          on       \* on[r]: the connection a command runs on

cvars == <<link, status, on>>

Open(r) == status[r] \in {"running", "answered", "aborted"}

Init == /\ link = [c \in Conn |-> "idle"]
        /\ status = [r \in Req |-> "idle"]
        /\ on = [r \in Req |-> NoConn]

Connect(c) == /\ link[c] = "idle"
              /\ link' = [link EXCEPT ![c] = "up"]
              /\ UNCHANGED <<status, on>>

Lose(c) == /\ link[c] = "up"
           /\ link' = [link EXCEPT ![c] = "lost"]
           /\ UNCHANGED <<status, on>>

Drop(c) == /\ link[c] \in {"up", "lost"}
           /\ link' = [link EXCEPT ![c] = "down"]
           /\ status' = [r \in Req |-> IF status[r] = "running" /\ on[r] = c
                                       THEN "aborted" ELSE status[r]]
           /\ UNCHANGED on

Start(r, c) == /\ status[r] = "idle" /\ link[c] \in {"up", "lost"}
               /\ status' = [status EXCEPT ![r] = "running"]
               /\ on' = [on EXCEPT ![r] = c]
               /\ UNCHANGED link

Refuse(r) == /\ status[r] = "idle"
             /\ \E v \in {"not_found", "denied"} : status' = [status EXCEPT ![r] = v]
             /\ UNCHANGED <<link, on>>

Answer(r) == /\ status[r] = "running" /\ link[on[r]] = "up"
             /\ status' = [status EXCEPT ![r] = "answered"]
             /\ UNCHANGED <<link, on>>

Finish(r) == /\ \/ status[r] = "answered" /\ status' = [status EXCEPT ![r] = "result"]
                \/ status[r] = "aborted" /\ status' = [status EXCEPT ![r] = "disconnected"]
             /\ UNCHANGED <<link, on>>

\* The command could not be sent, and only because its connection has gone.
Unsent(r) == /\ Open(r) /\ link[on[r]] \in {"lost", "down"}
             /\ status' = [status EXCEPT ![r] = "disconnected"]
             /\ UNCHANGED <<link, on>>

GiveUp(r) == /\ Open(r)
             /\ \E v \in {"timeout", "abandoned"} : status' = [status EXCEPT ![r] = v]
             /\ UNCHANGED <<link, on>>

Next == \/ \E c \in Conn : Connect(c) \/ Lose(c) \/ Drop(c)
        \/ \E r \in Req : \/ Refuse(r) \/ Answer(r) \/ Finish(r)
                          \/ Unsent(r) \/ GiveUp(r)
                          \/ \E c \in Conn : Start(r, c)

Spec == Init /\ [][Next]_cvars
=============================================================================
