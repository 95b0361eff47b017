--------------------------- MODULE ProcessProofs ---------------------------
(***************************************************************************)
(* Proofs about Process.tla and Command.tla, for any request, program,     *)
(* output, number of descendants and size of a pipe: the result comes last,*)
(* a success reported is one, and output arrives in order; for any width of*)
(* integers the deadline is in range; for any text the arguments that were *)
(* quoted arrive, and the journal's line is one line and shows the words.  *)
(***************************************************************************)
EXTENDS Process, SequenceLemmas

USE ProcessAssumption

\* What is sent, whatever it carries.
IsResult(m) == m.type = "result"
IsSuccess(m) == IsResult(m) /\ m.code = 0 /\ m.error = ""
Units == Seq(Nat)
Message == [type : {"result"}, code : Int, error : {"", "failed", "timeout", "cancelled"}]
             \cup [type : {"stream"}, stream : Stream, data : Units]

Types == /\ pipe \in [Stream -> Units] /\ buf \in [Stream -> Units] /\ wrote \in [Stream -> Nat]
         /\ pump \in [Stream -> {"reading", "sending", "done"}]
         /\ out \in Seq(Message)

\* One more message at the end.
LEMMA SendTyped ==
  ASSUME out \in Seq(Message), NEW m \in Message, Send(m)
  PROVE  /\ out' \in Seq(Message) /\ Len(out) \in Nat
         /\ out' = out \/ (Len(out') = Len(out) + 1 /\ out'[Len(out')] = m)
         /\ \A i \in 1..Len(out) : out'[i] = out[i]
  BY DEF Send

LEMMA WrittenPieces ==
  ASSUME NEW q \in Units, NEW n \in 1..Len(q)
  PROVE  SubSeq(q, 1, n) \in Units /\ SubSeq(q, n + 1, Len(q)) \in Units
  BY DEF Units

\* The conversion keeps the length.
LEMMA TextTyped ==
  ASSUME NEW s \in Stream, NEW b \in Units
  PROVE  AsText(s, b) \in Units /\ Len(AsText(s, b)) = Len(b)
  BY DEF AsText, Units, Replacement

\* The messages of the client are messages.
LEMMA ResultsTyped ==
  /\ Result(1, "failed") \in Message /\ Result(1, "timeout") \in Message
  /\ Outcome \in Message /\ Result(Outcome.code, "timeout") \in Message
  BY DEF Result, Message, Outcome

LEMMA TypesInvariant == Spec => []Types
<1>1. Init => Types
  BY DEF Init, Types, Units
<1>2. Types /\ [Next]_vars => Types'
  <2> SUFFICES ASSUME Types, [Next]_vars PROVE Types'
    OBVIOUS
  <2> USE DEF Types
  <2>1. ASSUME NEW s \in Stream, Writes(s) PROVE Types'
    <3>1. wrote'[s] \in Nat /\ wrote' \in [Stream -> Nat] /\ pipe' = [pipe EXCEPT ![s] = Append(@, wrote'[s])]
      BY <2>1 DEF Writes
    <3>2. pipe' \in [Stream -> Units]
      BY <3>1 DEF Units
    <3> QED
      BY <2>1, <3>1, <3>2 DEF Writes, pumps
  <2>2. ASSUME NEW s \in Stream, NEW n \in 1..Capacity, PumpReads(s, n) PROVE Types'
    <3>1. pipe[s] \in Units /\ n \in 1..Len(pipe[s])
      BY <2>2 DEF PumpReads
    <3>2. SubSeq(pipe[s], 1, n) \in Units /\ SubSeq(pipe[s], n + 1, Len(pipe[s])) \in Units
      BY <3>1, WrittenPieces
    <3> QED
      BY <2>2, <3>2 DEF PumpReads
  <2>3. ASSUME NEW s \in Stream, PumpSends(s) PROVE Types'
    <3>1. Output(s, AsText(s, buf[s])) \in Message
      BY TextTyped DEF Output, Message
    <3>2. out' \in Seq(Message)
      BY <2>3, <3>1, SendTyped DEF PumpSends
    <3> QED
      BY <2>3, <3>2 DEF PumpSends, pipes, Units
  <2>4. ASSUME NEW s \in Stream, PumpEnds(s) PROVE Types'
    BY <2>4 DEF PumpEnds, pipes
  <2>5. CASE Report \/ StartFails \/ \E installed \in SUBSET Installable : Receive(installed)
    <3>1. UNCHANGED <<pipe, buf, wrote, pump>>
      BY <2>5 DEF Report, StartFails, Receive, pipes, pumps
    <3>2. out' = out \/ \E m \in Message : Send(m)
      BY <2>5, ResultsTyped DEF Report, StartFails, Receive
    <3>3. out' \in Seq(Message)
      BY <3>2, SendTyped
    <3> QED
      BY <3>1, <3>3
  <2>6. CASE \/ Start \/ SelectExit \/ SelectDone \/ KillProcessTree \/ Awaited
             \/ WatcherKills \/ WaitReaps \/ WaitCloses
             \/ \E k \in Kin : Forks(k) \/ KinExits(k)
             \/ \E how \in {"succeeded", "failed"} : Exits(how)
             \/ \E reason \in {"deadline", "cancelled"} : ContextEnds(reason)
             \/ Disconnects \/ UNCHANGED vars
    <3>1. UNCHANGED <<pipe, buf, wrote, pump, out>>
      BY <2>6 DEF Start, SelectExit, SelectDone, KillProcessTree, Awaited, WatcherKills, WaitReaps,
                  WaitCloses, Forks, KinExits, Exits, ContextEnds, Disconnects, vars, pipes, pumps
    <3> QED
      BY <3>1
  <2> QED
    BY <2>1, <2>2, <2>3, <2>4, <2>5, <2>6 DEF Next, Client, Machine
<1> QED
  BY <1>1, <1>2, PTL DEF Spec

-----------------------------------------------------------------------------
(* The result comes last.                                                  *)

\* Nothing is being sent, and nothing will be.
Silent == \A s \in Stream : pump[s] = "done" \/ (pump[s] = "reading" /\ root = "none")
Reported == \E i \in 1..Len(out) : IsResult(out[i])

LastInv ==
  /\ main \in {"received", "starting"} => root = "none" /\ \A s \in Stream : pump[s] = "reading"
  /\ main = "over" => Silent
  /\ Reported => main = "over"
  /\ ResultIsLast

\* A message sent when there was no result: it may be the result.
LEMMA FirstResult ==
  ASSUME Types, ~Reported, NEW m \in Message, Send(m)
  PROVE  ResultIsLast' /\ (Reported' => IsResult(m))
<1>1. /\ Len(out) \in Nat /\ out' \in Seq(Message)
      /\ out' = out \/ (Len(out') = Len(out) + 1 /\ out'[Len(out')] = m)
      /\ \A i \in 1..Len(out) : out'[i] = out[i]
  BY SendTyped DEF Types
<1>2. \A i \in 1..Len(out') : IsResult(out'[i]) => i = Len(out') /\ IsResult(m)
  <2> SUFFICES ASSUME NEW i \in 1..Len(out'), IsResult(out'[i]) PROVE i = Len(out') /\ IsResult(m)
    OBVIOUS
  <2>1. i \notin 1..Len(out)
    BY <1>1 DEF Reported
  <2>2. Len(out') = Len(out) + 1 /\ out'[Len(out')] = m
    BY <2>1, <1>1
  <2>3. i = Len(out')
    BY <2>1, <2>2, <1>1
  <2> QED
    BY <2>2, <2>3
<1> QED
  BY <1>2 DEF ResultIsLast, Reported, IsResult

\* The result comes last, and comes once, however the goroutines, the kills and the end
\* of the process interleave (executor.go:351).
THEOREM ResultComesLast == Spec => []ResultIsLast
<1>1. Init => LastInv
  BY DEF Init, LastInv, Reported, ResultIsLast
<1>2. Types /\ LastInv /\ [Next]_vars => LastInv'
  <2> SUFFICES ASSUME Types, LastInv, [Next]_vars PROVE LastInv'
    OBVIOUS
  <2>0. main # "over" => ~Reported
    BY DEF LastInv
  <2>1. CASE \E installed \in SUBSET Installable : Receive(installed)
    <3>1. main = "received" /\ UNCHANGED <<root, pump>> /\ main' \in {"starting", "over"}
      BY <2>1 DEF Receive, machine, pumps
    <3>2. out' = out \/ (main' = "over" /\ Send(Result(1, "failed")))
      BY <2>1 DEF Receive
    <3>3. ResultIsLast' /\ (Reported' => main' = "over")
      BY <2>0, <3>1, <3>2, ResultsTyped, FirstResult DEF LastInv, Reported, ResultIsLast
    <3> QED
      BY <3>1, <3>3 DEF LastInv, Silent
  <2>2. CASE StartFails
    <3>1. main = "starting" /\ UNCHANGED <<root, pump>> /\ main' = "over"
      BY <2>2 DEF StartFails, machine, pumps
    <3>2. \E m \in Message : Send(m)
      BY <2>2, ResultsTyped DEF StartFails
    <3>3. ResultIsLast'
      BY <2>0, <3>1, <3>2, FirstResult
    <3> QED
      BY <3>1, <3>3 DEF LastInv, Silent
  <2>3. CASE Report
    <3>1. main = "joining" /\ UNCHANGED <<root, pump>> /\ main' = "over" /\ Joined
      BY <2>3 DEF Report, Goto, machine, pumps
    <3>2. \E m \in Message : Send(m)
      BY <2>3, ResultsTyped DEF Report
    <3>3. ResultIsLast'
      BY <2>0, <3>1, <3>2, FirstResult
    <3> QED
      BY <3>1, <3>3 DEF LastInv, Silent, Joined
  <2>4. ASSUME NEW s \in Stream, PumpSends(s) PROVE LastInv'
    <3>1. pump[s] = "sending" /\ main' = main
      BY <2>4 DEF PumpSends, caller
    <3>2. main \notin {"received", "starting", "over"}
      BY <3>1 DEF LastInv, Silent
    <3>3. Output(s, AsText(s, buf[s])) \in Message /\ ~IsResult(Output(s, AsText(s, buf[s])))
      BY TextTyped DEF Output, Message, IsResult, Types
    <3>4. ResultIsLast' /\ ~Reported'
      BY <2>4, <2>0, <3>2, <3>3, FirstResult DEF PumpSends
    <3> QED
      BY <3>1, <3>2, <3>4 DEF LastInv
  <2>5. ASSUME NEW s \in Stream, PumpEnds(s) \/ \E n \in 1..Capacity : PumpReads(s, n) PROVE LastInv'
    <3>1. root # "none" /\ main # "starting" /\ pump[s] = "reading" /\ UNCHANGED <<main, out>>
      BY <2>5 DEF PumpEnds, PumpReads, Started, caller
    <3>2. main \notin {"received", "starting", "over"}
      BY <3>1 DEF LastInv, Silent
    <3> QED
      BY <2>0, <3>1, <3>2 DEF LastInv, Reported, ResultIsLast
  <2>6. CASE \/ Start \/ SelectExit \/ SelectDone \/ KillProcessTree \/ Awaited
    <3>1. main # "over" /\ main' \notin {"received", "starting", "over"} /\ out' = out
      BY <2>6 DEF Start, SelectExit, SelectDone, KillProcessTree, Awaited, Goto
    <3> QED
      BY <2>0, <3>1 DEF LastInv, Reported, ResultIsLast
  <2>7. CASE \/ WatcherKills \/ WaitReaps \/ WaitCloses \/ \E s \in Stream : Writes(s)
             \/ \E k \in Kin : Forks(k) \/ KinExits(k)
             \/ \E how \in {"succeeded", "failed"} : Exits(how)
             \/ \E reason \in {"deadline", "cancelled"} : ContextEnds(reason)
             \/ Disconnects \/ UNCHANGED vars
    <3>1. UNCHANGED <<pump, out, main>>
      BY <2>7 DEF WatcherKills, WaitReaps, WaitCloses, Writes, Forks, KinExits, Exits, ContextEnds,
                  Disconnects, vars, pumps, caller
    <3>2. root = "none" => root' = "none"
      BY <2>7 DEF WatcherKills, WaitReaps, WaitCloses, Writes, Forks, KinExits, Exits, ContextEnds,
                  Disconnects, vars, machine, KillRoot, Started
    <3> QED
      BY <3>1, <3>2 DEF LastInv, Silent, Reported, ResultIsLast
  <2> QED
    BY <2>1, <2>2, <2>3, <2>4, <2>5, <2>6, <2>7 DEF Next, Client, Machine
<1>3. LastInv => ResultIsLast
  BY DEF LastInv
<1> QED
  BY <1>1, <1>2, <1>3, TypesInvariant, PTL DEF Spec

-----------------------------------------------------------------------------
(* A success is one.                                                       *)

Succeeded == \E i \in 1..Len(out) : IsSuccess(out[i])

\* What is known of the process, of what waits for it and of its watcher, once a
\* success has been reported and before.
SuccessInv ==
  /\ root \in {"none", "running", "zombie", "reaped"} /\ waiter \in {"waiting", "reaped", "done"}
  /\ root \in {"zombie", "reaped"} => status \in {"succeeded", "failed", "killed"}
  /\ waiter # "waiting" => root = "reaped"
  /\ waiter = "done" => watcher # "armed"
  /\ main \in {"received", "starting"} => root = "none"
  /\ main = "joining" => waiter = "done"
  /\ Succeeded => waiter = "done" /\ status = "succeeded" /\ ~hit

LEMMA NoNewSuccess ==
  ASSUME Types, NEW m \in Message, Send(m), ~IsSuccess(m)
  PROVE  Succeeded' => Succeeded
<1>1. /\ Len(out) \in Nat /\ out' \in Seq(Message)
      /\ out' = out \/ (Len(out') = Len(out) + 1 /\ out'[Len(out')] = m)
      /\ \A i \in 1..Len(out) : out'[i] = out[i]
  BY SendTyped DEF Types
<1> SUFFICES ASSUME NEW i \in 1..Len(out'), IsSuccess(out'[i]) PROVE Succeeded
  BY DEF Succeeded, IsSuccess, IsResult
<1>2. CASE i \in 1..Len(out)
  BY <1>1, <1>2 DEF Succeeded
<1>3. CASE i \notin 1..Len(out)
  <2>1. i = Len(out') /\ out'[i] = m
    BY <1>1, <1>3
  <2> QED
    BY <2>1
<1> QED
  BY <1>2, <1>3

\* A result that reports success is one of a process that exited by itself, with
\* success, and that no kill of the watcher had found (executor.go:355-369).
THEOREM SuccessIsTruthful == Spec => []SuccessIsReal
<1>1. Init => SuccessInv
  BY DEF Init, SuccessInv, Succeeded
<1>2. Types /\ SuccessInv /\ [Next]_vars => SuccessInv'
  <2> SUFFICES ASSUME Types, SuccessInv, [Next]_vars PROVE SuccessInv'
    OBVIOUS
  <2>1. CASE (\E installed \in SUBSET Installable : Receive(installed)) \/ StartFails
    <3>1. /\ UNCHANGED <<root, status, waiter, watcher, hit>> /\ main' # "joining"
          /\ main \in {"received", "starting"}
      BY <2>1 DEF Receive, StartFails, machine, exec
    <3>2. out' = out \/ Send(Result(1, "failed")) \/ Send(Result(1, "timeout"))
      BY <2>1 DEF Receive, StartFails
    <3>3. ~IsSuccess(Result(1, "failed")) /\ ~IsSuccess(Result(1, "timeout"))
      BY DEF Result, IsSuccess
    <3>4. Succeeded' => Succeeded
      BY <3>2, <3>3, ResultsTyped, NoNewSuccess DEF Succeeded, IsSuccess, IsResult
    <3> QED
      BY <3>1, <3>4 DEF SuccessInv
  <2>2. ASSUME NEW s \in Stream, PumpSends(s) PROVE SuccessInv'
    <3>1. UNCHANGED <<root, status, waiter, watcher, hit, main>> /\ Send(Output(s, AsText(s, buf[s])))
      BY <2>2 DEF PumpSends, machine, exec, caller
    <3>2. Output(s, AsText(s, buf[s])) \in Message /\ ~IsSuccess(Output(s, AsText(s, buf[s])))
      BY TextTyped DEF Output, Message, IsSuccess, IsResult, Types
    <3>3. Succeeded' => Succeeded
      BY <3>1, <3>2, NoNewSuccess
    <3> QED
      BY <3>1, <3>3 DEF SuccessInv
  <2>3. CASE Report
    <3>1. UNCHANGED <<root, status, waiter, watcher, hit>> /\ main = "joining" /\ main' = "over"
      BY <2>3 DEF Report, Goto, machine, exec
    <3>2. waiter = "done" /\ status \in {"succeeded", "failed", "killed"}
      BY <3>1 DEF SuccessInv
    <3>3. CASE status = "succeeded" /\ ~hit
      BY <3>1, <3>2, <3>3 DEF SuccessInv
    <3>4. CASE ~(status = "succeeded" /\ ~hit)
      <4>0. Outcome.code # 0
        <5>1. CASE why = "ctx"
          BY <5>1 DEF Outcome, Result
        <5>2. CASE status = "failed" \/ status = "killed"
          BY <5>2 DEF Outcome, Result
        <5>3. CASE why # "ctx" /\ status = "succeeded" /\ hit
          BY <5>3 DEF Outcome, Result
        <5> QED
          BY <5>1, <5>2, <5>3, <3>2, <3>4
      <4>1. ~IsSuccess(Outcome)
        BY <4>0 DEF IsSuccess
      <4>2. ~IsSuccess(Result(Outcome.code, "timeout"))
        BY DEF Result, IsSuccess
      <4>3. Succeeded' => Succeeded
        BY <2>3, <4>1, <4>2, ResultsTyped, NoNewSuccess DEF Report
      <4> QED
        BY <3>1, <4>3 DEF SuccessInv
    <3> QED
      BY <3>3, <3>4
  <2>4. CASE \/ Start \/ SelectExit \/ SelectDone \/ Awaited
             \/ (\E s \in Stream : PumpEnds(s) \/ \E n \in 1..Capacity : PumpReads(s, n))
             \/ (\E s \in Stream : Writes(s)) \/ (\E k \in Kin : Forks(k) \/ KinExits(k))
             \/ (\E reason \in {"deadline", "cancelled"} : ContextEnds(reason))
             \/ Disconnects \/ UNCHANGED vars
    <3>1. UNCHANGED <<status, waiter, watcher, hit, out>>
      BY <2>4 DEF Start, SelectExit, SelectDone, Awaited, PumpEnds, PumpReads, Writes, Forks, KinExits,
                  ContextEnds, Disconnects, vars, machine, exec
    <3>2. /\ root' = root \/ Start
          /\ main' = "joining" => main = "joining" \/ waiter = "done"
          /\ main' \in {"received", "starting"} => main' = main
      BY <2>4 DEF Start, SelectExit, SelectDone, Awaited, PumpEnds, PumpReads, Writes, Forks, KinExits,
                  ContextEnds, Disconnects, vars, machine, caller, Goto
    <3>3. Succeeded' <=> Succeeded
      BY <3>1 DEF Succeeded
    <3>4. CASE Start
      <4>1. waiter = "waiting" /\ root' = "running" /\ main' = "selecting"
        BY <3>4 DEF Start, SuccessInv
      <4> QED
        BY <3>1, <3>3, <4>1 DEF SuccessInv
    <3>5. CASE root' = root
      BY <3>1, <3>2, <3>3, <3>5 DEF SuccessInv
    <3> QED
      BY <3>2, <3>4, <3>5
  <2>5. CASE WatcherKills \/ KillProcessTree \/ WaitReaps \/ WaitCloses
             \/ \E how \in {"succeeded", "failed"} : Exits(how)
    <3>1. /\ out' = out
          /\ main' = "joining" => main = "joining"
          /\ main' \in {"received", "starting"} => main' = main
      BY <2>5 DEF WatcherKills, KillProcessTree, WaitReaps, WaitCloses, Exits, caller, Goto
    <3>2. Succeeded' <=> Succeeded
      BY <3>1 DEF Succeeded
    <3>3. CASE WatcherKills \/ KillProcessTree
      <4>1. UNCHANGED waiter /\ (watcher' = "armed" => watcher = "armed")
        BY <3>3 DEF WatcherKills, KillProcessTree, exec
      <4>2. KillRoot
        BY <3>3 DEF WatcherKills, KillProcessTree
      <4>3. waiter = "done" => UNCHANGED hit
        BY <3>3, Zenon DEF WatcherKills, KillProcessTree, SuccessInv, exec
      <4>4. (root = "running" /\ root' = "zombie" /\ status' = "killed") \/ UNCHANGED <<root, status>>
        BY <4>2 DEF KillRoot
      <4> HIDE DEF KillRoot
      <4> QED
        BY <3>1, <3>2, <4>1, <4>3, <4>4 DEF SuccessInv
    <3>4. CASE WaitReaps \/ WaitCloses
      BY <3>1, <3>2, <3>4 DEF SuccessInv, WaitReaps, WaitCloses, machine
    <3>5. CASE \E how \in {"succeeded", "failed"} : Exits(how)
      BY <3>1, <3>2, <3>5 DEF SuccessInv, Exits, exec
    <3> QED
      BY <2>5, <3>3, <3>4, <3>5
  <2> QED
    BY <2>1, <2>2, <2>3, <2>4, <2>5 DEF Next, Client, Machine
<1>3. SuccessInv => SuccessIsReal
  BY DEF SuccessInv, SuccessIsReal, Succeeded, IsSuccess, IsResult
<1> QED
  BY <1>1, <1>2, <1>3, TypesInvariant, PTL DEF Spec

-----------------------------------------------------------------------------
(* The output that is sent is the beginning of what was written.           *)

LEMMA DataTyped == \A m \in Message : \A s \in Stream : Data(m, s) \in Units
<1> SUFFICES ASSUME NEW m \in Message, NEW s \in Stream PROVE Data(m, s) \in Units
  OBVIOUS
<1>1. m.type = "stream" => m.data \in Units
  BY DEF Message
<1> QED
  BY <1>1 DEF Data, Units

LEMMA SentTyped ==
  ASSUME Types, NEW s \in Stream
  PROVE  Sent(s) \in Units
<1> DEFINE parts == [i \in 1..Len(out) |-> Data(out[i], s)]
<1>1. parts \in Seq(Units)
  BY DataTyped DEF Types
<1> HIDE DEF parts
<1>2. FlattenSeq(parts) \in Seq(Nat)
  BY <1>1, FlattenType DEF Units
<1> QED
  BY <1>2 DEF Sent, SentBy, parts, Units

\* A message adds its data to what was sent, if any, of its stream.
LEMMA SentGrows ==
  ASSUME Types, NEW s \in Stream, NEW m \in Message, out' = Append(out, m)
  PROVE  Sent(s)' = Sent(s) \o Data(m, s)
<1> DEFINE parts == [i \in 1..Len(out) |-> Data(out[i], s)]
           new == [i \in 1..Len(out') |-> Data(out'[i], s)]
<1>1. out \in Seq(Message)
  BY DEF Types
<1>2. parts \in Seq(Units) /\ Data(m, s) \in Units
  BY <1>1, DataTyped
<1>3. new = Append(parts, Data(m, s))
  <2>1. new \in Seq(Units)
    BY <1>1, DataTyped
  <2>2. Len(new) = Len(out) + 1 /\ Len(parts) = Len(out) /\ Len(out) \in Nat
    BY <1>1
  <2>3. new[Len(out) + 1] = Data(m, s) /\ \A i \in 1..Len(out) : new[i] = parts[i]
    BY <1>1
  <2> HIDE DEF new, parts
  <2>4. Append(parts, Data(m, s)) \in Seq(Units)
    BY <1>2
  <2>5. Len(Append(parts, Data(m, s))) = Len(new)
    BY <1>2, <2>2
  <2>6. \A i \in 1..Len(new) : new[i] = Append(parts, Data(m, s))[i]
    BY <1>2, <2>2, <2>3
  <2> QED
    BY <2>1, <2>4, <2>5, <2>6
<1> HIDE DEF parts, new
<1>4. FlattenSeq(new) = FlattenSeq(parts) \o Data(m, s)
  BY <1>2, <1>3, FlattenAppend DEF Units
<1> QED
  BY <1>4 DEF Sent, SentBy, parts, new

\* One more message, one more end.
LEMMA EndsGrow ==
  ASSUME Types, NEW s \in Stream, NEW m \in Message, out' = Append(out, m)
  PROVE  Ends(s)' = Ends(s) \cup {Len(Sent(s)')}
<1>1. /\ Len(out) \in Nat /\ Len(out') = Len(out) + 1
      /\ \A i \in 1..Len(out) : out'[i] = out[i]
  BY DEF Types
<1> DEFINE By(k) == FlattenSeq([i \in 1..k |-> Data(out'[i], s)])
<1>2. ASSUME NEW k \in 1..Len(out) PROVE By(k) = SentBy(s, k)
  <2>1. \A i \in 1..k : Data(out'[i], s) = Data(out[i], s)
    BY <1>1
  <2>2. [i \in 1..k |-> Data(out'[i], s)] = [i \in 1..k |-> Data(out[i], s)]
    BY <2>1
  <2> QED
    BY <2>2 DEF SentBy
<1>3. Sent(s)' = By(Len(out'))
  BY DEF Sent, SentBy
<1>4. 1..Len(out') = 1..Len(out) \cup {Len(out')}
  BY <1>1
<1>5. Ends(s)' = {Len(By(k)) : k \in 1..Len(out')}
  BY DEF Ends, SentBy
<1> HIDE DEF By
<1>6. Ends(s)' = {Len(By(k)) : k \in 1..Len(out)} \cup {Len(By(Len(out')))}
  BY <1>4, <1>5
<1> QED
  BY <1>2, <1>3, <1>6 DEF Ends

LEMMA Concat ==
  ASSUME NEW p \in Units, NEW q \in Units
  PROVE  /\ p \o q \in Units /\ Len(p \o q) = Len(p) + Len(q)
         /\ \A i \in 1..Len(p) : (p \o q)[i] = p[i]
         /\ \A j \in 1..Len(q) : (p \o q)[Len(p) + j] = q[j]
<1>1. p \o q \in Units /\ Len(p \o q) = Len(p) + Len(q) /\ Len(p) \in Nat /\ Len(q) \in Nat
  BY DEF Units
<1>2. \A i \in 1..Len(p) : (p \o q)[i] = p[i]
  BY DEF Units
<1>3. ASSUME NEW j \in 1..Len(q) PROVE (p \o q)[Len(p) + j] = q[j]
  <2>1. Len(p) + j \in (Len(p) + 1)..(Len(p) + Len(q)) /\ (Len(p) + j) - Len(p) = j
    BY <1>1
  <2> QED
    BY <1>1, <2>1 DEF Units
<1> QED
  BY <1>1, <1>2, <1>3

\* q holds the numbers that follow n.
From(n, q) == \A i \in 1..Len(q) : q[i] = n + i

\* What q, cut at the given ends, should hold.
Uncut(s, i, ends) == \E c \in Spelled[s] : /\ i \in c[1]..c[2]
                                           /\ \A e \in ends : ~(c[1] <= e /\ e < c[2])
Placed(s, q, ends) == \A i \in 1..Len(q) : q[i] = IF Uncut(s, i, ends) THEN i ELSE Replacement
CutAt(q, ends) == ends \subseteq 0..Len(q) /\ (Len(q) # 0 => Len(q) \in ends)

\* A message puts its bytes in their place, and leaves the others in theirs.
LEMMA PlacedGrows ==
  ASSUME NEW s \in Stream, NEW a \in Units, NEW b \in Units, NEW ends,
         CutAt(a, ends), Placed(s, a, ends), From(Len(a), b)
  PROVE  LET q == a \o AsText(s, b)
             cuts == ends \cup {Len(q)}
         IN  /\ q \in Units /\ Len(q) = Len(a) + Len(b)
             /\ CutAt(q, cuts) /\ Placed(s, q, cuts)
<1> DEFINE t == AsText(s, b)
           q == a \o t
           n == Len(a)
           m == Len(b)
           cuts == ends \cup {n + m}
<1>1. n \in Nat /\ m \in Nat /\ t \in Units /\ Len(t) = m
  BY TextTyped DEF Units
<1>2. /\ q \in Units /\ Len(q) = n + m
      /\ \A i \in 1..n : q[i] = a[i]
      /\ \A j \in 1..m : q[n + j] = t[j]
  <2> HIDE DEF t
  <2>1. /\ a \o t \in Units /\ Len(a \o t) = Len(a) + Len(t)
        /\ \A i \in 1..Len(a) : (a \o t)[i] = a[i]
        /\ \A j \in 1..Len(t) : (a \o t)[Len(a) + j] = t[j]
    BY <1>1, Concat
  <2> QED
    BY <1>1, <2>1
<1>3. \A j \in 1..m : b[j] = n + j
  BY DEF From
<1>4. \A j \in 1..m : t[j] = IF \E c \in Spelled[s] : /\ n + j \in c[1]..c[2]
                                                  /\ n + 1 <= c[1] /\ c[2] <= n + m
                             THEN n + j ELSE Replacement
  <2> SUFFICES ASSUME NEW j \in 1..m
               PROVE  t[j] = IF \E c \in Spelled[s] : /\ n + j \in c[1]..c[2]
                                                      /\ n + 1 <= c[1] /\ c[2] <= n + m
                             THEN n + j ELSE Replacement
    OBVIOUS
  <2>1. 1 \in 1..m /\ m \in 1..m /\ DOMAIN b = 1..m
    BY <1>1 DEF Units
  <2>2. b[j] = n + j /\ b[1] = n + 1 /\ b[Len(b)] = n + m
    BY <1>3, <2>1
  <2>3. t[j] = IF \E c \in Spelled[s] : b[j] \in c[1]..c[2] /\ b[1] <= c[1] /\ c[2] <= b[Len(b)]
               THEN b[j] ELSE Replacement
    BY <2>1 DEF AsText
  <2> HIDE DEF t, n, m
  <2> QED
    BY <2>2, <2>3
<1>5. \A c \in Spelled[s] : c[1] \in Nat \ {0} /\ c[2] \in Nat \ {0}
  BY ProcessAssumption
<1>6. ends \subseteq 0..n /\ (n # 0 => n \in ends)
  BY DEF CutAt
<1>7. \A i \in 1..n : a[i] = IF Uncut(s, i, ends) THEN i ELSE Replacement
  BY DEF Placed
<1> HIDE DEF t, q, n, m
<1>8. ASSUME NEW i \in 1..n PROVE Uncut(s, i, ends) <=> Uncut(s, i, cuts)
  <2>1. ASSUME NEW c \in Spelled[s], i \in c[1]..c[2], \A e \in ends : ~(c[1] <= e /\ e < c[2])
        PROVE  \A e \in cuts : ~(c[1] <= e /\ e < c[2])
    <3>1. n \in ends
      BY <1>1, <1>6
    <3>2. c[2] <= n
      BY <1>1, <1>5, <2>1, <3>1
    <3>3. ~(c[1] <= n + m /\ n + m < c[2])
      BY <1>1, <1>5, <3>2
    <3> QED
      BY <2>1, <3>3
  <2> QED
    BY <2>1 DEF Uncut
<1>9. ASSUME NEW j \in 1..m
      PROVE  Uncut(s, n + j, cuts)
               <=> \E c \in Spelled[s] : /\ n + j \in c[1]..c[2]
                                         /\ n + 1 <= c[1] /\ c[2] <= n + m
  <2>1. ASSUME NEW c \in Spelled[s], n + j \in c[1]..c[2]
        PROVE  (\A e \in cuts : ~(c[1] <= e /\ e < c[2])) <=> n + 1 <= c[1] /\ c[2] <= n + m
    <3>1. CASE n + 1 <= c[1] /\ c[2] <= n + m
      BY <1>1, <1>5, <1>6, <3>1
    <3>2. CASE ~(n + 1 <= c[1])
      <4>1. n # 0 /\ c[1] <= n /\ n < c[2]
        BY <1>1, <1>5, <2>1, <3>2
      <4> QED
        BY <1>6, <3>2, <4>1
    <3>3. CASE ~(c[2] <= n + m)
      <4>1. c[1] <= n + m /\ n + m < c[2]
        BY <1>1, <1>5, <2>1, <3>3
      <4> QED
        BY <3>3, <4>1
    <3> QED
      BY <3>1, <3>2, <3>3
  <2> QED
    BY <2>1 DEF Uncut
<1>10. Placed(s, q, cuts)
  <2> SUFFICES ASSUME NEW i \in 1..Len(q) PROVE q[i] = IF Uncut(s, i, cuts) THEN i ELSE Replacement
    BY DEF Placed
  <2> HIDE DEF cuts
  <2>1. CASE i \in 1..n
    BY <1>2, <1>7, <1>8, <2>1
  <2>2. CASE i \notin 1..n
    <3>1. i - n \in 1..m /\ i = n + (i - n)
      BY <1>1, <1>2, <2>2
    <3> QED
      BY <1>2, <1>4, <1>9, <3>1
  <2> QED
    BY <2>1, <2>2
<1>11. CutAt(q, cuts)
  BY <1>1, <1>2, <1>6 DEF CutAt
<1> QED
  BY <1>2, <1>10, <1>11 DEF q, n, m, t

SentInv(s) == Placed(s, Sent(s), Ends(s)) /\ CutAt(Sent(s), Ends(s))

LEMMA SentStays == ASSUME UNCHANGED out, NEW s PROVE UNCHANGED <<Sent(s), SentInv(s)>>
  BY DEF Sent, SentBy, Ends, SentInv, Placed, CutAt, Uncut

\* A message with the bytes that follow.
LEMMA SentFollows ==
  ASSUME Types, NEW s \in Stream, SentInv(s), NEW m \in Message, out' = Append(out, m),
         NEW b \in Units, Data(m, s) = AsText(s, b), From(Len(Sent(s)), b)
  PROVE  SentInv(s)' /\ Sent(s)' = Sent(s) \o AsText(s, b) /\ Len(Sent(s)') = Len(Sent(s)) + Len(b)
<1> DEFINE a == Sent(s)
           ends == Ends(s)
           q == a \o AsText(s, b)
<1>1. a \in Units /\ CutAt(a, ends) /\ Placed(s, a, ends) /\ From(Len(a), b)
  BY SentTyped DEF SentInv
<1>2. Sent(s)' = q /\ Ends(s)' = ends \cup {Len(q)}
  BY SentGrows, EndsGrow
<1> HIDE DEF a, ends
<1>3. Len(q) = Len(a) + Len(b) /\ CutAt(q, ends \cup {Len(q)}) /\ Placed(s, q, ends \cup {Len(q)})
  BY <1>1, PlacedGrows
<1> HIDE DEF q
<1>4. CutAt(Sent(s)', Ends(s)') /\ Placed(s, Sent(s)', Ends(s)')
  BY <1>2, <1>3
<1>5. SentInv(s)'
  BY <1>4 DEF SentInv, CutAt, Placed, Uncut
<1> QED
  BY <1>2, <1>3, <1>5 DEF a, q

LEMMA OtherDataStays ==
  ASSUME Types, NEW s \in Stream, SentInv(s), NEW m \in Message, Send(m), Data(m, s) = <<>>
  PROVE  UNCHANGED Sent(s) /\ SentInv(s)'
<1>1. CASE out' = out
  BY <1>1, SentStays
<1>2. CASE out' = Append(out, m)
  <2>1. <<>> \in Units /\ AsText(s, <<>>) = <<>> /\ From(Len(Sent(s)), <<>>)
    BY DEF Units, AsText, From
  <2>2. SentInv(s)' /\ Sent(s)' = Sent(s) \o <<>>
    BY <1>2, <2>1, SentFollows
  <2> QED
    BY <2>2, SentTyped DEF Units
<1> QED
  BY <1>1, <1>2 DEF Send

PrefixInv ==
  \A s \in Stream :
    /\ SentInv(s)
    /\ pump[s] = "reading" => buf[s] = <<>>
    /\ pump[s] # "done" =>
         /\ From(Len(Sent(s)), buf[s])
         /\ From(Len(Sent(s)) + Len(buf[s]), pipe[s])
         /\ wrote[s] = Len(Sent(s)) + Len(buf[s]) + Len(pipe[s])

LEMMA FromSplit ==
  ASSUME NEW q \in Units, NEW n \in Nat, From(n, q), NEW k \in 1..Len(q)
  PROVE  LET p == SubSeq(q, 1, k)
             r == SubSeq(q, k + 1, Len(q)) IN
         From(n, p) /\ From(n + Len(p), r) /\ Len(q) = Len(p) + Len(r)
<1>1. Len(q) \in Nat
  BY DEF Units
<1>2. Len(SubSeq(q, 1, k)) = k /\ \A i \in 1..k : SubSeq(q, 1, k)[i] = q[i]
  BY <1>1 DEF Units
<1>3. /\ Len(SubSeq(q, k + 1, Len(q))) = Len(q) - k
      /\ \A i \in 1..(Len(q) - k) : SubSeq(q, k + 1, Len(q))[i] = q[k + i]
  BY <1>1 DEF Units
<1> QED
  BY <1>1, <1>2, <1>3 DEF From

LEMMA PrefixStep ==
  ASSUME Types, PrefixInv, [Next]_vars
  PROVE  PrefixInv'
<1> SUFFICES ASSUME NEW t \in Stream
             PROVE  /\ SentInv(t)'
                    /\ (pump[t] = "reading" => buf[t] = <<>>)'
                    /\ (pump[t] # "done" =>
                          /\ From(Len(Sent(t)), buf[t])
                          /\ From(Len(Sent(t)) + Len(buf[t]), pipe[t])
                          /\ wrote[t] = Len(Sent(t)) + Len(buf[t]) + Len(pipe[t]))'
  BY DEF PrefixInv
<1>0. Sent(t) \in Units /\ buf[t] \in Units /\ pipe[t] \in Units /\ wrote[t] \in Nat
      /\ Len(Sent(t)) \in Nat /\ Len(buf[t]) \in Nat /\ Len(pipe[t]) \in Nat
  BY SentTyped DEF Types, Units
<1> DEFINE a == Sent(t)
           InOrder == /\ SentInv(t)
                      /\ pump[t] = "reading" => buf[t] = <<>>
                      /\ pump[t] # "done" =>
                           /\ From(Len(a), buf[t]) /\ From(Len(a) + Len(buf[t]), pipe[t])
                           /\ wrote[t] = Len(a) + Len(buf[t]) + Len(pipe[t])
<1>1. InOrder
  BY DEF PrefixInv
<1>b. a \in Units /\ Len(a) \in Nat
  BY <1>0
<1>2. CASE UNCHANGED <<out, buf[t], pipe[t], wrote[t], pump[t]>>
  BY <1>1, <1>2, SentStays
<1>3. CASE UNCHANGED <<buf, pipe, wrote, pump>> /\ \E m \in Message : IsResult(m) /\ Send(m)
  <2>1. UNCHANGED Sent(t) /\ SentInv(t)'
    BY <1>1, <1>3, OtherDataStays DEF Data, IsResult
  <2> QED
    BY <1>1, <1>3, <2>1
<1>4. ASSUME NEW s \in Stream, Writes(s) PROVE InOrder'
  <2>1. CASE s # t
    <3>1. UNCHANGED <<out, buf[t], pipe[t], wrote[t], pump[t]>>
      BY <1>4, <2>1 DEF Writes, pumps, Types
    <3> QED
      BY <1>2, <3>1
  <2>2. CASE s = t
    <3>1. /\ UNCHANGED <<out, buf, pump>> /\ wrote'[t] = wrote[t] + 1
          /\ pipe'[t] = Append(pipe[t], wrote[t] + 1)
      BY <1>4, <2>2 DEF Writes, pumps, Types
    <3>2. UNCHANGED a /\ SentInv(t)'
      BY <1>1, <3>1, SentStays
    <3> HIDE DEF a
    <3>3. /\ Len(pipe'[t]) = Len(pipe[t]) + 1 /\ pipe'[t][Len(pipe[t]) + 1] = wrote[t] + 1
          /\ \A i \in 1..Len(pipe[t]) : pipe'[t][i] = pipe[t][i]
      BY <1>0, <3>1 DEF Units
    <3> DEFINE n == Len(a) + Len(buf[t])
               l == Len(pipe[t])
    <3>4. n \in Nat /\ l \in Nat
      BY <1>0, <1>b
    <3>5. pump[t] # "done" => From(n, pipe[t]) /\ wrote[t] = n + l
      BY <1>1
    <3> HIDE DEF n, l
    <3>6. Len(pipe'[t]) = l + 1 /\ pipe'[t][l + 1] = wrote[t] + 1
          /\ \A i \in 1..l : pipe'[t][i] = pipe[t][i]
      BY <3>3 DEF l
    <3>7. pump[t] # "done" => From(n, pipe'[t]) /\ wrote'[t] = n + Len(pipe'[t])
      <4> SUFFICES ASSUME pump[t] # "done" PROVE From(n, pipe'[t]) /\ wrote'[t] = n + Len(pipe'[t])
        OBVIOUS
      <4>1. \A i \in 1..l : pipe[t][i] = n + i
        BY <3>5 DEF From, l
      <4>2. ASSUME NEW i \in 1..(l + 1) PROVE pipe'[t][i] = n + i
        <5>1. CASE i \in 1..l
          BY <3>6, <4>1, <5>1
        <5>2. CASE i = l + 1
          BY <3>4, <3>5, <3>6, <5>2
        <5> QED
          BY <3>4, <5>1, <5>2
      <4>3. From(n, pipe'[t])
        BY <3>6, <4>2 DEF From
      <4>4. wrote'[t] = n + (l + 1)
        BY <3>1, <3>4, <3>5
      <4> QED
        BY <3>6, <4>3, <4>4
    <3> QED
      BY <1>1, <3>1, <3>2, <3>7 DEF n
  <2> QED
    BY <2>1, <2>2
<1>5. ASSUME NEW s \in Stream, NEW n \in 1..Capacity, PumpReads(s, n) PROVE InOrder'
  <2>1. CASE s # t
    <3>1. UNCHANGED <<out, buf[t], pipe[t], wrote[t], pump[t]>>
      BY <1>5, <2>1 DEF PumpReads, Types
    <3> QED
      BY <1>2, <3>1
  <2>2. CASE s = t
    <3>1. /\ UNCHANGED <<out, wrote>> /\ pump[t] = "reading" /\ pump'[t] = "sending"
          /\ n \in 1..Len(pipe[t]) /\ buf'[t] = SubSeq(pipe[t], 1, n)
          /\ pipe'[t] = SubSeq(pipe[t], n + 1, Len(pipe[t]))
      BY <1>5, <2>2 DEF PumpReads, Types
    <3>2. UNCHANGED a /\ SentInv(t)'
      BY <1>1, <3>1, SentStays
    <3> HIDE DEF a
    <3>3. From(Len(a), pipe[t]) /\ wrote[t] = Len(a) + Len(pipe[t])
      <4>1. Len(buf[t]) = 0 /\ Len(a) + Len(buf[t]) = Len(a)
        BY <1>1, <1>b, <3>1
      <4> QED
        BY <1>0, <1>1, <1>b, <3>1, <4>1
    <3>4. From(Len(a), buf'[t]) /\ From(Len(a) + Len(buf'[t]), pipe'[t])
          /\ Len(pipe[t]) = Len(buf'[t]) + Len(pipe'[t])
      BY <1>0, <1>b, <3>1, <3>3, FromSplit
    <3>5. Len(buf'[t]) \in Nat /\ Len(pipe'[t]) \in Nat
      BY <1>0, <3>1 DEF Units
    <3> QED
      <4>1. wrote'[t] = Len(a) + Len(buf'[t]) + Len(pipe'[t])
        <5> DEFINE x == Len(a)
                   y == Len(buf'[t])
                   z == Len(pipe'[t])
        <5>1. x \in Nat /\ y \in Nat /\ z \in Nat
          BY <1>b, <3>5
        <5>2. wrote[t] = x + (y + z) /\ wrote'[t] = wrote[t]
          BY <3>1, <3>3, <3>4
        <5> HIDE DEF x, y, z
        <5>3. wrote'[t] = x + y + z
          BY <5>1, <5>2
        <5> QED
          BY <5>3 DEF x, y, z
      <4> QED
        BY <1>1, <3>1, <3>2, <3>4, <4>1
  <2> QED
    BY <2>1, <2>2
<1>6. ASSUME NEW s \in Stream, PumpSends(s) PROVE InOrder'
  <2>0. Output(s, AsText(s, buf[s])) \in Message /\ UNCHANGED <<pipe, wrote>>
        /\ Send(Output(s, AsText(s, buf[s])))
    BY <1>6, TextTyped DEF Output, Message, Types, PumpSends, pipes
  <2>1. CASE s # t
    <3>1. UNCHANGED <<buf[t], pump[t]>>
      BY <1>6, <2>1 DEF PumpSends, Types
    <3>2. Data(Output(s, AsText(s, buf[s])), t) = <<>>
      BY <2>1 DEF Data, Output
    <3>3. UNCHANGED a /\ SentInv(t)'
      BY <1>1, <2>0, <3>2, OtherDataStays
    <3> QED
      BY <1>1, <2>0, <3>1, <3>3
  <2>2. CASE s = t /\ ~linked
    <3>1. out' = out /\ pump'[t] = "done" /\ buf'[t] = <<>>
      BY <1>6, <2>0, <2>2 DEF PumpSends, Send, Types
    <3>2. UNCHANGED a /\ SentInv(t)'
      BY <1>1, <3>1, SentStays
    <3> QED
      BY <1>1, <3>1, <3>2
  <2>3. CASE s = t /\ linked
    <3>1. /\ pump[t] = "sending" /\ pump'[t] = "reading" /\ buf'[t] = <<>>
          /\ out' = Append(out, Output(t, AsText(t, buf[t])))
      BY <1>6, <2>0, <2>3 DEF PumpSends, Send, Types
    <3>2. Data(Output(t, AsText(t, buf[t])), t) = AsText(t, buf[t])
      BY DEF Data, Output
    <3>3. SentInv(t) /\ From(Len(a), buf[t])
      BY <1>1, <3>1
    <3>4. SentInv(t)' /\ Len(a') = Len(a) + Len(buf[t])
      BY <1>0, <2>0, <2>3, <3>1, <3>2, <3>3, SentFollows
    <3> HIDE DEF a
    <3>5. Len(a) \in Nat
      BY <1>b
    <3>6. From(Len(a'), buf'[t]) /\ Len(buf'[t]) = 0
      BY <3>1 DEF From
    <3>7. Len(a') + Len(buf'[t]) = Len(a) + Len(buf[t])
      BY <1>0, <3>4, <3>5, <3>6
    <3>8. Len(a') + Len(buf'[t]) + Len(pipe[t]) = Len(a) + Len(buf[t]) + Len(pipe[t])
      BY <3>7
    <3> QED
      BY <1>1, <2>0, <3>1, <3>4, <3>6, <3>7, <3>8
  <2> QED
    BY <2>1, <2>2, <2>3
<1>7. ASSUME NEW s \in Stream, PumpEnds(s) PROVE InOrder'
  <2>1. /\ UNCHANGED <<out, buf, pipe, wrote>>
        /\ pump'[t] = pump[t] \/ (pump[t] = "reading" /\ pump'[t] = "done")
    BY <1>7 DEF PumpEnds, pipes, Types
  <2> QED
    BY <1>1, <2>1, SentStays
<1>8. CASE Report \/ StartFails \/ \E installed \in SUBSET Installable : Receive(installed)
  <2>1. UNCHANGED <<buf, pipe, wrote, pump>>
    BY <1>8 DEF Report, StartFails, Receive, pipes, pumps
  <2>2. out' = out \/ \E m \in Message : IsResult(m) /\ Send(m)
    BY <1>8, ResultsTyped DEF Report, StartFails, Receive, IsResult, Result, Outcome
  <2> QED
    BY <1>2, <1>3, <2>1, <2>2
<1>9. CASE \/ Start \/ SelectExit \/ SelectDone \/ KillProcessTree \/ Awaited
           \/ WatcherKills \/ WaitReaps \/ WaitCloses
           \/ \E k \in Kin : Forks(k) \/ KinExits(k)
           \/ \E how \in {"succeeded", "failed"} : Exits(how)
           \/ \E reason \in {"deadline", "cancelled"} : ContextEnds(reason)
           \/ Disconnects \/ UNCHANGED vars
  <2>1. UNCHANGED <<pipe, buf, wrote, pump, out>>
    BY <1>9 DEF Start, SelectExit, SelectDone, KillProcessTree, Awaited, WatcherKills, WaitReaps,
                WaitCloses, Forks, KinExits, Exits, ContextEnds, Disconnects, vars, pipes, pumps
  <2> QED
    BY <1>2, <2>1
<1>10. InOrder'
  BY <1>4, <1>5, <1>6, <1>7, <1>8, <1>9 DEF Next, Client, Machine
<1> QED
  BY <1>10

\* What is sent of a stream is what was first written to it, byte for byte in its order
\* and without a gap, except that the bytes of a character which two reads share, or of
\* none, are replaced (pump); whichever of the kills, the end of the process and of the
\* link come first.
THEOREM OutputComesInOrder == Spec => []OutputInPlace
<1>1. Init => PrefixInv
  <2> SUFFICES ASSUME Init, NEW s \in Stream PROVE PrefixInv
    BY DEF PrefixInv
  <2>1. \A t \in Stream : Sent(t) = <<>> /\ Ends(t) = {}
    BY FlattenEmpty DEF Init, Sent, SentBy, Ends
  <2> QED
    BY <2>1 DEF Init, PrefixInv, From, SentInv, Placed, CutAt
<1>2. Types /\ PrefixInv /\ [Next]_vars => PrefixInv'
  BY PrefixStep
<1>3. PrefixInv => OutputInPlace
  BY DEF PrefixInv, SentInv, Placed, Uncut, Intact, OutputInPlace
<1> QED
  BY <1>1, <1>2, <1>3, TypesInvariant, PTL DEF Spec

-----------------------------------------------------------------------------
(* The time limits                                                         *)

LEMMA LimitFits ==
  ASSUME NEW halves \in Int, halves > 0, Ceil(halves) * Second < Overflow
  PROVE  LET limit == ClientTimeout(Ceil(halves)) IN
         /\ 0 < limit /\ limit <= MaxLimit
         /\ 2 * limit >= halves * Second \/ limit = MaxLimit
         /\ limit < RelayWait(halves) * Second
<1> DEFINE c == Ceil(halves)
           n == c * Second
<1>1. c \in Nat \ {0} /\ 2 * c >= halves
  BY DEF Ceil
<1>2. Second \in Nat \ {0} /\ Overflow \in Nat \ {0} /\ MaxLimit \in Nat \ {0}
  BY CommandAssumption
<1> HIDE DEF c
<1>3. n \in Nat \ {0}
  BY <1>1, <1>2
<1>4. 2 * n >= halves * Second
  <2>1. (2 * c - halves) * Second >= 0
    BY <1>1, <1>2
  <2> QED
    BY <1>1, <1>2, <2>1
<1>5. (c + Grace) * Second = n + Grace * Second /\ Grace * Second > 0
  BY <1>1, <1>2 DEF Grace
<1>6. Wrap(n) = n
  <2> HIDE DEF n
  <2>1. n < Overflow
    BY DEF n, c
  <2> QED
    BY <1>2, <1>3, <2>1 DEF Wrap
<1>7. ClientTimeout(c) = IF n > MaxLimit THEN MaxLimit ELSE n
  BY <1>1, <1>6 DEF ClientTimeout
<1>8. RelayWait(halves) * Second = (c + Grace) * Second
  BY DEF RelayWait, c
<1> HIDE DEF n
<1>9. 0 < ClientTimeout(c) /\ ClientTimeout(c) <= MaxLimit /\ ClientTimeout(c) <= n
      /\ (ClientTimeout(c) = n \/ ClientTimeout(c) = MaxLimit) /\ ClientTimeout(c) \in Nat
  BY <1>2, <1>3, <1>7
<1>10. RelayWait(halves) * Second \in Int /\ n < RelayWait(halves) * Second
  BY <1>2, <1>3, <1>5, <1>8 DEF Grace
<1> QED
  BY <1>2, <1>3, <1>4, <1>9, <1>10 DEF c

LEMMA AskedInvariant == Spec => [](main = "received" => asked \in Requests)
<1>1. Init => asked \in Requests
  BY DEF Init
<1>2. [Next]_vars /\ main' = "received" => main = "received" /\ UNCHANGED asked
  BY DEF Next, Client, Machine, Receive, Start, StartFails, SelectExit, SelectDone, KillProcessTree,
         Awaited, Report, WatcherKills, WaitReaps, WaitCloses, PumpSends, PumpEnds, PumpReads, Writes,
         Forks, KinExits, Exits, ContextEnds, Disconnects, vars, request, caller, Goto
<1> DEFINE I == main = "received" => asked \in Requests
<1>3. Init => I
  BY <1>1
<1>4. I /\ [Next]_vars => I'
  BY <1>2
<1> QED
  BY <1>3, <1>4, PTL DEF Spec

\* Whatever time the harness asks for, to the half second, the command gets it, up to the
\* maximum, and the relay waits for longer (mcp_server.py:145, executor.go:262).
THEOREM DeadlinesFit == Spec => []DeadlineFits
<1>1. (main = "received" => asked \in Requests) => DeadlineFits
  <2> SUFFICES ASSUME main = "received", asked \in Requests, asked.halves > 0,
                      Ceil(asked.halves) * Second < Overflow
               PROVE  DeadlineFits
    BY DEF DeadlineFits
  <2>1. asked.halves \in Int
    BY RequestAssumption
  <2> QED
    BY <2>1, LimitFits DEF DeadlineFits
<1> QED
  BY <1>1, AskedInvariant, PTL

-----------------------------------------------------------------------------
(* The line of the journal                                                 *)

Glyph == Character \cup {Space, Backslash, "n"}
Copy == [line : Seq(Glyph), break : BOOLEAN, space : BOOLEAN]
NoCopy == [line |-> <<>>, break |-> FALSE, space |-> FALSE]

LEMMA Markers == <<>> \in Seq(Glyph) /\ LineBreakMarker \in Seq(Glyph) /\ <<Space>> \in Seq(Glyph)
  BY DEF LineBreakMarker, Glyph

LEMMA GapTyped == \A s \in Copy : Gap(s) \in Seq(Glyph)
  BY Markers DEF Gap

LEMMA CopiesTyped == \A s \in Copy, c \in Character : Copies(s, c) \in Copy
<1> SUFFICES ASSUME NEW s \in Copy, NEW c \in Character PROVE Copies(s, c) \in Copy
  OBVIOUS
<1>1. Append(s.line \o Gap(s), c) \in Seq(Glyph)
  BY GapTyped DEF Copy, Glyph
<1> QED
  BY <1>1 DEF Copies, Copy

\* The states through which SanitizeLogLine goes.
LEMMA CopiedByStep ==
  ASSUME NEW text \in Seq(Character)
  PROVE  \E after \in [0..Len(text) -> Copy] :
           /\ after[0] = NoCopy
           /\ \A i \in 1..Len(text) : after[i] = Copies(after[i - 1], text[i])
           /\ Copied(text) = after[Len(text)].line
<1> DEFINE n == Len(text)
           Rule(g) == [i \in 0..n |-> IF i = 0 THEN NoCopy ELSE Copies(g[i - 1], text[i])]
           after == CHOOSE g : g = Rule(g)
           step == [i \in 1..n |-> [a \in Copy |-> Copies(a, text[i])]]
<1>1. n \in Nat /\ NoCopy \in Copy
  BY DEF NoCopy, Copy
<1>2. \A i \in 1..n : text[i] \in Character
  OBVIOUS
<1>3. Copied(text) = after[n].line
  BY DEF Copied, NoCopy
<1> HIDE DEF n
<1>4. IsStep(step, Copy, n)
  BY <1>2, CopiesTyped DEF IsStep
<1>5. \A i \in 1..n, a \in Copy : step[i][a] = Copies(a, text[i])
  OBVIOUS
<1> HIDE DEF step
<1>6. PICK f : Follows(f, Copy, NoCopy, n, step)
  BY <1>1, <1>4, RecursionExists
<1>7. f \in [0..n -> Copy] /\ f[0] = NoCopy /\ \A i \in 1..n : f[i] = Copies(f[i - 1], text[i])
  <2>1. \A i \in 1..n : i - 1 \in 0..n
    BY <1>1
  <2> QED
    BY <1>5, <1>6, <2>1 DEF Follows
<1>8. f = Rule(f)
  BY <1>1, <1>7
<1>9. after = Rule(after)
  <2> HIDE DEF Rule
  <2> QED
    BY <1>8
<1> HIDE DEF after
<1>10. after[0] = NoCopy /\ \A i \in 1..n : after[i] = Copies(after[i - 1], text[i])
  <2>1. \A i \in 0..n : after[i] = IF i = 0 THEN NoCopy ELSE Copies(after[i - 1], text[i])
    BY <1>9
  <2>2. 0 \in 0..n /\ \A i \in 1..n : i \in 0..n /\ i # 0
    BY <1>1
  <2> QED
    BY <2>1, <2>2
<1> DEFINE S == {k \in Nat : k \in 0..n => after[k] \in Copy}
<1>11. n \in S /\ \A k \in 0..n : k \in S
  <2>1. 0 \in S
    BY <1>1, <1>10
  <2>2. ASSUME NEW k \in Nat, k \in S PROVE k + 1 \in S
    <3> SUFFICES ASSUME k + 1 \in 0..n PROVE after[k + 1] \in Copy
      OBVIOUS
    <3>1. k \in 0..n /\ k + 1 \in 1..n /\ (k + 1) - 1 = k
      BY <1>1
    <3>2. after[k + 1] = Copies(after[k], text[k + 1]) /\ after[k] \in Copy
      BY <1>10, <2>2, <3>1
    <3> QED
      BY <1>2, <3>1, <3>2, CopiesTyped
  <2> HIDE DEF S
  <2> QED
    BY <1>1, <2>1, <2>2, SetInduction
<1>12. after \in [0..n -> Copy]
  BY <1>9, <1>11
<1> QED
  BY <1>3, <1>10, <1>12 DEF n

\* What is hidden just before the place that follows the first i characters.
GapAt(text, i) == {k \in 1..i : \A j \in k..i : text[j] \in Hidden}
SeenAt(text, i) == {text[k] : k \in GapAt(text, i)}
Part(text, i) == IF text[i] \in Hidden THEN <<>> ELSE Append(Before(text, i), text[i])

LEMMA BeforeByGap ==
  ASSUME NEW text, NEW i \in Nat
  PROVE  Before(text, i + 1) =
           IF GapAt(text, i) = 1..i THEN <<>>
           ELSE IF Newline \in SeenAt(text, i) THEN LineBreakMarker
           ELSE IF Space \in SeenAt(text, i) THEN <<Space>> ELSE <<>>
<1>1. (i + 1) - 1 = i
  OBVIOUS
<1> DEFINE gap == GapAt(text, i)
           seen == SeenAt(text, i)
<1>2. Before(text, i + 1) =
        CASE gap = 1..i                     -> <<>>
          [] gap # 1..i /\ Newline \in seen -> LineBreakMarker
          [] OTHER                          -> IF Space \in seen THEN <<Space>> ELSE <<>>
  BY <1>1, Zenon DEF Before, GapAt, SeenAt
<1> HIDE DEF gap, seen
<1> QED
  BY <1>2 DEF gap, seen

LEMMA GapGrows ==
  ASSUME NEW text, NEW i \in Nat
  PROVE  /\ GapAt(text, i + 1) = IF text[i + 1] \in Hidden THEN GapAt(text, i) \cup {i + 1} ELSE {}
         /\ SeenAt(text, i + 1) = IF text[i + 1] \in Hidden THEN SeenAt(text, i) \cup {text[i + 1]} ELSE {}
         /\ GapAt(text, i) \subseteq 1..i
<1>1. i + 1 \in 1..(i + 1) /\ \A k \in 1..(i + 1) : i + 1 \in k..(i + 1)
  OBVIOUS
<1>2. CASE text[i + 1] \in Hidden
  <2>1. \A k \in 1..i : (\A j \in k..(i + 1) : text[j] \in Hidden) <=> (\A j \in k..i : text[j] \in Hidden)
    <3>1. \A k \in 1..i : k..(i + 1) = (k..i) \cup {i + 1}
      OBVIOUS
    <3> QED
      BY <1>2, <3>1
  <2>2. \A j \in (i + 1)..(i + 1) : j = i + 1
    OBVIOUS
  <2>3. 1..(i + 1) = (1..i) \cup {i + 1}
    OBVIOUS
  <2>4. GapAt(text, i + 1) = GapAt(text, i) \cup {i + 1}
    BY <1>2, <2>1, <2>2, <2>3 DEF GapAt
  <2> QED
    BY <1>2, <2>4 DEF SeenAt, GapAt
<1>3. CASE text[i + 1] \notin Hidden
  BY <1>1, <1>3 DEF GapAt, SeenAt
<1> QED
  BY <1>2, <1>3

\* After i characters: what is copied, and what is remembered of the gap.
Copying(text, i, s, f) ==
  /\ s.line = f
  /\ f = <<>> <=> GapAt(text, i) = 1..i
  /\ s.break <=> f # <<>> /\ Newline \in SeenAt(text, i)
  /\ s.space <=> f # <<>> /\ Space \in SeenAt(text, i)

LEMMA CopyingGoesOn ==
  ASSUME NEW text \in Seq(Character), NEW i \in Nat, i + 1 \in 1..Len(text),
         NEW s \in Copy, NEW f \in Seq(Glyph), Copying(text, i, s, f)
  PROVE  /\ Part(text, i + 1) \in Seq(Glyph)
         /\ Copying(text, i + 1, Copies(s, text[i + 1]), f \o Part(text, i + 1))
<1> DEFINE c == text[i + 1]
           gap == GapAt(text, i)
           seen == SeenAt(text, i)
           next == Copies(s, c)
           part == Part(text, i + 1)
<1>1. c \in Character
  OBVIOUS
<1>2. /\ GapAt(text, i + 1) = IF c \in Hidden THEN gap \cup {i + 1} ELSE {}
      /\ SeenAt(text, i + 1) = IF c \in Hidden THEN seen \cup {c} ELSE {}
      /\ gap \subseteq 1..i
  BY GapGrows
<1>3. Before(text, i + 1) = Gap(s)
  BY BeforeByGap DEF Copying, Gap
<1>4. part = IF c \in Hidden THEN <<>> ELSE Append(Gap(s), c)
  BY <1>3 DEF Part
<1>5. /\ s.line = f /\ s.break \in BOOLEAN /\ s.space \in BOOLEAN
      /\ f = <<>> <=> gap = 1..i
      /\ s.break <=> f # <<>> /\ Newline \in seen
      /\ s.space <=> f # <<>> /\ Space \in seen
  BY DEF Copying, Copy
<1>6. s = [line |-> s.line, break |-> s.break, space |-> s.space]
  BY DEF Copy
<1> HIDE DEF c, gap, seen, part
<1>7. CASE c \in Hidden
  <2>1. part = <<>> /\ f \o part = f /\ part \in Seq(Glyph)
    BY <1>4, <1>7
  <2>2. gap \cup {i + 1} = 1..(i + 1) <=> gap = 1..i
    <3>1. 1..(i + 1) = (1..i) \cup {i + 1} /\ i + 1 \notin 1..i
      OBVIOUS
    <3>2. gap \subseteq 1..i
      BY <1>2
    <3> HIDE DEF gap
    <3> QED
      BY <3>1, <3>2
  <2>3. next.line = f
    BY <1>5, <1>6, <1>7 DEF Copies, Hidden
  <2>4. next.break <=> f # <<>> /\ Newline \in seen \cup {c}
    <3>1. CASE c = Newline
      <4>0. next = [s EXCEPT !.break = s.line # <<>>]
        BY <3>1 DEF Copies, Newline, Space, Escape
      <4>1. next.break <=> s.line # <<>>
        BY <4>0 DEF Copy
      <4> QED
        BY <1>5, <3>1, <4>1
    <3>2. CASE c # Newline
      BY <1>5, <1>6, <1>7, <3>2 DEF Copies, Hidden
    <3> QED
      BY <3>1, <3>2
  <2>5. next.space <=> f # <<>> /\ Space \in seen \cup {c}
    <3>1. CASE c = Space
      <4>0. next = [s EXCEPT !.space = s.line # <<>>]
        BY <3>1 DEF Copies, Newline, Space, Escape
      <4>1. next.space <=> s.line # <<>>
        BY <4>0 DEF Copy
      <4> QED
        BY <1>5, <3>1, <4>1
    <3>2. CASE c # Space
      BY <1>5, <1>6, <1>7, <3>2 DEF Copies, Hidden
    <3> QED
      BY <3>1, <3>2
  <2> QED
    BY <1>2, <1>5, <1>7, <2>1, <2>2, <2>3, <2>4, <2>5 DEF Copying, c, part
<1>8. CASE c \notin Hidden
  <2>1. Gap(s) \in Seq(Glyph) /\ c \in Glyph
    BY <1>1, GapTyped DEF Glyph
  <2>2. part = Append(Gap(s), c) /\ part \in Seq(Glyph)
    BY <1>4, <1>8, <2>1
  <2>3. next = [line |-> Append(s.line \o Gap(s), c), break |-> FALSE, space |-> FALSE]
    BY <1>8 DEF Copies, Hidden
  <2>4. Append(s.line \o Gap(s), c) = f \o part
    <3> DEFINE gapped == Gap(s)
    <3>0. gapped \in Seq(Glyph) /\ f \in Seq(Glyph) /\ c \in Glyph
      BY <2>1
    <3> HIDE DEF gapped
    <3>1. f \o Append(gapped, c) = Append(f \o gapped, c)
      BY <3>0, AppendConcat
    <3> QED
      BY <1>5, <2>2, <3>1 DEF gapped
  <2>5. f \o part # <<>>
    BY <2>1, <2>2
  <2>6. GapAt(text, i + 1) = {} /\ SeenAt(text, i + 1) = {} /\ 1..(i + 1) # {}
    <3>1. 1 \in 1..(i + 1)
      OBVIOUS
    <3> QED
      BY <1>2, <1>8, <3>1
  <2>7. next.line = f \o part /\ next.break = FALSE /\ next.space = FALSE
    BY <2>3, <2>4
  <2> QED
    BY <2>2, <2>5, <2>6, <2>7 DEF Copying, c, part
<1> QED
  BY <1>7, <1>8

LEMMA PartTyped ==
  ASSUME NEW text \in Seq(Character), NEW i \in 1..Len(text)
  PROVE  Part(text, i) \in Seq(Glyph)
<1>1. i - 1 \in Nat /\ (i - 1) + 1 = i /\ text[i] \in Glyph
  BY DEF Glyph
<1>2. Before(text, (i - 1) + 1) \in Seq(Glyph)
  BY <1>1, Markers, BeforeByGap
<1>3. Before(text, i) \in Seq(Glyph)
  BY <1>1, <1>2
<1> QED
  BY <1>1, <1>3 DEF Part

LEMMA CopiedIsLegible ==
  ASSUME NEW text \in Seq(Character)
  PROVE  Copied(text) = Legible(text) /\ Legible(text) \in Seq(Glyph)
<1> DEFINE n == Len(text)
           parts == [i \in DOMAIN text |-> Part(text, i)]
<1>1. n \in Nat
  OBVIOUS
<1>2. PICK after \in [0..n -> Copy] : /\ after[0] = NoCopy
                                      /\ \A i \in 1..n : after[i] = Copies(after[i - 1], text[i])
                                      /\ Copied(text) = after[n].line
  BY CopiedByStep
<1>3. /\ parts \in Seq(Seq(Glyph)) /\ Len(parts) = n /\ \A i \in 1..n : parts[i] = Part(text, i)
  BY PartTyped
<1>4. Legible(text) = FlattenSeq(parts)
  BY DEF Legible, Part
<1> HIDE DEF n, parts
<1>5. PICK f : Partial(f, parts, Glyph)
  BY <1>3, PartialExists
<1>6. /\ f \in [0..n -> Seq(Glyph)] /\ f[0] = <<>>
      /\ \A i \in 1..n : f[i] = f[i - 1] \o Part(text, i)
  BY <1>3, <1>5 DEF Partial
<1> DEFINE S == {k \in Nat : k \in 0..n => Copying(text, k, after[k], f[k])}
<1>7. 0 \in S
  <2>1. 1..0 = {} /\ GapAt(text, 0) = {}
    BY DEF GapAt
  <2>2. Copying(text, 0, NoCopy, <<>>)
    BY <2>1 DEF Copying, NoCopy
  <2> QED
    BY <1>2, <1>6, <2>2
<1>8. ASSUME NEW k \in Nat, k \in S PROVE k + 1 \in S
  <2> SUFFICES ASSUME k + 1 \in 0..n PROVE Copying(text, k + 1, after[k + 1], f[k + 1])
    OBVIOUS
  <2>1. k \in 0..n /\ k + 1 \in 1..n /\ (k + 1) - 1 = k
    BY <1>1
  <2>2. after[k + 1] = Copies(after[k], text[k + 1]) /\ f[k + 1] = f[k] \o Part(text, k + 1)
    BY <1>2, <1>6, <2>1
  <2>3. after[k] \in Copy /\ f[k] \in Seq(Glyph) /\ Copying(text, k, after[k], f[k])
    BY <1>2, <1>6, <1>8, <2>1
  <2>4. k + 1 \in 1..Len(text)
    BY <2>1 DEF n
  <2> QED
    BY <2>2, <2>3, <2>4, CopyingGoesOn
<1>9. n \in S
  <2> HIDE DEF S
  <2> QED
    BY <1>1, <1>7, <1>8, SetInduction
<1>10. after[n].line = f[n]
  BY <1>1, <1>9 DEF Copying
<1>11. FlattenSeq(parts) = f[n]
  BY <1>3, <1>5, FlattenByParts
<1>12. f[n] \in Seq(Glyph)
  BY <1>1, <1>6
<1> QED
  BY <1>2, <1>4, <1>10, <1>11, <1>12

\* Whatever a command holds, the journal's line shows its printable characters in order,
\* and marks the line breaks between them (SanitizeLogLine of commanddetail.go).
THEOREM LinesAreFaithful == Spec => []OneFaithfulLine
<1>1. (main = "received" => asked \in Requests) => OneFaithfulLine
  <2> SUFFICES ASSUME main = "received", asked \in Requests PROVE OneFaithfulLine
    BY DEF OneFaithfulLine
  <2> DEFINE legible == Legible(asked.text)
             line == DescribeCommand(asked).line
  <2>1. Copied(asked.text) = legible /\ legible \in Seq(Glyph)
    BY RequestAssumption, CopiedIsLegible
  <2>2. line = IF TruncateRunes(legible, MaxLine) = <<>> /\ asked.tool # "unknown" /\ ~asked.malformed
               THEN <<"(commande vide)">> ELSE TruncateRunes(legible, MaxLine)
    BY <2>1 DEF DescribeCommand, SanitizeLogLine
  <2>3. MaxLine \in Nat \ {0}
    BY CommandAssumption
  <2> HIDE DEF legible, line
  <2>4. CASE legible = <<>>
    <3>1. TruncateRunes(legible, MaxLine) = <<>>
      BY <2>3, <2>4 DEF TruncateRunes
    <3>2. ToSet(line) \cap Hidden = {}
      <4>1. line = <<>> \/ line = <<"(commande vide)">>
        BY <2>2, <3>1
      <4>2. \A i \in DOMAIN line : line[i] = "(commande vide)"
        <5>0. DOMAIN <<>> = {} /\ \A x : DOMAIN <<x>> = {1} /\ <<x>>[1] = x
          OBVIOUS
        <5>1. CASE line = <<>>
          BY <5>0, <5>1
        <5>2. CASE line = <<"(commande vide)">>
          <6>1. DOMAIN line = {1} /\ line[1] = "(commande vide)"
            BY <5>0, <5>2, Zenon
          <6> QED
            BY <6>1
        <5> QED
          BY <4>1, <5>1, <5>2
      <4> QED
        BY <4>2 DEF ToSet, Hidden, Newline, Space, Escape
    <3> QED
      BY <2>4, <3>2 DEF OneFaithfulLine, legible, line
  <2>5. CASE legible # <<>>
    <3>1. TruncateRunes(legible, MaxLine) # <<>>
      <4>1. CASE Len(legible) <= MaxLine
        BY <2>5, <4>1 DEF TruncateRunes
      <4>2. CASE ~(Len(legible) <= MaxLine)
        <5>1. SubSeq(legible, 1, MaxLine) \in Seq(Glyph)
          BY <2>1, <2>3, <4>2
        <5>2. Append(SubSeq(legible, 1, MaxLine), "cut") # <<>>
          BY <5>1, AppendAny DEF IsSequence
        <5> QED
          BY <2>3, <4>2, <5>2 DEF TruncateRunes
      <4> QED
        BY <4>1, <4>2
    <3> QED
      BY <2>2, <2>5, <3>1 DEF OneFaithfulLine, legible, line
  <2> QED
    BY <2>4, <2>5
<1> QED
  BY <1>1, AskedInvariant, PTL

-----------------------------------------------------------------------------
(* What splitArgv makes of a line of quoted arguments                      *)

Scanner == [args : Seq(Seq(Character)), cur : Seq(Character), has : BOOLEAN, mode : Style, skip : BOOLEAN]

LEMMA Marks ==
  /\ Space # Single /\ Space # Double /\ Space # Backslash /\ Single # Double /\ Single # Backslash
  /\ Double # Backslash /\ Bare \notin {Space, Single, Double, Backslash}
  /\ {Space, Single, Double, Backslash} \subseteq Character /\ Bare \notin Character
  BY CommandAssumption DEF Space, Single, Double, Backslash, Bare

LEMMA ReadsTyped ==
  ASSUME NEW text \in Seq(Character), NEW i \in 1..Len(text), NEW s \in Scanner
  PROVE  Reads(text, i, s) \in Scanner
<1> DEFINE c == text[i]
<1>1. c \in Character
  OBVIOUS
<1> HIDE DEF c
<1>2. Take(s, c) \in Scanner
  <2>1. Append(s.cur, c) \in Seq(Character)
    BY <1>1 DEF Scanner
  <2> QED
    BY <2>1 DEF Take, Scanner
<1>3. [s EXCEPT !.skip = TRUE] \in Scanner /\ [s EXCEPT !.mode = Bare] \in Scanner
      /\ \A q \in {Single, Double} : [s EXCEPT !.mode = q, !.has = TRUE] \in Scanner
  BY DEF Scanner, Style
<1>4. Flush(s) \in Scanner
  <2>1. Append(s.args, s.cur) \in Seq(Seq(Character)) /\ <<>> \in Seq(Character)
    BY DEF Scanner
  <2> QED
    BY <2>1 DEF Flush, Scanner
<1>5. Reads(text, i, s) =
        IF s.skip THEN Take(s, c)
        ELSE IF Escapes(text, i, s.mode) THEN [s EXCEPT !.skip = TRUE]
        ELSE CASE s.mode = c                              -> [s EXCEPT !.mode = Bare]
               [] s.mode = Bare /\ c \in {Single, Double} -> [s EXCEPT !.mode = c, !.has = TRUE]
               [] s.mode = Bare /\ c = Space              -> Flush(s)
               [] OTHER                                   -> Take(s, c)
  BY DEF Reads, c
<1> QED
  BY <1>2, <1>3, <1>4, <1>5, Marks

\* The states through which a text leads the scanner.
Run(text, after) ==
  /\ after \in [0..Len(text) -> Scanner] /\ after[0] = AtFirst
  /\ \A i \in 1..Len(text) : after[i] = Reads(text, i, after[i - 1])

LEMMA ScannedByStep ==
  ASSUME NEW text \in Seq(Character)
  PROVE  \E after : Run(text, after) /\ Scan(text) = after[Len(text)]
<1> DEFINE n == Len(text)
           Rule(g) == [i \in 0..n |-> IF i = 0 THEN AtFirst ELSE Reads(text, i, g[i - 1])]
           after == CHOOSE g : g = Rule(g)
           step == [i \in 1..n |-> [a \in Scanner |-> Reads(text, i, a)]]
<1>1. n \in Nat /\ AtFirst \in Scanner
  BY DEF AtFirst, Scanner, Style
<1>2. \A i \in 1..n, a \in Scanner : Reads(text, i, a) \in Scanner
  BY ReadsTyped
<1>3. Scan(text) = after[n]
  BY DEF Scan
<1> HIDE DEF n
<1>4. IsStep(step, Scanner, n)
  BY <1>2 DEF IsStep
<1>5. \A i \in 1..n, a \in Scanner : step[i][a] = Reads(text, i, a)
  OBVIOUS
<1> HIDE DEF step
<1>6. PICK f : Follows(f, Scanner, AtFirst, n, step)
  BY <1>1, <1>4, RecursionExists
<1>7. f \in [0..n -> Scanner] /\ f[0] = AtFirst /\ \A i \in 1..n : f[i] = Reads(text, i, f[i - 1])
  <2>1. \A i \in 1..n : i - 1 \in 0..n
    BY <1>1
  <2> QED
    BY <1>5, <1>6, <2>1 DEF Follows
<1>8. f = Rule(f)
  BY <1>1, <1>7
<1>9. after = Rule(after)
  <2> HIDE DEF Rule
  <2> QED
    BY <1>8
<1> HIDE DEF after
<1>10. after[0] = AtFirst /\ \A i \in 1..n : after[i] = Reads(text, i, after[i - 1])
  <2>1. \A i \in 0..n : after[i] = IF i = 0 THEN AtFirst ELSE Reads(text, i, after[i - 1])
    BY <1>9
  <2>2. 0 \in 0..n /\ \A i \in 1..n : i \in 0..n /\ i # 0
    BY <1>1
  <2> QED
    BY <2>1, <2>2
<1> DEFINE S == {k \in Nat : k \in 0..n => after[k] \in Scanner}
<1>11. \A k \in 0..n : k \in S
  <2>1. 0 \in S
    BY <1>1, <1>10
  <2>2. ASSUME NEW k \in Nat, k \in S PROVE k + 1 \in S
    <3> SUFFICES ASSUME k + 1 \in 0..n PROVE after[k + 1] \in Scanner
      OBVIOUS
    <3>1. k \in 0..n /\ k + 1 \in 1..n /\ (k + 1) - 1 = k
      BY <1>1
    <3>2. after[k + 1] = Reads(text, k + 1, after[k]) /\ after[k] \in Scanner
      BY <1>10, <2>2, <3>1
    <3> QED
      BY <1>2, <3>1, <3>2
  <2> HIDE DEF S
  <2> QED
    BY <1>1, <2>1, <2>2, SetInduction
<1>12. after \in [0..n -> Scanner]
  BY <1>9, <1>11
<1> QED
  BY <1>3, <1>10, <1>12 DEF n, Run

\* q is in the text, after its first o characters.
Occurs(text, o, q) ==
  o \in Nat /\ o + Len(q) <= Len(text) /\ \A i \in 1..Len(q) : text[o + i] = q[i]

Joins(r, p, q) == r = p \o q

LEMMA OccursConcat ==
  ASSUME NEW T, NEW text \in Seq(T), NEW p \in Seq(T), NEW q \in Seq(T), NEW r, Joins(r, p, q),
         NEW o, Occurs(text, o, r)
  PROVE  Occurs(text, o, p) /\ Occurs(text, o + Len(p), q) /\ Len(r) = Len(p) + Len(q)
<1> DEFINE m == Len(p)
           n == Len(q)
<1>0. r = p \o q
  BY DEF Joins
<1>1. m \in Nat /\ n \in Nat /\ Len(r) = m + n /\ Len(text) \in Nat
  BY <1>0
<1>2. \A i \in 1..m : r[i] = p[i]
  BY <1>0
<1>3. \A i \in (m + 1)..(m + n) : r[i] = q[i - m]
  BY <1>0
<1>4. o \in Nat /\ o + Len(r) <= Len(text) /\ \A i \in 1..Len(r) : text[o + i] = r[i]
  BY DEF Occurs
<1> HIDE DEF m, n
<1>5. ASSUME NEW i \in 1..n PROVE text[(o + m) + i] = q[i]
  <2>1. m + i \in (m + 1)..(m + n) /\ m + i \in 1..Len(r) /\ o + (m + i) = (o + m) + i /\ (m + i) - m = i
    BY <1>1, <1>4
  <2> QED
    BY <1>3, <1>4, <2>1
<1>6. \A i \in 1..m : text[o + i] = p[i]
  BY <1>1, <1>2, <1>4
<1> QED
  BY <1>1, <1>4, <1>5, <1>6 DEF Occurs, m, n

\* Where the parts of a concatenation are.
Whole(f, parts, w) == w = f[Len(parts)]
PartsOccur(text, o, f, parts) ==
  \A k \in 1..Len(parts) : /\ Occurs(text, o + Len(f[k - 1]), parts[k])
                           /\ Len(f[k]) = Len(f[k - 1]) + Len(parts[k])

LEMMA OccursParts ==
  ASSUME NEW T, NEW text \in Seq(T), NEW parts \in Seq(Seq(T)), NEW f, Partial(f, parts, T),
         NEW w, Whole(f, parts, w), NEW o, Occurs(text, o, w)
  PROVE  PartsOccur(text, o, f, parts)
<1> DEFINE n == Len(parts)
           S == {j \in Nat : j <= n => Occurs(text, o, f[n - j])}
<1>1. n \in Nat
  OBVIOUS
<1>2. f \in [0..n -> Seq(T)] /\ \A i \in 1..n : f[i] = f[i - 1] \o parts[i] /\ parts[i] \in Seq(T)
  <2>1. \A i \in 1..n : parts[i] \in Seq(T)
    OBVIOUS
  <2>2. f \in [0..n -> Seq(T)] /\ \A i \in 1..n : f[i] = f[i - 1] \o parts[i]
    BY Zenon DEF Partial
  <2> QED
    BY <2>1, <2>2, Zenon
<1>3. \A k \in 1..n : k - 1 \in 0..n /\ f[k - 1] \in Seq(T)
  <2> HIDE DEF n
  <2>1. \A k \in 1..n : k - 1 \in 0..n
    BY <1>1
  <2> QED
    BY <1>2, <2>1
<1>4. \A k \in 1..n : Occurs(text, o, f[k]) =>
        /\ Occurs(text, o, f[k - 1]) /\ Occurs(text, o + Len(f[k - 1]), parts[k])
        /\ Len(f[k]) = Len(f[k - 1]) + Len(parts[k])
  <2> HIDE DEF n
  <2> SUFFICES ASSUME NEW k \in 1..n, Occurs(text, o, f[k])
               PROVE  /\ Occurs(text, o, f[k - 1]) /\ Occurs(text, o + Len(f[k - 1]), parts[k])
                      /\ Len(f[k]) = Len(f[k - 1]) + Len(parts[k])
    OBVIOUS
  <2> DEFINE p == f[k - 1]
             q == parts[k]
             r == f[k]
  <2>1. p \in Seq(T) /\ q \in Seq(T) /\ Joins(r, p, q)
    BY <1>2, <1>3 DEF Joins
  <2>2. Occurs(text, o, r)
    OBVIOUS
  <2> HIDE DEF p, q, r
  <2>3. Occurs(text, o, p) /\ Occurs(text, o + Len(p), q) /\ Len(r) = Len(p) + Len(q)
    BY <2>1, <2>2, OccursConcat
  <2> QED
    BY <2>3 DEF p, q, r
<1>5. 0 \in S
  <2>1. n - 0 = n /\ w = f[n]
    BY <1>1 DEF Whole
  <2> QED
    BY <2>1
<1> HIDE DEF n
<1>6. ASSUME NEW j \in Nat, j \in S PROVE j + 1 \in S
  <2> SUFFICES ASSUME j + 1 <= n PROVE Occurs(text, o, f[n - (j + 1)])
    OBVIOUS
  <2>1. j <= n /\ n - j \in 1..n /\ (n - j) - 1 = n - (j + 1)
    BY <1>1
  <2>2. Occurs(text, o, f[n - j])
    BY <1>6, <2>1
  <2>3. Occurs(text, o, f[(n - j) - 1])
    BY <1>4, <2>1, <2>2
  <2> QED
    BY <2>1, <2>3
<1>7. Nat \subseteq S
  <2> HIDE DEF S
  <2> QED
    BY <1>5, <1>6, SetInduction
<1>8. ASSUME NEW k \in 1..n PROVE Occurs(text, o, f[k])
  <2>1. n - k \in Nat /\ n - k <= n /\ n - (n - k) = k
    BY <1>1
  <2> QED
    BY <1>7, <2>1
<1> QED
  BY <1>4, <1>8 DEF n, PartsOccur

-----------------------------------------------------------------------------
(* One character of a word, in each of the three styles                    *)

Specials(style) == CASE style = Bare   -> {Space, Single, Double, Backslash}
                     [] style = Single -> {}
                     [] style = Double -> {Double, Backslash}
Piece(c, style) == IF c \in Specials(style) THEN <<Backslash, c>> ELSE <<c>>

LEMMA StyleSpecials ==
  /\ Specials(Bare) = {Space, Single, Double, Backslash} /\ Specials(Single) = {}
  /\ Specials(Double) = {Double, Backslash}
  BY Marks DEF Specials

InStyle(s, style) == s.mode = style /\ s.skip = FALSE
Takes(after, o, c, style) == after[o + Len(Piece(c, style))] = Take(after[o], c)

LEMMA PieceIsTaken ==
  ASSUME NEW text \in Seq(Character), NEW after, Run(text, after),
         NEW c \in Character, NEW style \in Style, style = Single => c # Single,
         NEW o, Occurs(text, o, Piece(c, style)), InStyle(after[o], style)
  PROVE  Takes(after, o, c, style)
<1> USE DEF InStyle, Takes
<1> DEFINE s == after[o]
<1>1. Len(text) \in Nat /\ o \in Nat
  BY DEF Occurs
<1>2. CASE c \in Specials(style)
  <2>1. Piece(c, style) = <<Backslash, c>> /\ style # Single
    BY <1>2, StyleSpecials DEF Piece
  <2>2. Len(Piece(c, style)) = 2 /\ Piece(c, style)[1] = Backslash /\ Piece(c, style)[2] = c
    BY <2>1
  <2>3. o + 2 <= Len(text) /\ text[o + 1] = Backslash /\ text[o + 2] = c
    BY <2>2 DEF Occurs
  <2>4. /\ o + 1 \in 1..Len(text) /\ o + 2 \in 1..Len(text) /\ o + 1 < Len(text)
        /\ (o + 1) - 1 = o /\ (o + 2) - 1 = o + 1 /\ (o + 1) + 1 = o + 2
    BY <1>1, <2>3
  <2>5. Escapes(text, o + 1, style)
    BY <1>2, <2>1, <2>3, <2>4, StyleSpecials DEF Escapes, Style
  <2>6. s \in Scanner
    BY <1>1, <2>4 DEF Run
  <2>7. after[o + 1] = [s EXCEPT !.skip = TRUE]
    BY <2>4, <2>5 DEF Run, Reads
  <2>8. after[o + 2] = Take(after[o + 1], c)
    BY <2>3, <2>4, <2>6, <2>7 DEF Run, Reads, Scanner
  <2>9. Take([s EXCEPT !.skip = TRUE], c) = Take(s, c)
    BY <2>6 DEF Take, Scanner
  <2> QED
    BY <2>2, <2>7, <2>8, <2>9
<1>3. CASE c \notin Specials(style)
  <2>1. Piece(c, style) = <<c>>
    BY <1>3 DEF Piece
  <2>2. Len(Piece(c, style)) = 1 /\ Piece(c, style)[1] = c
    BY <2>1
  <2>3. o + 1 \in 1..Len(text) /\ (o + 1) - 1 = o /\ text[o + 1] = c
    BY <1>1, <2>2 DEF Occurs
  <2>4. ~Escapes(text, o + 1, style) /\ c # style /\ ~(style = Bare /\ c \in {Single, Double})
        /\ ~(style = Bare /\ c = Space)
    BY <1>3, <2>3, StyleSpecials, Marks DEF Escapes, Style
  <2>5. after[o + 1] = Reads(text, o + 1, s)
    BY <2>3 DEF Run
  <2>6. Reads(text, o + 1, s) = Take(s, c)
    BY <2>3, <2>4 DEF Reads
  <2> QED
    BY <2>2, <2>5, <2>6
<1> QED
  BY <1>2, <1>3

-----------------------------------------------------------------------------
(* One argument, then all                                                  *)

Pieces(word, style) == [i \in DOMAIN word |-> Piece(word[i], style)]
Body(word, style) == FlattenSeq(Pieces(word, style))

LEMMA PiecesTyped ==
  ASSUME NEW word \in Seq(Character), NEW style \in Style
  PROVE  /\ Pieces(word, style) \in Seq(Seq(Character)) /\ Len(Pieces(word, style)) = Len(word)
         /\ \A i \in 1..Len(word) : Pieces(word, style)[i] = Piece(word[i], style)
         /\ Body(word, style) \in Seq(Character)
<1> DEFINE A == Seq(Character)
           n == Len(word)
           parts == [i \in 1..n |-> Piece(word[i], style)]
<1>1. DOMAIN word = 1..n /\ n \in Nat /\ \A i \in 1..n : word[i] \in Character
  OBVIOUS
<1>2. \A i \in 1..n : Piece(word[i], style) \in A
  BY <1>1, Marks DEF Piece
<1> HIDE DEF A, n
<1>3. parts \in Seq(A) /\ Len(parts) = n /\ \A i \in 1..n : parts[i] = Piece(word[i], style)
  BY <1>1, <1>2
<1>4. Pieces(word, style) = parts
  BY <1>1 DEF Pieces
<1> HIDE DEF parts
<1>5. FlattenSeq(parts) \in Seq(Character)
  BY <1>3, FlattenType DEF A
<1> QED
  BY <1>3, <1>4, <1>5 DEF A, n, Body

\* The first k characters of the word have been taken.
Taken(t, s, word, k) ==
  /\ t \in Scanner /\ t.args = s.args /\ t.mode = s.mode /\ t.skip = FALSE
  /\ t.has <=> s.has \/ k > 0
  /\ t.cur = First(word, k)

LEMMA OneTaken ==
  ASSUME NEW word \in Seq(Character), NEW k \in Nat, k + 1 \in 1..Len(word),
         NEW s, NEW t, Taken(t, s, word, k)
  PROVE  Taken(Take(t, word[k + 1]), s, word, k + 1)
<1> DEFINE c == word[k + 1]
<1>1. c \in Character
  OBVIOUS
<1>2. First(word, k + 1) = Append(First(word, k), c)
  BY FirstGrows
<1> HIDE DEF c
<1>3. t.cur = First(word, k) /\ Append(t.cur, c) \in Seq(Character)
  BY <1>1 DEF Taken, Scanner
<1>4. Take(t, c) = [t EXCEPT !.cur = Append(t.cur, c), !.has = TRUE, !.skip = FALSE]
  BY DEF Take
<1>5. /\ Take(t, c) \in Scanner /\ Take(t, c).args = t.args /\ Take(t, c).mode = t.mode
      /\ Take(t, c).skip = FALSE /\ Take(t, c).has = TRUE /\ Take(t, c).cur = Append(t.cur, c)
  BY <1>3, <1>4 DEF Taken, Scanner
<1>6. k + 1 > 0
  OBVIOUS
<1> HIDE DEF Take
<1> QED
  BY <1>2, <1>3, <1>5, <1>6 DEF Taken, c

Empty(s) == s.cur = <<>>

LEMMA WordIsTaken ==
  ASSUME NEW text \in Seq(Character), NEW after, Run(text, after),
         NEW word \in Seq(Character), NEW style \in Style,
         style = Single => \A i \in 1..Len(word) : word[i] # Single,
         NEW o, Occurs(text, o, Body(word, style)), InStyle(after[o], style), Empty(after[o])
  PROVE  Taken(after[o + Len(Body(word, style))], after[o], word, Len(word))
<1> DEFINE parts == Pieces(word, style)
           n == Len(word)
           s == after[o]
<1>1. /\ parts \in Seq(Seq(Character)) /\ Len(parts) = n /\ n \in Nat
      /\ \A i \in 1..n : parts[i] = Piece(word[i], style) /\ word[i] \in Character
  BY PiecesTyped
<1>2. Body(word, style) = FlattenSeq(parts)
  BY DEF Body
<1>3. o \in Nat /\ s \in Scanner
  <2>1. o \in Nat /\ Len(text) \in Nat /\ o + Len(Body(word, style)) <= Len(text)
    BY DEF Occurs
  <2>2. Len(Body(word, style)) \in Nat
    BY PiecesTyped
  <2> QED
    BY <2>1, <2>2 DEF Run
<1> HIDE DEF parts, n
<1>4. PICK f : Partial(f, parts, Character)
  BY <1>1, PartialExists
<1>5. Body(word, style) = f[n]
  BY <1>1, <1>2, <1>4, FlattenByParts
<1>6. \A k \in 1..n : /\ Occurs(text, o + Len(f[k - 1]), parts[k])
                      /\ Len(f[k]) = Len(f[k - 1]) + Len(parts[k])
  <2> DEFINE w == Body(word, style)
  <2>1. Whole(f, parts, w) /\ Occurs(text, o, w)
    BY <1>1, <1>5 DEF Whole
  <2>2. parts \in Seq(Seq(Character))
    BY <1>1
  <2> HIDE DEF w
  <2>3. PartsOccur(text, o, f, parts)
    BY <1>4, <2>1, <2>2, OccursParts
  <2> QED
    BY <1>1, <2>3 DEF PartsOccur
<1>7. f[0] = <<>> /\ \A k \in 0..n : Len(f[k]) \in Nat
  BY <1>1, <1>4 DEF Partial
<1> DEFINE S == {k \in Nat : k \in 0..n => Taken(after[o + Len(f[k])], s, word, k)}
<1>8. 0 \in S
  <2>1. o + Len(f[0]) = o
    BY <1>3, <1>7
  <2>2. Taken(s, s, word, 0)
    BY <1>3, FirstWhole DEF Taken, InStyle, Empty
  <2> QED
    BY <2>1, <2>2
<1>9. ASSUME NEW k \in Nat, k \in S PROVE k + 1 \in S
  <2> SUFFICES ASSUME k + 1 \in 0..n PROVE Taken(after[o + Len(f[k + 1])], s, word, k + 1)
    OBVIOUS
  <2> DEFINE c == word[k + 1]
             p == o + Len(f[k])
  <2>1. k \in 0..n /\ k + 1 \in 1..n /\ (k + 1) - 1 = k /\ k + 1 \in 1..Len(word)
    BY <1>1 DEF n
  <2>2. Taken(after[p], s, word, k)
    BY <1>9, <2>1
  <2>3. /\ Occurs(text, p, Piece(c, style)) /\ c \in Character
        /\ Len(f[k + 1]) = Len(f[k]) + Len(Piece(c, style))
    BY <1>1, <1>6, <2>1
  <2>4. style = Single => c # Single
    BY <2>1
  <2>5. InStyle(after[p], style)
    BY <2>2 DEF Taken, InStyle
  <2>6. o + Len(f[k + 1]) = p + Len(Piece(c, style))
    <3> DEFINE x == Len(f[k])
               y == Len(Piece(c, style))
    <3>1. x \in Nat /\ y \in Nat
      BY <1>7, <2>1 DEF Piece
    <3>2. Len(f[k + 1]) = x + y
      BY <2>3
    <3> HIDE DEF x, y
    <3>3. o + Len(f[k + 1]) = (o + x) + y
      BY <1>3, <3>1, <3>2
    <3> QED
      BY <3>3 DEF x, y
  <2> HIDE DEF c, p
  <2>7. Takes(after, p, c, style)
    BY <2>3, <2>4, <2>5, PieceIsTaken
  <2>8. Taken(Take(after[p], c), s, word, k + 1)
    BY <2>1, <2>2, OneTaken DEF c
  <2>9. after[p + Len(Piece(c, style))] = Take(after[p], c)
    BY <2>7 DEF Takes
  <2> QED
    BY <2>6, <2>8, <2>9
<1>10. n \in S
  <2> HIDE DEF S
  <2> QED
    BY <1>1, <1>8, <1>9, SetInduction
<1> QED
  BY <1>1, <1>5, <1>10 DEF n

\* Between arguments, and after one.
Between(s, args) == s = [args |-> args, cur |-> <<>>, has |-> FALSE, mode |-> Bare, skip |-> FALSE]
Ended(s, args, word) == s = [args |-> args, cur |-> word, has |-> TRUE, mode |-> Bare, skip |-> FALSE]

LEMMA TakenIs ==
  ASSUME NEW word \in Seq(Character), NEW s, NEW t, Taken(t, s, word, Len(word))
  PROVE  t = [args |-> s.args, cur |-> word, has |-> (s.has \/ word # <<>>), mode |-> s.mode, skip |-> FALSE]
<1>1. First(word, Len(word)) = word /\ (Len(word) > 0 <=> word # <<>>)
  BY FirstWhole
<1>2. t = [args |-> t.args, cur |-> t.cur, has |-> t.has, mode |-> t.mode, skip |-> t.skip]
  BY DEF Taken, Scanner
<1>3. t.has = (s.has \/ word # <<>>)
  <2>1. t.has \in BOOLEAN /\ (t.has <=> (s.has \/ word # <<>>))
    BY <1>1 DEF Taken, Scanner
  <2> QED
    BY <2>1
<1> QED
  BY <1>1, <1>2, <1>3 DEF Taken

LEMMA QuoteBodies ==
  ASSUME NEW word \in Seq(Character)
  PROVE  /\ Quote(word, Bare) = Body(word, Bare)
         /\ Quote(word, Single) = <<Single>> \o Body(word, Single) \o <<Single>>
         /\ Quote(word, Double) = <<Double>> \o Body(word, Double) \o <<Double>>
<1>1. Each(word, Specials(Bare)) = Body(word, Bare) /\ Each(word, Specials(Double)) = Body(word, Double)
  BY DEF Each, Body, Pieces, Piece
<1>2. Body(word, Single) = word
  <2>1. Pieces(word, Single) = [i \in DOMAIN word |-> <<word[i]>>]
    BY StyleSpecials DEF Pieces, Piece
  <2> QED
    BY <2>1, FlattenSingles DEF Body
<1>3. /\ Quote(word, Bare) = Each(word, Specials(Bare))
      /\ Quote(word, Single) = <<Single>> \o word \o <<Single>>
      /\ Quote(word, Double) = <<Double>> \o Each(word, Specials(Double)) \o <<Double>>
  BY StyleSpecials, Marks DEF Quote
<1> QED
  BY <1>1, <1>2, <1>3

LEMMA QuoteIsRead ==
  ASSUME NEW text \in Seq(Character), NEW after, Run(text, after),
         NEW word \in Seq(Character), NEW style \in Style, Quotable(word, style),
         NEW o, Occurs(text, o, Quote(word, style)), NEW args, Between(after[o], args)
  PROVE  Ended(after[o + Len(Quote(word, style))], args, word)
<1> DEFINE body == Body(word, style)
           s == after[o]
<1>1. Len(text) \in Nat /\ o \in Nat /\ body \in Seq(Character)
  BY PiecesTyped DEF Occurs
<1>2. s.args = args /\ s.cur = <<>> /\ s.has = FALSE /\ s.mode = Bare /\ s.skip = FALSE
  BY DEF Between
<1>3. style = Single => \A i \in 1..Len(word) : word[i] # Single
  BY Marks DEF Quotable, ToSet
<1>4. style = Bare => word # <<>>
  BY Marks DEF Quotable
<1> HIDE DEF body
<1>5. CASE style = Bare
  <2>1. Quote(word, style) = body
    BY <1>5, QuoteBodies DEF body
  <2>2. Taken(after[o + Len(body)], s, word, Len(word))
    BY <1>2, <1>3, <1>5, <2>1, WordIsTaken DEF body, InStyle, Empty
  <2>3. after[o + Len(body)] =
          [args |-> args, cur |-> word, has |-> TRUE, mode |-> Bare, skip |-> FALSE]
    BY <1>2, <1>4, <1>5, <2>2, TakenIs
  <2> QED
    BY <2>1, <2>3 DEF Ended
<1>6. CASE style # Bare
  <2> DEFINE m == Len(body)
  <2>1. style \in {Single, Double} /\ style \in Character /\ style # Bare /\ style # Backslash
    BY <1>6, Marks DEF Style
  <2>2. Quote(word, style) = <<style>> \o body \o <<style>>
    BY <1>6, <2>1, QuoteBodies DEF body
  <2>3. /\ Occurs(text, o, <<style>>) /\ Occurs(text, o + 1, body) /\ Occurs(text, o + 1 + m, <<style>>)
        /\ Len(Quote(word, style)) = 1 + m + 1
    <3> DEFINE mark == <<style>>
               head == mark \o body
               w == Quote(word, style)
    <3>1. mark \in Seq(Character) /\ head \in Seq(Character) /\ Len(mark) = 1
      BY <1>1, <2>1
    <3>2. Joins(w, head, mark) /\ Joins(head, mark, body) /\ Occurs(text, o, w)
      BY <2>2 DEF Joins
    <3> HIDE DEF mark, head, w
    <3>0. Occurs(text, o, head) /\ Occurs(text, o + Len(head), mark) /\ Len(w) = Len(head) + Len(mark)
      <4>1. Joins(w, head, mark) /\ Occurs(text, o, w)
        BY <3>2
      <4>2. mark \in Seq(Character) /\ head \in Seq(Character)
        BY <3>1
      <4> QED
        BY <4>1, <4>2, OccursConcat
    <3>3. Occurs(text, o, head) /\ Occurs(text, o + Len(head), mark) /\ Len(w) = Len(head) + 1
      BY <3>0, <3>1
    <3>4. Occurs(text, o, mark) /\ Occurs(text, o + 1, body) /\ Len(head) = 1 + m
      BY <1>1, <3>1, <3>2, <3>3, OccursConcat
    <3>5. o + (1 + m) = o + 1 + m
      BY <1>1
    <3> QED
      BY <3>3, <3>4, <3>5 DEF mark, w
  <2>4. m \in Nat
    BY <1>1
  <2> HIDE DEF m
  <2>5. \A p : Occurs(text, p, <<style>>) => p \in Nat /\ p + 1 \in 1..Len(text) /\ text[p + 1] = style
    <3>1. Len(<<style>>) = 1 /\ <<style>>[1] = style
      OBVIOUS
    <3> QED
      BY <1>1, <3>1 DEF Occurs
  <2>6. \A p : Occurs(text, p, <<style>>) => after[p + 1] = Reads(text, p + 1, after[p])
    <3>1. \A p \in Nat : (p + 1) - 1 = p
      OBVIOUS
    <3> QED
      BY <2>5, <3>1 DEF Run
  <2>7. after[o + 1] = [s EXCEPT !.mode = style, !.has = TRUE]
    <3>1. text[o + 1] = style /\ ~Escapes(text, o + 1, Bare)
      BY <2>1, <2>3, <2>5 DEF Escapes
    <3>2. after[o + 1] = Reads(text, o + 1, s)
      BY <2>3, <2>6
    <3> QED
      BY <1>2, <2>1, <3>1, <3>2, Marks DEF Reads
  <2>8. /\ after[o + 1].args = args /\ after[o + 1].cur = <<>> /\ after[o + 1].has = TRUE
        /\ after[o + 1].mode = style /\ after[o + 1].skip = FALSE
    <3>1. o \in 0..Len(text)
      BY <1>1, <2>3, <2>5
    <3>2. s \in Scanner
      BY <3>1 DEF Run
    <3> QED
      BY <1>2, <2>7, <3>2 DEF Scanner
  <2> DEFINE p == o + 1
             t == after[p]
  <2>9. p \in Nat /\ Occurs(text, p, body) /\ Occurs(text, p + m, <<style>>)
    BY <1>1, <2>3
  <2>10. t.args = args /\ t.cur = <<>> /\ t.has = TRUE /\ t.mode = style /\ t.skip = FALSE
    BY <2>8
  <2> HIDE DEF p, t
  <2>11. after[p + m] = [args |-> args, cur |-> word, has |-> TRUE, mode |-> style, skip |-> FALSE]
    <3>1. Taken(after[p + m], t, word, Len(word))
      BY <1>3, <2>9, <2>10, WordIsTaken DEF body, m, t, InStyle, Empty
    <3>2. after[p + m] = [args |-> t.args, cur |-> word, has |-> (t.has \/ word # <<>>),
                          mode |-> t.mode, skip |-> FALSE]
      BY <3>1, TakenIs
    <3> QED
      BY <2>10, <3>2
  <2>12. after[p + m + 1] = [args |-> args, cur |-> word, has |-> TRUE, mode |-> Bare, skip |-> FALSE]
    <3> DEFINE u == after[p + m]
    <3>1. text[p + m + 1] = style /\ ~Escapes(text, p + m + 1, style)
      BY <2>1, <2>5, <2>9 DEF Escapes
    <3>2. after[p + m + 1] = Reads(text, p + m + 1, u)
      BY <2>6, <2>9
    <3>3. u.mode = style /\ u.skip = FALSE
      BY <2>11
    <3> HIDE DEF u
    <3>4. Reads(text, p + m + 1, u) = [u EXCEPT !.mode = Bare]
      BY <2>1, <3>1, <3>3 DEF Reads
    <3>5. u \in Scanner
      BY <1>1, <2>4, <2>5, <2>9 DEF Run, u
    <3>6. [u EXCEPT !.mode = Bare] =
            [args |-> u.args, cur |-> u.cur, has |-> u.has, mode |-> Bare, skip |-> u.skip]
      <4>1. u = [args |-> u.args, cur |-> u.cur, has |-> u.has, mode |-> u.mode, skip |-> u.skip]
        BY <3>5 DEF Scanner
      <4> QED
        BY <4>1
    <3>7. u.args = args /\ u.cur = word /\ u.has = TRUE /\ u.skip = FALSE
      BY <2>11 DEF u
    <3> QED
      BY <3>2, <3>4, <3>6, <3>7
  <2>13. o + (1 + m + 1) = p + m + 1
    BY <1>1, <2>4 DEF p
  <2> QED
    BY <2>3, <2>12, <2>13 DEF Ended
<1> QED
  BY <1>5, <1>6

LEMMA SpaceIsRead ==
  ASSUME NEW text \in Seq(Character), NEW after, Run(text, after), NEW o, Occurs(text, o, <<Space>>),
         NEW args \in Seq(Seq(Character)), NEW word \in Seq(Character), Ended(after[o], args, word)
  PROVE  Between(after[o + 1], Append(args, word))
<1> DEFINE s == after[o]
<1>1. o + 1 \in 1..Len(text) /\ (o + 1) - 1 = o /\ text[o + 1] = Space
  <2>1. Len(<<Space>>) = 1 /\ <<Space>>[1] = Space
    OBVIOUS
  <2> QED
    BY <2>1 DEF Occurs
<1>2. after[o + 1] = Reads(text, o + 1, s)
  BY <1>1 DEF Run
<1>3. s.args = args /\ s.cur = word /\ s.has = TRUE /\ s.mode = Bare /\ s.skip = FALSE
  BY DEF Ended
<1>4. s = [args |-> args, cur |-> word, has |-> TRUE, mode |-> Bare, skip |-> FALSE]
  BY DEF Ended
<1> HIDE DEF s
<1>5. Reads(text, o + 1, s) = Flush(s)
  BY <1>1, <1>3, Marks DEF Reads, Escapes
<1>6. Flush(s) = [s EXCEPT !.args = Append(@, s.cur), !.cur = <<>>, !.has = FALSE]
  BY <1>3 DEF Flush
<1> DEFINE more == Append(args, word)
<1>7. [s EXCEPT !.args = Append(@, s.cur), !.cur = <<>>, !.has = FALSE] =
        [s EXCEPT !.args = more, !.cur = <<>>, !.has = FALSE]
  BY <1>3
<1>8. s \in Scanner /\ more \in Seq(Seq(Character)) /\ <<>> \in Seq(Character)
  <2>1. o \in 0..Len(text)
    BY <1>1 DEF Occurs
  <2>2. s \in Scanner
    BY <2>1 DEF Run, s
  <2> QED
    BY <2>2
<1> HIDE DEF more
<1> DEFINE r == [s EXCEPT !.args = more, !.cur = <<>>, !.has = FALSE]
<1>9. /\ r \in Scanner /\ r.args = more /\ r.cur = <<>> /\ r.has = FALSE
      /\ r.mode = Bare /\ r.skip = FALSE
  BY <1>3, <1>8 DEF Scanner
<1> HIDE DEF r
<1>10. r = [args |-> r.args, cur |-> r.cur, has |-> r.has, mode |-> r.mode, skip |-> r.skip]
  BY <1>9 DEF Scanner
<1>11. r = [args |-> more, cur |-> <<>>, has |-> FALSE, mode |-> Bare, skip |-> FALSE]
  BY <1>9, <1>10
<1> QED
  BY <1>2, <1>5, <1>6, <1>7, <1>11 DEF Between, more, r

\* The arguments of a line, each with the space before it.
Parts(words, styles) ==
  [i \in DOMAIN words |-> IF i = 1 THEN Quote(words[i], styles[i])
                                   ELSE <<Space>> \o Quote(words[i], styles[i])]

LEMMA QuoteTyped ==
  ASSUME NEW word \in Seq(Character), NEW style \in Style
  PROVE  Quote(word, style) \in Seq(Character)
<1> DEFINE body == Body(word, style)
<1>1. body \in Seq(Character) /\ <<Single>> \in Seq(Character) /\ <<Double>> \in Seq(Character)
  BY PiecesTyped, Marks
<1>2. \/ Quote(word, style) = body
      \/ Quote(word, style) = <<Single>> \o body \o <<Single>>
      \/ Quote(word, style) = <<Double>> \o body \o <<Double>>
  BY QuoteBodies DEF Style
<1> HIDE DEF body
<1>3. \A p, q \in Seq(Character) : p \o q \in Seq(Character)
  OBVIOUS
<1>4. <<Single>> \o body \o <<Single>> \in Seq(Character) /\ <<Double>> \o body \o <<Double>> \in Seq(Character)
  BY <1>1, <1>3, Zenon
<1> QED
  BY <1>1, <1>2, <1>4, Zenon

PartsOf(parts, words, styles) ==
  /\ parts \in Seq(Seq(Character)) /\ Len(parts) = Len(words)
  /\ Len(words) > 0 => parts[1] = Quote(words[1], styles[1])
  /\ \A i \in 2..Len(words) : Joins(parts[i], <<Space>>, Quote(words[i], styles[i]))

LEMMA PartsTyped ==
  ASSUME NEW words \in Seq(Seq(Character)), NEW styles \in [DOMAIN words -> Style]
  PROVE  PartsOf(Parts(words, styles), words, styles)
<1> DEFINE n == Len(words)
           A == Seq(Character)
           quote(i) == Quote(words[i], styles[i])
           part(i) == IF i = 1 THEN quote(i) ELSE <<Space>> \o quote(i)
<1>1. n \in Nat /\ DOMAIN words = 1..n /\ \A i \in 1..n : words[i] \in A /\ styles[i] \in Style
  OBVIOUS
<1>2. \A i \in 1..n : quote(i) \in A
  BY <1>1, QuoteTyped
<1> HIDE DEF quote
<1>3. \A i \in 1..n : part(i) \in A
  BY <1>2, Marks
<1> DEFINE parts == [i \in 1..n |-> part(i)]
<1>4. Parts(words, styles) = parts
  BY <1>1 DEF Parts, quote
<1> HIDE DEF part, A, n
<1>5. parts \in Seq(A) /\ Len(parts) = n /\ \A i \in 1..n : parts[i] = part(i)
  BY <1>1, <1>3
<1> HIDE DEF parts
<1>6. n > 0 => parts[1] = quote(1)
  BY <1>1, <1>5 DEF part
<1>7. ASSUME NEW i \in 2..n PROVE Joins(parts[i], <<Space>>, quote(i))
  <2>1. i \in 1..n /\ i # 1
    BY <1>1
  <2>2. parts[i] = <<Space>> \o quote(i)
    BY <1>5, <2>1 DEF part
  <2> QED
    BY <2>2 DEF Joins
<1> QED
  BY <1>4, <1>5, <1>6, <1>7 DEF quote, n, A, PartsOf

LEMMA LineIsRead ==
  ASSUME NEW words \in Seq(Seq(Character)), words # <<>>, NEW styles \in [DOMAIN words -> Style],
         \A i \in DOMAIN words : Quotable(words[i], styles[i]),
         NEW text \in Seq(Character), text = QuoteAll(words, styles), NEW after, Run(text, after)
  PROVE  Ended(after[Len(text)], First(words, Len(words) - 1), words[Len(words)])
<1> DEFINE parts == Parts(words, styles)
           n == Len(words)
           quote(i) == Quote(words[i], styles[i])
<1>1. /\ n \in Nat \ {0} /\ DOMAIN words = 1..n
      /\ \A i \in 1..n : words[i] \in Seq(Character) /\ styles[i] \in Style /\ Quotable(words[i], styles[i])
  OBVIOUS
<1>2. /\ parts \in Seq(Seq(Character)) /\ Len(parts) = n /\ parts[1] = quote(1)
      /\ \A i \in 2..n : Joins(parts[i], <<Space>>, quote(i))
  <2>1. PartsOf(parts, words, styles)
    BY PartsTyped
  <2> HIDE DEF parts
  <2>2. parts \in Seq(Seq(Character)) /\ Len(parts) = n
    BY <2>1 DEF PartsOf
  <2>3. n > 0
    BY <1>1
  <2>5. \A i \in 2..n : Joins(parts[i], <<Space>>, quote(i))
    BY <2>1, Zenon DEF PartsOf
  <2>4. parts[1] = quote(1)
    BY <2>1, <2>3, Zenon DEF PartsOf
  <2> QED
    BY <2>2, <2>4, <2>5, Zenon
<1>3. text = FlattenSeq(parts)
  BY DEF QuoteAll, Parts
<1>4. \A i \in 1..n : quote(i) \in Seq(Character)
  BY <1>1, QuoteTyped
<1> HIDE DEF parts, n, quote
<1>5. PICK f : Partial(f, parts, Character)
  BY <1>2, PartialExists
<1>6. Whole(f, parts, text)
  BY <1>2, <1>3, <1>5, FlattenByParts DEF Whole
<1>7. PartsOccur(text, 0, f, parts)
  <2>1. Occurs(text, 0, text)
    BY DEF Occurs
  <2> QED
    BY <1>2, <1>5, <1>6, <2>1, OccursParts
<1>8. \A k \in 1..n : Occurs(text, 0 + Len(f[k - 1]), parts[k]) /\ Len(f[k]) = Len(f[k - 1]) + Len(parts[k])
  BY <1>2, <1>7 DEF PartsOccur
<1>9. f[0] = <<>> /\ \A k \in 0..n : Len(f[k]) \in Nat
  BY <1>2, <1>5 DEF Partial
<1> DEFINE S == {k \in Nat : k + 1 \in 1..n => Ended(after[Len(f[k + 1])], First(words, k), words[k + 1])}
<1>10. 0 \in S
  <2> DEFINE w == words[1]
             style == styles[1]
  <2>1. w \in Seq(Character) /\ style \in Style /\ Quotable(w, style) /\ 1 \in 1..n
    BY <1>1
  <2>2. 0 + Len(f[0]) = 0 /\ Len(f[0]) = 0
    BY <1>9
  <2>3. Occurs(text, 0, Quote(w, style)) /\ Len(f[1]) = 0 + Len(Quote(w, style))
    BY <1>2, <1>8, <2>1, <2>2 DEF quote
  <2>4. Between(after[0], <<>>)
    BY DEF Run, AtFirst, Between
  <2> DEFINE none == <<>>
  <2>5. First(words, 0) = none
    BY FirstWhole
  <2> HIDE DEF w, style, none
  <2>6. Ended(after[0 + Len(Quote(w, style))], none, w)
    BY <2>1, <2>3, <2>4, QuoteIsRead DEF none
  <2>7. Ended(after[Len(f[0 + 1])], First(words, 0), words[0 + 1])
    BY <2>3, <2>5, <2>6 DEF w
  <2> QED
    BY <2>7
<1>11. ASSUME NEW k \in Nat, k \in S PROVE k + 1 \in S
  <2> SUFFICES ASSUME (k + 1) + 1 \in 1..n
               PROVE  Ended(after[Len(f[(k + 1) + 1])], First(words, k + 1), words[(k + 1) + 1])
    OBVIOUS
  <2> DEFINE j == k + 1
             o == Len(f[j])
             w == words[j + 1]
             style == styles[j + 1]
             q == Quote(w, style)
             args == First(words, k)
             more == First(words, j)
             part == parts[j + 1]
             mark == <<Space>>
  <2>1. /\ j \in 1..n /\ j + 1 \in 2..n /\ j + 1 \in 1..n /\ (j + 1) - 1 = j /\ j \in 0..n /\ k \in 0..n
        /\ k + 1 \in 1..Len(words)
    BY <1>1 DEF n
  <2>2. Ended(after[o], args, words[j])
    BY <1>11, <2>1
  <2>3. w \in Seq(Character) /\ style \in Style /\ Quotable(w, style) /\ words[j] \in Seq(Character)
    BY <1>1, <2>1
  <2>4. Occurs(text, 0 + o, part) /\ Len(f[j + 1]) = o + Len(part) /\ o \in Nat
    BY <1>8, <1>9, <2>1
  <2>5. Joins(part, mark, q)
    BY <1>2, <2>1 DEF quote
  <2>6. mark \in Seq(Character) /\ Len(mark) = 1 /\ q \in Seq(Character) /\ Len(q) \in Nat
    BY <1>4, <2>1, Marks DEF quote
  <2>7. args \in Seq(Seq(Character)) /\ more = Append(args, words[j])
    BY <2>1, FirstProperties, FirstGrows DEF n
  <2>8. 0 + o = o
    BY <2>4
  <2> DEFINE p == o + 1
             e == Append(args, words[j])
  <2> HIDE DEF j, o, w, style, part, mark, args, more, q
  <2>9. Occurs(text, o, mark) /\ Occurs(text, o + Len(mark), q) /\ Len(part) = Len(mark) + Len(q)
    <3>1. Occurs(text, o, part)
      BY <2>4, <2>8
    <3>2. mark \in Seq(Character) /\ q \in Seq(Character)
      BY <2>6
    <3> QED
      BY <2>5, <3>1, <3>2, OccursConcat
  <2>10. Occurs(text, o, <<Space>>) /\ Occurs(text, p, q) /\ Len(f[j + 1]) = p + Len(q)
    BY <2>4, <2>6, <2>9 DEF mark
  <2>11. Between(after[p], e)
    BY <2>2, <2>3, <2>7, <2>10, SpaceIsRead
  <2> HIDE DEF p, e
  <2>12. Ended(after[p + Len(q)], e, w)
    BY <2>3, <2>10, <2>11, QuoteIsRead DEF q
  <2>13. Ended(after[Len(f[j + 1])], more, w)
    BY <2>7, <2>10, <2>12 DEF e
  <2> QED
    BY <2>13 DEF j, more, w
<1>12. n - 1 \in S
  <2> HIDE DEF S
  <2>1. Nat \subseteq S
    BY <1>10, <1>11, SetInduction
  <2> QED
    BY <1>1, <2>1
<1>13. n - 1 \in Nat /\ (n - 1) + 1 = n /\ n \in 1..n
  BY <1>1
<1>14. Ended(after[Len(f[n])], First(words, n - 1), words[n])
  BY <1>12, <1>13
<1>15. text = f[n]
  BY <1>2, <1>6 DEF Whole
<1> QED
  BY <1>14, <1>15 DEF n

\* What a caller quotes, splitArgv reads back.
LEMMA QuotedIsRead ==
  ASSUME NEW text \in Seq(Character), NEW words, words # <<>>, NEW styles, Quotes(text, words, styles)
  PROVE  SplitArgv(text) = words
<1> DEFINE n == Len(words)
           args == First(words, n - 1)
           w == words[n]
<1>1. words \in Seq(Seq(Character)) /\ styles \in [DOMAIN words -> Style]
      /\ (\A i \in DOMAIN words : Quotable(words[i], styles[i])) /\ text = QuoteAll(words, styles)
  BY DEF Quotes
<1>2. PICK after : Run(text, after) /\ Scan(text) = after[Len(text)]
  BY ScannedByStep
<1> DEFINE s == Scan(text)
<1>3. Ended(s, args, w)
  BY <1>1, <1>2, LineIsRead
<1>4. /\ n - 1 \in Nat /\ (n - 1) + 1 = n /\ (n - 1) + 1 \in 1..Len(words) /\ n - 1 \in 0..Len(words)
  BY <1>1
<1>5. First(words, n) = words /\ First(words, (n - 1) + 1) = Append(args, words[(n - 1) + 1])
  BY <1>1, <1>4, FirstWhole, FirstGrows
<1>6. SplitArgv(text) = IF s.mode # Bare THEN Refused ELSE Flush(s).args
  BY DEF SplitArgv
<1>7. s.mode = Bare /\ s.has = TRUE /\ s.args = args /\ s.cur = w /\ "args" \in DOMAIN s
      /\ s = [args |-> args, cur |-> w, has |-> TRUE, mode |-> Bare, skip |-> FALSE]
  BY <1>3 DEF Ended
<1> HIDE DEF s, args, w, n
<1>8. Flush(s).args = Append(args, w)
  BY <1>7 DEF Flush
<1> QED
  BY <1>4, <1>5, <1>6, <1>7, <1>8 DEF w

\* From the request to the start of its program, the arguments are splitArgv's.
ArgvInv ==
  /\ main = "received" => asked \in Requests
  /\ main = "starting" /\ asked.tool = "run_command" => asked \in Requests /\ argv = SplitArgv(asked.text)

LEMMA ArgvInvariant == Spec => []ArgvInv
<1>1. Init => ArgvInv
  BY DEF Init, ArgvInv
<1>2. ArgvInv /\ [Next]_vars => ArgvInv'
  <2> SUFFICES ASSUME ArgvInv, [Next]_vars PROVE ArgvInv'
    OBVIOUS
  <2>1. \/ main' \notin {"received", "starting"} \/ UNCHANGED <<main, asked, argv>>
        \/ \E installed : Receive(installed)
    BY DEF Next, Client, Machine, Start, StartFails, SelectExit, SelectDone, KillProcessTree,
           Awaited, Report, WatcherKills, WaitReaps, WaitCloses, PumpSends, PumpEnds, PumpReads, Writes,
           Forks, KinExits, Exits, ContextEnds, Disconnects, vars, request, caller, Goto
  <2>2. CASE main' \notin {"received", "starting"} \/ UNCHANGED <<main, asked, argv>>
    BY <2>2 DEF ArgvInv
  <2>3. ASSUME NEW installed, Receive(installed) PROVE ArgvInv'
    <3>1. main = "received" /\ main' \in {"over", "starting"} /\ asked \in Requests
      BY <2>3 DEF Receive, ArgvInv
    <3>2. CASE Argv(asked, installed) = Refused
      BY <2>3, <3>2 DEF Receive, ArgvInv
    <3>3. CASE Argv(asked, installed) # Refused
      <4>1. argv' = Argv(asked, installed) /\ asked' = asked /\ main' = "starting"
        BY <2>3, <3>3 DEF Receive
      <4>2. asked.tool = "run_command" => Argv(asked, installed) = SplitArgv(asked.text)
        BY <3>3 DEF Argv
      <4> QED
        BY <3>1, <4>1, <4>2 DEF ArgvInv
    <3> QED
      BY <3>2, <3>3
  <2> QED
    BY <2>1, <2>2, <2>3
<1> QED
  BY <1>1, <1>2, PTL DEF Spec

\* Whatever words a caller quotes, in whichever of the three styles for each, the program
\* is started with exactly those words (executor.go:95-97, splitArgv).
THEOREM ArgumentsArrive == Spec => []ArgumentsSurvive
<1>1. ArgvInv => ArgumentsSurvive
  <2> SUFFICES ASSUME main = "starting", asked.tool = "run_command", asked.meant # Refused, ArgvInv
               PROVE  argv = asked.meant
    BY DEF ArgumentsSurvive
  <2> DEFINE words == asked.meant
             text == asked.text
             styles == asked.styles
  <2>1. text \in Seq(Character) /\ words # <<>> /\ Quotes(text, words, styles) /\ argv = SplitArgv(text)
    BY RequestAssumption DEF ArgvInv, Refused
  <2> HIDE DEF words, text, styles
  <2>2. SplitArgv(text) = words
    BY <2>1, QuotedIsRead
  <2> QED
    BY <2>1, <2>2 DEF words
<1> QED
  BY <1>1, ArgvInvariant, PTL
=============================================================================
